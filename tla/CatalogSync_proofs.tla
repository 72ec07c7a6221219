------------------------- MODULE CatalogSync_proofs -------------------------
(***************************************************************************)
(* Proofs about CatalogSync, for any catalogs, numbers of edits and of      *)
(* instances: a revision keeps what it says, so an instance is provisioned  *)
(* with the models of its policy, whatever the catalog file has become.     *)
(*                                                                         *)
(* The argument is about rows alone.  A synchronisation ages the rows there *)
(* are, which changes their state only, and adds rows whose revision is     *)
(* above all others of their slug; so no revision comes to stand for        *)
(* another content, and a policy goes on finding its models.  That a row is *)
(* published only while it is the latest of its slug makes the published    *)
(* rows those of the document that was synchronised last.                   *)
(***************************************************************************)
EXTENDS CatalogSync, FiniteSetTheorems, TLAPS

Positive(rows) == \A r \in rows : r.rev \in Nat \ {0}
Unique(rows) == \A m, n \in rows : m.slug = n.slug /\ m.rev = n.rev => m = n
HasLatest(rows) == \A slug : Of(rows, slug) # {} => Latest(rows, slug) # {}
Ordered(rows) == Positive(rows) /\ Unique(rows) /\ HasLatest(rows)

\* The next revision of a slug is above all there are, and one above that of a latest row.
LEMMA NextIsFresh ==
  ASSUME NEW rows, NEW slug, Positive(rows), HasLatest(rows)
  PROVE  /\ NextRevision(rows, slug) \in Nat \ {0}
         /\ \A r \in Of(rows, slug) : r.rev < NextRevision(rows, slug)
         /\ \A r \in Latest(rows, slug) : r.rev = NextRevision(rows, slug) - 1
<1>1. CASE Of(rows, slug) = {}
  BY <1>1 DEF NextRevision, Latest
<1>2. CASE Of(rows, slug) # {}
  <2>1. PICK top \in Latest(rows, slug) : top = (CHOOSE r \in Latest(rows, slug) : TRUE)
    BY <1>2 DEF HasLatest
  <2>2. NextRevision(rows, slug) = top.rev + 1
    BY <1>2, <2>1 DEF NextRevision
  <2>3. \A r \in Of(rows, slug) : r.rev \in Nat \ {0} /\ r.rev <= top.rev
    BY <2>1 DEF Latest, Of, Positive
  <2>4. top \in Of(rows, slug) /\ top.rev \in Nat \ {0}
    BY <2>1 DEF Latest, Of, Positive
  <2>5. \A r \in Latest(rows, slug) : r \in Of(rows, slug) /\ top.rev <= r.rev
    BY <2>4 DEF Latest
  <2> QED BY <2>2, <2>3, <2>4, <2>5
<1> QED BY <1>1, <1>2

\* New is what rows become: aged, and joined by fresh rows of the next revisions.
Grows(rows, new, fresh, wanted, renewed) ==
    /\ fresh \subseteq new
    /\ \A n \in new : n \in fresh \/ \E r \in rows : n = Aged(r, wanted, renewed)
    /\ \A r \in rows :
        LET a == Aged(r, wanted, renewed) IN a \in new /\ a.slug = r.slug /\ a.rev = r.rev
    /\ \A f \in fresh : f.rev = NextRevision(rows, f.slug)
    /\ \A f, g \in fresh : f.slug = g.slug => f = g

\* Rows that grow so stay ordered, and no revision is given again.
LEMMA GrowthIsOrdered ==
  ASSUME NEW rows, NEW new, NEW fresh, NEW wanted, NEW renewed,
         Ordered(rows), Grows(rows, new, fresh, wanted, renewed)
  PROVE  /\ Ordered(new)
         /\ \A f \in fresh : \A r \in rows : r.slug = f.slug => r.rev < f.rev
<1> USE DEF Grows
<1> DEFINE Old(r) == Aged(r, wanted, renewed)
<1>1. \A f \in fresh : f.rev \in Nat \ {0} /\ \A r \in rows : r.slug = f.slug => r.rev < f.rev
  BY NextIsFresh DEF Ordered, Of
<1>2. \A n \in new : n \in fresh \/ \E r \in rows : n = Old(r) /\ n.slug = r.slug /\ n.rev = r.rev
  OBVIOUS
<1>3. Positive(new)
  BY <1>1, <1>2 DEF Ordered, Positive
<1>4. Unique(new)
  <2> SUFFICES ASSUME NEW m \in new, NEW n \in new, m.slug = n.slug, m.rev = n.rev
               PROVE  m = n
    BY DEF Unique
  <2>1. CASE m \in fresh /\ n \in fresh
    BY <2>1
  <2>2. CASE m \in fresh /\ n \notin fresh
    <3>1. PICK r \in rows : n.slug = r.slug /\ n.rev = r.rev
      BY <2>2, <1>2
    <3>2. r.rev < m.rev /\ r.rev \in Nat /\ m.rev \in Nat
      BY <1>1, <2>2, <3>1 DEF Ordered, Positive
    <3> QED BY <3>1, <3>2
  <2>3. CASE n \in fresh /\ m \notin fresh
    <3>1. PICK r \in rows : m.slug = r.slug /\ m.rev = r.rev
      BY <2>3, <1>2
    <3>2. r.rev < n.rev /\ r.rev \in Nat /\ n.rev \in Nat
      BY <1>1, <2>3, <3>1 DEF Ordered, Positive
    <3> QED BY <3>1, <3>2
  <2>4. CASE m \notin fresh /\ n \notin fresh
    <3>1. PICK r \in rows : m = Old(r) /\ m.slug = r.slug /\ m.rev = r.rev
      BY <2>4, <1>2
    <3>2. PICK q \in rows : n = Old(q) /\ n.slug = q.slug /\ n.rev = q.rev
      BY <2>4, <1>2
    <3>3. r = q
      BY <3>1, <3>2 DEF Ordered, Unique
    <3> QED BY <3>1, <3>2, <3>3
  <2> QED BY <2>1, <2>2, <2>3, <2>4
<1>5. HasLatest(new)
  <2> SUFFICES ASSUME NEW slug, Of(new, slug) # {}
               PROVE  \E top \in Of(new, slug) : \A n \in Of(new, slug) : n.rev <= top.rev
    BY DEF HasLatest, Latest
  <2>1. CASE \E f \in fresh : f.slug = slug
    <3>1. PICK f \in fresh : f.slug = slug
      BY <2>1
    <3>2. f \in Of(new, slug)
      BY <3>1 DEF Of
    <3>3. ASSUME NEW n \in Of(new, slug)
          PROVE  n.rev <= f.rev
      <4>1. n \in new /\ n.slug = slug
        BY DEF Of
      <4>2. CASE n \in fresh
        BY <4>1, <4>2, <3>1, <1>1
      <4>3. CASE n \notin fresh
        <5>1. PICK r \in rows : r.slug = slug /\ n.rev = r.rev
          BY <4>1, <4>3, <1>2
        <5>2. r.rev < f.rev /\ r.rev \in Nat /\ f.rev \in Nat
          BY <1>1, <3>1, <5>1 DEF Ordered, Positive
        <5> QED BY <5>1, <5>2
      <4> QED BY <4>2, <4>3
    <3> QED BY <3>2, <3>3
  <2>2. CASE ~\E f \in fresh : f.slug = slug
    <3>1. \A n \in Of(new, slug) : \E r \in Of(rows, slug) : n.rev = r.rev
      BY <2>2, <1>2 DEF Of
    <3>2. PICK r \in Latest(rows, slug) : TRUE
      BY <3>1 DEF Ordered, HasLatest
    <3>3. r \in rows /\ r.slug = slug /\ \A q \in Of(rows, slug) : q.rev <= r.rev
      BY <3>2 DEF Latest, Of
    <3>4. Old(r) \in new /\ Old(r).slug = slug /\ Old(r).rev = r.rev
      BY <3>3
    <3> HIDE DEF Old
    <3>5. Old(r) \in Of(new, slug)
      BY <3>4 DEF Of
    <3> QED BY <3>1, <3>3, <3>4, <3>5
  <2> QED BY <2>1, <2>2
<1> QED BY <1>1, <1>3, <1>4, <1>5 DEF Ordered

------------------------------------------------------------------------------
ModelRow == [slug : Models, rev : Nat \ {0}, version : ModelVersions, state : States]
PolicyRow ==
    [slug : Policies, rev : Nat \ {0}, models : SUBSET Models, version : PolicyVersions,
     revs : UNION {[D -> Nat \ {0}] : D \in SUBSET Models}, state : States]

\* Aging changes the state of a row and nothing else.
LEMMA AgedModel ==
  ASSUME NEW r \in ModelRow, NEW wanted, NEW renewed
  PROVE  LET a == Aged(r, wanted, renewed)
         IN  a \in ModelRow /\ a.slug = r.slug /\ a.rev = r.rev /\ a.version = r.version
  BY DEF Aged, ModelRow, States

LEMMA AgedPolicy ==
  ASSUME NEW r \in PolicyRow, NEW wanted, NEW renewed
  PROVE  LET a == Aged(r, wanted, renewed)
         IN  /\ a \in PolicyRow /\ a.slug = r.slug /\ a.rev = r.rev
             /\ a.models = r.models /\ a.version = r.version /\ a.revs = r.revs
  BY DEF Aged, PolicyRow, States

LEMMA DocumentParts ==
  ASSUME NEW doc \in Documents
  PROVE  /\ DOMAIN doc.models \subseteq Models
         /\ \A m \in DOMAIN doc.models : doc.models[m] \in ModelVersions
         /\ DOMAIN doc.policies \subseteq Policies
         /\ \A p \in DOMAIN doc.policies :
              /\ doc.policies[p].models \subseteq DOMAIN doc.models
              /\ doc.policies[p].version \in PolicyVersions
<1>1. doc.models \in PartialFunctions(Models, ModelVersions)
      /\ doc.policies \in PartialFunctions(Policies, PolicyBodies)
  BY DEF Documents
<1>2. PICK D \in SUBSET Models : doc.models \in [D -> ModelVersions]
  BY <1>1 DEF PartialFunctions
<1>3. PICK E \in SUBSET Policies : doc.policies \in [E -> PolicyBodies]
  BY <1>1 DEF PartialFunctions
<1>4. \A p \in DOMAIN doc.policies : doc.policies[p].models \subseteq DOMAIN doc.models
  BY DEF Documents
<1> QED BY <1>2, <1>3, <1>4 DEF PolicyBodies

RowsTyped == models \subseteq ModelRow /\ policies \subseteq PolicyRow
RowsOrdered == Ordered(models) /\ Ordered(policies)

\* The models of a policy, and the policy an instance has or an ensure has read, are there.
RevsExist ==
    \A p \in policies : p.revs \in [p.models -> Nat \ {0}] /\
        \A s \in p.models : \E m \in models : m.slug = s /\ m.rev = p.revs[s]
Exists(id) == \E p \in policies : p.slug = id.slug /\ p.rev = id.rev
IdsExist ==
    \A i \in Instances : /\ pinned[i] # NoPolicy => Exists(pinned[i])
                         /\ ensuring[i] # NoPolicy => Exists(ensuring[i])

RowsInv == RowsTyped /\ RowsOrdered /\ RevsExist

\* The rows a synchronisation adds.
FreshModels(doc) ==
    {[slug |-> m, rev |-> NextRevision(models, m), version |-> doc.models[m],
      state |-> "published"] : m \in NewModels(doc)}
FreshPolicy(doc, p) ==
    [slug |-> p, rev |-> NextRevision(policies, p),
     models |-> doc.policies[p].models, version |-> doc.policies[p].version,
     revs |-> Revisions(doc, p), state |-> "published"]
FreshPolicies(doc) == {FreshPolicy(doc, p) : p \in NewPolicies(doc)}

LEMMA ModelsGrow ==
  ASSUME RowsInv, NEW doc \in Documents, models' = ModelRows(doc)
  PROVE  Grows(models, models', FreshModels(doc), DOMAIN doc.models, NewModels(doc))
<1> DEFINE Old(r) == Aged(r, DOMAIN doc.models, NewModels(doc))
<1>1. models' = {Old(r) : r \in models} \cup FreshModels(doc)
  BY DEF ModelRows, FreshModels
<1>2. \A r \in models : Old(r).slug = r.slug /\ Old(r).rev = r.rev
  BY AgedModel DEF RowsInv, RowsTyped
<1>3. /\ \A f \in FreshModels(doc) : f.rev = NextRevision(models, f.slug)
      /\ \A f, g \in FreshModels(doc) : f.slug = g.slug => f = g
  BY DEF FreshModels
<1> QED BY <1>1, <1>2, <1>3 DEF Grows

LEMMA PoliciesGrow ==
  ASSUME RowsInv, NEW doc \in Documents, policies' = PolicyRows(doc)
  PROVE  Grows(policies, policies', FreshPolicies(doc), DOMAIN doc.policies, NewPolicies(doc))
<1> DEFINE Old(r) == Aged(r, DOMAIN doc.policies, NewPolicies(doc))
<1>1. policies' = {Old(r) : r \in policies} \cup FreshPolicies(doc)
  BY DEF PolicyRows, FreshPolicies, FreshPolicy
<1>2. \A r \in policies : Old(r).slug = r.slug /\ Old(r).rev = r.rev
  BY AgedPolicy DEF RowsInv, RowsTyped
<1>3. /\ \A f \in FreshPolicies(doc) : f.rev = NextRevision(policies, f.slug)
      /\ \A f, g \in FreshPolicies(doc) : f.slug = g.slug => f = g
  BY DEF FreshPolicies, FreshPolicy
<1> QED BY <1>1, <1>2, <1>3 DEF Grows

\* What a synchronisation does to the models.
LEMMA SyncModels ==
  ASSUME RowsInv, NEW doc \in Documents, models' = ModelRows(doc)
  PROVE  /\ models' \subseteq ModelRow
         /\ Ordered(models')
         /\ \A m \in models : \E n \in models' :
              n.slug = m.slug /\ n.rev = m.rev /\ n.version = m.version
         /\ \A s \in DOMAIN doc.models : \E n \in models' : n.slug = s /\ n.rev = Revision(doc, s)
<1> DEFINE wanted == DOMAIN doc.models
           renewed == NewModels(doc)
           fresh == {[slug |-> m, rev |-> NextRevision(models, m), version |-> doc.models[m],
                      state |-> "published"] : m \in NewModels(doc)}
           Old(r) == Aged(r, wanted, renewed)
<1>1. models' = {Old(r) : r \in models} \cup fresh
  BY DEF ModelRows
<1>2. \A r \in models : Old(r) \in ModelRow /\ Old(r).slug = r.slug /\ Old(r).rev = r.rev
                        /\ Old(r).version = r.version
  BY AgedModel DEF RowsInv, RowsTyped
<1>3. NewModels(doc) \subseteq DOMAIN doc.models
  BY DEF NewModels
<1>4. \A s \in Models : NextRevision(models, s) \in Nat \ {0}
  BY NextIsFresh DEF RowsInv, RowsOrdered, Ordered
<1>5. fresh \subseteq ModelRow
  BY <1>3, <1>4, DocumentParts DEF ModelRow, States
<1>6. Ordered(models')
  <2>1. Grows(models, models', fresh, wanted, renewed)
    BY ModelsGrow DEF FreshModels
  <2> HIDE DEF fresh, wanted, renewed
  <2> QED BY <2>1, GrowthIsOrdered DEF RowsInv, RowsOrdered
<1>7. models' \subseteq ModelRow
  BY <1>1, <1>2, <1>5
<1>8. \A m \in models : \E n \in models' :
        n.slug = m.slug /\ n.rev = m.rev /\ n.version = m.version
  <2> HIDE DEF Old
  <2> QED BY <1>1, <1>2
<1>9. ASSUME NEW s \in DOMAIN doc.models
       PROVE  \E n \in models' : n.slug = s /\ n.rev = Revision(doc, s)
  <2>1. CASE s \in NewModels(doc)
    <3> DEFINE n == [slug |-> s, rev |-> NextRevision(models, s), version |-> doc.models[s],
                     state |-> "published"]
    <3>1. n \in models' /\ n.slug = s /\ n.rev = Revision(doc, s)
      BY <1>1, <2>1 DEF Revision
    <3> QED BY <3>1
  <2>2. CASE s \notin NewModels(doc)
    <3>1. PICK r \in Latest(models, s) : TRUE
      BY <2>2 DEF NewModels, SameModel
    <3>2. r \in models /\ r.slug = s
      BY <3>1 DEF Latest, Of
    <3>3. r.rev = Revision(doc, s)
      BY <2>2, <3>1, NextIsFresh DEF Revision, RowsInv, RowsOrdered, Ordered
    <3> QED BY <1>8, <3>2, <3>3
  <2> QED BY <2>1, <2>2
<1> QED BY <1>6, <1>7, <1>8, <1>9

\* What a synchronisation does to the policies.
LEMMA SyncPolicies ==
  ASSUME RowsInv, NEW doc \in Documents, models' = ModelRows(doc), policies' = PolicyRows(doc)
  PROVE  /\ policies' \subseteq PolicyRow
         /\ Ordered(policies')
         /\ \A p \in policies : \E q \in policies' :
              q.slug = p.slug /\ q.rev = p.rev /\ q.models = p.models /\ q.revs = p.revs
         /\ RevsExist'
<1> DEFINE wanted == DOMAIN doc.policies
           renewed == NewPolicies(doc)
           Row(p) == [slug |-> p, rev |-> NextRevision(policies, p),
                      models |-> doc.policies[p].models, version |-> doc.policies[p].version,
                      revs |-> Revisions(doc, p), state |-> "published"]
           fresh == {Row(p) : p \in NewPolicies(doc)}
           Old(r) == Aged(r, wanted, renewed)
<1>1. policies' = {Old(r) : r \in policies} \cup fresh
  BY DEF PolicyRows
<1>2. \A r \in policies :
        /\ Old(r) \in PolicyRow /\ Old(r).slug = r.slug /\ Old(r).rev = r.rev
        /\ Old(r).models = r.models /\ Old(r).revs = r.revs
  BY AgedPolicy DEF RowsInv, RowsTyped
<1>3. NewPolicies(doc) \subseteq DOMAIN doc.policies
  BY DEF NewPolicies
<1>4. \A p \in Policies : NextRevision(policies, p) \in Nat \ {0}
  BY NextIsFresh DEF RowsInv, RowsOrdered, Ordered
<1>5. \A s \in DOMAIN doc.models : \E n \in models' : n.slug = s /\ n.rev = Revision(doc, s)
  BY SyncModels
<1>6. \A s \in DOMAIN doc.models : Revision(doc, s) \in Nat \ {0}
  <2>1. models' \subseteq ModelRow
    BY SyncModels
  <2> QED BY <1>5, <2>1 DEF ModelRow
<1>7. ASSUME NEW p \in NewPolicies(doc)
      PROVE  /\ Row(p) \in PolicyRow
             /\ Row(p).revs \in [Row(p).models -> Nat \ {0}]
             /\ \A s \in Row(p).models : \E n \in models' : n.slug = s /\ n.rev = Row(p).revs[s]
  <2> DEFINE D == doc.policies[p].models
  <2>1. D \subseteq DOMAIN doc.models /\ D \subseteq Models
    BY <1>3, DocumentParts
  <2>2. Revisions(doc, p) = [m \in D |-> Revision(doc, m)]
    BY DEF Revisions
  <2>3. Revisions(doc, p) \in [D -> Nat \ {0}]
    BY <1>6, <2>1, <2>2
  <2>4. Row(p).revs = Revisions(doc, p) /\ Row(p).models = D
    OBVIOUS
  <2>5. \A s \in D : \E n \in models' : n.slug = s /\ n.rev = Revisions(doc, p)[s]
    BY <1>5, <2>1, <2>2
  <2>6. p \in Policies /\ doc.policies[p].version \in PolicyVersions
        /\ NextRevision(policies, p) \in Nat \ {0}
    BY <1>3, <1>4, DocumentParts
  <2>7. Row(p) \in PolicyRow
    BY <2>1, <2>3, <2>6 DEF PolicyRow, States
  <2> QED BY <2>3, <2>4, <2>5, <2>7
<1>8. Ordered(policies')
  <2>1. Grows(policies, policies', fresh, wanted, renewed)
    BY PoliciesGrow DEF FreshPolicies, FreshPolicy
  <2> HIDE DEF fresh, wanted, renewed
  <2> QED BY <2>1, GrowthIsOrdered DEF RowsInv, RowsOrdered
<1>9. \A p \in policies : \E q \in policies' :
         q.slug = p.slug /\ q.rev = p.rev /\ q.models = p.models /\ q.revs = p.revs
  <2> HIDE DEF Old
  <2> QED BY <1>1, <1>2
<1>10. policies' \subseteq PolicyRow
  <2> HIDE DEF Old, Row
  <2> QED BY <1>1, <1>2, <1>7
<1>11. RevsExist'
  <2>1. ASSUME NEW q \in policies'
        PROVE  /\ q.revs \in [q.models -> Nat \ {0}]
               /\ \A s \in q.models : \E n \in models' : n.slug = s /\ n.rev = q.revs[s]
    <3>1. CASE \E p \in NewPolicies(doc) : q = Row(p)
      <4> HIDE DEF Row
      <4> QED BY <1>7, <3>1
    <3>2. CASE \E r \in policies : q = Old(r)
      <4>1. PICK r \in policies : q.models = r.models /\ q.revs = r.revs
        <5> HIDE DEF Old
        <5> QED BY <1>2, <3>2
      <4>2. /\ r.revs \in [r.models -> Nat \ {0}]
            /\ \A s \in r.models : \E m \in models : m.slug = s /\ m.rev = r.revs[s]
        BY DEF RowsInv, RevsExist
      <4>3. \A m \in models : \E n \in models' : n.slug = m.slug /\ n.rev = m.rev
        BY SyncModels
      <4> QED BY <4>1, <4>2, <4>3
    <3> QED BY <1>1, <3>1, <3>2
  <2> QED BY <2>1 DEF RevsExist
<1> QED BY <1>8, <1>9, <1>10, <1>11

------------------------------------------------------------------------------
(* What is published.                                                         *)

PublishedIsLatest(rows) == \A r \in rows : r.state = "published" => r \in Latest(rows, r.slug)
LatestInv == PublishedIsLatest(models) /\ PublishedIsLatest(policies)

\* Aging leaves published what is wanted and not renewed.
Ages(r, wanted, renewed) ==
    LET a == Aged(r, wanted, renewed) IN
    /\ a.state = "published" => r.state = "published" /\ r.slug \in wanted /\ r.slug \notin renewed
    /\ r.slug \in wanted /\ r.slug \notin renewed => a = r

LEMMA ModelAges ==
  ASSUME NEW r \in ModelRow, NEW wanted, NEW renewed
  PROVE  Ages(r, wanted, renewed)
  BY DEF Ages, Aged, ModelRow, States

LEMMA PolicyAges ==
  ASSUME NEW r \in PolicyRow, NEW wanted, NEW renewed
  PROVE  Ages(r, wanted, renewed)
  BY DEF Ages, Aged, PolicyRow, States

LEMMA PublishedIsSingle ==
  ASSUME NEW rows, Ordered(rows), PublishedIsLatest(rows), NEW slug, NEW r \in Published(rows, slug)
  PROVE  Published(rows, slug) = {r} /\ r \in Latest(rows, slug)
<1>1. r \in rows /\ r.slug = slug /\ r.state = "published"
  BY DEF Published, Of
<1>2. r \in Latest(rows, slug)
  BY <1>1 DEF PublishedIsLatest
<1>3. ASSUME NEW q \in Published(rows, slug) PROVE q = r
  <2>1. q \in rows /\ q.slug = slug /\ q.state = "published" /\ q \in Latest(rows, slug)
    BY DEF Published, Of, PublishedIsLatest
  <2>2. q.rev <= r.rev /\ r.rev <= q.rev
    BY <1>1, <1>2, <2>1 DEF Latest, Of
  <2>3. q.rev = r.rev
    BY <1>1, <2>1, <2>2 DEF Ordered, Positive
  <2> QED BY <1>1, <2>1, <2>3 DEF Ordered, Unique
<1> QED BY <1>2, <1>3

\* Of each wanted slug one row is published, the fresh one if it was renewed and else the one that
\* was; of the others none.
LEMMA GrowthPublishes ==
  ASSUME NEW rows, NEW new, NEW fresh, NEW wanted, NEW renewed,
         Ordered(rows), PublishedIsLatest(rows), Grows(rows, new, fresh, wanted, renewed),
         \A r \in rows : Ages(r, wanted, renewed),
         renewed \subseteq wanted,
         \A f \in fresh : f.slug \in renewed /\ f.state = "published"
  PROVE  /\ PublishedIsLatest(new)
         /\ \A slug : slug \notin wanted => Published(new, slug) = {}
         /\ \A f \in fresh : Published(new, f.slug) = {f}
         /\ \A slug \in wanted \ renewed :
              \A r \in Published(rows, slug) : Published(new, slug) = {r}
<1> DEFINE Old(r) == Aged(r, wanted, renewed)
<1>1. /\ fresh \subseteq new
      /\ \A n \in new : n \in fresh \/ \E r \in rows : n = Old(r)
      /\ \A r \in rows : Old(r) \in new /\ Old(r).slug = r.slug /\ Old(r).rev = r.rev
      /\ \A f, g \in fresh : f.slug = g.slug => f = g
  BY DEF Grows
<1>2. \A r \in rows :
        /\ Old(r).state = "published" =>
             r.state = "published" /\ r.slug \in wanted /\ r.slug \notin renewed
        /\ r.slug \in wanted /\ r.slug \notin renewed => Old(r) = r
  BY DEF Ages
<1>3. Ordered(new) /\ \A f \in fresh : \A r \in rows : r.slug = f.slug => r.rev < f.rev
  BY GrowthIsOrdered
<1> HIDE DEF Old
\* A published row is fresh, or was published and stays what it was.
<1>4. ASSUME NEW n \in new, n.state = "published"
      PROVE  \/ n \in fresh
             \/ n \in rows /\ n.slug \in wanted /\ n.slug \notin renewed
  BY <1>1, <1>2, <1>4
<1>5. PublishedIsLatest(new)
  <2> SUFFICES ASSUME NEW n \in new, n.state = "published"
               PROVE  \A q \in Of(new, n.slug) : q.rev <= n.rev
    BY DEF PublishedIsLatest, Latest, Of
  <2> SUFFICES ASSUME NEW q \in new, q.slug = n.slug
               PROVE  q.rev <= n.rev
    BY DEF Of
  <2>1. q.rev \in Nat /\ n.rev \in Nat
    BY <1>3 DEF Ordered, Positive
  <2>2. CASE n \in fresh /\ q \in fresh
    BY <1>1, <2>1, <2>2
  <2>3. CASE n \in fresh /\ q \notin fresh
    <3>1. PICK r \in rows : q.slug = r.slug /\ q.rev = r.rev
      BY <1>1, <2>3
    <3>2. r.slug = n.slug /\ r.rev < n.rev
      BY <1>3, <2>3, <3>1
    <3> QED BY <2>1, <3>1, <3>2
  <2>4. CASE n \notin fresh
    <3>1. n \in rows /\ n.slug \notin renewed
      BY <1>4, <2>4
    <3>2. PICK r \in rows : q.slug = r.slug /\ q.rev = r.rev
      BY <1>1, <3>1
    <3>3. n \in Latest(rows, n.slug)
      BY <3>1 DEF PublishedIsLatest
    <3> QED BY <3>2, <3>3 DEF Latest, Of
  <2> QED BY <2>2, <2>3, <2>4
<1>6. \A slug : slug \notin wanted => Published(new, slug) = {}
  BY <1>4 DEF Published, Of
<1>7. ASSUME NEW f \in fresh PROVE Published(new, f.slug) = {f}
  <2>1. f \in Published(new, f.slug)
    BY <1>1 DEF Published, Of
  <2> QED BY <1>3, <1>5, <2>1, PublishedIsSingle
<1>8. ASSUME NEW slug \in wanted \ renewed, NEW r \in Published(rows, slug)
      PROVE  Published(new, slug) = {r}
  <2>1. r \in rows /\ r.slug = slug /\ r.state = "published"
    BY DEF Published, Of
  <2>2. r \in new
    BY <1>1, <1>2, <2>1
  <2>3. r \in Published(new, slug)
    BY <2>1, <2>2 DEF Published, Of
  <2> QED BY <1>3, <1>5, <2>3, PublishedIsSingle
<1> QED BY <1>5, <1>6, <1>7, <1>8

\* The models published by a synchronisation are those of the document, with the revisions that the
\* policies beside them name.
LEMMA ModelsPublished ==
  ASSUME RowsInv, LatestInv, NEW doc \in Documents, models' = ModelRows(doc)
  PROVE  /\ PublishedIsLatest(models')
         /\ \A slug : slug \notin DOMAIN doc.models => Published(models', slug) = {}
         /\ \A slug \in DOMAIN doc.models :
              \E r : /\ Published(models', slug) = {r}
                     /\ r.version = doc.models[slug] /\ r.rev = Revision(doc, slug)
<1> DEFINE wanted == DOMAIN doc.models
           renewed == NewModels(doc)
           fresh == FreshModels(doc)
<1>1. Grows(models, models', fresh, wanted, renewed)
  BY ModelsGrow
<1>2. /\ Ordered(models) /\ PublishedIsLatest(models)
      /\ \A r \in models : Ages(r, wanted, renewed)
      /\ renewed \subseteq wanted
      /\ \A f \in fresh : f.slug \in renewed /\ f.state = "published"
  BY ModelAges DEF RowsInv, RowsOrdered, RowsTyped, LatestInv, NewModels, FreshModels
<1>3. ASSUME NEW slug \in renewed
      PROVE  \E f \in fresh : /\ f.slug = slug /\ f.version = doc.models[slug]
                              /\ f.rev = Revision(doc, slug)
  <2> DEFINE f == [slug |-> slug, rev |-> NextRevision(models, slug), version |-> doc.models[slug],
                   state |-> "published"]
  <2>1. f \in fresh /\ f.slug = slug /\ f.version = doc.models[slug] /\ f.rev = Revision(doc, slug)
    BY DEF FreshModels, Revision
  <2> QED BY <2>1
<1>4. ASSUME NEW slug \in wanted \ renewed
      PROVE  \E r \in Published(models, slug) :
                r.version = doc.models[slug] /\ r.rev = Revision(doc, slug)
  <2>1. PICK r \in Latest(models, slug) : r.state = "published" /\ r.version = doc.models[slug]
    BY DEF NewModels, SameModel
  <2>2. r \in Published(models, slug)
    BY <2>1 DEF Latest, Published
  <2>3. r.rev = Revision(doc, slug)
    BY <2>1, NextIsFresh DEF Revision, RowsInv, RowsOrdered, Ordered
  <2> QED BY <2>1, <2>2, <2>3
<1> HIDE DEF wanted, renewed, fresh
<1>5. /\ PublishedIsLatest(models')
      /\ \A slug : slug \notin wanted => Published(models', slug) = {}
      /\ \A f \in fresh : Published(models', f.slug) = {f}
      /\ \A slug \in wanted \ renewed :
           \A r \in Published(models, slug) : Published(models', slug) = {r}
  BY <1>1, <1>2, GrowthPublishes
<1>6. ASSUME NEW slug \in wanted
      PROVE  \E r : /\ Published(models', slug) = {r}
                    /\ r.version = doc.models[slug] /\ r.rev = Revision(doc, slug)
  <2>1. CASE slug \in renewed
    BY <1>3, <1>5, <2>1
  <2>2. CASE slug \notin renewed
    BY <1>4, <1>5, <2>2
  <2> QED BY <2>1, <2>2
<1> QED BY <1>5, <1>6 DEF wanted

\* And so are the policies.
LEMMA PoliciesPublished ==
  ASSUME RowsInv, LatestInv, NEW doc \in Documents,
         models' = ModelRows(doc), policies' = PolicyRows(doc)
  PROVE  /\ PublishedIsLatest(policies')
         /\ \A slug : slug \notin DOMAIN doc.policies => Published(policies', slug) = {}
         /\ \A slug \in DOMAIN doc.policies :
              \E p \in policies' :
                 /\ Published(policies', slug) = {p}
                 /\ p.models = doc.policies[slug].models /\ p.version = doc.policies[slug].version
                 /\ p.revs = Revisions(doc, slug)
<1> DEFINE wanted == DOMAIN doc.policies
           renewed == NewPolicies(doc)
           fresh == FreshPolicies(doc)
<1>1. Grows(policies, policies', fresh, wanted, renewed)
  BY PoliciesGrow
<1>2. /\ Ordered(policies) /\ PublishedIsLatest(policies)
      /\ \A r \in policies : Ages(r, wanted, renewed)
      /\ renewed \subseteq wanted
      /\ \A f \in fresh : f.slug \in renewed /\ f.state = "published"
  BY PolicyAges DEF RowsInv, RowsOrdered, RowsTyped, LatestInv, NewPolicies, FreshPolicies, FreshPolicy
<1>3. ASSUME NEW slug \in renewed
      PROVE  \E f \in fresh : /\ f.slug = slug
                              /\ f.models = doc.policies[slug].models
                              /\ f.version = doc.policies[slug].version
                              /\ f.revs = Revisions(doc, slug)
  <2>1. FreshPolicy(doc, slug) \in fresh
    BY DEF FreshPolicies
  <2> QED BY <2>1 DEF FreshPolicy
<1>4. ASSUME NEW slug \in wanted \ renewed
      PROVE  \E r \in Published(policies, slug) :
                /\ r.models = doc.policies[slug].models /\ r.version = doc.policies[slug].version
                /\ r.revs = Revisions(doc, slug)
  <2>1. PICK r \in Latest(policies, slug) :
            /\ r.state = "published"
            /\ r.models = doc.policies[slug].models /\ r.version = doc.policies[slug].version
            /\ r.revs = Revisions(doc, slug)
    BY DEF NewPolicies, SamePolicy
  <2>2. r \in Published(policies, slug)
    BY <2>1 DEF Latest, Published
  <2> QED BY <2>1, <2>2
<1> HIDE DEF wanted, renewed, fresh
<1>5. /\ PublishedIsLatest(policies')
      /\ \A slug : slug \notin wanted => Published(policies', slug) = {}
      /\ \A f \in fresh : Published(policies', f.slug) = {f}
      /\ \A slug \in wanted \ renewed :
           \A r \in Published(policies, slug) : Published(policies', slug) = {r}
  BY <1>1, <1>2, GrowthPublishes
<1>6. ASSUME NEW slug \in wanted
      PROVE  \E p \in policies' :
                /\ Published(policies', slug) = {p}
                /\ p.models = doc.policies[slug].models /\ p.version = doc.policies[slug].version
                /\ p.revs = Revisions(doc, slug)
  <2>1. PICK p : /\ Published(policies', slug) = {p}
                 /\ p.models = doc.policies[slug].models /\ p.version = doc.policies[slug].version
                 /\ p.revs = Revisions(doc, slug)
    <3>1. CASE slug \in renewed
      BY <1>3, <1>5, <3>1
    <3>2. CASE slug \notin renewed
      BY <1>4, <1>5, <3>2
    <3> QED BY <3>1, <3>2
  <2>2. p \in policies'
    BY <2>1 DEF Published, Of
  <2> QED BY <2>1, <2>2
<1> QED BY <1>5, <1>6 DEF wanted

LEMMA SyncApplies ==
  ASSUME RowsInv, LatestInv, NEW doc \in Documents,
         models' = ModelRows(doc), policies' = PolicyRows(doc), applied' = doc
  PROVE  LatestInv' /\ CatalogIsApplied'
<1>1. /\ PublishedIsLatest(models')
      /\ \A slug : slug \notin DOMAIN doc.models => Published(models', slug) = {}
      /\ \A slug \in DOMAIN doc.models :
           \E r : /\ Published(models', slug) = {r}
                  /\ r.version = doc.models[slug] /\ r.rev = Revision(doc, slug)
  BY ModelsPublished
<1>2. /\ PublishedIsLatest(policies')
      /\ \A slug : slug \notin DOMAIN doc.policies => Published(policies', slug) = {}
      /\ \A slug \in DOMAIN doc.policies :
           \E p \in policies' :
              /\ Published(policies', slug) = {p}
              /\ p.models = doc.policies[slug].models /\ p.version = doc.policies[slug].version
              /\ p.revs = Revisions(doc, slug)
  BY PoliciesPublished
<1>3. LatestInv'
  BY <1>1, <1>2 DEF LatestInv, PublishedIsLatest, Latest, Of
<1>4. \A m \in models' : m.state = "published" =>
        /\ m.slug \in DOMAIN doc.models
        /\ m.version = doc.models[m.slug] /\ m.rev = Revision(doc, m.slug)
  <2> SUFFICES ASSUME NEW m \in models', m.state = "published"
               PROVE  /\ m.slug \in DOMAIN doc.models
                      /\ m.version = doc.models[m.slug] /\ m.rev = Revision(doc, m.slug)
    OBVIOUS
  <2>1. m \in Published(models', m.slug)
    BY DEF Published, Of
  <2>2. m.slug \in DOMAIN doc.models
    BY <1>1, <2>1
  <2>3. PICK r : /\ Published(models', m.slug) = {r}
                 /\ r.version = doc.models[m.slug] /\ r.rev = Revision(doc, m.slug)
    BY <1>1, <2>2
  <2> QED BY <2>1, <2>2, <2>3
<1>5. \A s \in DOMAIN doc.models : \E m \in models' :
        m.state = "published" /\ m.slug = s /\ m.version = doc.models[s]
  BY <1>1 DEF Published, Of
<1>6. {<<m.slug, m.version>> : m \in {n \in models' : n.state = "published"}}
        = {<<s, doc.models[s]>> : s \in DOMAIN doc.models}
  <2>1. ASSUME NEW m \in models', m.state = "published"
        PROVE  <<m.slug, m.version>> \in {<<s, doc.models[s]>> : s \in DOMAIN doc.models}
    BY <1>4, <2>1
  <2>2. ASSUME NEW s \in DOMAIN doc.models
        PROVE  <<s, doc.models[s]>>
                 \in {<<m.slug, m.version>> : m \in {n \in models' : n.state = "published"}}
    <3>1. PICK m \in models' : m.state = "published" /\ m.slug = s /\ m.version = doc.models[s]
      BY <1>5
    <3> QED BY <3>1
  <2> QED BY <2>1, <2>2
<1>7. \A s \in DOMAIN doc.models : Cardinality(Published(models', s)) = 1
  BY <1>1, FS_Singleton
<1>8. \A s \in Policies \ DOMAIN doc.policies : Published(policies', s) = {}
  BY <1>2
<1>9. ASSUME NEW s \in DOMAIN doc.policies
      PROVE  \E p \in policies' :
                /\ Published(policies', s) = {p}
                /\ p.models = doc.policies[s].models
                /\ p.version = doc.policies[s].version
                /\ \A m \in p.models : \A r \in models' :
                     r.slug = m /\ r.state = "published" => p.revs[m] = r.rev
  <2>1. PICK p \in policies' :
            /\ Published(policies', s) = {p}
            /\ p.models = doc.policies[s].models /\ p.version = doc.policies[s].version
            /\ p.revs = Revisions(doc, s)
    BY <1>2
  <2>2. \A m \in p.models : p.revs[m] = Revision(doc, m)
    BY <2>1 DEF Revisions
  <2> QED BY <1>4, <2>1, <2>2
<1>10. /\ \A s : Published(models, s)' = Published(models', s)
       /\ \A s : Published(policies, s)' = Published(policies', s)
  BY DEF Published, Of
<1> HIDE DEF Published, Of
<1> QED BY <1>3, <1>6, <1>7, <1>8, <1>9, <1>10 DEF CatalogIsApplied

------------------------------------------------------------------------------
Control ==
    /\ file \in Documents \cup {Invalid}
    /\ applied \in Documents \cup {Invalid}
    /\ loop.step \in {"down", "boot", "wait", "sync", "dead"}
    /\ loop.doc \in Documents \cup {Invalid}
    /\ loop.step \in {"boot", "sync"} => loop.doc \in Documents
    /\ pinned \in [Instances -> Ids \cup {NoPolicy}]
    /\ ensuring \in [Instances -> Ids \cup {NoPolicy}]
    /\ edits \in 0..MaxEdits /\ faults \in 0..MaxFaults

IInv == Control /\ RowsInv /\ IdsExist /\ LatestInv /\ CatalogIsApplied

LEMMA InitIInv == Init => IInv
<1> SUFFICES ASSUME Init PROVE IInv
  OBVIOUS
<1>1. Control
  BY BoundAssumption DEF Init, Control, Ids
<1>2. RowsInv
  BY DEF Init, RowsInv, RowsTyped, RowsOrdered, RevsExist, Ordered, Positive, Unique, HasLatest, Of
<1>3. IdsExist
  BY DEF Init, IdsExist
<1>4. LatestInv /\ CatalogIsApplied
  BY DEF Init, LatestInv, PublishedIsLatest, CatalogIsApplied
<1> QED BY <1>1, <1>2, <1>3, <1>4 DEF IInv

\* Every step is a synchronisation with a document, or leaves the rows alone.
LEMMA RowsChange ==
  ASSUME IInv, [Next]_vars
  PROVE  \/ UNCHANGED <<models, policies>>
         \/ /\ UNCHANGED <<pinned, ensuring>>
            /\ \E doc \in Documents : models' = ModelRows(doc) /\ policies' = PolicyRows(doc)
<1>1. CASE BootSync
  BY <1>1 DEF BootSync, Sync, At, IInv, Control
<1>2. CASE Apply
  BY <1>2 DEF Apply, Sync, At, IInv, Control
<1>3. CASE Boot \/ Reload \/ Crash \/ (\E doc \in Documents \cup {Invalid} : Edit(doc))
           \/ (\E i \in Instances : EnsurePin(i)) \/ UNCHANGED vars
  BY <1>3 DEF Boot, Reload, Crash, Edit, EnsurePin, vars
<1>4. CASE \E i \in Instances, p \in Policies : EnsureRead(i, p)
  BY <1>4 DEF EnsureRead
<1> QED
  BY <1>1, <1>2, <1>3, <1>4 DEF Next

LEMMA ControlStep ==
  ASSUME IInv, [Next]_vars
  PROVE  Control'
<1> USE DEF IInv, Control
<1>1. CASE Boot
  BY <1>1 DEF Boot, Load, Goto
<1>2. CASE BootSync
  BY <1>2, BoundAssumption DEF BootSync, Sync, At, Goto, Fault
<1>3. CASE Reload
  BY <1>3 DEF Reload, Load, Goto
<1>4. CASE Apply
  BY <1>4, BoundAssumption DEF Apply, Sync, At, Goto, Fault
<1>5. CASE Crash
  BY <1>5, BoundAssumption DEF Crash, Goto, Fault
<1>6. ASSUME NEW doc \in Documents \cup {Invalid}, Edit(doc)
      PROVE  Control'
  BY <1>6, BoundAssumption DEF Edit
<1>7. ASSUME NEW i \in Instances, NEW p \in Policies, EnsureRead(i, p)
      PROVE  Control'
  <2>1. PICK r \in Published(policies, p) : ensuring' = [ensuring EXCEPT ![i] = [slug |-> p, rev |-> r.rev]]
    BY <1>7 DEF EnsureRead
  <2>2. r.rev \in Nat
    BY <2>1 DEF Published, Of, RowsInv, RowsTyped, PolicyRow
  <2>3. [slug |-> p, rev |-> r.rev] \in Ids
    BY <2>2 DEF Ids
  <2> QED BY <1>7, <2>1, <2>3 DEF EnsureRead
<1>8. ASSUME NEW i \in Instances, EnsurePin(i)
      PROVE  Control'
  BY <1>8 DEF EnsurePin
<1>9. CASE UNCHANGED vars
  BY <1>9 DEF vars
<1> QED
  BY <1>1, <1>2, <1>3, <1>4, <1>5, <1>6, <1>7, <1>8, <1>9 DEF Next

LEMMA RowsStep ==
  ASSUME IInv, [Next]_vars
  PROVE  /\ RowsInv'
         /\ \A p \in policies : \E q \in policies' :
              q.slug = p.slug /\ q.rev = p.rev /\ q.models = p.models /\ q.revs = p.revs
         /\ \A m \in models : \E n \in models' :
              n.slug = m.slug /\ n.rev = m.rev /\ n.version = m.version
<1>1. CASE UNCHANGED <<models, policies>>
  <2>1. models' = models /\ policies' = policies /\ RowsInv
    BY <1>1 DEF IInv
  <2>2. RowsTyped'
    BY <2>1 DEF RowsInv, RowsTyped, ModelRow, PolicyRow
  <2>3. RowsOrdered'
    BY <2>1 DEF RowsInv, RowsOrdered, Ordered, Positive, Unique, HasLatest, Of, Latest
  <2>4. RevsExist'
    BY <2>1 DEF RowsInv, RevsExist
  <2>5. RowsInv'
    BY <2>2, <2>3, <2>4 DEF RowsInv
  <2> QED BY <2>1, <2>5
<1>2. ASSUME NEW doc \in Documents, models' = ModelRows(doc), policies' = PolicyRows(doc)
      PROVE  /\ RowsInv'
             /\ \A p \in policies : \E q \in policies' :
                  q.slug = p.slug /\ q.rev = p.rev /\ q.models = p.models /\ q.revs = p.revs
             /\ \A m \in models : \E n \in models' :
                  n.slug = m.slug /\ n.rev = m.rev /\ n.version = m.version
  <2>1. RowsInv
    BY DEF IInv
  <2>2. /\ models' \subseteq ModelRow /\ Ordered(models')
        /\ \A m \in models : \E n \in models' :
              n.slug = m.slug /\ n.rev = m.rev /\ n.version = m.version
    BY <1>2, <2>1, SyncModels
  <2>3. /\ policies' \subseteq PolicyRow /\ Ordered(policies') /\ RevsExist'
        /\ \A p \in policies : \E q \in policies' :
              q.slug = p.slug /\ q.rev = p.rev /\ q.models = p.models /\ q.revs = p.revs
    BY <1>2, <2>1, SyncPolicies
  <2>4. RowsInv'
    BY <2>2, <2>3 DEF RowsInv, RowsTyped, RowsOrdered, Ordered, Positive, Unique, HasLatest, Of, Latest
  <2> QED BY <2>2, <2>3, <2>4
<1> QED
  BY <1>1, <1>2, RowsChange

LEMMA IdsStep ==
  ASSUME IInv, [Next]_vars
  PROVE  IdsExist'
<1> DEFINE Later(id) == \E q \in policies' : q.slug = id.slug /\ q.rev = id.rev
<1>1. ASSUME NEW id, Exists(id)
      PROVE  Later(id)
  <2>1. PICK p \in policies : p.slug = id.slug /\ p.rev = id.rev
    BY <1>1 DEF Exists
  <2>2. PICK q \in policies' : q.slug = p.slug /\ q.rev = p.rev
    BY RowsStep
  <2> QED BY <2>1, <2>2
<1>2. CASE UNCHANGED <<pinned, ensuring>>
  <2> SUFFICES ASSUME NEW i \in Instances
               PROVE  /\ pinned[i] # NoPolicy => Later(pinned[i])
                      /\ ensuring[i] # NoPolicy => Later(ensuring[i])
    BY <1>2 DEF IdsExist, Exists, NoPolicy
  <2>1. /\ pinned[i] # NoPolicy => Exists(pinned[i])
        /\ ensuring[i] # NoPolicy => Exists(ensuring[i])
    BY DEF IInv, IdsExist
  <2> QED BY <1>1, <2>1
<1>3. ASSUME NEW i \in Instances, NEW p \in Policies, EnsureRead(i, p)
      PROVE  IdsExist'
  <2>1. PICK r \in Published(policies, p) :
            ensuring' = [ensuring EXCEPT ![i] = [slug |-> p, rev |-> r.rev]]
    BY <1>3 DEF EnsureRead
  <2>2. r \in policies /\ r.slug = p
    BY <2>1 DEF Published, Of
  <2> QED BY <1>3, <2>1, <2>2 DEF EnsureRead, IInv, Control, IdsExist, Exists
<1>4. ASSUME NEW i \in Instances, EnsurePin(i)
      PROVE  IdsExist'
  BY <1>4 DEF EnsurePin, IInv, Control, IdsExist, Exists
<1>5. CASE Crash
  BY <1>1, <1>5 DEF Crash, IInv, Control, IdsExist, Exists
<1>6. CASE Boot \/ BootSync \/ Reload \/ Apply \/ UNCHANGED vars
           \/ (\E doc \in Documents \cup {Invalid} : Edit(doc))
  BY <1>2, <1>6 DEF Boot, BootSync, Reload, Apply, Edit, vars
<1> QED
  BY <1>3, <1>4, <1>5, <1>6 DEF Next

LEMMA AppliedStep ==
  ASSUME IInv, [Next]_vars
  PROVE  LatestInv' /\ CatalogIsApplied'
<1> USE DEF IInv
<1>1. CASE BootSync /\ Sync(loop.doc)
  <2>1. loop.doc \in Documents
    BY <1>1 DEF BootSync, At, Control
  <2> QED BY <1>1, <2>1, SyncApplies DEF Sync
<1>2. CASE Apply /\ Sync(loop.doc)
  <2>1. loop.doc \in Documents
    BY <1>2 DEF Apply, At, Control
  <2> QED BY <1>2, <2>1, SyncApplies DEF Sync
<1>3. CASE UNCHANGED <<models, policies>> /\ applied' \in {applied, Invalid}
  <2>1. models' = models /\ policies' = policies
    BY <1>3
  <2>2. LatestInv'
    BY <2>1 DEF LatestInv, PublishedIsLatest, Latest, Of
  <2>3. CatalogIsApplied'
    <3>1. CASE applied' = applied
      BY <2>1, <3>1 DEF CatalogIsApplied, Published, Of
    <3>2. CASE applied' = Invalid
      BY <3>2 DEF CatalogIsApplied, Invalid
    <3> QED BY <1>3, <3>1, <3>2
  <2> QED BY <2>2, <2>3
<1>4. CASE Boot \/ Reload \/ Crash \/ (\E doc \in Documents \cup {Invalid} : Edit(doc))
           \/ (\E i \in Instances : EnsurePin(i)) \/ UNCHANGED vars
  BY <1>3, <1>4 DEF Boot, Reload, Crash, Edit, EnsurePin, vars
<1>5. CASE \E i \in Instances, p \in Policies : EnsureRead(i, p)
  BY <1>3, <1>5 DEF EnsureRead
<1>6. CASE BootSync \/ Apply
  BY <1>1, <1>2, <1>3, <1>6 DEF BootSync, Apply
<1> QED BY <1>4, <1>5, <1>6 DEF Next

LEMMA IInvHolds == Spec => []IInv
<1>1. IInv /\ [Next]_vars => IInv'
  BY ControlStep, RowsStep, IdsStep, AppliedStep DEF IInv
<1> QED
  BY <1>1, InitIInv, PTL DEF Spec

------------------------------------------------------------------------------
\* The state is of the right type, and a revision stands for one row, so that no synchronisation
\* fails on the unique constraint of a table.
THEOREM TypeCorrect == Spec => []TypeOK
<1>1. ASSUME IInv PROVE TypeOK
  <2>1. models \subseteq [slug : Models, rev : Nat \ {0}, version : ModelVersions, state : States]
    BY <1>1 DEF IInv, RowsInv, RowsTyped, ModelRow
  <2>2. \A p \in policies : /\ p.slug \in Policies /\ p.rev \in Nat \ {0} /\ p.state \in States
                            /\ p.revs \in [p.models -> Nat \ {0}]
    BY <1>1 DEF IInv, RowsInv, RowsTyped, RevsExist, PolicyRow
  <2>3. Unique(models) /\ Unique(policies)
    BY <1>1 DEF IInv, RowsInv, RowsOrdered, Ordered
  <2> QED BY <1>1, <2>1, <2>2, <2>3 DEF IInv, Control, TypeOK, Unique
<1> QED BY <1>1, IInvHolds, PTL

\* Whatever the catalog file becomes, an instance can be provisioned: its policy is there, and of
\* each of its models the very revision it names.
THEOREM PinnedIsLoadableHolds == Spec => []PinnedIsLoadable
<1>1. ASSUME IInv PROVE PinnedIsLoadable
  <2> SUFFICES ASSUME NEW i \in Instances, pinned[i] # NoPolicy
               PROVE  /\ PinnedPolicies(i) # {}
                      /\ \A p \in PinnedPolicies(i) : \A s \in p.models :
                            \E m \in Pinned(i) : m.slug = s
    BY DEF PinnedIsLoadable
  <2>1. PinnedPolicies(i) # {}
    <3>1. Exists(pinned[i])
      BY <1>1 DEF IInv, IdsExist
    <3>2. PICK p \in policies : p.slug = pinned[i].slug /\ p.rev = pinned[i].rev
      BY <3>1 DEF Exists
    <3>3. p \in PinnedPolicies(i)
      BY <3>2 DEF PinnedPolicies
    <3> QED BY <3>3
  <2>2. ASSUME NEW p \in PinnedPolicies(i), NEW s \in p.models
        PROVE  \E m \in Pinned(i) : m.slug = s
    <3>1. PICK m \in models : m.slug = s /\ m.rev = p.revs[s]
      BY <1>1 DEF IInv, RowsInv, RevsExist, PinnedPolicies
    <3>2. m \in Pinned(i)
      BY <3>1 DEF Pinned
    <3> QED BY <3>1, <3>2
  <2> QED BY <2>1, <2>2
<1> QED BY <1>1, IInvHolds, PTL

\* No step changes what an instance is provisioned with, but for one that gives it another policy:
\* revisions are immutable and never given again.
THEOREM PinnedIsFrozenHolds == Spec => PinnedIsFrozen
<1> DEFINE Frozen == \A i \in Instances :
                        pinned'[i] = pinned[i] => Content(Pinned(i)') = Content(Pinned(i))
<1>1. ASSUME IInv, IInv', [Next]_vars PROVE Frozen
  <2> SUFFICES ASSUME NEW i \in Instances, pinned'[i] = pinned[i]
               PROVE  Content(Pinned(i)') = Content(Pinned(i))
    OBVIOUS
  <2>1. /\ Unique(models') /\ Unique(policies')
        /\ \A p \in policies : \A s \in p.models : \E m \in models : m.slug = s /\ m.rev = p.revs[s]
    <3>1. Ordered(models') /\ Ordered(policies')
      BY <1>1 DEF IInv, RowsInv, RowsOrdered, Ordered, Positive, Unique, HasLatest, Of, Latest
    <3> QED BY <1>1, <3>1 DEF IInv, RowsInv, RevsExist, Ordered
  <2>2. /\ \A p \in policies : \E q \in policies' :
              q.slug = p.slug /\ q.rev = p.rev /\ q.models = p.models /\ q.revs = p.revs
        /\ \A m \in models : \E n \in models' :
              n.slug = m.slug /\ n.rev = m.rev /\ n.version = m.version
    BY <1>1, RowsStep
  <2>3. \A q \in PinnedPolicies(i)' : \E p \in PinnedPolicies(i) : p.models = q.models /\ p.revs = q.revs
    <3> SUFFICES ASSUME NEW q \in PinnedPolicies(i)'
                 PROVE  \E p \in PinnedPolicies(i) : p.models = q.models /\ p.revs = q.revs
      OBVIOUS
    <3>1. q \in policies' /\ pinned[i] # NoPolicy /\ q.slug = pinned[i].slug /\ q.rev = pinned[i].rev
      BY DEF PinnedPolicies
    <3> Exists(pinned[i])
      BY <1>1, <3>1 DEF IInv, IdsExist
    <3>2. PICK p \in policies : p.slug = pinned[i].slug /\ p.rev = pinned[i].rev
      BY DEF Exists
    <3>3. p \in PinnedPolicies(i)
      BY <3>1, <3>2 DEF PinnedPolicies
    <3>4. p.models = q.models /\ p.revs = q.revs
      BY <2>1, <2>2, <3>1, <3>2 DEF Unique
    <3> QED BY <3>3, <3>4
  <2>4. \A p \in PinnedPolicies(i) : \E q \in PinnedPolicies(i)' : p.models = q.models /\ p.revs = q.revs
    BY <2>2 DEF PinnedPolicies
  <2>5. ASSUME NEW c \in Content(Pinned(i)') PROVE c \in Content(Pinned(i))
    <3>1. PICK n \in models', q \in PinnedPolicies(i)' :
              c = <<n.slug, n.version>> /\ n.slug \in q.models /\ n.rev = q.revs[n.slug]
      BY DEF Content, Pinned
    <3>2. PICK p \in PinnedPolicies(i) : p.models = q.models /\ p.revs = q.revs
      BY <2>3
    <3>3. PICK m \in models : m.slug = n.slug /\ m.rev = n.rev
      BY <2>1, <3>1, <3>2 DEF PinnedPolicies
    <3>4. m.version = n.version
      BY <2>1, <2>2, <3>1, <3>3 DEF Unique
    <3>5. m \in Pinned(i)
      BY <3>1, <3>2, <3>3 DEF Pinned
    <3> QED BY <3>1, <3>3, <3>4, <3>5 DEF Content
  <2>6. ASSUME NEW c \in Content(Pinned(i)) PROVE c \in Content(Pinned(i)')
    <3>1. PICK m \in models, p \in PinnedPolicies(i) :
              c = <<m.slug, m.version>> /\ m.slug \in p.models /\ m.rev = p.revs[m.slug]
      BY DEF Content, Pinned
    <3>2. PICK q \in PinnedPolicies(i)' : p.models = q.models /\ p.revs = q.revs
      BY <2>4
    <3>3. PICK n \in models' : n.slug = m.slug /\ n.rev = m.rev /\ n.version = m.version
      BY <2>2
    <3>4. n \in Pinned(i)'
      BY <3>1, <3>2, <3>3 DEF Pinned
    <3> QED BY <3>1, <3>3, <3>4 DEF Content
  <2> QED BY <2>5, <2>6
<1> QED BY <1>1, IInvHolds, PTL DEF Spec, PinnedIsFrozen

\* What is published is the document that was synchronised last: one revision of each of its models
\* and policies and none of others, and a policy names the revisions of the models published beside it.
THEOREM CatalogIsAppliedHolds == Spec => []CatalogIsApplied
<1>1. IInv => CatalogIsApplied
  BY DEF IInv
<1> QED BY <1>1, IInvHolds, PTL
=============================================================================
