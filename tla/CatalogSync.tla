---------------------------- MODULE CatalogSync ----------------------------
(***************************************************************************)
(* The catalog file of the Manager and the revisions of models and policies *)
(* it publishes in the database, by which instances are provisioned.        *)
(*                                                                         *)
(*   manager catalog_config.py            Documents, Sync                   *)
(*           app/factory.py               Load, Boot, Reload, Apply         *)
(*           service/short_transactions.py EnsureRead, EnsurePin            *)
(*           service/long_tasks.py        Pinned                            *)
(*                                                                         *)
(* A synchronisation is one transaction.  An ensure reads the published     *)
(* policy and stores it in the instance, and a synchronisation may come     *)
(* between, for the read does not begin a transaction.                      *)
(*                                                                         *)
(* Abstracted: all that a model says besides its slug is a version, and so  *)
(* is all that a policy says besides its slug and its models; a file is the *)
(* document it holds, or Invalid; the error shown for an invalid file is    *)
(* left out, and what ensure does besides is in Operations.                 *)
(***************************************************************************)
EXTENDS Integers, FiniteSets

CONSTANTS
    Models, Default,    \* model slugs, and coding-default
    Policies,           \* policy slugs
    ModelVersions, PolicyVersions,
    Instances,
    Faults,             \* which of {"database", "crash"} the environment may cause
    MaxFaults,          \* bound: faults in one behaviour
    MaxEdits            \* bound: edits of the file in one behaviour

\* No policy; and an empty document, for a file that cannot be read or holds none that is valid.
NoPolicy == [slug |-> "none", rev |-> 0]
Invalid == [models |-> [m \in {} |-> 0], policies |-> [p \in {} |-> 0]]

ASSUME ModelAssumption == Default \in Models
ASSUME BoundAssumption == MaxFaults \in Nat /\ MaxEdits \in Nat /\ Faults \subseteq {"database", "crash"}

VARIABLES
    file,       \* the document in the catalog file
    models,     \* rows of manager_model_deployments
    policies,   \* rows of manager_runner_policies
    applied,    \* catalog_hash: the document synchronized last, by this process
    loop,       \* catalog_reload_loop, and the start of the Manager
    pinned,     \* policy_id of an instance
    ensuring,   \* the policy an ensure has read and not stored yet
    edits, faults

vars == <<file, models, policies, applied, loop, pinned, ensuring, edits, faults>>

------------------------------------------------------------------------------
\* What CatalogDocument accepts: the default model is there, and a policy names known models.
PartialFunctions(S, T) == UNION {[D -> T] : D \in SUBSET S}
PolicyBodies == [models : SUBSET Models \ {{}}, version : PolicyVersions]

Documents ==
    {d \in [models : PartialFunctions(Models, ModelVersions),
            policies : PartialFunctions(Policies, PolicyBodies)] :
        /\ Default \in DOMAIN d.models
        /\ \A p \in DOMAIN d.policies : d.policies[p].models \subseteq DOMAIN d.models}

Init ==
    /\ file \in Documents
    /\ models = {} /\ policies = {}
    /\ applied = Invalid
    /\ loop = [step |-> "down", doc |-> Invalid]
    /\ pinned = [i \in Instances |-> NoPolicy]
    /\ ensuring = [i \in Instances |-> NoPolicy]
    /\ edits = 0 /\ faults = 0

At(step) == loop.step = step
Goto(step, doc) == loop' = [step |-> step, doc |-> doc]
Fault(kind) == kind \in Faults /\ faults < MaxFaults /\ faults' = faults + 1
Serving == loop.step \in {"wait", "sync", "dead"}

------------------------------------------------------------------------------
(* sync_catalog.                                                              *)

Of(rows, slug) == {r \in rows : r.slug = slug}
Published(rows, slug) == {r \in Of(rows, slug) : r.state = "published"}
Latest(rows, slug) == {r \in Of(rows, slug) : \A q \in Of(rows, slug) : q.rev <= r.rev}

\* Mutant: a revision that is gone from the file is counted no more.
NextOfPublished(rows, slug) ==
    IF Published(rows, slug) = {} THEN 1
    ELSE (CHOOSE r \in Published(rows, slug) : TRUE).rev + 1
NextRevision(rows, slug) ==
    IF Of(rows, slug) = {} THEN 1 ELSE (CHOOSE r \in Latest(rows, slug) : TRUE).rev + 1

SameModel(version, slug) ==
    \E r \in Latest(models, slug) : r.state = "published" /\ r.version = version

\* Mutant of SamePolicy: the revisions of the models are not compared.
SameBody(body, revs, slug) ==
    \E r \in Latest(policies, slug) :
        r.state = "published" /\ r.models = body.models /\ r.version = body.version
SamePolicy(body, revs, slug) ==
    \E r \in Latest(policies, slug) :
        /\ r.state = "published"
        /\ r.models = body.models /\ r.version = body.version /\ r.revs = revs

\* Mutant of Aged: the former revision stays published.
AgedNever(r, wanted, renewed) == IF r.slug \in wanted THEN r ELSE [r EXCEPT !.state = "retired"]
Aged(r, wanted, renewed) ==
    CASE r.slug \notin wanted -> [r EXCEPT !.state = "retired"]
      [] r.slug \in renewed /\ r.state = "published" -> [r EXCEPT !.state = "superseded"]
      [] OTHER -> r

NewModels(doc) == {m \in DOMAIN doc.models : ~SameModel(doc.models[m], m)}
ModelRows(doc) ==
    {Aged(r, DOMAIN doc.models, NewModels(doc)) : r \in models}
    \cup {[slug |-> m, rev |-> NextRevision(models, m), version |-> doc.models[m],
           state |-> "published"] : m \in NewModels(doc)}

\* Mutant of Revision: a policy names the next revision of a model that has not changed.
RevisionAhead(doc, m) == NextRevision(models, m)

\* The revision of each model of a policy: a new one, or the latest there is.
Revision(doc, m) ==
    IF m \in NewModels(doc) THEN NextRevision(models, m) ELSE NextRevision(models, m) - 1
Revisions(doc, p) == [m \in doc.policies[p].models |-> Revision(doc, m)]

NewPolicies(doc) ==
    {p \in DOMAIN doc.policies : ~SamePolicy(doc.policies[p], Revisions(doc, p), p)}
PolicyRows(doc) ==
    {Aged(r, DOMAIN doc.policies, NewPolicies(doc)) : r \in policies}
    \cup {[slug |-> p, rev |-> NextRevision(policies, p), models |-> doc.policies[p].models,
           version |-> doc.policies[p].version, revs |-> Revisions(doc, p),
           state |-> "published"] : p \in NewPolicies(doc)}

Sync(doc) ==
    /\ models' = ModelRows(doc)
    /\ policies' = PolicyRows(doc)
    /\ applied' = doc
    /\ Goto("wait", Invalid)

------------------------------------------------------------------------------
(* The start of the Manager and its reload loop.                              *)

\* load_catalog raises for an invalid file.
Load(step) == file # Invalid /\ Goto(step, file)

Boot ==
    /\ At("down")
    /\ Load("boot")
    /\ UNCHANGED <<file, models, policies, applied, pinned, ensuring, edits, faults>>

\* A Manager that cannot synchronize does not start.
BootSync ==
    /\ At("boot")
    /\ \/ Sync(loop.doc) /\ UNCHANGED faults
       \/ Fault("database") /\ Goto("down", Invalid) /\ UNCHANGED <<models, policies, applied>>
    /\ UNCHANGED <<file, pinned, ensuring, edits>>

\* Mutant: the file is compared with nothing but the absence of a catalog.
NeverDiffers == applied = Invalid
Differs == file # applied

Reload ==
    /\ At("wait") /\ Differs
    /\ Load("sync")
    /\ UNCHANGED <<file, models, policies, applied, pinned, ensuring, edits, faults>>

\* An error of the database is not a CatalogConfigError: it ends the loop.
Apply ==
    /\ At("sync")
    /\ \/ Sync(loop.doc) /\ UNCHANGED faults
       \/ Fault("database") /\ Goto("dead", Invalid) /\ UNCHANGED <<models, policies, applied>>
    /\ UNCHANGED <<file, pinned, ensuring, edits>>

Crash ==
    /\ Fault("crash")
    /\ Goto("down", Invalid)
    /\ applied' = Invalid
    /\ ensuring' = [i \in Instances |-> NoPolicy]
    /\ UNCHANGED <<file, models, policies, pinned, edits>>

Edit(doc) ==
    /\ edits < MaxEdits /\ edits' = edits + 1
    /\ file' = doc
    /\ UNCHANGED <<models, policies, applied, loop, pinned, ensuring, faults>>

------------------------------------------------------------------------------
(* PUT instances: the policy of an instance, in two steps.                    *)

\* published_policy.
EnsureRead(i, p) ==
    /\ Serving /\ ensuring[i] = NoPolicy
    /\ \E r \in Published(policies, p) :
        /\ \A q \in Published(policies, p) : q.rev <= r.rev
        /\ ensuring' = [ensuring EXCEPT ![i] = [slug |-> p, rev |-> r.rev]]
    /\ UNCHANGED <<file, models, policies, applied, loop, pinned, edits, faults>>

EnsurePin(i) ==
    /\ ensuring[i] # NoPolicy
    /\ pinned' = [pinned EXCEPT ![i] = ensuring[i]]
    /\ ensuring' = [ensuring EXCEPT ![i] = NoPolicy]
    /\ UNCHANGED <<file, models, policies, applied, loop, edits, faults>>

\* _load: the models an operation provisions an instance with, whatever their state.
PinnedPolicies(i) ==
    {p \in policies : pinned[i] # NoPolicy /\ p.slug = pinned[i].slug /\ p.rev = pinned[i].rev}
Pinned(i) ==
    {m \in models : \E p \in PinnedPolicies(i) : m.slug \in p.models /\ m.rev = p.revs[m.slug]}

Next ==
    \/ Boot \/ BootSync \/ Reload \/ Apply \/ Crash
    \/ \E doc \in Documents \cup {Invalid} : Edit(doc)
    \/ \E i \in Instances, p \in Policies : EnsureRead(i, p)
    \/ \E i \in Instances : EnsurePin(i)

Spec == Init /\ [][Next]_vars

\* The Manager is started again after a crash, and its loop goes on.
FairSpec == Spec /\ WF_vars(Boot) /\ WF_vars(BootSync) /\ WF_vars(Reload) /\ WF_vars(Apply)

------------------------------------------------------------------------------
States == {"published", "superseded", "retired"}
Ids == [slug : Policies, rev : Nat]

\* A revision stands for one row: no synchronisation fails on the unique constraint.
TypeOK ==
    /\ file \in Documents \cup {Invalid}
    /\ models \subseteq [slug : Models, rev : Nat \ {0}, version : ModelVersions, state : States]
    /\ \A p \in policies :
        /\ p.slug \in Policies /\ p.rev \in Nat \ {0} /\ p.state \in States
        /\ p.revs \in [p.models -> Nat \ {0}]
    /\ applied \in Documents \cup {Invalid}
    /\ loop.step \in {"down", "boot", "wait", "sync", "dead"}
    /\ loop.doc \in Documents \cup {Invalid}
    /\ pinned \in [Instances -> Ids \cup {NoPolicy}]
    /\ ensuring \in [Instances -> Ids \cup {NoPolicy}]
    /\ edits \in 0..MaxEdits /\ faults \in 0..MaxFaults
    /\ \A m, n \in models : m.slug = n.slug /\ m.rev = n.rev => m = n
    /\ \A p, q \in policies : p.slug = q.slug /\ p.rev = q.rev => p = q

\* What is published is the last valid document: one revision of every model and policy in it,
\* the policies with the revisions of the models published beside them (sync_catalog).
CatalogIsApplied ==
    applied # Invalid =>
        /\ {<<m.slug, m.version>> : m \in {n \in models : n.state = "published"}}
            = {<<s, applied.models[s]>> : s \in DOMAIN applied.models}
        /\ \A s \in DOMAIN applied.models : Cardinality(Published(models, s)) = 1
        /\ \A s \in Policies \ DOMAIN applied.policies : Published(policies, s) = {}
        /\ \A s \in DOMAIN applied.policies :
            \E p \in policies :
                /\ Published(policies, s) = {p}
                /\ p.models = applied.policies[s].models
                /\ p.version = applied.policies[s].version
                /\ \A m \in p.models : \A r \in models :
                    r.slug = m /\ r.state = "published" => p.revs[m] = r.rev

\* Whatever the file has become since, an instance can be provisioned with every model of its
\* policy (_load).
PinnedIsLoadable ==
    \A i \in Instances :
        pinned[i] # NoPolicy =>
            /\ PinnedPolicies(i) # {}
            /\ \A p \in PinnedPolicies(i) : \A s \in p.models : \E m \in Pinned(i) : m.slug = s

Content(rows) == {<<m.slug, m.version>> : m \in rows}

\* As long as an instance keeps its policy, it is provisioned with the same models, however the
\* catalog changes: revisions are immutable (sync_catalog, _load).
PinnedIsFrozen ==
    [][\A i \in Instances :
         pinned'[i] = pinned[i] => Content(Pinned(i)') = Content(Pinned(i))]_vars

\* Once the file is no longer edited, a valid one is applied, unless the loop has ended
\* (catalog_reload_loop).
FileIsApplied == <>[](file # Invalid /\ ~At("dead") => applied = file)

------------------------------------------------------------------------------
(* A promise the code does not keep: see the README on known disagreements.   *)

\* Once the file is no longer edited, a valid one is applied.
FileIsAlwaysApplied == <>[](file # Invalid => applied = file)
==============================================================================
