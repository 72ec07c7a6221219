-------------------------- MODULE EventJournal_proofs --------------------------
(***************************************************************************)
(* Proofs about EventJournal, for any appenders, streams, segments and      *)
(* faults.                                                                  *)
(*                                                                         *)
(* Two invariants.  TypeInv holds whatever fails, and has what a deletion   *)
(* leaves.  JournalInv holds as long as no restart finds Pi's file of a     *)
(* deleted session, and says why a cursor is enough to read by: the lock    *)
(* makes the number an appender holds the next one (Fresh), so numbers grow *)
(* along the files (Grows) and only what is older than the oldest file is   *)
(* missing (Retained).  A line that is added changes nothing before it.     *)
(***************************************************************************)
EXTENDS EventJournal, SequenceTheorems, FiniteSetTheorems, TLAPS

\* What the table of the streams holds.
Rows == [step : {"closed", "reading", "heartbeat", "waiting"},
         start : Numbers, cursor : Numbers, got : [1..MaxEvents -> Nat]]

------------------------------------------------------------------------------
(* Whatever fails.                                                           *)

Numbered(a) == append[a].step = "numbered"

\* Every number that was given is that of an event, or was lost by a crash, but for the one that
\* the appender with the lock holds.
NumbersInv ==
    /\ \A a \in Appenders : append[a].step # "idle" => made < MaxEvents
    /\ \A a \in Appenders : Numbered(a) => append[a].seq <= made + faults + 1
    /\ seq <= made + faults + 1
    /\ (\A a \in Appenders : ~Numbered(a)) => seq <= made + faults

\* A deletion has no row to append to, then no file to revive the row from, then no segments.
DeleteInv ==
    /\ delete # "idle" => ~Exists
    /\ delete \in {"file", "done"} => ~file
    /\ delete = "done" => Names = {} /\ \A a \in Appenders : ~Numbered(a)

TypeInv == TypeOK /\ NumbersInv /\ DeleteInv

------------------------------------------------------------------------------
(* As long as no half-deleted session comes to life again.                    *)

\* Numbers and ids grow along the journal, and a segment has the name of its first number.
Grows ==
    /\ \A n \in Names : <<n, 1>> \in Places /\ Line(<<n, 1>>).seq = n
    /\ \A p, q \in Places : Before(p, q) => Line(p).seq < Line(q).seq /\ Line(p).id < Line(q).id

\* Nothing is numbered beyond a bound.
UpTo(bound) ==
    /\ \A p \in Places : Line(p).seq <= bound
    /\ \A e \in stored : e.seq <= bound
    /\ \A s \in Streams : stream[s].cursor <= bound

\* The number an appender holds is the next one.
Fresh ==
    /\ Exists => UpTo(seq)
    /\ \A a \in Appenders :
        Numbered(a) => /\ append[a].seq > 0
                       /\ Exists => seq = append[a].seq
                       /\ UpTo(append[a].seq - 1)

\* Only what was made is there.
Made ==
    /\ \A p \in Places : Line(p).id <= made
    /\ \A e \in stored : e.id <= made
    /\ \A s \in Streams : \A id \in Received(s) : id <= made

\* What was stored since the oldest segment began is there.
Retained ==
    \A e \in stored : Names # {} /\ e.seq >= Oldest =>
        \E p \in Places : Line(p).ok /\ Line(p).id = e.id /\ Line(p).seq = e.seq

\* The last line is there, as long as the session is.
EndIsThere == Exists /\ made > 0 => \E p \in Places : Line(p).id = made

\* A client has received no line that is after its cursor.
Seen ==
    \A s \in Streams, p \in Places : Line(p).id \in Received(s) => Line(p).seq <= stream[s].cursor

JournalInv ==
    Grows /\ Fresh /\ Made /\ Retained /\ EndIsThere /\ Seen /\ ReceivedOnce

Inv == TypeInv /\ JournalInv

------------------------------------------------------------------------------
(* The operators on segments and places.                                     *)

LEMMA HasLeast ==
    ASSUME NEW S \in SUBSET Nat, S # {}
    PROVE  \E n \in S : \A m \in S : n <= m
<1>1. PICK n \in S : \A m \in S : ~ (<<m, n>> \in OpToRel(<, Nat))
  BY NatLessThanWellFounded, WFMin
<1>2. \A m \in S : ~ (m < n)
  BY <1>1 DEF OpToRel
<1> QED  BY <1>2

LEMMA HasGreatest ==
    ASSUME NEW N \in Nat, NEW S \in SUBSET (0..N), S # {}
    PROVE  \E n \in S : \A m \in S : n >= m
<1> DEFINE T == {k \in 0..N : N - k \in S}
<1>1. T \in SUBSET Nat  OBVIOUS
<1>2. PICK m \in S : TRUE  OBVIOUS
<1>3. N - m \in T  BY <1>2
<1>4. PICK k \in T : \A j \in T : k <= j  BY <1>1, <1>3, HasLeast
<1>5. \A j \in S : N - j \in T  OBVIOUS
<1> QED  BY <1>4, <1>5

LEMMA OldestIs ==
    ASSUME TypeOK, Names # {}
    PROVE  Oldest \in Names /\ \A m \in Names : Oldest <= m
<1>1. Names \in SUBSET Nat  BY BoundAssumption DEF TypeOK, Numbers
<1>2. \E n \in Names : \A m \in Names : n <= m  BY <1>1, HasLeast
<1> QED  BY <1>2 DEF Oldest

LEMMA NewestIs ==
    ASSUME TypeOK, Names # {}
    PROVE  Newest \in Names /\ \A m \in Names : Newest >= m
<1>1. MaxEvents + MaxFaults \in Nat  BY BoundAssumption
<1>2. Names \in SUBSET (0..(MaxEvents + MaxFaults))  BY DEF TypeOK, Numbers
<1>3. \E n \in Names : \A m \in Names : n >= m  BY <1>1, <1>2, HasGreatest
<1> QED  BY <1>3 DEF Newest

\* Rotation removes the oldest segments, and never the newest.
LEMMA RemovedAre ==
    ASSUME NEW names \in SUBSET Numbers
    PROVE  /\ Removed(names) \subseteq names
           /\ \A n \in Removed(names), m \in names : m <= n => m \in Removed(names)
           /\ \A n \in names : (\A m \in names : m <= n) => n \notin Removed(names)
<1>1. names \in SUBSET Nat  BY BoundAssumption DEF Numbers
<1>2. IsFiniteSet(names)
  <2>1. IsFiniteSet(Numbers)  BY FS_Interval, BoundAssumption DEF Numbers
  <2> QED  BY <2>1, FS_Subset
<1>3. ASSUME NEW n \in Removed(names), NEW m \in names, m <= n
      PROVE  m \in Removed(names)
  <2> DEFINE overN == {j \in names : j > n}
             overM == {j \in names : j > m}
  <2>0. n \in Nat /\ m \in Nat /\ \A j \in names : j \in Nat
    BY <1>1, <1>3 DEF Removed
  <2>1. IsFiniteSet(overM)
    <3>1. overM \in SUBSET names  OBVIOUS
    <3> HIDE DEF overM
    <3> QED  BY <1>2, <3>1, FS_Subset
  <2>2. overN \in SUBSET overM
    <3>1. \A j \in names : j > n => j > m  BY <1>3, <2>0
    <3> QED  BY <3>1
  <2>3. Cardinality(overN) <= Cardinality(overM) /\ IsFiniteSet(overN)
    BY <2>1, <2>2, FS_Subset
  <2>4. Cardinality(overN) \in Nat /\ Cardinality(overM) \in Nat
    BY <2>1, <2>3, FS_CardinalityType
  <2>5. Cardinality(overN) >= SegmentCount  BY DEF Removed
  <2> QED  BY <2>3, <2>4, <2>5, SegmentAssumption DEF Removed
<1>4. ASSUME NEW n \in names, \A m \in names : m <= n
      PROVE  n \notin Removed(names)
  <2>0. \A j \in names : j \in Nat  BY <1>1
  <2>1. {m \in names : m > n} = {}  BY <1>4, <2>0
  <2>2. ~ (Cardinality({m \in names : m > n}) >= SegmentCount)
    BY <2>1, FS_EmptySet, SegmentAssumption
  <2> QED  BY <2>2 DEF Removed
<1> QED  BY <1>3, <1>4 DEF Removed

LEMMA PlacesAre ==
    /\ \A p \in Places : p[1] \in Names /\ p[2] \in DOMAIN segments[p[1]] /\ p = <<p[1], p[2]>>
    /\ \A n \in Names : \A k \in DOMAIN segments[n] : <<n, k>> \in Places
  BY DEF Places

LEMMA LinesAre ==
    ASSUME TypeOK
    PROVE  /\ \A p \in Places : Line(p) \in Lines /\ p[1] \in Nat /\ p[2] \in Nat \ {0}
           /\ \A n \in Names : /\ segments[n] \in Seq(Lines)
                               /\ DOMAIN segments[n] = 1..Len(segments[n])
                               /\ Len(segments[n]) \in Nat
<1>1. \A n \in Names : /\ n \in Nat
                       /\ segments[n] \in Seq(Lines)
                       /\ DOMAIN segments[n] = 1..Len(segments[n])
                       /\ Len(segments[n]) \in Nat
  BY LenProperties, BoundAssumption DEF TypeOK, Numbers
<1>2. \A n \in Names : \A k \in DOMAIN segments[n] : segments[n][k] \in Lines
  BY <1>1, ElementOfSeq
<1> QED  BY <1>1, <1>2, PlacesAre DEF Line

------------------------------------------------------------------------------
(* A line is added.                                                          *)

\* What is written, by a whole line or half a one.
LEMMA WrittenIs ==
    ASSUME TypeInv, NEW a \in Appenders, Numbered(a), NEW ok \in BOOLEAN
    PROVE  LET n == append[a].seq
               all == Written(n, ok)
               target == Target(n)
               k == IF target \in Names THEN Len(segments[target]) + 1 ELSE 1
           IN  /\ DOMAIN all = Names \cup {target}
               /\ target \in Numbers
               /\ target \in Names => target \in {n, Newest}
               /\ target \notin Names => target = n
               /\ \A m \in Names \cup {target} : all[m] \in Seq(Lines)
               /\ \A m \in Names : m # target => all[m] = segments[m]
               /\ target \in Names =>
                    /\ DOMAIN all[target] = DOMAIN segments[target] \cup {k}
                    /\ \A j \in DOMAIN segments[target] : all[target][j] = segments[target][j]
               /\ target \notin Names => DOMAIN all[target] = {1}
               /\ k \in Nat \ {0}
               /\ target \in Names => k \notin DOMAIN segments[target]
               /\ all[target][k] = [id |-> made + 1, seq |-> n, ok |-> ok /\ target \notin torn]
<1> DEFINE n == append[a].seq
           all == Written(n, ok)
           target == Target(n)
           line == [id |-> made + 1, seq |-> n, ok |-> ok /\ target \notin torn]
           k == IF target \in Names THEN Len(segments[target]) + 1 ELSE 1
<1>1. /\ n \in Numbers /\ made \in Nat /\ made < MaxEvents
      /\ Names \subseteq Numbers
  BY DEF TypeInv, TypeOK, NumbersInv, Numbered
<1>2. line \in Lines
  BY <1>1, BoundAssumption DEF Lines
<1>3. /\ target \in Numbers
      /\ target \in Names => target \in {n, Newest}
      /\ target \notin Names => target = n
  BY <1>1, NewestIs DEF Target, TypeInv
<1>4. all = [m \in Names \cup {target} |->
                IF m # target THEN segments[m]
                ELSE IF m \in Names THEN Append(segments[m], line) ELSE <<line>>]
  BY DEF Written
<1> HIDE DEF all, line, target
<1>5. \A m \in Names : /\ segments[m] \in Seq(Lines)
                       /\ DOMAIN segments[m] = 1..Len(segments[m]) /\ Len(segments[m]) \in Nat
  BY LinesAre DEF TypeInv
<1>6. CASE target \in Names
  <2>1. all[target] = Append(segments[target], line)  BY <1>4, <1>6
  <2>2. /\ all[target] \in Seq(Lines)
        /\ DOMAIN all[target] = 1..(Len(segments[target]) + 1)
        /\ all[target][Len(segments[target]) + 1] = line
        /\ \A j \in 1..Len(segments[target]) : all[target][j] = segments[target][j]
    BY <1>2, <1>5, <1>6, <2>1, AppendProperties, LenProperties
  <2>3. k = Len(segments[target]) + 1  BY <1>6
  <2> QED  BY <1>3, <1>4, <1>5, <1>6, <2>2, <2>3 DEF all, target, line
<1>7. CASE target \notin Names
  <2>1. all[target] = <<line>> /\ k = 1  BY <1>4, <1>7
  <2>2. <<line>> \in Seq(Lines) /\ DOMAIN <<line>> = {1} /\ <<line>>[1] = line  BY <1>2
  <2> QED  BY <1>3, <1>4, <1>5, <1>7, <2>1, <2>2 DEF all, target, line
<1> QED  BY <1>6, <1>7

------------------------------------------------------------------------------
(* Types and deletions, whatever fails.                                      *)

LEMMA FaultIs ==
    ASSUME TypeOK, NEW kind, Fault(kind)
    PROVE  faults' \in 0..MaxFaults /\ faults' = faults + 1 /\ kind \in Faults
  BY BoundAssumption DEF TypeOK, Fault

\* Only the appender with the lock is at work.
LEMMA HolderIs ==
    ASSUME TypeInv, NEW a \in Appenders, append[a].step # "idle"
    PROVE  /\ lock = a /\ lock # None
           /\ \A b \in Appenders \ {a} : append[b].step = "idle"
           /\ made < MaxEvents /\ made \in Nat /\ faults \in Nat
           /\ append[a].seq \in Numbers
  BY AppenderAssumption, BoundAssumption DEF TypeInv, TypeOK, NumbersInv

LEMMA NobodyIs ==
    ASSUME TypeInv, lock = None
    PROVE  \A a \in Appenders : append[a].step = "idle"
  BY AppenderAssumption DEF TypeInv, TypeOK

LEMMA ReleaseIs ==
    ASSUME TypeInv, NEW a \in Appenders, append[a].step # "idle", Release(a)
    PROVE  /\ lock' = None
           /\ append' \in [Appenders -> [step : {"idle", "locked", "numbered"}, seq : Numbers]]
           /\ \A b \in Appenders : append'[b].step = "idle"
  BY HolderIs, BoundAssumption DEF Release, Idle, TypeInv, TypeOK, Numbers, None

LEMMA AcquireTypes ==
    ASSUME TypeInv, NEW a \in Appenders, Acquire(a)
    PROVE  TypeInv'
<1>1. /\ lock' = a /\ lock = None /\ made < MaxEvents
      /\ append' = [append EXCEPT ![a].step = "locked"]
      /\ UNCHANGED <<seq, file, segments, torn, delete, stream, made, stored, faults>>
  BY DEF Acquire, Takes
<1>2. /\ append' \in [Appenders -> [step : {"idle", "locked", "numbered"}, seq : Numbers]]
      /\ append'[a].step = "locked"
      /\ \A b \in Appenders \ {a} : append'[b] = append[b] /\ append[b].step = "idle"
  BY <1>1, NobodyIs DEF TypeInv, TypeOK
<1>3. TypeOK'
  BY <1>1, <1>2, AppenderAssumption DEF TypeInv, TypeOK, Names
<1>4. NumbersInv'
  BY <1>1, <1>2, NobodyIs DEF TypeInv, NumbersInv, Numbered
<1>5. DeleteInv'
  BY <1>1, <1>2 DEF TypeInv, DeleteInv, Numbered, Exists, Names
<1> QED  BY <1>3, <1>4, <1>5 DEF TypeInv

LEMMA NumberTypes ==
    ASSUME TypeInv, NEW a \in Appenders, Number(a)
    PROVE  TypeInv'
<1>1. /\ append[a].step = "locked" /\ append[a].step # "idle"
      /\ UNCHANGED <<file, segments, torn, delete, stream, made, stored, faults>>
  BY DEF Number
<1>2. /\ lock = a /\ made < MaxEvents /\ made \in Nat /\ faults \in Nat
      /\ \A b \in Appenders \ {a} : append[b].step = "idle"
      /\ \A b \in Appenders : ~Numbered(b)
  BY <1>1, HolderIs DEF Numbered
<1>3. CASE /\ Exists
           /\ seq' = seq + 1
           /\ append' = [append EXCEPT ![a] = [step |-> "numbered", seq |-> seq + 1]]
           /\ UNCHANGED lock
  <2>1. seq <= made + faults  BY <1>2 DEF TypeInv, NumbersInv
  <2>2. faults <= MaxFaults /\ seq \in Nat
    BY <1>3, BoundAssumption DEF TypeInv, TypeOK, Exists, Numbers
  <2>3. seq + 1 \in Numbers  BY <1>2, <2>1, <2>2, BoundAssumption DEF Numbers
  <2>4. /\ append' \in [Appenders -> [step : {"idle", "locked", "numbered"}, seq : Numbers]]
        /\ append'[a].step = "numbered" /\ append'[a].seq = seq + 1
        /\ \A b \in Appenders \ {a} : append'[b] = append[b]
    BY <1>3, <2>3 DEF TypeInv, TypeOK
  <2>5. TypeOK'
    BY <1>1, <1>2, <1>3, <2>3, <2>4 DEF TypeInv, TypeOK, Names
  <2>6. NumbersInv'
    BY <1>1, <1>2, <1>3, <2>1, <2>2, <2>4 DEF NumbersInv, Numbered
  <2>7. DeleteInv'
    BY <1>1, <1>3, <2>2, <2>4 DEF TypeInv, DeleteInv, Numbered, Exists, Names
  <2> QED  BY <2>5, <2>6, <2>7 DEF TypeInv
<1>4. CASE Release(a) /\ UNCHANGED seq
  <2>1. TypeOK'
    BY <1>1, <1>4, ReleaseIs, AppenderAssumption DEF TypeInv, TypeOK, Names
  <2>2. NumbersInv'
    BY <1>1, <1>2, <1>4, ReleaseIs DEF TypeInv, NumbersInv, Numbered
  <2>3. DeleteInv'
    BY <1>1, <1>4, ReleaseIs DEF TypeInv, DeleteInv, Numbered, Exists, Names
  <2> QED  BY <2>1, <2>2, <2>3 DEF TypeInv
<1> QED  BY <1>3, <1>4 DEF Number

\* What writing a line and tearing one have in common.
LEMMA WritingTypes ==
    ASSUME TypeInv, NEW a \in Appenders, Numbered(a), Release(a),
           Names' \subseteq Numbers, \A n \in Names' : segments'[n] \in Seq(Lines),
           torn' \subseteq Names', made' = made + 1,
           stored' \subseteq [id : 1..MaxEvents, seq : Numbers],
           stream' \in [Streams -> Rows],
           UNCHANGED <<seq, file, delete>>,
           faults' \in 0..MaxFaults, faults' >= faults
    PROVE  TypeInv'
<1>1. /\ lock = a /\ made < MaxEvents /\ made \in Nat /\ faults \in Nat
      /\ \A b \in Appenders : append'[b].step = "idle"
  BY HolderIs, ReleaseIs DEF Numbered
<1>2. made' \in 0..MaxEvents  BY <1>1, BoundAssumption
<1>3. TypeOK'
  BY <1>1, <1>2, ReleaseIs, AppenderAssumption DEF TypeInv, TypeOK, Numbered, Rows
<1>4. NumbersInv'
  <2>1. seq <= made + faults + 1 /\ seq \in Int
    BY BoundAssumption DEF TypeInv, TypeOK, NumbersInv, Numbers
  <2>2. faults' \in Nat  BY BoundAssumption
  <2> QED  BY <1>1, <2>1, <2>2 DEF NumbersInv, Numbered
<1>5. DeleteInv'
  BY <1>1 DEF TypeInv, DeleteInv, Numbered, Exists
<1> QED  BY <1>3, <1>4, <1>5 DEF TypeInv

LEMMA WriteTypes ==
    ASSUME TypeInv, NEW a \in Appenders, Write(a)
    PROVE  TypeInv'
<1> DEFINE n == append[a].seq
           all == Written(n, TRUE)
           gone == Removed(DOMAIN all)
<1>1. /\ Numbered(a) /\ Release(a)
      /\ segments' = [name \in DOMAIN all \ gone |-> all[name]]
      /\ torn' = torn \ ({Target(n)} \cup gone)
      /\ stored' = IF Target(n) \in torn THEN stored
                   ELSE stored \cup {[id |-> made + 1, seq |-> n]}
      /\ made' = made + 1
      /\ stream' = [s \in Streams |->
                      IF stream[s].step = "waiting" THEN [stream[s] EXCEPT !.step = "reading"]
                                                    ELSE stream[s]]
      /\ UNCHANGED <<seq, file, delete, faults>>
  BY DEF Write, Numbered
<1>2. /\ DOMAIN all = Names \cup {Target(n)} /\ Target(n) \in Numbers
      /\ \A m \in Names \cup {Target(n)} : all[m] \in Seq(Lines)
  BY <1>1, WrittenIs
<1> HIDE DEF all, gone
<1>3. /\ Names' = DOMAIN all \ gone
      /\ \A m \in Names' : segments'[m] \in Seq(Lines)
  BY <1>1, <1>2 DEF Names
<1>4. Names' \subseteq Numbers /\ torn' \subseteq Names'
  BY <1>1, <1>2, <1>3 DEF TypeInv, TypeOK
<1>5. stored' \subseteq [id : 1..MaxEvents, seq : Numbers]
  <2>1. made + 1 \in 1..MaxEvents /\ n \in Numbers
    BY <1>1, HolderIs, BoundAssumption DEF Numbered
  <2>2. stored \subseteq [id : 1..MaxEvents, seq : Numbers]  BY DEF TypeInv, TypeOK
  <2> QED  BY <1>1, <2>1, <2>2
<1>6. stream' \in [Streams -> Rows]
  <2>1. \A s \in Streams : stream[s] \in Rows  BY DEF TypeInv, TypeOK, Rows
  <2>2. ASSUME NEW row \in Rows PROVE [row EXCEPT !.step = "reading"] \in Rows
    BY DEF Rows
  <2> QED  BY <1>1, <2>1, <2>2
<1>7. faults' \in 0..MaxFaults /\ faults' >= faults
  BY <1>1, BoundAssumption DEF TypeInv, TypeOK
<1> QED  BY <1>1, <1>3, <1>4, <1>5, <1>6, <1>7, WritingTypes

LEMMA TearTypes ==
    ASSUME TypeInv, NEW a \in Appenders, Tear(a)
    PROVE  TypeInv'
<1> DEFINE n == append[a].seq
           all == Written(n, FALSE)
<1>1. /\ Numbered(a) /\ Release(a) /\ Fault("torn")
      /\ segments' = all
      /\ torn' = torn \cup {Target(n)}
      /\ made' = made + 1
      /\ UNCHANGED <<seq, file, delete, stream, stored>>
  BY DEF Tear, Numbered
<1>2. /\ DOMAIN all = Names \cup {Target(n)} /\ Target(n) \in Numbers
      /\ \A m \in Names \cup {Target(n)} : all[m] \in Seq(Lines)
  BY <1>1, WrittenIs
<1> HIDE DEF all
<1>3. /\ Names' = Names \cup {Target(n)}
      /\ \A m \in Names' : segments'[m] \in Seq(Lines)
  BY <1>1, <1>2 DEF Names
<1>4. Names' \subseteq Numbers /\ torn' \subseteq Names'
  BY <1>1, <1>2, <1>3 DEF TypeInv, TypeOK
<1>5. faults' \in 0..MaxFaults /\ faults' >= faults
  BY <1>1, FaultIs, BoundAssumption DEF TypeInv, TypeOK
<1> QED  BY <1>1, <1>3, <1>4, <1>5, WritingTypes DEF TypeInv, TypeOK, Rows

\* A step of a stream changes nothing else.
LEMMA StreamTypes ==
    ASSUME TypeInv, UNCHANGED <<seq, file, segments, torn, lock, append, delete, made, stored>>,
           faults' \in 0..MaxFaults, faults' >= faults,
           stream' \in [Streams -> Rows]
    PROVE  TypeInv'
<1>1. TypeOK'  BY DEF TypeInv, TypeOK, Names, Rows
<1>2. NumbersInv'
  <2>1. faults \in Nat /\ faults' \in Nat /\ made \in Nat /\ seq \in Int
        /\ \A a \in Appenders : append[a].seq \in Nat
    BY BoundAssumption DEF TypeInv, TypeOK, Numbers
  <2>2. /\ \A a \in Appenders : append[a].step # "idle" => made < MaxEvents
        /\ \A a \in Appenders : Numbered(a) => append[a].seq <= made + faults + 1
        /\ seq <= made + faults + 1
        /\ (\A a \in Appenders : ~Numbered(a)) => seq <= made + faults
    BY DEF TypeInv, NumbersInv
  <2>3. \A k \in Int : /\ k <= made + faults + 1 => k <= made + faults' + 1
                       /\ k <= made + faults => k <= made + faults'
    <3>1. \A f, g, m \in Nat, k \in Int :
             g >= f => /\ k <= m + f + 1 => k <= m + g + 1
                       /\ k <= m + f => k <= m + g
      OBVIOUS
    <3> QED  BY <2>1, <3>1
  <2>4. /\ \A a \in Appenders : Numbered(a)' <=> Numbered(a)
        /\ \A a \in Appenders : append'[a] = append[a]
        /\ made' = made /\ seq' = seq
    BY DEF Numbered
  <2> HIDE DEF Numbered
  <2>5. ASSUME NEW a \in Appenders, Numbered(a)'
        PROVE  append'[a].seq <= made' + faults' + 1
    <3>1. append[a].seq <= made + faults + 1  BY <2>2, <2>4, <2>5
    <3>2. append[a].seq \in Int  BY <2>1
    <3>3. append[a].seq <= made + faults' + 1  BY <2>3, <3>1, <3>2
    <3> QED  BY <2>4, <3>3
  <2>6. seq' <= made' + faults' + 1
    BY <2>1, <2>2, <2>3, <2>4
  <2>7. (\A a \in Appenders : ~Numbered(a)') => seq' <= made' + faults'
    BY <2>1, <2>2, <2>3, <2>4
  <2>8. \A a \in Appenders : append'[a].step # "idle" => made' < MaxEvents
    BY <2>2, <2>4
  <2> QED  BY <2>5, <2>6, <2>7, <2>8 DEF NumbersInv
<1>3. DeleteInv'  BY DEF TypeInv, DeleteInv, Numbered, Exists, Names
<1> QED  BY <1>1, <1>2, <1>3 DEF TypeInv

\* The rows of the streams but one stay; that one keeps, or changes, each of its fields.
LEMMA OpenIs ==
    ASSUME TypeInv, NEW s \in Streams, Open(s)
    PROVE  /\ stream' \in [Streams -> Rows]
           /\ \A r \in Streams \ {s} : stream'[r] = stream[r]
           /\ stream'[s].got = stream[s].got
           /\ \/ /\ Names # {} /\ Oldest \in Names /\ stream[s].cursor < Oldest - 1
                 /\ stream'[s].start = Oldest /\ stream'[s].cursor = Oldest
              \/ stream'[s].start = stream[s].start /\ stream'[s].cursor = stream[s].cursor
<1>1. stream \in [Streams -> Rows]
  BY DEF TypeInv, TypeOK, Rows
<1>2. CASE Expired(stream[s].cursor)
  <2>1. Names # {} /\ Oldest \in Names /\ Oldest \in Numbers /\ stream[s].cursor < Oldest - 1
    BY <1>2, OldestIs DEF Expired, TypeInv, TypeOK
  <2> DEFINE row == [stream[s] EXCEPT !.start = Oldest, !.cursor = Oldest]
  <2>2. stream' = [stream EXCEPT ![s] = row]  BY <1>2 DEF Open
  <2>3. /\ row \in Rows
        /\ row.got = stream[s].got /\ row.start = Oldest /\ row.cursor = Oldest
    BY <1>1, <2>1 DEF Rows
  <2> HIDE DEF row
  <2> QED  BY <1>1, <2>1, <2>2, <2>3
<1>3. CASE ~Expired(stream[s].cursor)
  <2>1. stream' = [stream EXCEPT ![s] = [stream[s] EXCEPT !.step = "reading"]]  BY <1>3 DEF Open
  <2> QED  BY <1>1, <2>1 DEF Rows
<1> QED  BY <1>2, <1>3

\* What a read sends are the readable lines after the cursor, up to one of them.
SentUpTo(s, last) == {Line(p).id : p \in {q \in After(stream[s].cursor) : ~Before(last, q)}}

LEMMA ReadIs ==
    ASSUME TypeInv, NEW s \in Streams, Read(s)
    PROVE  /\ stream' \in [Streams -> Rows]
           /\ \A r \in Streams \ {s} : stream'[r] = stream[r]
           /\ stream'[s].start = stream[s].start
           /\ \/ stream'[s].cursor = stream[s].cursor /\ stream'[s].got = stream[s].got
              \/ /\ ~Expired(stream[s].cursor)
                 /\ \E last \in After(stream[s].cursor) :
                      /\ stream'[s].cursor = Line(last).seq
                      /\ \A id \in 1..MaxEvents :
                            stream'[s].got[id] =
                               stream[s].got[id] + (IF id \in SentUpTo(s, last) THEN 1 ELSE 0)
<1>1. stream \in [Streams -> Rows] /\ stream[s] \in Rows
  BY DEF TypeInv, TypeOK, Rows
<1>2. ASSUME NEW step \in {"closed", "heartbeat"}, stream' = [stream EXCEPT ![s].step = step]
      PROVE  /\ stream' \in [Streams -> Rows]
             /\ \A r \in Streams \ {s} : stream'[r] = stream[r]
             /\ stream'[s].start = stream[s].start
             /\ stream'[s].cursor = stream[s].cursor /\ stream'[s].got = stream[s].got
  BY <1>1, <1>2 DEF Rows
<1>3. ASSUME ~Expired(stream[s].cursor), NEW last \in After(stream[s].cursor),
             NEW step \in {"closed", "reading"},
             stream' = [stream EXCEPT
                   ![s].step = step,
                   ![s].cursor = Line(last).seq,
                   ![s].got = [id \in 1..MaxEvents |->
                                  @[id] + (IF id \in SentUpTo(s, last) THEN 1 ELSE 0)]]
      PROVE  /\ stream' \in [Streams -> Rows]
             /\ \A r \in Streams \ {s} : stream'[r] = stream[r]
             /\ stream'[s].start = stream[s].start
             /\ stream'[s].cursor = Line(last).seq
             /\ \A id \in 1..MaxEvents :
                   stream'[s].got[id] =
                       stream[s].got[id] + (IF id \in SentUpTo(s, last) THEN 1 ELSE 0)
  <2> DEFINE next == [id \in 1..MaxEvents |->
                         stream[s].got[id] + (IF id \in SentUpTo(s, last) THEN 1 ELSE 0)]
             row == [stream[s] EXCEPT !.step = step, !.cursor = Line(last).seq, !.got = next]
  <2>1. stream' = [stream EXCEPT ![s] = row]  BY <1>1, <1>3
  <2>2. Line(last).seq \in Numbers
    <3>1. Line(last) \in Lines  BY LinesAre DEF After, TypeInv
    <3> QED  BY <3>1 DEF Lines
  <2>3. next \in [1..MaxEvents -> Nat]
    <3>1. stream[s].got \in [1..MaxEvents -> Nat]  BY <1>1 DEF Rows
    <3>2. \A id \in 1..MaxEvents : (IF id \in SentUpTo(s, last) THEN 1 ELSE 0) \in Nat  OBVIOUS
    <3>3. \A id \in 1..MaxEvents :
             stream[s].got[id] + (IF id \in SentUpTo(s, last) THEN 1 ELSE 0) \in Nat
      <4>1. \A x, y \in Nat : x + y \in Nat  OBVIOUS
      <4>2. \A id \in 1..MaxEvents : stream[s].got[id] \in Nat  BY <3>1
      <4> QED  BY <3>2, <4>1, <4>2
    <3> QED  BY <3>3
  <2>4. \A id \in 1..MaxEvents :
           next[id] = stream[s].got[id] + (IF id \in SentUpTo(s, last) THEN 1 ELSE 0)
    OBVIOUS
  <2> HIDE DEF next
  <2>5. /\ row \in Rows /\ row.start = stream[s].start /\ row.cursor = Line(last).seq
        /\ row.got = next
    BY <1>1, <2>2, <2>3 DEF Rows
  <2> HIDE DEF row
  <2> QED  BY <1>1, <2>1, <2>4, <2>5
<1>4. \/ \E step \in {"closed", "heartbeat"} : stream' = [stream EXCEPT ![s].step = step]
      \/ /\ ~Expired(stream[s].cursor)
         /\ \E last \in After(stream[s].cursor), step \in {"closed", "reading"} :
             stream' = [stream EXCEPT
                   ![s].step = step,
                   ![s].cursor = Line(last).seq,
                   ![s].got = [id \in 1..MaxEvents |->
                                  @[id] + (IF id \in SentUpTo(s, last) THEN 1 ELSE 0)]]
  BY DEF Read, SentUpTo
<1>5. CASE \E step \in {"closed", "heartbeat"} : stream' = [stream EXCEPT ![s].step = step]
  BY <1>2, <1>5
<1> QED  BY <1>3, <1>4, <1>5

\* The stream only moves on in its program.
Kept(r) ==
    /\ stream'[r].start = stream[r].start
    /\ stream'[r].cursor = stream[r].cursor
    /\ stream'[r].got = stream[r].got

LEMMA StepIs ==
    ASSUME TypeInv, NEW s \in Streams, NEW step \in {"closed", "reading", "heartbeat", "waiting"},
           stream' = [stream EXCEPT ![s].step = step]
    PROVE  stream' \in [Streams -> Rows] /\ \A r \in Streams : Kept(r)
<1>1. \A r \in Streams : stream[r] \in Rows  BY DEF TypeInv, TypeOK, Rows
<1>2. stream \in [Streams -> Rows]  BY DEF TypeInv, TypeOK, Rows
<1>3. stream' = [stream EXCEPT ![s] = [stream[s] EXCEPT !.step = step]]  BY <1>1
<1>4. /\ [stream[s] EXCEPT !.step = step] \in Rows
      /\ [stream[s] EXCEPT !.step = step].start = stream[s].start
      /\ [stream[s] EXCEPT !.step = step].cursor = stream[s].cursor
      /\ [stream[s] EXCEPT !.step = step].got = stream[s].got
  BY <1>1 DEF Rows
<1> QED  BY <1>2, <1>3, <1>4 DEF Kept

LEMMA StreamingTypes ==
    ASSUME TypeInv, NEW s \in Streams, Streaming(s) \/ Disconnect(s)
    PROVE  TypeInv'
<1>1. faults \in 0..MaxFaults  BY DEF TypeInv, TypeOK
<1>2. faults \in Nat  BY <1>1, BoundAssumption
<1>3. CASE Open(s) \/ Read(s)
  <2>1. stream' \in [Streams -> Rows]  BY <1>3, OpenIs, ReadIs
  <2>2. UNCHANGED <<seq, file, segments, torn, lock, append, delete, made, stored, faults>>
    BY <1>3 DEF Open, Read
  <2> QED  BY <1>1, <1>2, <2>1, <2>2, StreamTypes
<1>4. CASE Wait(s) \/ TimeOut(s)
  <2>1. stream' \in [Streams -> Rows]  BY <1>4, StepIs DEF Wait, TimeOut
  <2>2. UNCHANGED <<seq, file, segments, torn, lock, append, delete, made, stored, faults>>
    BY <1>4 DEF Wait, TimeOut
  <2> QED  BY <1>1, <1>2, <2>1, <2>2, StreamTypes
<1>5. CASE Disconnect(s)
  <2>1. stream' \in [Streams -> Rows]  BY <1>5, StepIs DEF Disconnect
  <2>2. UNCHANGED <<seq, file, segments, torn, lock, append, delete, made, stored>>
    BY <1>5 DEF Disconnect
  <2>3. Fault("disconnect")  BY <1>5 DEF Disconnect
  <2>4. faults' \in 0..MaxFaults /\ faults' = faults + 1  BY <2>3, FaultIs DEF TypeInv
  <2> QED  BY <1>2, <2>1, <2>2, <2>4, StreamTypes
<1> QED  BY <1>3, <1>4, <1>5 DEF Streaming

LEMMA DeletionTypes ==
    ASSUME TypeInv, DeleteRow \/ Unlink \/ DeleteJournal
    PROVE  TypeInv'
<1>0. /\ faults \in Nat /\ made \in Nat /\ seq \in Int
  BY BoundAssumption DEF TypeInv, TypeOK, Numbers
<1>1. CASE DeleteRow
  <2>1. /\ delete = "idle" /\ seq' = -1 /\ delete' = "row"
        /\ UNCHANGED <<file, segments, torn, lock, append, stream, made, stored, faults>>
    BY <1>1 DEF DeleteRow
  <2>2. TypeOK'  BY <2>1 DEF TypeInv, TypeOK, Names
  <2>3. NumbersInv'  BY <1>0, <2>1 DEF TypeInv, NumbersInv, Numbered
  <2>4. DeleteInv'  BY <2>1 DEF DeleteInv, Exists
  <2> QED  BY <2>2, <2>3, <2>4 DEF TypeInv
<1>2. CASE Unlink
  <2>1. /\ delete = "row"
        /\ UNCHANGED <<seq, segments, torn, lock, append, stream, made, stored>>
        /\ \/ file' = FALSE /\ delete' = "file"
           \/ file' = file /\ delete' = "idle"
    BY <1>2 DEF Unlink
  <2>2. faults' \in 0..MaxFaults /\ (faults' = faults \/ faults' = faults + 1)
    <3>1. CASE faults' = faults  BY <1>0, <3>1 DEF TypeInv, TypeOK
    <3>2. CASE Fault("unlink")  BY <1>0, <3>2, FaultIs DEF TypeInv
    <3>3. faults' = faults \/ Fault("unlink")  BY <1>2 DEF Unlink
    <3> QED  BY <3>1, <3>2, <3>3
  <2>3. TypeOK'  BY <2>1, <2>2 DEF TypeInv, TypeOK, Names
  <2>4. NumbersInv'
    <3>1. CASE faults' = faults
      BY <2>1, <3>1 DEF TypeInv, NumbersInv, Numbered
    <3>2. CASE faults' = faults + 1
      <4>1. \A k \in Int : /\ k <= made + faults => k <= made + faults + 1
                           /\ k <= made + faults + 1 => k <= made + (faults + 1) + 1
        BY <1>0
      <4>2. \A a \in Appenders : append[a].seq \in Int
        BY BoundAssumption DEF TypeInv, TypeOK, Numbers
      <4> QED  BY <1>0, <2>1, <3>2, <4>1, <4>2 DEF TypeInv, NumbersInv, Numbered
    <3> QED  BY <2>2, <3>1, <3>2
  <2>5. DeleteInv'  BY <2>1 DEF TypeInv, DeleteInv, Exists
  <2> QED  BY <2>3, <2>4, <2>5 DEF TypeInv
<1>3. CASE DeleteJournal
  <2>1. /\ delete = "file" /\ lock = None /\ delete' = "done"
        /\ segments' = << >> /\ torn' = {}
        /\ UNCHANGED <<seq, file, lock, append, stream, made, stored, faults>>
    BY <1>3 DEF DeleteJournal, Clears
  <2>2. Names' = {}  BY <2>1 DEF Names
  <2>3. TypeOK'  BY <2>1, <2>2 DEF TypeInv, TypeOK
  <2>4. NumbersInv'  BY <2>1 DEF TypeInv, NumbersInv, Numbered
  <2>5. DeleteInv'
    BY <2>1, <2>2, NobodyIs DEF TypeInv, DeleteInv, Exists, Numbered
  <2> QED  BY <2>3, <2>4, <2>5 DEF TypeInv
<1> QED  BY <1>1, <1>2, <1>3

\* What a restart leaves: nobody at work, no stream open.
LEMMA RestartIs ==
    ASSUME TypeInv, Restart
    PROVE  /\ lock' = None
           /\ append' \in [Appenders -> [step : {"idle", "locked", "numbered"}, seq : Numbers]]
           /\ \A a \in Appenders : append'[a].step = "idle"
           /\ stream' \in [Streams -> Rows]
           /\ \A r \in Streams : Kept(r)
           /\ faults' \in 0..MaxFaults /\ faults' = faults + 1
           /\ seq' = IF ~Exists /\ file THEN 0 ELSE seq
           /\ delete' = IF delete = "done" THEN "done" ELSE "idle"
           /\ UNCHANGED <<file, segments, torn, made, stored>>
<1>1. /\ lock' = None /\ append' = [a \in Appenders |-> Idle]
      /\ seq' = IF ~Exists /\ file THEN 0 ELSE seq
      /\ delete' = IF delete = "done" THEN "done" ELSE "idle"
      /\ stream' = [s \in Streams |-> [stream[s] EXCEPT !.step = "closed"]]
      /\ UNCHANGED <<file, segments, torn, made, stored>>
  BY DEF Restart
<1>2. Idle \in [step : {"idle", "locked", "numbered"}, seq : Numbers] /\ Idle.step = "idle"
  BY BoundAssumption DEF Idle, Numbers, None
<1>3. \A r \in Streams : stream[r] \in Rows  BY DEF TypeInv, TypeOK, Rows
<1>4. ASSUME NEW row \in Rows
      PROVE  /\ [row EXCEPT !.step = "closed"] \in Rows
             /\ [row EXCEPT !.step = "closed"].start = row.start
             /\ [row EXCEPT !.step = "closed"].cursor = row.cursor
             /\ [row EXCEPT !.step = "closed"].got = row.got
  BY DEF Rows
<1>5. stream' \in [Streams -> Rows] /\ \A r \in Streams : Kept(r)
  BY <1>1, <1>3, <1>4 DEF Kept
<1>6. Fault(IF ~Exists /\ file THEN "halfway" ELSE "crash")  BY DEF Restart
<1>7. faults' \in 0..MaxFaults /\ faults' = faults + 1  BY <1>6, FaultIs DEF TypeInv
<1> QED  BY <1>1, <1>2, <1>5, <1>7

LEMMA RestartTypes ==
    ASSUME TypeInv, Restart
    PROVE  TypeInv'
<1>0. /\ faults \in Nat /\ made \in Nat /\ seq \in Int /\ 0 \in Numbers
  BY BoundAssumption DEF TypeInv, TypeOK, Numbers
<1>1. TypeOK'
  <2>1. seq' \in Numbers \cup {-1}  BY <1>0, RestartIs DEF TypeInv, TypeOK
  <2> QED
    BY <2>1, RestartIs, AppenderAssumption DEF TypeInv, TypeOK, Names, Rows
<1>2. NumbersInv'
  <2>1. seq' <= made + faults + 1  BY <1>0, RestartIs DEF TypeInv, NumbersInv
  <2> QED  BY <1>0, <2>1, RestartIs DEF NumbersInv, Numbered
<1>3. DeleteInv'
  <2>1. delete' = "done" => delete = "done"  BY RestartIs
  <2>2. delete' # "idle" => delete' = "done"  BY RestartIs
  <2>3. \A a \in Appenders : ~Numbered(a)'  BY RestartIs DEF Numbered
  <2>4. delete = "done" => seq' = seq /\ ~Exists /\ Names' = {} /\ ~file'
    BY RestartIs DEF TypeInv, DeleteInv, Exists, Names
  <2> QED  BY <2>1, <2>2, <2>3, <2>4 DEF DeleteInv, Exists
<1> QED  BY <1>1, <1>2, <1>3 DEF TypeInv

LEMMA TypesInit == Init => TypeInv
<1> SUFFICES ASSUME Init PROVE TypeInv
  OBVIOUS
<1> USE DEF Init
<1>1. 0 \in Numbers /\ Names = {}  BY BoundAssumption DEF Numbers, Names
<1>2. TypeOK
  BY <1>1, BoundAssumption, AppenderAssumption DEF TypeOK, Idle, Closed, None
<1>3. NumbersInv  BY BoundAssumption DEF NumbersInv, Numbered, Idle
<1>4. DeleteInv  BY DEF DeleteInv
<1> QED  BY <1>2, <1>3, <1>4 DEF TypeInv

LEMMA TypesStep == TypeInv /\ [Next]_vars => TypeInv'
<1> SUFFICES ASSUME TypeInv, [Next]_vars PROVE TypeInv'
  OBVIOUS
<1>1. ASSUME NEW a \in Appenders, Acquire(a) \/ Appending(a) \/ Tear(a)  PROVE TypeInv'
  BY <1>1, AcquireTypes, NumberTypes, WriteTypes, TearTypes DEF Appending
<1>2. ASSUME NEW s \in Streams, Streaming(s) \/ Disconnect(s)  PROVE TypeInv'
  BY <1>2, StreamingTypes
<1>3. CASE DeleteRow \/ Unlink \/ DeleteJournal
  BY <1>3, DeletionTypes
<1>4. CASE Restart
  BY <1>4, RestartTypes
<1>5. CASE UNCHANGED vars
  BY <1>5 DEF vars, TypeInv, TypeOK, NumbersInv, DeleteInv, Numbered, Exists, Names
<1> QED  BY <1>1, <1>2, <1>3, <1>4, <1>5 DEF Next

LEMMA TypeInvHolds == Spec => []TypeInv
  BY TypesInit, TypesStep, PTL DEF Spec

------------------------------------------------------------------------------
(* The journal, as long as no half-deleted session comes to life again.      *)

\* What the invariant knows of places: their order is total, lines grow along it.
LEMMA PlacesGrow ==
    ASSUME Inv
    PROVE  /\ \A p \in Places : Line(p).id \in Nat /\ Line(p).seq \in Nat
           /\ \A p, q \in Places : ~Before(p, q) => p = q \/ Before(q, p)
           /\ \A p, q \in Places : ~Before(p, q) => Line(q).seq <= Line(p).seq
           /\ \A p, q \in Places : Line(p).id = Line(q).id => p = q
           /\ \A n \in Names : n \in Nat /\ <<n, 1>> \in Places /\ Line(<<n, 1>>).seq = n
<1>1. /\ \A p \in Places : Line(p) \in Lines /\ p[1] \in Nat /\ p[2] \in Nat
      /\ \A p \in Places : p = <<p[1], p[2]>>
  BY LinesAre, PlacesAre DEF Inv, TypeInv
<1>2. \A p \in Places : Line(p).id \in Nat /\ Line(p).seq \in Nat
  BY <1>1, BoundAssumption DEF Lines, Numbers
<1>3. \A p, q \in Places : ~Before(p, q) => p = q \/ Before(q, p)
  BY <1>1 DEF Before
<1>4. \A p, q \in Places : Before(p, q) => Line(p).seq < Line(q).seq /\ Line(p).id < Line(q).id
  BY DEF Inv, JournalInv, Grows
<1>5. \A p, q \in Places : ~Before(p, q) => Line(q).seq <= Line(p).seq
  BY <1>2, <1>3, <1>4
<1>6. \A p, q \in Places : Line(p).id = Line(q).id => p = q
  BY <1>2, <1>3, <1>4
<1>7. \A n \in Names : n \in Nat /\ <<n, 1>> \in Places /\ Line(<<n, 1>>).seq = n
  <2>1. \A n \in Names : n \in Nat  BY BoundAssumption DEF Inv, TypeInv, TypeOK, Numbers
  <2> QED  BY <2>1 DEF Inv, JournalInv, Grows
<1> QED  BY <1>2, <1>3, <1>5, <1>6, <1>7

\* A step that changes no line, nothing stored and nothing received.
LEMMA QuietKeeps ==
    ASSUME Inv, UNCHANGED <<segments, made, stored>>, \A r \in Streams : Kept(r),
           Exists' => Exists /\ seq' = seq,
           \A a \in Appenders : Numbered(a)' => Numbered(a) /\ append'[a] = append[a]
    PROVE  JournalInv'
<1>1. /\ Names' = Names /\ Places' = Places /\ Oldest' = Oldest
      /\ \A p \in Places : Line(p)' = Line(p)
      /\ \A s \in Streams : Received(s)' = Received(s)
  BY DEF Names, Places, Oldest, Line, Received, Kept
<1>2. \A bound : UpTo(bound) => UpTo(bound)'
  BY <1>1 DEF UpTo, Kept
<1>3. Grows' /\ Made' /\ Seen' /\ Retained' /\ EndIsThere'
  BY <1>1 DEF Inv, JournalInv, Grows, Made, Seen, Retained, EndIsThere, Kept
<1>4. ReceivedOnce'
  BY <1>1 DEF Inv, JournalInv, ReceivedOnce, Kept
<1>5. Fresh'
  BY <1>2 DEF Inv, JournalInv, Fresh
<1> QED  BY <1>3, <1>4, <1>5 DEF JournalInv

LEMMA AcquireKeeps ==
    ASSUME Inv, NEW a \in Appenders, Acquire(a)
    PROVE  JournalInv'
<1>1. /\ append' = [append EXCEPT ![a].step = "locked"]
      /\ UNCHANGED <<seq, file, segments, torn, delete, stream, made, stored, faults>>
  BY DEF Acquire
<1>2. \A b \in Appenders : Numbered(b)' => Numbered(b) /\ append'[b] = append[b]
  BY <1>1 DEF Inv, TypeInv, TypeOK, Numbered
<1> QED  BY <1>1, <1>2, QuietKeeps DEF Inv, JournalInv, Exists, Kept

LEMMA NumberKeeps ==
    ASSUME Inv, NEW a \in Appenders, Number(a)
    PROVE  JournalInv'
<1>1. /\ append[a].step = "locked" /\ append[a].step # "idle"
      /\ UNCHANGED <<file, segments, torn, delete, stream, made, stored, faults>>
  BY DEF Number
<1>2. CASE /\ Exists
           /\ seq' = seq + 1
           /\ append' = [append EXCEPT ![a] = [step |-> "numbered", seq |-> seq + 1]]
  <2>1. seq \in Nat  BY <1>2, BoundAssumption DEF Inv, TypeInv, TypeOK, Exists, Numbers
  <2>2. /\ append'[a].step = "numbered" /\ append'[a].seq = seq + 1
        /\ \A b \in Appenders \ {a} : append'[b] = append[b] /\ append[b].step = "idle"
    BY <1>1, <1>2, HolderIs DEF Inv, TypeInv, TypeOK
  <2>3. UpTo(seq) /\ UpTo(seq + 1)
    <3>1. UpTo(seq)  BY <1>2 DEF Inv, JournalInv, Fresh
    <3>2. \A k \in Nat : k <= seq => k <= seq + 1  BY <2>1
    <3>3. /\ \A p \in Places : Line(p).seq \in Nat
          /\ \A e \in stored : e.seq \in Nat
          /\ \A s \in Streams : stream[s].cursor \in Nat
      BY PlacesGrow, BoundAssumption DEF Inv, TypeInv, TypeOK, Numbers
    <3> QED  BY <3>1, <3>2, <3>3 DEF UpTo
  <2>4. /\ Places' = Places /\ stored' = stored /\ stream' = stream
        /\ \A p \in Places : Line(p)' = Line(p)
    BY <1>1 DEF Places, Line, Names
  <2>5. Fresh'
    <3>1. UpTo(seq)'  BY <1>2, <2>3, <2>4 DEF UpTo
    <3>2. ASSUME NEW b \in Appenders, Numbered(b)'
          PROVE  b = a /\ append'[b].seq > 0 /\ seq' = append'[b].seq /\ append'[b].seq - 1 = seq
      BY <1>2, <2>1, <2>2, <3>2 DEF Numbered
    <3>3. \A b \in Appenders : Numbered(b)' => UpTo(append[b].seq - 1)'
      BY <2>3, <2>4, <3>2 DEF UpTo
    <3> QED  BY <3>1, <3>2, <3>3 DEF Fresh
  <2>6. /\ Names' = Names /\ Oldest' = Oldest /\ (Exists' <=> Exists)
        /\ \A s \in Streams : Received(s)' = Received(s)
    BY <1>1, <1>2, <2>1 DEF Names, Oldest, Exists, Received
  <2>7. Grows' /\ Made' /\ Seen'
    BY <1>1, <2>4, <2>6 DEF Inv, JournalInv, Grows, Made, Seen
  <2>8. Retained' /\ EndIsThere' /\ ReceivedOnce'
    BY <1>1, <2>4, <2>6 DEF Inv, JournalInv, Retained, EndIsThere, ReceivedOnce
  <2> QED  BY <2>5, <2>7, <2>8 DEF JournalInv
<1>3. CASE Release(a) /\ UNCHANGED seq
  <2>1. \A b \in Appenders : ~Numbered(b)'  BY <1>1, <1>3, ReleaseIs DEF Inv, Numbered
  <2> QED  BY <1>1, <1>3, <2>1, QuietKeeps DEF Inv, JournalInv, Exists, Kept
<1> QED  BY <1>2, <1>3 DEF Number

\* The step adds a line at the end of the journal, and removes the oldest segments.
Adds(a, gone, last) ==
    LET kept == {p \in Places : p[1] \notin gone} IN
    /\ gone \subseteq Names /\ last[1] \notin gone
    /\ Names' = (Names \ gone) \cup {last[1]}
    /\ \A m \in gone, n \in Names' : m < n
    /\ Places' = kept \cup {last}
    /\ \A p \in kept : Line(p)' = Line(p) /\ Before(p, last) /\ ~Before(last, p)
    /\ ~Before(last, last)
    /\ last[1] \notin Names => last = <<append[a].seq, 1>>
    /\ Line(last)'.id = made + 1 /\ Line(last)'.seq = append[a].seq
    /\ made' = made + 1

\* Nothing has the number an appender holds.
LEMMA NumberIsNew ==
    ASSUME Inv, NEW a \in Appenders, Numbered(a)
    PROVE  /\ append[a].seq \in Nat /\ append[a].seq \in Numbers /\ append[a].seq > 0
           /\ \A m \in Names : m < append[a].seq
           /\ \A p \in Places : Line(p).seq < append[a].seq
           /\ \A e \in stored : e.seq < append[a].seq
           /\ \A s \in Streams : stream[s].cursor < append[a].seq
           /\ Exists => seq = append[a].seq
<1>1. append[a].seq \in Nat /\ append[a].seq \in Numbers
  BY BoundAssumption DEF Inv, TypeInv, TypeOK, Numbers
<1>2. /\ append[a].seq > 0 /\ UpTo(append[a].seq - 1)
      /\ Exists => seq = append[a].seq
  BY DEF Inv, JournalInv, Fresh
<1>3. /\ \A p \in Places : Line(p).seq \in Nat
      /\ \A e \in stored : e.seq \in Nat
      /\ \A s \in Streams : stream[s].cursor \in Nat
  BY PlacesGrow, BoundAssumption DEF Inv, TypeInv, TypeOK, Numbers
<1>4. \A k \in Nat : k <= append[a].seq - 1 => k < append[a].seq  BY <1>1
<1>5. /\ \A p \in Places : Line(p).seq < append[a].seq
      /\ \A e \in stored : e.seq < append[a].seq
      /\ \A s \in Streams : stream[s].cursor < append[a].seq
  BY <1>2, <1>3, <1>4 DEF UpTo
<1>6. \A m \in Names : m < append[a].seq  BY <1>5, PlacesGrow
<1> QED  BY <1>1, <1>2, <1>5, <1>6

LEMMA WritingAdds ==
    ASSUME Inv, NEW a \in Appenders, Numbered(a), NEW ok \in BOOLEAN, made' = made + 1,
           NEW gone, gone = {} \/ gone = Removed(DOMAIN Written(append[a].seq, ok)),
           segments' = [name \in DOMAIN Written(append[a].seq, ok) \ gone |->
                           Written(append[a].seq, ok)[name]]
    PROVE  \E last : /\ Adds(a, gone, last)
                     /\ Line(last)'.ok = (ok /\ Target(append[a].seq) \notin torn)
<1> DEFINE n == append[a].seq
           all == Written(n, ok)
           target == Target(n)
           k == IF target \in Names THEN Len(segments[target]) + 1 ELSE 1
           kept == {p \in Places : p[1] \notin gone}
<1>1. /\ DOMAIN all = Names \cup {target}
      /\ target \in Numbers
      /\ target \in Names => target \in {n, Newest}
      /\ target \notin Names => target = n
      /\ \A m \in Names : m # target => all[m] = segments[m]
      /\ target \in Names =>
           /\ DOMAIN all[target] = DOMAIN segments[target] \cup {k}
           /\ \A j \in DOMAIN segments[target] : all[target][j] = segments[target][j]
      /\ target \notin Names => DOMAIN all[target] = {1}
      /\ k \in Nat \ {0}
      /\ target \in Names => k \notin DOMAIN segments[target]
      /\ all[target][k] = [id |-> made + 1, seq |-> n, ok |-> ok /\ target \notin torn]
  BY WrittenIs DEF Inv
<1>2. /\ n \in Nat /\ \A m \in Names : m < n /\ m \in Nat
      /\ \A p \in Places : p[1] \in Names /\ p[2] \in DOMAIN segments[p[1]] /\ p = <<p[1], p[2]>>
      /\ \A m \in Names : \A j \in DOMAIN segments[m] : <<m, j>> \in Places
      /\ \A m \in Names : DOMAIN segments[m] = 1..Len(segments[m]) /\ Len(segments[m]) \in Nat
  BY NumberIsNew, PlacesAre, PlacesGrow, LinesAre DEF Inv, TypeInv
<1>3. /\ \A m \in Names : m <= target
      /\ target \in Nat /\ k = IF target \in Names THEN Len(segments[target]) + 1 ELSE 1
  <2>1. CASE target \in Names
    <3>1. target = Newest  BY <1>1, <1>2, <2>1
    <3> QED  BY <1>2, <2>1, <3>1, NewestIs DEF Inv, TypeInv
  <2>2. CASE target \notin Names
    <3> HIDE DEF target
    <3> QED  BY <1>1, <1>2, <2>2
  <2> QED  BY <2>1, <2>2
<1>4. segments' = [name \in DOMAIN all \ gone |-> all[name]]
  OBVIOUS
<1>5. gone = {} \/ gone = Removed(DOMAIN all)
  OBVIOUS
<1> HIDE DEF all, target, k, n
<1>6. PICK last : last = <<target, k>>  OBVIOUS
<1>7. /\ gone \subseteq Names /\ target \notin gone
      /\ \A m \in gone, j \in (Names \ gone) \cup {target} : m < j
  <2>1. CASE gone = {}  BY <2>1
  <2>2. CASE gone = Removed(DOMAIN all)
    <3>1. DOMAIN all \in SUBSET Numbers  BY <1>1 DEF Inv, TypeInv, TypeOK
    <3>2. /\ gone \subseteq DOMAIN all
          /\ \A m \in gone, j \in DOMAIN all : j <= m => j \in gone
          /\ \A m \in DOMAIN all : (\A j \in DOMAIN all : j <= m) => m \notin gone
      BY <2>2, <3>1, RemovedAre
    <3>3. target \notin gone  BY <1>1, <1>3, <3>2
    <3>4. gone \subseteq Names  BY <1>1, <3>2, <3>3
    <3>5. ASSUME NEW m \in gone, NEW j \in (Names \ gone) \cup {target}
          PROVE  m < j
      <4>1. m \in Nat /\ j \in Nat  BY <1>2, <1>3, <3>4
      <4>2. j \in DOMAIN all /\ j \notin gone  BY <1>1, <3>3
      <4>3. ~ (j <= m)  BY <3>2, <4>2
      <4> QED  BY <4>1, <4>3
    <3> QED  BY <3>3, <3>4, <3>5
  <2> QED  BY <1>5, <2>1, <2>2
<1>8. Names' = (Names \ gone) \cup {target}
  BY <1>1, <1>4, <1>7 DEF Names
<1>9. /\ \A m \in Names \ (gone \cup {target}) : segments'[m] = segments[m]
      /\ segments'[target] = all[target]
  BY <1>1, <1>4, <1>7
<1>10. ASSUME NEW p \in kept
      PROVE  /\ p \in Places' /\ Line(p)' = Line(p) /\ Before(p, last) /\ ~Before(last, p)
  <2>1. /\ p[1] \in Names \ gone /\ p[2] \in DOMAIN segments[p[1]] /\ p = <<p[1], p[2]>>
        /\ p[1] \in Nat /\ p[2] \in Nat
    BY <1>2
  <2>2. CASE p[1] = target
    <3>1. p[2] < k  BY <1>2, <1>3, <2>1, <2>2
    <3>2. Before(p, last) /\ ~Before(last, p)  BY <1>3, <1>6, <2>1, <2>2, <3>1 DEF Before
    <3>3. p[2] \in DOMAIN segments'[p[1]] /\ segments'[p[1]][p[2]] = segments[p[1]][p[2]]
      BY <1>1, <1>9, <2>1, <2>2
    <3> QED  BY <1>8, <2>1, <3>2, <3>3 DEF Places, Line
  <2>3. CASE p[1] # target
    <3>1. p[1] < target  BY <1>3, <2>1, <2>3
    <3>2. Before(p, last) /\ ~Before(last, p)  BY <1>3, <1>6, <2>1, <3>1 DEF Before
    <3>3. segments'[p[1]] = segments[p[1]]  BY <1>9, <2>1, <2>3
    <3> QED  BY <1>8, <2>1, <3>2, <3>3 DEF Places, Line
  <2> QED  BY <2>2, <2>3
<1>11. last \in Places' /\ Line(last)' = [id |-> made + 1, seq |-> n, ok |-> ok /\ target \notin torn]
  <2>1. k \in DOMAIN segments'[target]  BY <1>1, <1>3, <1>9
  <2>2. segments'[target][k] = [id |-> made + 1, seq |-> n, ok |-> ok /\ target \notin torn]
    BY <1>1, <1>9
  <2> QED  BY <1>8, <1>6, <2>1, <2>2 DEF Places, Line
<1>12. Places' = kept \cup {last}
  <2>1. ASSUME NEW p \in Places' PROVE p \in kept \cup {last}
    <3>1. p[1] \in Names' /\ p[2] \in DOMAIN segments'[p[1]] /\ p = <<p[1], p[2]>>
      BY DEF Places
    <3>2. CASE p[1] = target
      <4>1. p[2] = k \/ (target \in Names /\ p[2] \in DOMAIN segments[target])
        BY <1>1, <1>3, <1>9, <3>1, <3>2
      <4> QED  BY <1>2, <1>7, <1>6, <3>1, <3>2, <4>1
    <3>3. CASE p[1] # target
      <4>1. p[1] \in Names \ gone /\ p[2] \in DOMAIN segments[p[1]]
        BY <1>8, <1>9, <3>1, <3>3
      <4> QED  BY <1>2, <3>1, <4>1
    <3> QED  BY <3>2, <3>3
  <2> QED  BY <2>1, <1>10, <1>11
<1>13. ~Before(last, last)  BY <1>1, <1>3, <1>6 DEF Before
<1>14. target \notin Names => last = <<n, 1>>  BY <1>1, <1>3, <1>6
<1>15. Adds(a, gone, last)
  <2>1. last[1] = target  BY <1>6
  <2> QED  BY <2>1, <1>7, <1>8, <1>10, <1>11, <1>12, <1>13, <1>14 DEF Adds, n
<1>16. Line(last)'.ok = (ok /\ target \notin torn)  BY <1>11
<1> QED  BY <1>15, <1>16 DEF target, n

\* A step that adds a line: what is readable of it is stored, and nothing else.
LEMMA AddsKeeps ==
    ASSUME Inv, TypeInv', NEW a \in Appenders, Numbered(a), Release(a),
           NEW gone, NEW last, Adds(a, gone, last),
           UNCHANGED <<seq, file, delete>>, \A r \in Streams : Kept(r),
           \/ stored' = stored
           \/ stored' = stored \cup {[id |-> made + 1, seq |-> append[a].seq]} /\ Line(last)'.ok
    PROVE  JournalInv'
<1> DEFINE n == append[a].seq
           new == [id |-> made + 1, seq |-> n]
           kept == {p \in Places : p[1] \notin gone}
<1>1. /\ n \in Nat /\ n > 0 /\ made \in Nat /\ made' = made + 1
      /\ \A m \in Names : m < n /\ m \in Nat
      /\ \A p \in Places : Line(p).seq < n /\ Line(p).seq \in Nat /\ Line(p).id \in Nat
      /\ \A e \in stored : e.seq < n /\ e.seq \in Nat
      /\ \A s \in Streams : stream[s].cursor < n /\ stream[s].cursor \in Nat
      /\ Exists => seq = n
  <2>1. made \in Nat /\ made' = made + 1  BY HolderIs DEF Inv, Numbered, Adds
  <2>2. /\ \A e \in stored : e.seq \in Nat
        /\ \A s \in Streams : stream[s].cursor \in Nat
    BY BoundAssumption DEF Inv, TypeInv, TypeOK, Numbers
  <2> QED  BY <2>1, <2>2, NumberIsNew, PlacesGrow
<1>2. /\ gone \subseteq Names /\ last[1] \notin gone
      /\ Names' = (Names \ gone) \cup {last[1]}
      /\ \A m \in gone, j \in Names' : m < j
      /\ Places' = kept \cup {last}
      /\ \A p \in kept : Line(p)' = Line(p) /\ Before(p, last) /\ ~Before(last, p)
      /\ ~Before(last, last)
      /\ last[1] \notin Names => last = <<n, 1>>
      /\ Line(last)'.id = made + 1 /\ Line(last)'.seq = n
  BY DEF Adds
<1>3. stored' \subseteq stored \cup {new} /\ (new \in stored' => new \in stored \/ Line(last)'.ok)
  OBVIOUS
<1>4. /\ \A b \in Appenders : ~Numbered(b)'
      /\ Exists' = Exists /\ seq' = seq
      /\ \A s \in Streams : Received(s)' = Received(s)
  BY ReleaseIs DEF Inv, Numbered, Exists, Received, Kept
<1>5. /\ \A p \in Places : Line(p).id < made + 1
      /\ \A e \in stored : e.id <= made + 1
      /\ \A s \in Streams : \A id \in Received(s) : id < made + 1
  <2>1. /\ \A p \in Places : Line(p).id <= made
        /\ \A e \in stored : e.id <= made /\ e.id \in Nat
        /\ \A s \in Streams : \A id \in Received(s) : id <= made /\ id \in Nat
    BY DEF Inv, JournalInv, Made, TypeInv, TypeOK, Received
  <2>2. \A k \in Nat : k <= made => k < made + 1 /\ k <= made + 1  BY <1>1
  <2> QED  BY <1>1, <2>1, <2>2
<1>6. \A p \in Places' : p = last \/ (p \in kept /\ p \in Places)  BY <1>2
<1> HIDE DEF n, new
<1>8. Grows'
  <2>1. ASSUME NEW m \in Names'
        PROVE  <<m, 1>> \in Places' /\ Line(<<m, 1>>)'.seq = m
    <3>1. CASE m \in Names
      <4>1. <<m, 1>> \in kept /\ Line(<<m, 1>>).seq = m  BY <1>2, <3>1, PlacesGrow
      <4> QED  BY <1>2, <4>1
    <3>2. CASE m \notin Names
      <4>1. m = last[1] /\ last = <<n, 1>>  BY <1>2, <3>2
      <4>2. m = n /\ last = <<m, 1>>  BY <4>1
      <4>3. Line(last)'.seq = m /\ last \in Places'  BY <1>2, <4>2
      <4> QED  BY <4>2, <4>3
    <3> QED  BY <3>1, <3>2
  <2>2. ASSUME NEW p \in Places', NEW q \in Places', Before(p, q)
        PROVE  Line(p)'.seq < Line(q)'.seq /\ Line(p)'.id < Line(q)'.id
    <3>1. CASE q = last
      <4>1. p \in kept /\ p \in Places  BY <1>2, <1>6, <2>2, <3>1
      <4>2. Line(p).seq < n /\ Line(p).id < made + 1 /\ Line(p)' = Line(p)
        BY <1>1, <1>2, <1>5, <4>1
      <4> QED  BY <1>2, <3>1, <4>2
    <3>2. CASE q # last
      <4>1. p \in kept /\ p \in Places /\ q \in kept /\ q \in Places  BY <1>2, <1>6, <2>2, <3>2
      <4>2. Line(p).seq < Line(q).seq /\ Line(p).id < Line(q).id
        BY <2>2, <4>1 DEF Inv, JournalInv, Grows
      <4> QED  BY <1>2, <4>1, <4>2
    <3> QED  BY <3>1, <3>2
  <2>3. \A p, q : Before(p, q)' = Before(p, q)  BY DEF Before
  <2> QED  BY <2>1, <2>2, <2>3 DEF Grows
<1>9. Fresh'
  <2>1. ASSUME Exists PROVE UpTo(seq)'
    <3>1. seq' = n  BY <1>1, <1>4, <2>1 DEF n
    <3>2. \A p \in Places' : Line(p)'.seq <= n
      <4>1. \A p \in kept : Line(p)'.seq <= n  BY <1>1, <1>2
      <4> QED  BY <1>1, <1>2, <4>1
    <3>3. \A e \in stored' : e.seq <= n  BY <1>1, <1>3 DEF new
    <3>4. \A s \in Streams : stream'[s].cursor <= n  BY <1>1 DEF Kept
    <3> QED  BY <3>1, <3>2, <3>3, <3>4 DEF UpTo
  <2> QED  BY <1>4, <2>1 DEF Fresh
<1>10. Made'
  <2>1. \A p \in Places' : Line(p)'.id <= made'
    <3>1. \A p \in kept : Line(p)'.id <= made'  BY <1>1, <1>2, <1>5
    <3> QED  BY <1>1, <1>2, <3>1
  <2>2. \A e \in stored' : e.id <= made'  BY <1>1, <1>3, <1>5 DEF new
  <2>3. \A s \in Streams : \A id \in Received(s)' : id <= made'
    <3>1. \A s \in Streams : \A id \in Received(s) : id \in Nat  BY DEF Received
    <3> QED  BY <1>1, <1>4, <1>5, <3>1
  <2> QED  BY <2>1, <2>2, <2>3 DEF Made
<1>11. Retained'
  <2> SUFFICES ASSUME NEW e \in stored', Names' # {}, e.seq >= Oldest'
               PROVE  \E p \in Places' : Line(p)'.ok /\ Line(p)'.id = e.id /\ Line(p)'.seq = e.seq
    BY DEF Retained
  <2>1. CASE e \notin stored
    <3>1. e = new /\ Line(last)'.ok  BY <1>3, <2>1
    <3> QED  BY <1>2, <3>1 DEF new
  <2>2. CASE e \in stored
    <3>1. Oldest' \in Names' /\ \A m \in Names' : Oldest' <= m
      <4>1. Names' \in SUBSET Nat  BY BoundAssumption DEF TypeInv, TypeOK, Numbers
      <4>2. \E m \in Names' : \A j \in Names' : m <= j  BY <4>1, HasLeast
      <4> QED  BY <4>2 DEF Oldest
    <3>2. Oldest' \in Names
      <4>1. CASE Oldest' \notin Names
        <5>1. Oldest' = n  BY <1>2, <3>1, <4>1
        <5>2. e.seq < n /\ e.seq \in Nat  BY <1>1, <2>2
        <5> QED  BY <1>1, <5>1, <5>2
      <4> QED  BY <4>1
    <3>3. Names # {} /\ Oldest \in Names /\ Oldest <= Oldest'
      BY <3>2, OldestIs DEF Inv, TypeInv
    <3>4. e.seq >= Oldest  BY <1>1, <2>2, <3>2, <3>3
    <3>5. PICK p \in Places : Line(p).ok /\ Line(p).id = e.id /\ Line(p).seq = e.seq
      BY <2>2, <3>3, <3>4 DEF Inv, JournalInv, Retained
    <3>6. p[1] \notin gone
      <4> SUFFICES ASSUME p[1] \in gone PROVE FALSE
        OBVIOUS
      <4>1. PICK m : m = Oldest'  OBVIOUS
      <4>2. m \in Names /\ p[1] < m /\ p[1] \in Names  BY <1>2, <3>1, <3>2, <4>1
      <4>3. <<m, 1>> \in Places /\ Line(<<m, 1>>).seq = m /\ m \in Nat  BY <4>2, PlacesGrow
      <4>4. Before(p, <<m, 1>>)  BY <4>2 DEF Before
      <4>5. Line(p).seq < m  BY <4>3, <4>4 DEF Inv, JournalInv, Grows
      <4> QED  BY <1>1, <2>2, <3>5, <4>1, <4>3, <4>5
    <3>7. p \in kept  BY <3>6
    <3> QED  BY <1>2, <3>5, <3>7
  <2> QED  BY <2>1, <2>2
<1>12. EndIsThere'  BY <1>1, <1>2 DEF EndIsThere
<1>13. Seen'
  <2> SUFFICES ASSUME NEW s \in Streams, NEW p \in Places', Line(p)'.id \in Received(s)'
               PROVE  Line(p)'.seq <= stream'[s].cursor
    BY DEF Seen
  <2>1. CASE p = last
    <3>1. made + 1 \in Received(s)  BY <1>2, <1>4, <2>1
    <3>2. made + 1 < made + 1  BY <1>5, <3>1
    <3> QED  BY <1>1, <3>2
  <2>2. CASE p # last
    <3>1. p \in kept /\ p \in Places /\ Line(p)' = Line(p)  BY <1>2, <1>6, <2>2
    <3> QED  BY <1>4, <3>1 DEF Inv, JournalInv, Seen, Kept
  <2> QED  BY <2>1, <2>2
<1>14. ReceivedOnce'
  <2>1. ASSUME NEW s \in Streams, NEW e \in stored',
               stream'[s].start < e.seq /\ e.seq <= stream'[s].cursor
        PROVE  e.id \in Received(s)'
    <3>1. e \in stored
      <4>1. e.seq <= stream[s].cursor /\ stream[s].cursor < n  BY <1>1, <2>1 DEF Kept
      <4>2. e = new => e.seq = n  BY DEF new
      <4> QED  BY <1>1, <1>3, <4>1, <4>2
    <3> QED  BY <1>4, <2>1, <3>1 DEF Inv, JournalInv, ReceivedOnce, Kept
  <2>2. \A s \in Streams : \A id \in 1..MaxEvents : stream'[s].got[id] <= 1
    BY DEF Inv, JournalInv, ReceivedOnce, Kept
  <2> QED  BY <2>1, <2>2 DEF ReceivedOnce
<1> QED
  BY <1>8, <1>9, <1>10, <1>11, <1>12, <1>13, <1>14 DEF JournalInv

LEMMA WriteKeeps ==
    ASSUME Inv, TypeInv', NEW a \in Appenders, Write(a)
    PROVE  JournalInv'
<1> DEFINE n == append[a].seq
<1>1. /\ Numbered(a) /\ Release(a)
      /\ segments' = [name \in DOMAIN Written(n, TRUE) \ Removed(DOMAIN Written(n, TRUE)) |->
                         Written(n, TRUE)[name]]
      /\ stored' = IF Target(n) \in torn THEN stored
                   ELSE stored \cup {[id |-> made + 1, seq |-> n]}
      /\ made' = made + 1
      /\ stream' = [s \in Streams |->
                      IF stream[s].step = "waiting" THEN [stream[s] EXCEPT !.step = "reading"]
                                                    ELSE stream[s]]
      /\ UNCHANGED <<seq, file, delete, faults>>
  BY DEF Write, Numbered
<1>2. PICK gone : gone = Removed(DOMAIN Written(n, TRUE))  OBVIOUS
<1>3. PICK last : Adds(a, gone, last) /\ Line(last)'.ok = (TRUE /\ Target(n) \notin torn)
  <2>1. TRUE \in BOOLEAN  OBVIOUS
  <2> QED  BY <1>1, <1>2, <2>1, WritingAdds
<1>4. \A r \in Streams : Kept(r)
  <2>1. \A r \in Streams : stream[r] \in Rows  BY DEF Inv, TypeInv, TypeOK, Rows
  <2>2. ASSUME NEW row \in Rows
        PROVE  /\ [row EXCEPT !.step = "reading"].start = row.start
               /\ [row EXCEPT !.step = "reading"].cursor = row.cursor
               /\ [row EXCEPT !.step = "reading"].got = row.got
    BY DEF Rows
  <2> QED  BY <1>1, <2>1, <2>2 DEF Kept
<1>5. \/ stored' = stored
      \/ stored' = stored \cup {[id |-> made + 1, seq |-> n]} /\ Line(last)'.ok
  BY <1>1, <1>3
<1> QED  BY <1>1, <1>3, <1>4, <1>5, AddsKeeps

LEMMA TearKeeps ==
    ASSUME Inv, TypeInv', NEW a \in Appenders, Tear(a)
    PROVE  JournalInv'
<1> DEFINE n == append[a].seq
<1>1. /\ Numbered(a) /\ Release(a)
      /\ segments' = Written(n, FALSE)
      /\ made' = made + 1
      /\ UNCHANGED <<seq, file, delete, stream, stored>>
  BY DEF Tear, Numbered
<1>2. segments' = [name \in DOMAIN Written(n, FALSE) \ {} |-> Written(n, FALSE)[name]]
  BY <1>1 DEF Written
<1>3. PICK last : Adds(a, {}, last)
  <2>1. FALSE \in BOOLEAN  OBVIOUS
  <2> QED  BY <1>1, <1>2, <2>1, WritingAdds
<1> QED  BY <1>1, <1>3, AddsKeeps DEF Kept

\* The journal as a stream sees it that opens or reads.
LEMMA SameJournal ==
    ASSUME UNCHANGED <<segments, made, stored>>
    PROVE  /\ Names' = Names /\ Places' = Places /\ Oldest' = Oldest
           /\ \A p \in Places : Line(p)' = Line(p)
  BY DEF Names, Places, Oldest, Line

LEMMA StreamKeeps ==
    ASSUME Inv, UNCHANGED <<seq, file, segments, append, delete, made, stored>>,
           \A s \in Streams, k \in Int : UpTo(k) => stream'[s].cursor <= k,
           Made', Seen', ReceivedOnce'
    PROVE  JournalInv'
<1>1. Grows' /\ Retained' /\ EndIsThere'
  BY SameJournal DEF Inv, JournalInv, Exists, Grows, Retained, EndIsThere
<1>2. ASSUME NEW k \in Int, UpTo(k)
      PROVE  /\ \A p \in Places' : Line(p)'.seq <= k
             /\ \A e \in stored' : e.seq <= k
             /\ \A s \in Streams : stream'[s].cursor <= k
  BY <1>2, SameJournal DEF UpTo
<1>3. Fresh'
  <2>1. seq \in Int /\ \A a \in Appenders : append[a].seq - 1 \in Int
    BY BoundAssumption DEF Inv, TypeInv, TypeOK, Numbers
  <2>2. Exists => UpTo(seq)'  BY <1>2, <2>1 DEF UpTo, Inv, JournalInv, Fresh
  <2>3. \A a \in Appenders : Numbered(a) => UpTo(append[a].seq - 1)'
    BY <1>2, <2>1 DEF UpTo, Inv, JournalInv, Fresh
  <2> QED  BY <2>2, <2>3 DEF Inv, JournalInv, Fresh, Numbered, Exists
<1> QED  BY <1>1, <1>3 DEF JournalInv

LEMMA OpenKeeps ==
    ASSUME Inv, NEW s \in Streams, Open(s)
    PROVE  JournalInv'
<1>1. UNCHANGED <<seq, file, segments, torn, lock, append, delete, made, stored, faults>>
  BY DEF Open
<1>2. /\ \A r \in Streams \ {s} : stream'[r] = stream[r]
      /\ stream'[s].got = stream[s].got
      /\ \/ /\ Names # {} /\ Oldest \in Names /\ stream[s].cursor < Oldest - 1
            /\ stream'[s].start = Oldest /\ stream'[s].cursor = Oldest
         \/ stream'[s].start = stream[s].start /\ stream'[s].cursor = stream[s].cursor
  BY OpenIs DEF Inv
<1>3. \A r \in Streams : Received(r)' = Received(r)  BY <1>2 DEF Received
<1>4. stream[s].cursor \in Nat /\ \A m \in Names : m \in Nat
  BY BoundAssumption DEF Inv, TypeInv, TypeOK, Numbers
<1>5. \A r \in Streams, k \in Int : UpTo(k) => stream'[r].cursor <= k
  <2>1. ASSUME NEW k \in Int, UpTo(k), Oldest \in Names PROVE Oldest <= k
    BY <2>1, PlacesGrow DEF UpTo
  <2> QED  BY <1>2, <2>1 DEF UpTo
<1>6. Made'  BY <1>1, <1>3, SameJournal DEF Inv, JournalInv, Made
<1>7. Seen'
  <2>1. \A p \in Places : Line(p).seq \in Nat  BY PlacesGrow
  <2>2. \A r \in Streams, k \in Nat : k <= stream[r].cursor => k <= stream'[r].cursor
    BY <1>2, <1>4
  <2> QED  BY <1>1, <1>3, <2>1, <2>2, SameJournal DEF Inv, JournalInv, Seen
<1>8. ReceivedOnce'
  <2>1. ASSUME NEW r \in Streams, NEW e \in stored,
               stream'[r].start < e.seq, e.seq <= stream'[r].cursor
        PROVE  e.id \in Received(r)
    <3>1. e.seq \in Nat  BY BoundAssumption DEF Inv, TypeInv, TypeOK, Numbers
    <3>2. stream'[r].start = stream[r].start /\ stream'[r].cursor = stream[r].cursor
      BY <1>2, <1>4, <2>1, <3>1
    <3> QED  BY <2>1, <3>2 DEF Inv, JournalInv, ReceivedOnce
  <2>2. \A r \in Streams : \A id \in 1..MaxEvents : stream'[r].got[id] <= 1
    BY <1>2 DEF Inv, JournalInv, ReceivedOnce
  <2> QED  BY <1>1, <1>3, <2>1, <2>2 DEF ReceivedOnce
<1> QED  BY <1>1, <1>5, <1>6, <1>7, <1>8, StreamKeeps

LEMMA ReadKeeps ==
    ASSUME Inv, NEW s \in Streams, Read(s)
    PROVE  JournalInv'
<1>1. UNCHANGED <<seq, file, segments, torn, lock, append, delete, made, stored, faults>>
  BY DEF Read
<1>2. /\ \A r \in Streams \ {s} : stream'[r] = stream[r]
      /\ stream'[s].start = stream[s].start
  BY ReadIs DEF Inv
<1>3. CASE stream'[s].cursor = stream[s].cursor /\ stream'[s].got = stream[s].got
  <2>1. \A r \in Streams : Kept(r)  BY <1>2, <1>3 DEF Kept
  <2> QED  BY <1>1, <2>1, QuietKeeps DEF Inv, JournalInv, Exists, Numbered
<1>4. ASSUME ~Expired(stream[s].cursor), NEW last \in After(stream[s].cursor),
             stream'[s].cursor = Line(last).seq,
             \A id \in 1..MaxEvents :
                stream'[s].got[id] = stream[s].got[id] + (IF id \in SentUpTo(s, last) THEN 1 ELSE 0)
      PROVE  JournalInv'
  <2> DEFINE old == stream[s].cursor
             new == Line(last).seq
  <2>1. /\ last \in Places /\ old < new /\ old \in Nat /\ new \in Nat
        /\ \A p \in Places : Line(p).seq \in Nat
        /\ \A id \in 1..MaxEvents : stream[s].got[id] \in Nat
    BY <1>4, PlacesGrow, BoundAssumption DEF After, Inv, TypeInv, TypeOK, Numbers
  <2>2. /\ \A id \in Received(s)' : id \in Received(s) \/ id \in SentUpTo(s, last)
        /\ \A id \in 1..MaxEvents : id \in SentUpTo(s, last) \/ id \in Received(s)
                                        => id \in Received(s)'
        /\ \A r \in Streams \ {s} : Received(r)' = Received(r)
    BY <1>2, <1>4, <2>1 DEF Received
  <2>3. \A id \in SentUpTo(s, last) :
           \E q \in Places : Line(q).id = id /\ old < Line(q).seq /\ Line(q).seq <= new
    BY PlacesGrow, <2>1 DEF SentUpTo, After
  <2> HIDE DEF old, new
  <2>4. \A r \in Streams, k \in Int : UpTo(k) => stream'[r].cursor <= k
    BY <1>2, <1>4, <2>1 DEF UpTo, new
  <2>5. Made'
    <3>1. \A id \in Received(s)' : id <= made  BY <2>2, <2>3 DEF Inv, JournalInv, Made
    <3> QED  BY <1>1, <2>2, <3>1, SameJournal DEF Inv, JournalInv, Made
  <2>6. Seen'
    <3>1. ASSUME NEW p \in Places, Line(p).id \in Received(s)' PROVE Line(p).seq <= new
      <4>1. CASE Line(p).id \in Received(s)
        BY <2>1, <4>1 DEF Inv, JournalInv, Seen, old
      <4>2. CASE Line(p).id \in SentUpTo(s, last)
        <5>1. PICK q \in Places : Line(q).id = Line(p).id /\ Line(q).seq <= new  BY <2>3, <4>2
        <5> QED  BY <5>1, PlacesGrow
      <4> QED  BY <2>2, <3>1, <4>1, <4>2
    <3>2. \A r \in Streams, p \in Places : Line(p).id \in Received(r)' => Line(p).seq <= stream'[r].cursor
      BY <1>2, <1>4, <2>2, <3>1 DEF Inv, JournalInv, Seen, new
    <3> QED  BY <1>1, <3>2, SameJournal DEF Seen
  <2>7. ReceivedOnce'
    <3>1. ASSUME NEW e \in stored, stream[s].start < e.seq, e.seq <= new
          PROVE  e.id \in Received(s)'
      <4>1. e.seq \in Nat /\ e.id \in 1..MaxEvents
        BY BoundAssumption DEF Inv, TypeInv, TypeOK, Numbers
      <4>2. CASE e.seq <= old
        <5>1. e.id \in Received(s)  BY <3>1, <4>2 DEF Inv, JournalInv, ReceivedOnce, old
        <5> QED  BY <2>2, <4>1, <5>1
      <4>3. CASE old < e.seq
        <5>1. Names # {}  BY <2>1, PlacesAre
        <5>2. Oldest \in Nat /\ ~ (old < Oldest - 1)
          BY <1>4, <5>1, OldestIs, PlacesGrow DEF Expired, Inv, TypeInv, old
        <5>3. e.seq >= Oldest  BY <2>1, <4>1, <4>3, <5>2
        <5>4. PICK p \in Places : Line(p).ok /\ Line(p).id = e.id /\ Line(p).seq = e.seq
          BY <5>1, <5>3 DEF Inv, JournalInv, Retained
        <5>5. ~Before(last, p)
          <6>1. Before(last, p) => new < Line(p).seq
            BY <2>1 DEF Inv, JournalInv, Grows, new
          <6> QED  BY <2>1, <3>1, <4>1, <5>4, <6>1
        <5>6. p \in After(stream[s].cursor)  BY <4>3, <5>4 DEF After, old
        <5>7. e.id \in SentUpTo(s, last)  BY <5>4, <5>5, <5>6 DEF SentUpTo
        <5> QED  BY <2>2, <4>1, <5>7
      <4> QED  BY <2>1, <4>1, <4>2, <4>3
    <3>2. ASSUME NEW id \in 1..MaxEvents PROVE stream'[s].got[id] <= 1
      <4>1. CASE id \in SentUpTo(s, last)
        <5>1. PICK q \in Places : Line(q).id = id /\ old < Line(q).seq  BY <2>3, <4>1
        <5>2. id \notin Received(s)
          <6>1. id \in Received(s) => Line(q).seq <= old
            BY <5>1 DEF Inv, JournalInv, Seen, old
          <6> QED  BY <2>1, <5>1, <6>1
        <5>3. stream[s].got[id] = 0  BY <2>1, <5>2 DEF Received
        <5> QED  BY <1>4, <4>1, <5>3
      <4>2. CASE id \notin SentUpTo(s, last)
        <5>1. stream'[s].got[id] = stream[s].got[id]  BY <1>4, <2>1, <4>2
        <5> QED  BY <5>1 DEF Inv, JournalInv, ReceivedOnce
      <4> QED  BY <4>1, <4>2
    <3>3. \A r \in Streams : \A e \in stored' :
             stream'[r].start < e.seq /\ e.seq <= stream'[r].cursor => e.id \in Received(r)'
      BY <1>1, <1>2, <1>4, <2>2, <3>1 DEF Inv, JournalInv, ReceivedOnce, new
    <3>4. \A r \in Streams : \A id \in 1..MaxEvents : stream'[r].got[id] <= 1
      BY <1>2, <3>2 DEF Inv, JournalInv, ReceivedOnce
    <3> QED  BY <3>3, <3>4 DEF ReceivedOnce
  <2> QED  BY <1>1, <2>4, <2>5, <2>6, <2>7, StreamKeeps
<1> QED  BY <1>3, <1>4, ReadIs DEF Inv

LEMMA StreamingKeeps ==
    ASSUME Inv, NEW s \in Streams, Streaming(s) \/ Disconnect(s)
    PROVE  JournalInv'
<1>1. CASE Wait(s) \/ TimeOut(s) \/ Disconnect(s)
  <2>1. \A r \in Streams : Kept(r)  BY <1>1, StepIs DEF Wait, TimeOut, Disconnect, Inv
  <2>2. UNCHANGED <<seq, file, segments, append, delete, made, stored>>
    BY <1>1 DEF Wait, TimeOut, Disconnect
  <2> QED  BY <2>1, <2>2, QuietKeeps DEF Inv, JournalInv, Exists, Numbered
<1> QED  BY <1>1, OpenKeeps, ReadKeeps DEF Streaming

LEMMA DeletionKeeps ==
    ASSUME Inv, DeleteRow \/ Unlink \/ DeleteJournal
    PROVE  JournalInv'
<1>1. CASE DeleteRow
  <2>1. /\ seq' = -1 /\ delete' = "row"
        /\ UNCHANGED <<file, segments, torn, lock, append, stream, made, stored, faults>>
    BY <1>1 DEF DeleteRow
  <2> QED  BY <2>1, QuietKeeps DEF Exists, Numbered, Kept
<1>2. CASE Unlink
  <2>1. UNCHANGED <<seq, segments, torn, lock, append, stream, made, stored>>
    BY <1>2 DEF Unlink
  <2> QED  BY <2>1, QuietKeeps DEF Exists, Numbered, Kept
<1>3. CASE DeleteJournal
  <2>1. /\ delete = "file" /\ lock = None /\ segments' = << >>
        /\ UNCHANGED <<seq, file, lock, append, stream, made, stored, faults>>
    BY <1>3 DEF DeleteJournal, Clears
  <2>2. Names' = {} /\ Places' = {}  BY <2>1 DEF Names, Places
  <2>3. ~Exists' /\ ~file'  BY <2>1 DEF Inv, TypeInv, DeleteInv, Exists
  <2>4. \A a \in Appenders : ~Numbered(a)'  BY <2>1, NobodyIs DEF Inv, Numbered
  <2>5. Fresh' /\ Grows' /\ Retained' /\ EndIsThere' /\ Seen'
    BY <2>2, <2>3, <2>4 DEF Fresh, Grows, Retained, EndIsThere, Seen
  <2>6. Made' /\ ReceivedOnce'
    BY <2>1, <2>2 DEF Inv, JournalInv, Made, ReceivedOnce, Received
  <2> QED  BY <2>5, <2>6 DEF JournalInv
<1> QED  BY <1>1, <1>2, <1>3

LEMMA RestartKeeps ==
    ASSUME Inv, "halfway" \notin Faults, Restart
    PROVE  JournalInv'
<1>1. /\ \A a \in Appenders : ~Numbered(a)'
      /\ \A r \in Streams : Kept(r)
      /\ UNCHANGED <<file, segments, torn, made, stored>>
      /\ seq' = IF ~Exists /\ file THEN 0 ELSE seq
  BY RestartIs DEF Inv, Numbered
<1>2. Exists \/ ~file  BY DEF Restart, Fault
<1>3. seq' = seq  BY <1>1, <1>2
<1> QED  BY <1>1, <1>3, QuietKeeps DEF Exists

LEMMA InvInit == Init => Inv
<1> SUFFICES ASSUME Init PROVE JournalInv
  BY TypesInit DEF Inv
<1>1. Names = {} /\ Places = {} /\ Exists  BY DEF Init, Names, Places, Exists
<1>2. /\ \A a \in Appenders : ~Numbered(a)
      /\ stored = {} /\ made = 0 /\ seq = 0
      /\ \A s \in Streams : /\ stream[s].cursor = 0
                              /\ \A id \in 1..MaxEvents : stream[s].got[id] = 0
  BY DEF Init, Numbered, Idle, Closed
<1>3. \A s \in Streams : Received(s) = {}  BY <1>2 DEF Received
<1> QED
  BY <1>1, <1>2, <1>3 DEF JournalInv, Grows, Fresh, UpTo, Made, Retained, EndIsThere,
    Seen, ReceivedOnce

LEMMA InvStep ==
    ASSUME "halfway" \notin Faults, Inv, [Next]_vars
    PROVE  Inv'
<1>0. TypeInv'  BY TypesStep DEF Inv
<1> SUFFICES JournalInv'
  BY <1>0 DEF Inv
<1>1. ASSUME NEW a \in Appenders, Acquire(a) \/ Appending(a) \/ Tear(a)  PROVE JournalInv'
  BY <1>0, <1>1, AcquireKeeps, NumberKeeps, WriteKeeps, TearKeeps DEF Appending
<1>2. ASSUME NEW s \in Streams, Streaming(s) \/ Disconnect(s)  PROVE JournalInv'
  BY <1>2, StreamingKeeps
<1>3. CASE DeleteRow \/ Unlink \/ DeleteJournal
  BY <1>3, DeletionKeeps
<1>4. CASE Restart
  BY <1>4, RestartKeeps
<1>5. CASE UNCHANGED vars
  BY <1>5, QuietKeeps DEF vars, Kept, Numbered, Exists, Inv, JournalInv
<1> QED  BY <1>1, <1>2, <1>3, <1>4, <1>5 DEF Next

------------------------------------------------------------------------------
(* The theorems.                                                             *)

\* The variables keep their types, whatever fails: the numbers that next_event_seq commits stay
\* within those of the events made and those a crash lost (Number, Write, Restart).
THEOREM TypesHold == Spec => []TypeOK
<1>1. TypeInv => TypeOK  BY DEF TypeInv
<1> QED  BY TypeInvHolds, <1>1, PTL

\* When a deletion is done no segment is left and none is written later, also when a half-deleted
\* session has come to life again and was deleted again (delete, append).
THEOREM DeletionHolds == Spec => []DeletedIsEmpty
<1>1. TypeInv => DeletedIsEmpty  BY DEF TypeInv, DeleteInv, DeletedIsEmpty
<1> QED  BY TypeInvHolds, <1>1, PTL

LEMMA InvHolds == ASSUME "halfway" \notin Faults PROVE Spec => []Inv
<1>1. Inv /\ [Next]_vars => Inv'  BY InvStep
<1> QED  BY InvInit, <1>1, PTL DEF Spec

\* Without a crash that leaves Pi's file of a deleted session, every client receives each event it has passed once,
\* and none twice, through rotation, torn lines, disconnections and other crashes (append,
\* ensure_cursor, read_after).
THEOREM ReceivedOnceHolds ==
    ASSUME "halfway" \notin Faults PROVE Spec => []ReceivedOnce
<1>1. Inv => ReceivedOnce  BY DEF Inv, JournalInv
<1> QED  BY InvHolds, <1>1, PTL

\* Under the same condition, the last line and every event stored since the oldest segment began
\* are there as long as the session is, and nothing when it has been deleted (append, delete).
THEOREM RetentionIsKept ==
    ASSUME "halfway" \notin Faults PROVE Spec => []RetentionHolds
<1>1. ASSUME Inv PROVE EndIsRetained
  <2> SUFFICES ASSUME Exists, made > 0
               PROVE  /\ \E p \in Places : Line(p).id = made
                      /\ \A e \in stored : e.seq >= Oldest =>
                            \E p \in Places : Line(p).ok /\ Line(p).id = e.id
    BY DEF EndIsRetained
  <2>1. PICK p \in Places : Line(p).id = made  BY <1>1 DEF Inv, JournalInv, EndIsThere
  <2>2. Names # {}  BY PlacesAre
  <2> QED  BY <1>1, <2>1, <2>2 DEF Inv, JournalInv, Retained
<1>2. Inv => DeletedIsEmpty  BY DEF Inv, TypeInv, DeleteInv, DeletedIsEmpty
<1>3. Inv => RetentionHolds  BY <1>1, <1>2 DEF RetentionHolds
<1> QED  BY InvHolds, <1>3, PTL
==============================================================================
