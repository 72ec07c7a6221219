---------------------------- MODULE Turns_proofs ----------------------------
(***************************************************************************)
(* Proofs about Turns, for any sessions, turns, requests and faults.        *)
(*                                                                         *)
(* A request ends long after it has read its session's row, so what a       *)
(* property needs is that nobody else can have done its work in between:    *)
(* row ids are drawn once and belong to one session (Rows, Owner), and the  *)
(* turn of a submission under way is still queued, or was cancelled, as     *)
(* long as its row exists (Pending).                                        *)
(***************************************************************************)
EXTENDS Turns, SequenceTheorems, TLAPS

\* Every row has an id of its own, a Bridge session only if it exists, and an active turn only
\* with a Bridge session.
Rows ==
    /\ \A s \in Sessions :
        /\ binding[s].id <= drawn
        /\ binding[s].bridge # None => binding[s].id # None
        /\ binding[s].id # None => binding[s].cwd \in Directories
        /\ binding[s].bridge # None => binding[s].bridge \in DOMAIN bridges
        /\ binding[s].active # None => binding[s].bridge # None
    /\ \A s, other \in Sessions :
        binding[s].id # None /\ binding[s].id = binding[other].id => s = other

\* A request under way has a session and a row id that was drawn, and what its step needs.
TurnSteps == {"prompt", "accepted", "refused", "abort", "aborted"}
Equipped(c) ==
    c.step # "idle" =>
        /\ c.session \in Sessions
        /\ c.row # None /\ c.row <= drawn
        /\ c.step \in TurnSteps => c.turn \in Turns
        /\ c.step = "create" => c.cwd \in Directories
        /\ c.step # "create" => c.bridge \in DOMAIN bridges

\* The row a request has read belongs to its session.
Owner(c) ==
    \A s \in Sessions : c.step # "idle" /\ c.row = binding[s].id => c.session = s

\* The turn of a submission under way has not been decided, except by a cancel.
Pending(c) ==
    c.step \in {"prompt", "accepted", "refused"} /\ binding[c.session].id = c.row =>
        /\ turns[c.session][c.turn] \in {"queued", "cancelled"}
        /\ binding[c.session].bridge # None

CallsOK == \A r \in Requests : Equipped(call[r]) /\ Owner(call[r]) /\ Pending(call[r])

IInv == TypeOK /\ Rows /\ CallsOK /\ ActiveIsRunning /\ SubmittedOnce

------------------------------------------------------------------------------
LEMMA InitIInv == Init => IInv
<1>. SUFFICES ASSUME Init PROVE IInv
  OBVIOUS
<1>1. TypeOK
  BY DEF Init, TypeOK, NoRow, Row, SessionStates, NoTurns, TurnStatuses, Idle, Local, Steps, None
<1>2. Rows
  BY DEF Init, Rows, NoRow, None
<1>3. CallsOK
  BY DEF Init, CallsOK, Equipped, Owner, Pending, Idle
<1>4. ActiveIsRunning /\ SubmittedOnce
  BY DEF Init, ActiveIsRunning, SubmittedOnce, Submitting, NoRow, Idle
<1>. QED  BY <1>1, <1>2, <1>3, <1>4 DEF IInv

\* A change of one Bridge session, or a new one, keeps the types and the ids of the others.
LEMMA BridgesKept ==
  ASSUME TypeOK, NEW b \in DOMAIN bridges, NEW box \in BridgeSession,
         bridges' = [bridges EXCEPT ![b] = box]
  PROVE  bridges' \in Seq(BridgeSession) /\ DOMAIN bridges' = DOMAIN bridges
BY ExceptSeq DEF TypeOK

\* Steps that leave both tables alone.
Steady == UNCHANGED <<binding, drawn, turns>>

\* One request moves on, with or without an effect in the Bridge.
LEMMA CallMoves ==
  ASSUME IInv, Steady, NEW r \in Requests, NEW c \in Local,
         call' = [call EXCEPT ![r] = c],
         bridges' \in Seq(BridgeSession), DOMAIN bridges \subseteq DOMAIN bridges',
         faults' \in Nat,
         c.step # "idle" =>
            /\ call[r].step # "idle"
            /\ c.session = call[r].session /\ c.row = call[r].row /\ c.turn = call[r].turn
            /\ c.step \in TurnSteps => call[r].step \in TurnSteps
            /\ c.step \in {"prompt", "accepted", "refused"} =>
                    call[r].step \in {"prompt", "accepted", "refused"}
            /\ c.step # "create"
            /\ c.bridge \in DOMAIN bridges'
  PROVE  IInv'
<1>. USE DEF IInv, Steady
<1>1. TypeOK'
  BY DEF TypeOK
<1>2. /\ call'[r] = c
      /\ \A other \in Requests \ {r} : call'[other] = call[other]
  BY DEF TypeOK
<1>3. Rows'
  BY DEF Rows
<1>4. CallsOK'
  <2>1. ASSUME NEW other \in Requests PROVE Equipped(call[other])'
    BY <1>2, <2>1 DEF CallsOK, Equipped, TypeOK
  <2>2. ASSUME NEW other \in Requests PROVE Owner(call[other])'
    BY <1>2, <2>2 DEF CallsOK, Owner
  <2>3. ASSUME NEW other \in Requests PROVE Pending(call[other])'
    BY <1>2, <2>3 DEF CallsOK, Pending
  <2>. QED  BY <2>1, <2>2, <2>3 DEF CallsOK
<1>5. ActiveIsRunning'
  BY DEF ActiveIsRunning
<1>6. SubmittedOnce'
  BY <1>2 DEF SubmittedOnce, Submitting
<1>. QED  BY <1>1, <1>3, <1>4, <1>5, <1>6

\* What a session may become: it keeps its row, loses it or gets one with a fresh id.
GoodRow(s, row, statuses, next) ==
    /\ row \in Row
    /\ statuses \in [Turns -> TurnStatuses]
    /\ row.id # None => /\ row.cwd \in Directories
                        /\ row.id = binding[s].id \/ (row.id > drawn /\ row.id <= next)
    /\ row.bridge # None => row.id # None /\ row.bridge \in DOMAIN bridges
    /\ row.id = binding[s].id /\ binding[s].bridge # None => row.bridge # None
    /\ row.active # None => statuses[row.active] = "running" /\ row.bridge # None

\* What a request may become: idle, or a fresh one that has read the row.
GoodCall(s, row, statuses, c) ==
    /\ c \in Local
    /\ c.step = "idle" \/ /\ c.session = s
                          /\ c.row = row.id /\ c.row # None
                          /\ c.step \in TurnSteps => c.turn \in Turns
                          /\ c.step = "create" => c.cwd \in Directories
                          /\ c.step # "create" => c.bridge \in DOMAIN bridges
    /\ c.step \in {"prompt", "accepted", "refused"} =>
            statuses[c.turn] \in {"queued", "cancelled"} /\ row.bridge # None

\* What the other submissions of the row demand: their turns are not decided, nor taken.
OthersAgree(r, s, row, statuses, c) ==
    \A other \in Requests \ {r} :
        /\ Submitting(other)
        /\ call[other].session = s /\ call[other].row = row.id
        => /\ statuses[call[other].turn] \in {"queued", "cancelled"}
           /\ c.step \in {"prompt", "accepted", "refused"} => c.turn # call[other].turn

\* One request changes the tables of one session.
LEMMA SessionChanges ==
  ASSUME IInv, NEW s \in Sessions, NEW row, NEW statuses, NEW r \in Requests, NEW c,
         drawn' \in Nat, drawn <= drawn',
         GoodRow(s, row, statuses, drawn'), GoodCall(s, row, statuses, c),
         OthersAgree(r, s, row, statuses, c),
         binding' = [binding EXCEPT ![s] = row],
         turns' = [turns EXCEPT ![s] = statuses],
         call' = [call EXCEPT ![r] = c],
         UNCHANGED bridges, faults' \in Nat
  PROVE  IInv'
<1>. USE DEF IInv
<1>1. TypeOK'
  BY DEF TypeOK, GoodRow, GoodCall
<1>2. /\ call'[r] = c
      /\ \A other \in Requests \ {r} : call'[other] = call[other]
      /\ binding'[s] = row
      /\ \A other \in Sessions \ {s} : binding'[other] = binding[other]
      /\ turns'[s] = statuses
      /\ \A other \in Sessions \ {s} : turns'[other] = turns[other]
      /\ drawn \in Nat /\ row.id \in Nat
      /\ \A other \in Sessions : binding[other].id \in Nat
      /\ \A other \in Requests : call[other].row \in Nat
  BY DEF TypeOK, GoodRow, Row, Local
<1>3. Rows'
  <2>1. row.id <= drawn'
    BY <1>2 DEF Rows, GoodRow, None
  <2>2. ASSUME NEW other \in Sessions, other # s
        PROVE  /\ binding'[other].id <= drawn'
               /\ row.id # None => row.id # binding[other].id
    BY <1>2, <2>2 DEF Rows, GoodRow
  <2>. QED  BY <1>2, <2>1, <2>2 DEF Rows, GoodRow
<1>4. CallsOK'
  <2>1. ASSUME NEW other \in Requests PROVE Equipped(call[other])'
    BY <1>2, <2>1 DEF CallsOK, Equipped, GoodCall, GoodRow, Rows, None
  <2>2. ASSUME NEW other \in Requests PROVE Owner(call[other])'
    <3>1. CASE other = r
      BY <1>2, <1>3, <3>1 DEF Owner, GoodCall, Rows
    <3>2. CASE other # r
      BY <1>2, <3>2 DEF CallsOK, Equipped, Owner, GoodRow, None
    <3>. QED  BY <3>1, <3>2
  <2>3. ASSUME NEW other \in Requests PROVE Pending(call[other])'
    <3>1. CASE other = r
      BY <1>2, <3>1 DEF Pending, GoodCall
    <3>2. CASE other # r
      BY <1>2, <3>2 DEF CallsOK, Equipped, Pending, OthersAgree, Submitting, GoodRow, None
    <3>. QED  BY <3>1, <3>2
  <2>. QED  BY <2>1, <2>2, <2>3 DEF CallsOK
<1>5. ActiveIsRunning'
  BY <1>2 DEF ActiveIsRunning, GoodRow
<1>6. SubmittedOnce'
  <2>1. ASSUME NEW a \in Requests, NEW b \in Requests, Submitting(a)', Submitting(b)',
               call'[a].turn = call'[b].turn, call'[a].row = call'[b].row, a # b
        PROVE  FALSE
    <3>1. CASE a # r /\ b # r
      BY <1>2, <2>1, <3>1 DEF SubmittedOnce, Submitting
    <3>2. ASSUME NEW other \in Requests \ {r}, Submitting(other), call[other].turn = c.turn,
                 call[other].row = c.row, c.step \in {"prompt", "accepted", "refused"}
          PROVE  FALSE
      <4>1. call[other].session = s
        BY <1>2, <1>4, <3>2 DEF CallsOK, Owner, GoodCall, Submitting
      <4>. QED  BY <3>2, <4>1 DEF OthersAgree, GoodCall
    <3>. QED  BY <1>2, <2>1, <3>1, <3>2 DEF Submitting
  <2>. QED  BY <2>1 DEF SubmittedOnce
<1>. QED  BY <1>1, <1>3, <1>4, <1>5, <1>6

------------------------------------------------------------------------------
(* The actions.                                                              *)

LEMMA Fresh ==
  ASSUME IInv, NEW s \in Sessions
  PROVE  /\ binding[s] \in Row /\ turns[s] \in [Turns -> TurnStatuses]
         /\ drawn \in Nat /\ drawn <= drawn
         /\ GoodRow(s, binding[s], turns[s], drawn)
         /\ GoodCall(s, binding[s], turns[s], Idle)
         /\ binding = [binding EXCEPT ![s] = @]
         /\ turns = [turns EXCEPT ![s] = @]
BY DEF IInv, TypeOK, Rows, ActiveIsRunning, GoodRow, GoodCall, Idle, Local, Steps, None, Row

\* A submission whose turn becomes idle again disturbs no other.
LEMMA OthersUndisturbed ==
  ASSUME IInv, NEW r \in Requests, NEW s \in Sessions, NEW row,
         NEW statuses, NEW c, c.step \notin {"prompt", "accepted", "refused"},
         row.id # None => row.id = binding[s].id \/ row.id > drawn,
         row.id = binding[s].id =>
            \A t \in Turns : turns[s][t] \in {"queued", "cancelled"} =>
                \/ statuses[t] \in {"queued", "cancelled"}
                \/ Submitting(r) /\ call[r].turn = t /\ call[r].row = row.id
  PROVE  OthersAgree(r, s, row, statuses, c)
<1>. SUFFICES ASSUME NEW other \in Requests \ {r}, Submitting(other),
                     call[other].session = s, call[other].row = row.id
              PROVE  statuses[call[other].turn] \in {"queued", "cancelled"}
  BY DEF OthersAgree
<1>1. /\ Equipped(call[other]) /\ Pending(call[other])
      /\ call[other].row \in Nat /\ drawn \in Nat
  BY DEF IInv, CallsOK, TypeOK, Local
<1>2. /\ row.id = binding[s].id
      /\ call[other].turn \in Turns
  BY <1>1 DEF Equipped, Submitting, TurnSteps
<1>3. turns[s][call[other].turn] \in {"queued", "cancelled"}
  BY <1>1, <1>2 DEF Pending, Submitting
<1>4. ~(Submitting(r) /\ call[r].turn = call[other].turn /\ call[r].row = row.id)
  BY DEF IInv, SubmittedOnce
<1>. QED  BY <1>2, <1>3, <1>4

\* What is known of a request that is under way, and of its Bridge session.
LEMMA UnderWay ==
  ASSUME IInv, NEW r \in Requests, call[r].step # "idle"
  PROVE  /\ call[r] \in Local
         /\ Equipped(call[r]) /\ Owner(call[r]) /\ Pending(call[r])
         /\ call[r].session \in Sessions
         /\ call[r].step # "create" => /\ call[r].bridge \in DOMAIN bridges
                                       /\ bridges[call[r].bridge] \in BridgeSession
         /\ call[r].step \in TurnSteps => call[r].turn \in Turns
         /\ Idle \in Local /\ Idle.step = "idle"
         /\ bridges \in Seq(BridgeSession) /\ faults \in Nat
BY ElementOfSeq DEF IInv, TypeOK, CallsOK, Equipped, Idle, Local, Steps, None

\* A call to the Bridge that took effect, or not: the request moves on or ends.
LEMMA BridgeAnswers ==
  ASSUME IInv, Steady, NEW r \in Requests, NEW next \in {"accepted", "aborted", "removed"},
         \/ call[r].step = "prompt" /\ next = "accepted"
         \/ call[r].step = "abort" /\ next = "aborted"
         \/ call[r].step = "remove" /\ next = "removed",
         Answered(r, next),
         bridges' \in Seq(BridgeSession), DOMAIN bridges' = DOMAIN bridges
  PROVE  IInv'
<1>. DEFINE c == call'[r]
<1>1. /\ call' = [call EXCEPT ![r] = c]
      /\ c \in Local
      /\ c.step \in {"idle", next, "refused"}
      /\ c.step = "refused" => call[r].step = "prompt"
      /\ c.step # "idle" => c.session = call[r].session /\ c.row = call[r].row
                            /\ c.turn = call[r].turn /\ c.bridge = call[r].bridge
      /\ faults' \in Nat
  <2>1. CASE Goto(r, next) /\ UNCHANGED faults
    <3>1. call[r] \in Local /\ call \in [Requests -> Local] /\ faults \in Nat
      BY UnderWay DEF IInv, TypeOK
    <3>2. call' = [call EXCEPT ![r] = [call[r] EXCEPT !.step = next]] /\ faults' = faults
      BY <2>1 DEF Goto
    <3>3. c = [call[r] EXCEPT !.step = next]
      BY <3>1, <3>2
    <3>4. c \in Local /\ c.step = next
      BY <3>1, <3>3 DEF Local, Steps
    <3>5. /\ c.session = call[r].session /\ c.row = call[r].row
          /\ c.turn = call[r].turn /\ c.bridge = call[r].bridge
      BY <3>3
    <3>. QED  BY <3>1, <3>2, <3>3, <3>4, <3>5
  <2>2. CASE call[r].step = "prompt" /\ Fault("lost") /\ Goto(r, "refused")
    <3>1. call[r] \in Local /\ call \in [Requests -> Local] /\ faults \in Nat
      BY UnderWay, <2>2 DEF IInv, TypeOK
    <3>2. call' = [call EXCEPT ![r] = [call[r] EXCEPT !.step = "refused"]] /\ faults' = faults + 1
      BY <2>2 DEF Goto, Fault
    <3>3. c = [call[r] EXCEPT !.step = "refused"]
      BY <3>1, <3>2
    <3>4. c \in Local /\ c.step = "refused"
      BY <3>1, <3>3 DEF Local, Steps
    <3>5. /\ c.session = call[r].session /\ c.row = call[r].row
          /\ c.turn = call[r].turn /\ c.bridge = call[r].bridge
      BY <3>3
    <3>. QED  BY <2>2, <3>1, <3>2, <3>3, <3>4, <3>5
  <2>3. CASE Fault("lost") /\ End(r)
    BY <2>3, UnderWay DEF End, Fault, IInv, TypeOK
  <2>. QED  BY <2>1, <2>2, <2>3 DEF Answered, At
<1>. HIDE DEF c
<1>2. c.step # "idle" => /\ call[r].step # "idle" /\ c.step # "create"
                         /\ c.step \in TurnSteps => call[r].step \in TurnSteps
                         /\ c.step \in {"prompt", "accepted", "refused"} =>
                                call[r].step \in {"prompt", "accepted", "refused"}
                         /\ c.bridge \in DOMAIN bridges'
  <2>1. c.step # "idle" => c.bridge \in DOMAIN bridges'
    BY <1>1, UnderWay
  <2>. QED  BY <1>1, <2>1 DEF TurnSteps
<1>. QED  BY <1>1, <1>2, CallMoves

\* The Bridge's sessions change, the Manager does not notice.
LEMMA OnlyBridges ==
  ASSUME IInv, UNCHANGED <<binding, drawn, turns, call>>,
         bridges' \in Seq(BridgeSession), DOMAIN bridges' = DOMAIN bridges, faults' \in Nat
  PROVE  IInv'
<1>. USE DEF IInv
<1>1. TypeOK' /\ Rows'
  BY DEF TypeOK, Rows
<1>2. CallsOK'
  BY DEF CallsOK, Equipped, Owner, Pending
<1>3. ActiveIsRunning' /\ SubmittedOnce'
  BY DEF ActiveIsRunning, SubmittedOnce, Submitting
<1>. QED  BY <1>1, <1>2, <1>3

LEMMA CreateBridgeSessionIInv ==
  ASSUME IInv, NEW r \in Requests, CreateBridgeSession(r)
  PROVE  IInv'
<1>. DEFINE c == call'[r]
            box == NewBridgeSession(call[r].cwd)
<1>1. call[r].step = "create" /\ bridges' = Append(bridges, box) /\ Steady
  BY DEF CreateBridgeSession, At, Steady
<1>2. call[r].cwd \in Directories
  BY <1>1, UnderWay DEF Equipped
<1>3. /\ bridges' \in Seq(BridgeSession)
      /\ DOMAIN bridges \subseteq DOMAIN bridges'
      /\ Len(bridges) \in Nat /\ Len(bridges) + 1 \in DOMAIN bridges'
  <2>1. box \in BridgeSession /\ bridges \in Seq(BridgeSession)
    BY <1>2 DEF NewBridgeSession, BridgeSession, IInv, TypeOK
  <2>. HIDE DEF box
  <2>. QED  BY <1>1, <2>1, AppendProperties, LenProperties
<1>4. /\ call' = [call EXCEPT ![r] = c]
      /\ c \in Local
      /\ c.step \in {"idle", "created"}
      /\ c.step # "idle" => c.session = call[r].session /\ c.row = call[r].row
                            /\ c.turn = call[r].turn /\ c.bridge = Len(bridges) + 1
      /\ faults' \in Nat
  <2>1. CASE call' = [call EXCEPT ![r].step = "created", ![r].bridge = Len(bridges) + 1]
             /\ UNCHANGED faults
    <3>1. call[r] \in Local /\ call \in [Requests -> Local]
      BY <1>1, UnderWay DEF IInv, TypeOK
    <3>2. c = [call[r] EXCEPT !.step = "created", !.bridge = Len(bridges) + 1]
          /\ call' = [call EXCEPT ![r] = c]
      BY <2>1, <3>1
    <3>3. c \in Local /\ c.step = "created" /\ c.session = call[r].session
          /\ c.row = call[r].row /\ c.turn = call[r].turn /\ c.bridge = Len(bridges) + 1
      <4>1. Len(bridges) + 1 \in Nat
        BY <1>3
      <4>2. c = [[call[r] EXCEPT !.step = "created"] EXCEPT !.bridge = Len(bridges) + 1]
        BY <3>2
      <4>3. [call[r] EXCEPT !.step = "created"] \in Local
        BY <3>1 DEF Local, Steps
      <4>. QED  BY <3>1, <4>1, <4>2, <4>3 DEF Local
    <3>4. faults' \in Nat
      BY <2>1 DEF IInv, TypeOK
    <3>. QED  BY <3>2, <3>3, <3>4
  <2>2. CASE Fault("lost") /\ End(r)
    BY <1>1, <2>2, UnderWay DEF End, Fault, IInv, TypeOK
  <2>. QED  BY <2>1, <2>2 DEF CreateBridgeSession
<1>. HIDE DEF c
<1>. QED  BY <1>1, <1>3, <1>4, CallMoves DEF TurnSteps

LEMMA PromptIInv ==
  ASSUME IInv, NEW r \in Requests, Prompt(r)
  PROVE  IInv'
<1>. DEFINE b == call[r].bridge
            t == call[r].turn
            new == {t} \ bridges[b].accepted
            box == [bridges[b] EXCEPT !.accepted = @ \cup new, !.pending = @ \cup new]
<1>1. call[r].step = "prompt" /\ Steady
  BY DEF Prompt, At, Steady
<1>2. b \in DOMAIN bridges /\ bridges[b] \in BridgeSession /\ t \in Turns
  BY <1>1, UnderWay DEF TurnSteps
<1>3. CASE bridges' = [bridges EXCEPT ![b] = box] /\ Answered(r, "accepted")
  <2>1. box \in BridgeSession
    BY <1>2 DEF BridgeSession
  <2>2. bridges' \in Seq(BridgeSession) /\ DOMAIN bridges' = DOMAIN bridges
    <3>. HIDE DEF box
    <3>. QED  BY <1>2, <1>3, <2>1, BridgesKept DEF IInv
  <2>. QED  BY <1>1, <1>3, <2>2, BridgeAnswers
<1>4. CASE Goto(r, "refused") /\ UNCHANGED <<bridges, faults>>
  <2>. DEFINE c == [call[r] EXCEPT !.step = "refused"]
  <2>1. call[r] \in Local /\ call' = [call EXCEPT ![r] = c] /\ faults' \in Nat
        /\ bridges' \in Seq(BridgeSession) /\ DOMAIN bridges \subseteq DOMAIN bridges'
    BY <1>1, <1>4, UnderWay DEF Goto, IInv, TypeOK
  <2>2. c \in Local /\ c.step = "refused" /\ c.session = call[r].session
        /\ c.row = call[r].row /\ c.turn = call[r].turn /\ c.bridge = b
    BY <2>1 DEF Local, Steps
  <2>3. c.bridge \in DOMAIN bridges'
    BY <1>2, <2>1, <2>2
  <2>. HIDE DEF c
  <2>. QED  BY <1>1, <2>1, <2>2, <2>3, CallMoves DEF TurnSteps
<1>5. \/ bridges' = [bridges EXCEPT ![b] = box] /\ Answered(r, "accepted")
      \/ Goto(r, "refused") /\ UNCHANGED <<bridges, faults>>
  <2>1. CASE bridges[b].live
    <3>1. bridges' = [bridges EXCEPT ![b].accepted = @ \cup new, ![b].pending = @ \cup new]
          /\ Answered(r, "accepted")
      BY <2>1 DEF Prompt
    <3>. QED  BY <1>2, <3>1 DEF BridgeSession
  <2>2. CASE ~bridges[b].live
    BY <2>2 DEF Prompt
  <2>. QED  BY <2>1, <2>2
<1>. QED  BY <1>3, <1>4, <1>5

LEMMA ReadStatusIInv ==
  ASSUME IInv, NEW r \in Requests, ReadStatus(r)
  PROVE  IInv'
<1>. DEFINE c == call'[r]
<1>1. call[r].step = "status" /\ Steady /\ UNCHANGED <<bridges, faults>>
  BY DEF ReadStatus, At, Steady
<1>2. /\ call[r] \in Local /\ call \in [Requests -> Local] /\ Idle \in Local /\ Idle.step = "idle"
      /\ bridges' \in Seq(BridgeSession) /\ DOMAIN bridges \subseteq DOMAIN bridges'
      /\ faults' \in Nat /\ call[r].bridge \in DOMAIN bridges'
      /\ bridges[call[r].bridge].streaming \in BOOLEAN
  <2>1. bridges[call[r].bridge] \in BridgeSession
    BY <1>1, UnderWay
  <2>. QED  BY <1>1, <2>1, UnderWay DEF IInv, TypeOK, BridgeSession
<1>3. CASE bridges[call[r].bridge].live
  <2>. DEFINE seen == bridges[call[r].bridge].streaming
  <2>1. call' = [call EXCEPT ![r].step = "observed", ![r].seen = seen]
    BY <1>3 DEF ReadStatus
  <2>2. c = [call[r] EXCEPT !.step = "observed", !.seen = seen] /\ call' = [call EXCEPT ![r] = c]
    BY <1>2, <2>1
  <2>3. c \in Local /\ c.step = "observed" /\ c.session = call[r].session
        /\ c.row = call[r].row /\ c.turn = call[r].turn /\ c.bridge = call[r].bridge
    BY <1>2, <2>2 DEF Local, Steps
  <2>. HIDE DEF c
  <2>. QED  BY <1>1, <1>2, <2>2, <2>3, CallMoves DEF TurnSteps
<1>4. CASE ~bridges[call[r].bridge].live
  <2>1. call' = [call EXCEPT ![r] = Idle]
    BY <1>4 DEF ReadStatus, End
  <2>. QED  BY <1>1, <1>2, <2>1, CallMoves
<1>. QED  BY <1>3, <1>4

LEMMA AbortIInv ==
  ASSUME IInv, NEW r \in Requests, Abort(r)
  PROVE  IInv'
<1>. DEFINE b == call[r].bridge
            box == [bridges[b] EXCEPT !.pending = {}]
<1>1. call[r].step = "abort" /\ Steady
  BY DEF Abort, At, Steady
<1>2. b \in DOMAIN bridges /\ bridges[b] \in BridgeSession
  BY <1>1, UnderWay
<1>3. CASE bridges' = [bridges EXCEPT ![b] = box] /\ Answered(r, "aborted")
  <2>1. box \in BridgeSession
    BY <1>2 DEF BridgeSession
  <2>2. bridges' \in Seq(BridgeSession) /\ DOMAIN bridges' = DOMAIN bridges
    <3>. HIDE DEF box
    <3>. QED  BY <1>2, <1>3, <2>1, BridgesKept DEF IInv
  <2>. QED  BY <1>1, <1>3, <2>2, BridgeAnswers
<1>4. CASE End(r) /\ UNCHANGED <<bridges, faults>>
  <2>1. bridges' \in Seq(BridgeSession) /\ DOMAIN bridges \subseteq DOMAIN bridges'
        /\ faults' \in Nat /\ call' = [call EXCEPT ![r] = Idle]
        /\ Idle \in Local /\ Idle.step = "idle"
    BY <1>1, <1>4, UnderWay DEF End
  <2>. QED  BY <1>1, <2>1, CallMoves
<1>. QED  BY <1>3, <1>4 DEF Abort

LEMMA RemoveBridgeSessionIInv ==
  ASSUME IInv, NEW r \in Requests, RemoveBridgeSession(r)
  PROVE  IInv'
<1>. DEFINE b == call[r].bridge
            box == [bridges[b] EXCEPT !.live = FALSE, !.streaming = FALSE, !.pending = {}]
<1>1. call[r].step = "remove" /\ Steady /\ Answered(r, "removed")
      /\ bridges' = [bridges EXCEPT ![b] = box]
  BY DEF RemoveBridgeSession, At, Steady
<1>2. b \in DOMAIN bridges /\ bridges[b] \in BridgeSession
  BY <1>1, UnderWay
<1>3. box \in BridgeSession
  BY <1>2 DEF BridgeSession
<1>4. bridges' \in Seq(BridgeSession) /\ DOMAIN bridges' = DOMAIN bridges
  <2>. HIDE DEF box
  <2>. QED  BY <1>1, <1>2, <1>3, BridgesKept DEF IInv
<1>. QED  BY <1>1, <1>4, BridgeAnswers

LEMMA RefusedIInv ==
  ASSUME IInv, NEW r \in Requests, Refused(r)
  PROVE  IInv'
<1>1. /\ call[r].step \in {"create", "prompt", "status", "abort", "remove"}
      /\ Steady /\ UNCHANGED bridges /\ faults' = faults + 1
  BY DEF Refused, Fault, Steady
<1>2. /\ call[r] \in Local /\ call \in [Requests -> Local] /\ Idle \in Local /\ Idle.step = "idle"
      /\ bridges' \in Seq(BridgeSession) /\ DOMAIN bridges \subseteq DOMAIN bridges'
      /\ faults' \in Nat
  BY <1>1, UnderWay DEF IInv, TypeOK
<1>3. CASE call[r].step = "prompt"
  <2>. DEFINE c == [call[r] EXCEPT !.step = "refused"]
  <2>1. call' = [call EXCEPT ![r] = c]
    BY <1>3 DEF Refused, At, Goto
  <2>2. c \in Local /\ c.step = "refused" /\ c.session = call[r].session
        /\ c.row = call[r].row /\ c.turn = call[r].turn /\ c.bridge = call[r].bridge
    BY <1>2 DEF Local, Steps
  <2>3. call[r].bridge \in DOMAIN bridges'
    BY <1>1, <1>3, UnderWay
  <2>. HIDE DEF c
  <2>. QED  BY <1>1, <1>2, <1>3, <2>1, <2>2, <2>3, CallMoves DEF TurnSteps
<1>4. CASE call[r].step # "prompt"
  <2>1. call' = [call EXCEPT ![r] = Idle]
    BY <1>4 DEF Refused, At, End
  <2>. QED  BY <1>1, <1>2, <2>1, CallMoves
<1>. QED  BY <1>3, <1>4

LEMMA PiIInv ==
  ASSUME IInv, Pi
  PROVE  IInv'
<1>1. PICK b \in DOMAIN bridges : PiStarts(b) \/ PiFinishes(b) \/ PiDies(b)
  BY DEF Pi
<1>2. bridges[b] \in BridgeSession /\ faults \in Nat
  BY ElementOfSeq DEF IInv, TypeOK
<1>3. \E box \in BridgeSession : bridges' = [bridges EXCEPT ![b] = box]
  <2>1. CASE PiStarts(b)
    <3>. DEFINE box == [bridges[b] EXCEPT !.streaming = TRUE]
    <3>1. box \in BridgeSession /\ bridges' = [bridges EXCEPT ![b] = box]
      BY <1>2, <2>1 DEF PiStarts, BridgeSession
    <3>. QED  BY <3>1
  <2>2. CASE PiFinishes(b)
    <3>. DEFINE Box(finished) == [bridges[b] EXCEPT !.streaming = FALSE,
                                    !.done = @ \cup finished, !.pending = @ \ finished]
    <3>1. PICK finished \in SUBSET bridges[b].pending :
            bridges' = [bridges EXCEPT ![b] = Box(finished)]
      BY <2>2 DEF PiFinishes
    <3>2. Box(finished) \in BridgeSession
      BY <1>2 DEF BridgeSession
    <3>. QED  BY <3>1, <3>2
  <2>3. CASE PiDies(b)
    <3>. DEFINE box == [bridges[b] EXCEPT !.streaming = FALSE, !.pending = {}]
    <3>1. box \in BridgeSession /\ bridges' = [bridges EXCEPT ![b] = box]
      BY <1>2, <2>3 DEF PiDies, BridgeSession
    <3>. QED  BY <3>1
  <2>. QED  BY <1>1, <2>1, <2>2, <2>3
<1>4. bridges' \in Seq(BridgeSession) /\ DOMAIN bridges' = DOMAIN bridges
  BY <1>3, BridgesKept DEF IInv
<1>5. UNCHANGED <<binding, drawn, turns, call>> /\ faults' \in Nat
  <2>1. CASE PiStarts(b) \/ PiFinishes(b)
    BY <1>2, <2>1 DEF PiStarts, PiFinishes
  <2>2. CASE PiDies(b)
    <3>1. UNCHANGED <<binding, drawn, turns, call>> /\ faults' = faults + 1
      BY <2>2 DEF PiDies, Fault
    <3>. QED  BY <1>2, <3>1
  <2>. QED  BY <1>1, <2>1, <2>2
<1>. QED  BY <1>4, <1>5, OnlyBridges

\* A request that has just begun: it has read the row of its session.
LEMMA Begun ==
  ASSUME IInv, NEW r \in Requests, NEW s \in Sessions, NEW step \in Steps,
         NEW t \in Turns \cup {None}, NEW statuses,
         step # "create", step \in TurnSteps => t \in Turns,
         step \in {"prompt", "accepted", "refused"} => statuses[t] \in {"queued", "cancelled"},
         binding[s].bridge # None, Begin(r, step, s, t)
  PROVE  /\ call' = [call EXCEPT ![r] = call'[r]]
         /\ call'[r].step = step /\ call'[r].turn = t /\ call'[r].row = binding[s].id
         /\ GoodCall(s, binding[s], statuses, call'[r])
         /\ call[r].step = "idle"
<1>1. /\ binding[s] \in Row /\ binding[s].id # None
      /\ binding[s].bridge \in DOMAIN bridges
  BY DEF IInv, TypeOK, Rows
<1>2. /\ call' = [call EXCEPT ![r] = call'[r]]
      /\ call'[r] = [Idle EXCEPT !.step = step, !.session = s, !.turn = t,
                                 !.row = binding[s].id, !.bridge = binding[s].bridge]
      /\ call[r].step = "idle"
  BY DEF Begin, At, IInv, TypeOK
<1>3. /\ call'[r].step = step /\ call'[r].session = s /\ call'[r].turn = t
      /\ call'[r].row = binding[s].id /\ call'[r].bridge = binding[s].bridge
  BY <1>2 DEF Idle
<1>4. call'[r] \in Local
  BY <1>1, <1>2 DEF Idle, Local, Row, None
<1>. QED  BY <1>1, <1>2, <1>3, <1>4 DEF GoodCall

\* A new request changes nothing in the tables.
LEMMA BeginReads ==
  ASSUME IInv, NEW r \in Requests, NEW s \in Sessions, NEW step \in {"status", "abort", "remove"},
         NEW t \in Turns \cup {None}, step = "abort" => t \in Turns,
         binding[s].bridge # None, Begin(r, step, s, t),
         UNCHANGED <<binding, turns, drawn, bridges, faults>>
  PROVE  IInv'
<1>1. /\ call' = [call EXCEPT ![r] = call'[r]]
      /\ call'[r].step = step
      /\ GoodCall(s, binding[s], turns[s], call'[r])
  <2>1. /\ step \in Steps /\ step # "create"
        /\ step \in TurnSteps => t \in Turns
        /\ step \notin {"prompt", "accepted", "refused"}
    BY DEF TurnSteps, Steps
  <2>. QED  BY <2>1, Begun
<1>2. OthersAgree(r, s, binding[s], turns[s], call'[r])
  BY <1>1, OthersUndisturbed
<1>3. /\ GoodRow(s, binding[s], turns[s], drawn') /\ drawn' \in Nat /\ drawn <= drawn'
      /\ binding' = [binding EXCEPT ![s] = binding[s]]
      /\ turns' = [turns EXCEPT ![s] = turns[s]]
  BY Fresh
<1>4. faults' \in Nat /\ UNCHANGED bridges
  BY DEF IInv, TypeOK
<1>. QED  BY <1>1, <1>2, <1>3, <1>4, SessionChanges

\* A request that leaves, or never calls the Bridge: it changes the rows of its session.
LEMMA Ends ==
  ASSUME IInv, NEW r \in Requests, NEW s \in Sessions, NEW row, NEW statuses,
         NEW c \in Local, c.step = "idle",
         drawn' \in Nat, drawn <= drawn', faults' \in Nat,
         GoodRow(s, row, statuses, drawn'),
         row.id = binding[s].id =>
            \A t \in Turns : turns[s][t] \in {"queued", "cancelled"} =>
                \/ statuses[t] \in {"queued", "cancelled"}
                \/ Submitting(r) /\ call[r].turn = t /\ call[r].row = row.id,
         binding' = [binding EXCEPT ![s] = row],
         turns' = [turns EXCEPT ![s] = statuses],
         call' = [call EXCEPT ![r] = c],
         UNCHANGED bridges
  PROVE  IInv'
<1>1. GoodCall(s, row, statuses, c)
  BY DEF GoodCall
<1>2. OthersAgree(r, s, row, statuses, c)
  <2>1. row.id # None => row.id = binding[s].id \/ row.id > drawn
    BY DEF GoodRow
  <2>. QED  BY <2>1, OthersUndisturbed
<1>. QED  BY <1>1, <1>2, SessionChanges

LEMMA PutSessionIInv ==
  ASSUME IInv, NEW r \in Requests, NEW s \in Sessions, PutSession(r, s)
  PROVE  IInv'
<1>. DEFINE Rows0 == IF binding[s].id = None
                     THEN {NewRow(drawn + 1, cwd) : cwd \in Directories} ELSE {binding[s]}
<1>1. PICK row \in Rows0 :
        /\ drawn' = IF row.id > drawn THEN row.id ELSE drawn
        /\ \/ /\ binding' = [binding EXCEPT ![s] = row]
              /\ call' = [call EXCEPT ![r] = [Idle EXCEPT !.step = "create", !.session = s,
                                                        !.row = row.id, !.cwd = row.cwd]]
              /\ UNCHANGED faults
           \/ /\ \E b \in Adoptable(row.cwd) :
                    binding' = [binding EXCEPT ![s] = [row EXCEPT !.bridge = b, !.state = "ready"]]
              /\ UNCHANGED <<call, faults>>
           \/ /\ Fault("refuse")
              /\ binding' = [binding EXCEPT ![s] = row]
              /\ UNCHANGED call
  BY DEF PutSession
<1>2. /\ At(r, "idle") /\ UNCHANGED <<turns, bridges>> /\ binding[s].bridge = None
      /\ binding \in [Sessions -> Row] /\ turns \in [Sessions -> [Turns -> TurnStatuses]]
      /\ call \in [Requests -> Local] /\ drawn \in Nat /\ faults \in Nat
      /\ binding[s] \in Row /\ binding[s].id <= drawn /\ binding[s].id \in Nat
  BY DEF PutSession, IInv, TypeOK, Rows, Row
<1>3. /\ row \in Row /\ row.id # None /\ row.id \in Nat /\ row.cwd \in Directories
      /\ row.id = binding[s].id \/ row.id > drawn
      /\ row.bridge = None
      /\ row.active = None
  <2>1. CASE binding[s].id = None
    <3>1. PICK cwd \in Directories : row = NewRow(drawn + 1, cwd)
      BY <1>1, <2>1
    <3>2. /\ row.id = drawn + 1 /\ row.cwd = cwd /\ row.bridge = None /\ row.active = None
          /\ row \in Row
      <4>1. row = [id |-> drawn + 1, bridge |-> None, cwd |-> cwd, state |-> "provisioning",
                   active |-> None]
        BY <3>1 DEF NewRow, NoRow
      <4>2. drawn + 1 \in Nat
        BY <1>2
      <4>. QED  BY <4>1, <4>2 DEF Row, SessionStates, None
    <3>. QED  BY <1>2, <3>2 DEF None
  <2>2. CASE binding[s].id # None
    BY <1>2, <2>2 DEF IInv, Rows
  <2>. QED  BY <2>1, <2>2
<1>4. drawn' \in Nat /\ drawn <= drawn' /\ row.id <= drawn' /\ turns' = [turns EXCEPT ![s] = turns[s]]
  <2>1. drawn' = IF row.id > drawn THEN row.id ELSE drawn
    BY <1>1
  <2>. HIDE DEF Rows0
  <2>2. turns' = [turns EXCEPT ![s] = turns[s]]
    BY <1>2
  <2>3. drawn \in Nat /\ row.id \in Nat
    BY <1>2, <1>3
  <2>4. drawn' \in Nat /\ drawn <= drawn' /\ row.id <= drawn'
    BY <2>1, <2>3
  <2>. QED  BY <2>2, <2>4
<1>. HIDE DEF Rows0
<1>5. GoodRow(s, row, turns[s], drawn')
  BY <1>2, <1>3, <1>4 DEF GoodRow
<1>6. ASSUME binding' = [binding EXCEPT ![s] = row],
             call' = [call EXCEPT ![r] = [Idle EXCEPT !.step = "create", !.session = s,
                                                      !.row = row.id, !.cwd = row.cwd]],
             UNCHANGED faults
      PROVE  IInv'
  <2>. DEFINE c == [Idle EXCEPT !.step = "create", !.session = s,
                                !.row = row.id, !.cwd = row.cwd]
  <2>1. /\ c.step = "create" /\ c.session = s /\ c.row = row.id /\ c.cwd = row.cwd
        /\ c \in Local
    BY <1>3 DEF Idle, Local, Steps, None
  <2>. HIDE DEF c
  <2>2. GoodCall(s, row, turns[s], c)
    BY <1>3, <2>1 DEF GoodCall, TurnSteps
  <2>3. OthersAgree(r, s, row, turns[s], c)
    BY <1>3, <2>1, OthersUndisturbed
  <2>4. call' = [call EXCEPT ![r] = c]
    BY <1>6 DEF c
  <2>. QED  BY <1>2, <1>4, <1>5, <1>6, <2>2, <2>3, <2>4, SessionChanges
<1>7. ASSUME NEW b \in Adoptable(row.cwd), UNCHANGED <<call, faults>>,
             binding' = [binding EXCEPT ![s] = [row EXCEPT !.bridge = b, !.state = "ready"]]
      PROVE  IInv'
  <2>. DEFINE new == [row EXCEPT !.bridge = b, !.state = "ready"]
  <2>1. b \in DOMAIN bridges /\ b \in Nat
    BY LenProperties DEF Adoptable, Live, IInv, TypeOK
  <2>2. /\ new \in Row /\ new.id = row.id /\ new.bridge = b /\ new.cwd = row.cwd
        /\ new.active = row.active
    BY <1>3, <2>1 DEF Row, SessionStates
  <2>. HIDE DEF new
  <2>3. GoodRow(s, new, turns[s], drawn')
    BY <1>5, <1>3, <2>1, <2>2 DEF GoodRow
  <2>4. call' = [call EXCEPT ![r] = call[r]] /\ call[r] \in Local /\ call[r].step = "idle"
        /\ faults' \in Nat /\ binding' = [binding EXCEPT ![s] = new]
    BY <1>2, <1>7 DEF At, new
  <2>. QED  BY <1>2, <1>4, <2>3, <2>4, Ends
<1>8. ASSUME Fault("refuse"), binding' = [binding EXCEPT ![s] = row], UNCHANGED call
      PROVE  IInv'
  <2>1. call' = [call EXCEPT ![r] = call[r]] /\ call[r] \in Local /\ call[r].step = "idle"
        /\ faults' \in Nat
    BY <1>2, <1>8 DEF At, Fault
  <2>. QED  BY <1>2, <1>4, <1>5, <1>8, <2>1, Ends
<1>. QED  BY <1>1, <1>6, <1>7, <1>8

LEMMA RecordBridgeSessionIInv ==
  ASSUME IInv, NEW r \in Requests, RecordBridgeSession(r)
  PROVE  IInv'
<1>. DEFINE s == call[r].session
            row == [binding[s] EXCEPT !.bridge = call[r].bridge, !.state = "ready"]
            new == IF Current(r) THEN row ELSE binding[s]
<1>1. /\ call[r].step = "created" /\ End(r) /\ UNCHANGED <<drawn, turns, bridges, faults>>
      /\ s \in Sessions /\ call[r].bridge \in DOMAIN bridges /\ call[r] \in Local
      /\ call[r].bridge # None /\ call[r].row # None
  <2>1. call[r].step = "created" /\ End(r) /\ UNCHANGED <<drawn, turns, bridges, faults>>
    BY DEF RecordBridgeSession, At
  <2>. QED  BY <2>1, UnderWay, LenProperties DEF None, Equipped
<1>2. /\ binding[s] \in Row /\ turns[s] \in [Turns -> TurnStatuses]
      /\ GoodRow(s, binding[s], turns[s], drawn) /\ drawn \in Nat
      /\ binding \in [Sessions -> Row] /\ turns \in [Sessions -> [Turns -> TurnStatuses]]
  BY <1>1, Fresh DEF IInv, TypeOK
<1>3. binding' = [binding EXCEPT ![s] = new]
  BY <1>2 DEF RecordBridgeSession
<1>4. row \in Row /\ row.id = binding[s].id /\ row.bridge = call[r].bridge
      /\ row.cwd = binding[s].cwd /\ row.active = binding[s].active
  BY <1>1, <1>2 DEF Row, Local, SessionStates
<1>5. GoodRow(s, new, turns[s], drawn') /\ new.id = binding[s].id
  BY <1>1, <1>2, <1>4 DEF GoodRow, Current
<1>6. /\ call' = [call EXCEPT ![r] = Idle] /\ Idle \in Local /\ Idle.step = "idle"
      /\ drawn' \in Nat /\ drawn <= drawn' /\ faults' \in Nat
      /\ turns' = [turns EXCEPT ![s] = turns[s]]
  BY <1>1, <1>2, UnderWay DEF End
<1>. HIDE DEF new, row, s
<1>. QED  BY <1>1, <1>3, <1>5, <1>6, Ends

LEMMA SubmitTurnIInv ==
  ASSUME IInv, NEW r \in Requests, NEW s \in Sessions, NEW t \in Turns, SubmitTurn(r, s, t)
  PROVE  IInv'
<1>. DEFINE statuses == [turns[s] EXCEPT ![t] = "queued"]
<1>1. /\ binding[s].bridge # None /\ turns[s][t] = "none" /\ Begin(r, "prompt", s, t)
      /\ binding[s].active = None
      /\ UNCHANGED <<binding, drawn, bridges, faults>>
  BY DEF SubmitTurn, Submittable, Free
<1>2. /\ binding[s] \in Row /\ turns[s] \in [Turns -> TurnStatuses]
      /\ GoodRow(s, binding[s], turns[s], drawn) /\ drawn \in Nat /\ drawn <= drawn
      /\ binding \in [Sessions -> Row] /\ turns \in [Sessions -> [Turns -> TurnStatuses]]
      /\ binding = [binding EXCEPT ![s] = @]
      /\ faults \in Nat
  BY Fresh DEF IInv, TypeOK
<1>3. /\ turns' = [turns EXCEPT ![s] = statuses]
      /\ statuses \in [Turns -> TurnStatuses]
      /\ statuses[t] = "queued"
      /\ \A u \in Turns \ {t} : statuses[u] = turns[s][u]
  BY <1>2 DEF SubmitTurn, TurnStatuses
<1>. HIDE DEF statuses
<1>4. GoodRow(s, binding[s], statuses, drawn')
  BY <1>1, <1>2, <1>3 DEF GoodRow
<1>5. /\ call' = [call EXCEPT ![r] = call'[r]]
      /\ call'[r].step = "prompt" /\ call'[r].turn = t
      /\ GoodCall(s, binding[s], statuses, call'[r])
  BY <1>1, <1>3, Begun DEF TurnSteps, Steps
<1>6. OthersAgree(r, s, binding[s], statuses, call'[r])
  <2>1. SUFFICES ASSUME NEW other \in Requests \ {r}, Submitting(other),
                        call[other].session = s, call[other].row = binding[s].id
                 PROVE  /\ statuses[call[other].turn] \in {"queued", "cancelled"}
                        /\ t # call[other].turn
    BY <1>5 DEF OthersAgree
  <2>2. Pending(call[other]) /\ call[other].turn \in Turns
    BY <2>1, UnderWay DEF Submitting, TurnSteps
  <2>3. turns[s][call[other].turn] \in {"queued", "cancelled"}
    BY <2>1, <2>2 DEF Pending, Submitting
  <2>. QED  BY <1>1, <1>3, <2>2, <2>3
<1>7. drawn' \in Nat /\ drawn <= drawn' /\ faults' \in Nat /\ UNCHANGED bridges
      /\ binding' = [binding EXCEPT ![s] = binding[s]]
  BY <1>1, <1>2
<1>. QED  BY <1>3, <1>4, <1>5, <1>6, <1>7, SessionChanges

\* What the last part of a turn's request finds.
LEMMA Deciding ==
  ASSUME IInv, NEW r \in Requests, call[r].step \in TurnSteps
  PROVE  /\ call[r].session \in Sessions /\ call[r].turn \in Turns /\ call[r].row \in Nat
         /\ Idle \in Local /\ Idle.step = "idle"
         /\ drawn \in Nat /\ drawn <= drawn /\ faults \in Nat
         /\ binding \in [Sessions -> Row] /\ turns \in [Sessions -> [Turns -> TurnStatuses]]
         /\ binding[call[r].session] \in Row
         /\ turns[call[r].session] \in [Turns -> TurnStatuses]
         /\ GoodRow(call[r].session, binding[call[r].session], turns[call[r].session], drawn)
BY UnderWay, Fresh DEF TurnSteps, Local, IInv, TypeOK

LEMMA ConfirmTurnIInv ==
  ASSUME IInv, NEW r \in Requests, ConfirmTurn(r)
  PROVE  IInv'
<1>. DEFINE s == call[r].session
            t == call[r].turn
            row == IF Current(r)
                   THEN [binding[s] EXCEPT !.state = "running", !.active = t] ELSE binding[s]
            statuses == IF Current(r) THEN [turns[s] EXCEPT ![t] = "running"] ELSE turns[s]
<1>1. /\ call[r].step = "accepted" /\ call' = [call EXCEPT ![r] = Idle]
      /\ UNCHANGED <<drawn, bridges, faults>>
  BY DEF ConfirmTurn, At, End
<1>2. call[r].step \in TurnSteps
  BY <1>1 DEF TurnSteps
<1>3. binding' = [binding EXCEPT ![s] = row] /\ turns' = [turns EXCEPT ![s] = statuses]
  BY <1>2, Deciding DEF ConfirmTurn, Becomes
<1>4. GoodRow(s, row, statuses, drawn') /\ row.id = binding[s].id
  <2>1. CASE Current(r)
    <3>1. /\ row \in Row /\ row.id = binding[s].id /\ row.bridge = binding[s].bridge
          /\ row.cwd = binding[s].cwd /\ row.active = t /\ row.bridge # None
      <4>1. binding[s].bridge # None
        BY <1>1, <2>1, UnderWay DEF Pending, Current
      <4>. QED  BY <1>2, <2>1, <4>1, Deciding DEF Row, SessionStates
    <3>2. statuses \in [Turns -> TurnStatuses] /\ statuses[t] = "running"
      BY <1>2, <2>1, Deciding DEF TurnStatuses
    <3>. QED  BY <1>1, <1>2, <3>1, <3>2, Deciding DEF GoodRow
  <2>2. CASE ~Current(r)
    BY <1>1, <1>2, <2>2, Deciding
  <2>. QED  BY <2>1, <2>2
<1>5. row.id = binding[s].id =>
        \A u \in Turns : turns[s][u] \in {"queued", "cancelled"} =>
            \/ statuses[u] \in {"queued", "cancelled"}
            \/ Submitting(r) /\ call[r].turn = u /\ call[r].row = row.id
  BY <1>1, <1>2, <1>4, Deciding DEF Submitting, Current
<1>. HIDE DEF s, row, statuses
<1>6. s \in Sessions
  BY <1>2, Deciding DEF s
<1>. QED  BY <1>1, <1>2, <1>3, <1>4, <1>5, <1>6, Deciding, Ends

LEMMA FailTurnIInv ==
  ASSUME IInv, NEW r \in Requests, FailTurn(r)
  PROVE  IInv'
<1>. DEFINE s == call[r].session
            t == call[r].turn
            statuses == IF Current(r) THEN [turns[s] EXCEPT ![t] = "failed"] ELSE turns[s]
<1>1. /\ call[r].step = "refused" /\ call' = [call EXCEPT ![r] = Idle]
      /\ UNCHANGED <<binding, drawn, bridges, faults>>
  BY DEF FailTurn, At, End
<1>2. call[r].step \in TurnSteps
  BY <1>1 DEF TurnSteps
<1>3. binding' = [binding EXCEPT ![s] = binding[s]] /\ turns' = [turns EXCEPT ![s] = statuses]
  BY <1>1, <1>2, Deciding DEF FailTurn, Becomes
<1>4. GoodRow(s, binding[s], statuses, drawn')
  <2>1. CASE Current(r)
    <3>1. turns[s][t] \in {"queued", "cancelled"}
      BY <1>1, <2>1, UnderWay DEF Pending, Current
    <3>2. binding[s].active # t
      BY <1>2, <3>1, Deciding, TurnAssumption DEF IInv, ActiveIsRunning
    <3>3. statuses \in [Turns -> TurnStatuses] /\ \A u \in Turns \ {t} : statuses[u] = turns[s][u]
      BY <1>2, <2>1, Deciding DEF TurnStatuses
    <3>4. binding[s].active # None => binding[s].active \in Turns
      BY <1>2, Deciding DEF Row
    <3>. QED  BY <1>1, <1>2, <3>2, <3>3, <3>4, Deciding DEF GoodRow
  <2>2. CASE ~Current(r)
    BY <1>1, <1>2, <2>2, Deciding
  <2>. QED  BY <2>1, <2>2
<1>5. \A u \in Turns : turns[s][u] \in {"queued", "cancelled"} =>
            \/ statuses[u] \in {"queued", "cancelled"}
            \/ Submitting(r) /\ call[r].turn = u /\ call[r].row = binding[s].id
  BY <1>1, <1>2, Deciding DEF Submitting, Current
<1>. HIDE DEF s, statuses
<1>6. s \in Sessions
  BY <1>2, Deciding DEF s
<1>. QED  BY <1>1, <1>2, <1>3, <1>4, <1>5, <1>6, Deciding, Ends

LEMMA ApplyStatusIInv ==
  ASSUME IInv, NEW r \in Requests, ApplyStatus(r)
  PROVE  IInv'
<1>. DEFINE s == call[r].session
            seen == call[r].seen
            active == binding[s].active
            row == IF Current(r)
                   THEN [binding[s] EXCEPT !.state = StateOf(seen), !.active = IF seen THEN @ ELSE None]
                   ELSE binding[s]
            done == Current(r) /\ ~seen /\ active # None /\ turns[s][active] = "running"
            statuses == IF done THEN [turns[s] EXCEPT ![active] = "succeeded"] ELSE turns[s]
<1>1. /\ call[r].step = "observed" /\ call' = [call EXCEPT ![r] = Idle]
      /\ UNCHANGED <<drawn, bridges, faults>>
  BY DEF ApplyStatus, At, End
<1>2. /\ s \in Sessions /\ Idle \in Local /\ Idle.step = "idle" /\ drawn' \in Nat /\ drawn <= drawn'
      /\ faults' \in Nat /\ binding[s] \in Row /\ turns[s] \in [Turns -> TurnStatuses]
      /\ GoodRow(s, binding[s], turns[s], drawn')
      /\ binding \in [Sessions -> Row] /\ turns \in [Sessions -> [Turns -> TurnStatuses]]
  BY <1>1, UnderWay, Fresh DEF IInv, TypeOK
<1>3. binding' = [binding EXCEPT ![s] = row]
  <2>1. CASE Current(r)
    <3>1. binding' = [binding EXCEPT ![s].state = StateOf(seen),
                                     ![s].active = IF seen THEN @ ELSE None]
      BY <2>1 DEF ApplyStatus
    <3>2. row = [binding[s] EXCEPT !.state = StateOf(seen),
                                   !.active = IF seen THEN binding[s].active ELSE None]
      BY <2>1
    <3>. QED  BY <1>2, <3>1, <3>2 DEF Row
  <2>2. CASE ~Current(r)
    BY <1>2, <2>2 DEF ApplyStatus
  <2>. QED  BY <2>1, <2>2
<1>4. turns' = [turns EXCEPT ![s] = statuses]
  <2>1. CASE done
    BY <1>2, <2>1 DEF ApplyStatus
  <2>2. CASE ~done
    BY <1>2, <2>2 DEF ApplyStatus
  <2>. QED  BY <2>1, <2>2
<1>5. active # None => active \in Turns
  BY <1>2 DEF Row
<1>6. GoodRow(s, row, statuses, drawn') /\ row.id = binding[s].id
  <2>1. CASE Current(r)
    <3>1. /\ row \in Row /\ row.id = binding[s].id /\ row.bridge = binding[s].bridge
          /\ row.cwd = binding[s].cwd /\ row.active = IF seen THEN active ELSE None
      BY <1>2, <2>1 DEF Row, SessionStates, StateOf
    <3>2. statuses \in [Turns -> TurnStatuses]
      BY <1>2, <1>5 DEF TurnStatuses
    <3>3. seen => statuses = turns[s]
      OBVIOUS
    <3>4. row.active # None => seen
      BY <3>1
    <3>. HIDE DEF row, statuses
    <3>. QED  BY <1>2, <3>1, <3>2, <3>3, <3>4 DEF GoodRow
  <2>2. CASE ~Current(r)
    BY <1>2, <2>2
  <2>. QED  BY <2>1, <2>2
<1>7. \A u \in Turns : turns[s][u] \in {"queued", "cancelled"} =>
            \/ statuses[u] \in {"queued", "cancelled"}
            \/ Submitting(r) /\ call[r].turn = u /\ call[r].row = row.id
  BY <1>2
<1>. HIDE DEF s, row, statuses
<1>. QED  BY <1>1, <1>2, <1>3, <1>4, <1>6, <1>7, Ends

\* A turn becomes cancelled, and its session free if it was the active one.
LEMMA CancelledIInv ==
  ASSUME IInv, NEW r \in Requests, NEW s \in Sessions, NEW t \in Turns, Cancelled(s, t),
         NEW c \in Local, c.step = "idle", call' = [call EXCEPT ![r] = c],
         UNCHANGED <<drawn, bridges, faults>>
  PROVE  IInv'
<1>. DEFINE row == IF binding[s].active = t
                   THEN [binding[s] EXCEPT !.active = None, !.state = "ready"] ELSE binding[s]
            statuses == [turns[s] EXCEPT ![t] = "cancelled"]
<1>1. /\ drawn' \in Nat /\ drawn <= drawn'
      /\ faults' \in Nat /\ binding[s] \in Row /\ turns[s] \in [Turns -> TurnStatuses]
      /\ GoodRow(s, binding[s], turns[s], drawn')
      /\ binding \in [Sessions -> Row] /\ turns \in [Sessions -> [Turns -> TurnStatuses]]
  BY Fresh DEF IInv, TypeOK
<1>2. binding' = [binding EXCEPT ![s] = row] /\ turns' = [turns EXCEPT ![s] = statuses]
  BY <1>1 DEF Cancelled
<1>3. GoodRow(s, row, statuses, drawn') /\ row.id = binding[s].id
  <2>1. /\ row \in Row /\ row.id = binding[s].id /\ row.bridge = binding[s].bridge
        /\ row.cwd = binding[s].cwd
        /\ row.active # None => row.active = binding[s].active /\ row.active # t
    BY <1>1, TurnAssumption DEF Row, SessionStates
  <2>2. statuses \in [Turns -> TurnStatuses] /\ \A u \in Turns \ {t} : statuses[u] = turns[s][u]
    BY <1>1 DEF TurnStatuses
  <2>3. row.active # None => row.active \in Turns
    BY <2>1 DEF Row
  <2>. HIDE DEF row, statuses
  <2>. QED  BY <1>1, <2>1, <2>2, <2>3 DEF GoodRow
<1>4. \A u \in Turns : turns[s][u] \in {"queued", "cancelled"} => statuses[u] \in {"queued", "cancelled"}
  BY <1>1
<1>. HIDE DEF row, statuses
<1>. QED  BY <1>1, <1>2, <1>3, <1>4, Ends

\* A session's row is gone, with its turns.
LEMMA RemovedIInv ==
  ASSUME IInv, NEW r \in Requests, NEW s \in Sessions, Removed(s), binding[s].id # None,
         NEW c \in Local, c.step = "idle", call' = [call EXCEPT ![r] = c],
         UNCHANGED <<drawn, bridges, faults>>
  PROVE  IInv'
<1>1. /\ drawn' \in Nat /\ drawn <= drawn' /\ faults' \in Nat
      /\ NoRow.id = None /\ NoRow.id # binding[s].id
      /\ binding' = [binding EXCEPT ![s] = NoRow] /\ turns' = [turns EXCEPT ![s] = NoTurns]
  BY Fresh DEF IInv, TypeOK, Removed, NoRow
<1>2. GoodRow(s, NoRow, NoTurns, drawn')
  BY DEF GoodRow, NoRow, NoTurns, Row, SessionStates, TurnStatuses, None
<1>. QED  BY <1>1, <1>2, Ends

\* A request that ends and changes nothing else.
LEMMA QuietEnd ==
  ASSUME IInv, NEW r \in Requests, call[r].step # "idle", End(r), Steady,
         UNCHANGED <<bridges, faults>>
  PROVE  IInv'
<1>1. /\ Idle \in Local /\ Idle.step = "idle" /\ call' = [call EXCEPT ![r] = Idle]
      /\ bridges' \in Seq(BridgeSession) /\ DOMAIN bridges \subseteq DOMAIN bridges'
      /\ faults' \in Nat
  BY UnderWay DEF End
<1>. QED  BY <1>1, CallMoves

LEMMA CancelTurnIInv ==
  ASSUME IInv, NEW r \in Requests, NEW s \in Sessions, NEW t \in Turns, CancelTurn(r, s, t)
  PROVE  IInv'
<1>1. CASE binding[s].active = t /\ Begin(r, "abort", s, t) /\ UNCHANGED <<turns, binding>>
  <2>1. binding[s].bridge # None
    BY <1>1, TurnAssumption DEF IInv, Rows
  <2>. QED  BY <1>1, <2>1, BeginReads DEF CancelTurn
<1>2. CASE At(r, "idle") /\ Cancelled(s, t) /\ UNCHANGED call
  <2>1. call[r] \in Local /\ call[r].step = "idle" /\ call' = [call EXCEPT ![r] = call[r]]
        /\ UNCHANGED <<drawn, bridges, faults>>
    BY <1>2 DEF At, IInv, TypeOK, CancelTurn
  <2>. QED  BY <1>2, <2>1, CancelledIInv
<1>. QED  BY <1>1, <1>2 DEF CancelTurn

LEMMA ApplyCancelIInv ==
  ASSUME IInv, NEW r \in Requests, ApplyCancel(r)
  PROVE  IInv'
<1>1. /\ call[r].step = "aborted" /\ End(r) /\ UNCHANGED <<drawn, bridges, faults>>
      /\ call[r].step \in TurnSteps
  BY DEF ApplyCancel, At, TurnSteps
<1>2. CASE UNCHANGED <<turns, binding>>
  BY <1>1, <1>2, QuietEnd DEF Steady
<1>3. CASE Cancelled(call[r].session, call[r].turn)
  BY <1>1, <1>3, Deciding, CancelledIInv DEF End
<1>. QED  BY <1>2, <1>3 DEF ApplyCancel

LEMMA DeleteSessionIInv ==
  ASSUME IInv, NEW r \in Requests, NEW s \in Sessions, DeleteSession(r, s)
  PROVE  IInv'
<1>1. CASE binding[s].bridge # None
  BY <1>1, BeginReads DEF DeleteSession
<1>2. CASE binding[s].bridge = None
  <2>1. call[r] \in Local /\ call[r].step = "idle" /\ call' = [call EXCEPT ![r] = call[r]]
    BY <1>2 DEF At, IInv, TypeOK, DeleteSession
  <2>. QED  BY <1>2, <2>1, RemovedIInv DEF DeleteSession
<1>. QED  BY <1>1, <1>2

LEMMA ApplyDeleteIInv ==
  ASSUME IInv, NEW r \in Requests, ApplyDelete(r)
  PROVE  IInv'
<1>1. /\ call[r].step = "removed" /\ End(r) /\ UNCHANGED <<drawn, bridges, faults>>
  BY DEF ApplyDelete, At
<1>2. CASE Current(r)
  <2>1. binding[call[r].session].id # None
    BY <1>1, <1>2, UnderWay DEF Current, Equipped
  <2>. QED  BY <1>1, <1>2, <2>1, UnderWay, RemovedIInv DEF ApplyDelete, End
<1>3. CASE ~Current(r)
  BY <1>1, <1>3, QuietEnd DEF ApplyDelete, Steady
<1>. QED  BY <1>2, <1>3

LEMMA CrashIInv ==
  ASSUME IInv, Crash
  PROVE  IInv'
<1>. USE DEF IInv
<1>1. /\ UNCHANGED <<binding, drawn, turns, bridges>> /\ faults' = faults + 1
      /\ \A r \in Requests : call'[r] = Idle
      /\ call' = [r \in Requests |-> Idle]
  BY DEF Crash, Fault
<1>2. Idle \in Local /\ Idle.step = "idle"
  BY DEF Idle, Local, Steps, None
<1>3. TypeOK' /\ Rows'
  BY <1>1, <1>2 DEF TypeOK, Rows
<1>4. CallsOK' /\ ActiveIsRunning' /\ SubmittedOnce'
  BY <1>1, <1>2 DEF CallsOK, Equipped, Owner, Pending, ActiveIsRunning, SubmittedOnce, Submitting
<1>. QED  BY <1>3, <1>4

LEMMA NextIInv == IInv /\ [Next]_vars => IInv'
<1>. SUFFICES ASSUME IInv, [Next]_vars PROVE IInv'
  OBVIOUS
<1>1. CASE UNCHANGED vars
  BY <1>1 DEF vars, IInv, TypeOK, Rows, CallsOK, Equipped, Owner, Pending, ActiveIsRunning,
              SubmittedOnce, Submitting
<1>2. ASSUME NEW r \in Requests, Arrive(r) PROVE IInv'
  BY <1>2, PutSessionIInv, BeginReads, DeleteSessionIInv, SubmitTurnIInv, CancelTurnIInv
     DEF Arrive, RefreshSession
<1>3. ASSUME NEW r \in Requests, Serve(r) PROVE IInv'
  BY <1>3, CreateBridgeSessionIInv, RecordBridgeSessionIInv, PromptIInv, ConfirmTurnIInv,
     FailTurnIInv, ReadStatusIInv, ApplyStatusIInv, AbortIInv, ApplyCancelIInv,
     RemoveBridgeSessionIInv, ApplyDeleteIInv, RefusedIInv DEF Serve
<1>. QED  BY <1>1, <1>2, <1>3, PiIInv, CrashIInv DEF Next

\* The inductive invariant holds in every reachable state.
THEOREM InvariantHolds == Spec => []IInv
BY InitIInv, NextIInv, PTL DEF Spec

\* The tables and the requests under way always hold values of their types.
THEOREM TypesHold == Spec => []TypeOK
<1>1. IInv => TypeOK
  BY DEF IInv
<1>. QED  BY <1>1, InvariantHolds, PTL

\* However put_turn, get_session, cancel_turn and delete_session interleave, and whatever answers
\* are lost, the active turn of a session is one that runs.
THEOREM ActiveTurnsRun == Spec => []ActiveIsRunning
<1>1. IInv => ActiveIsRunning
  BY DEF IInv
<1>. QED  BY <1>1, InvariantHolds, PTL

\* put_turn never has two submissions of a turn of the same row under way.
THEOREM SubmissionsAreSingle == Spec => []SubmittedOnce
<1>1. IInv => SubmittedOnce
  BY DEF IInv
<1>. QED  BY <1>1, InvariantHolds, PTL

\* A turn that has succeeded or failed is neither submitted again nor taken for running by a
\* put_turn that ends late.
THEOREM FinishedTurnsStay == Spec => FinishedNeverRuns
<1>. DEFINE Stay == \A s \in Sessions, t \in Turns :
        turns[s][t] \in {"succeeded", "failed"} => turns'[s][t] \notin {"queued", "running"}
<1>1. IInv /\ [Next]_vars => [Stay]_vars
  <2>. SUFFICES ASSUME IInv, Next PROVE Stay
    OBVIOUS
  <2>1. CASE UNCHANGED turns
    BY <2>1
  <2>2. ASSUME turns \in [Sessions -> [Turns -> TurnStatuses]],
               NEW s \in Sessions, NEW t \in Turns, NEW status,
               turns' = [turns EXCEPT ![s][t] = status],
               status \notin {"queued", "running"} \/ turns[s][t] \notin {"succeeded", "failed"}
        PROVE  Stay
    BY <2>2
  <2>3. turns \in [Sessions -> [Turns -> TurnStatuses]]
    BY DEF IInv, TypeOK
  <2>4. ASSUME NEW s \in Sessions, Removed(s) PROVE Stay
    <3>1. turns' = [turns EXCEPT ![s] = [t \in Turns |-> "none"]]
      BY <2>4 DEF Removed, NoTurns
    <3>. QED  BY <2>3, <3>1
  <2>5. ASSUME NEW r \in Requests, Arrive(r) PROVE Stay
    <3>1. PICK s \in Sessions :
            \/ PutSession(r, s) \/ RefreshSession(r, s) \/ DeleteSession(r, s)
            \/ \E t \in Turns : SubmitTurn(r, s, t) \/ CancelTurn(r, s, t)
      BY <2>5 DEF Arrive
    <3>2. CASE PutSession(r, s) \/ RefreshSession(r, s)
      BY <2>1, <3>2 DEF PutSession, RefreshSession
    <3>3. CASE DeleteSession(r, s)
      BY <2>1, <2>4, <3>3 DEF DeleteSession
    <3>4. ASSUME NEW t \in Turns, SubmitTurn(r, s, t) PROVE Stay
      <4>1. turns' = [turns EXCEPT ![s][t] = "queued"] /\ turns[s][t] = "none"
        BY <3>4 DEF SubmitTurn, Submittable
      <4>. QED  BY <2>2, <2>3, <4>1
    <3>5. ASSUME NEW t \in Turns, CancelTurn(r, s, t) PROVE Stay
      <4>1. UNCHANGED turns \/ turns' = [turns EXCEPT ![s][t] = "cancelled"]
        BY <3>5 DEF CancelTurn, Cancelled
      <4>. QED  BY <2>1, <2>2, <2>3, <4>1
    <3>. QED  BY <3>1, <3>2, <3>3, <3>4, <3>5
  <2>6. ASSUME NEW r \in Requests, Serve(r) PROVE Stay
    <3>1. CASE ConfirmTurn(r) \/ FailTurn(r)
      <4>1. /\ call[r].step \in {"accepted", "refused"}
            /\ \/ UNCHANGED turns
               \/ Current(r) /\ \E status \in {"running", "failed"} :
                    turns' = [turns EXCEPT ![call[r].session][call[r].turn] = status]
        BY <3>1 DEF ConfirmTurn, FailTurn, Becomes, At
      <4>2. /\ call[r].session \in Sessions /\ call[r].turn \in Turns
            /\ Current(r) => turns[call[r].session][call[r].turn] \in {"queued", "cancelled"}
        <5>1. call[r].step # "idle" /\ call[r].step \in TurnSteps
          BY <4>1 DEF TurnSteps
        <5>2. Pending(call[r]) /\ call[r].session \in Sessions /\ call[r].turn \in Turns
          BY <5>1, UnderWay
        <5>3. call[r].step \in {"prompt", "accepted", "refused"}
          BY <4>1
        <5>. QED  BY <5>2, <5>3 DEF Pending, Current
      <4>3. CASE UNCHANGED turns
        BY <2>1, <4>3
      <4>4. ASSUME NEW status,
                   turns[call[r].session][call[r].turn] \in {"queued", "cancelled"},
                   turns' = [turns EXCEPT ![call[r].session][call[r].turn] = status]
            PROVE  Stay
        BY <2>2, <2>3, <4>2, <4>4
      <4>. QED  BY <4>1, <4>2, <4>3, <4>4
    <3>2. CASE ApplyStatus(r)
      <4>. DEFINE s == call[r].session
                  active == binding[s].active
      <4>1. \/ UNCHANGED turns
            \/ active # None /\ turns' = [turns EXCEPT ![s][active] = "succeeded"]
        BY <3>2 DEF ApplyStatus
      <4>2. s \in Sessions /\ (active # None => active \in Turns)
        <5>1. s \in Sessions
          BY <3>2, UnderWay DEF ApplyStatus, At
        <5>2. binding[s] \in Row
          BY <5>1 DEF IInv, TypeOK
        <5>. QED  BY <5>1, <5>2 DEF Row
      <4>. QED  BY <2>1, <2>2, <2>3, <4>1, <4>2
    <3>3. CASE ApplyCancel(r)
      <4>1. /\ call[r].step \in TurnSteps
            /\ \/ UNCHANGED turns
               \/ turns' = [turns EXCEPT ![call[r].session][call[r].turn] = "cancelled"]
        BY <3>3 DEF ApplyCancel, Cancelled, At, TurnSteps
      <4>. QED  BY <2>1, <2>2, <2>3, <4>1, Deciding
    <3>4. CASE ApplyDelete(r)
      BY <2>1, <2>4, <3>4, UnderWay DEF ApplyDelete, At
    <3>5. CASE CreateBridgeSession(r) \/ RecordBridgeSession(r) \/ Prompt(r) \/ ReadStatus(r)
               \/ Abort(r) \/ RemoveBridgeSession(r) \/ Refused(r)
      BY <2>1, <3>5 DEF CreateBridgeSession, RecordBridgeSession, Prompt, ReadStatus, Abort,
                        RemoveBridgeSession, Refused
    <3>. QED  BY <2>6, <3>1, <3>2, <3>3, <3>4, <3>5 DEF Serve
  <2>7. CASE Pi \/ Crash
    BY <2>1, <2>7 DEF Pi, Crash, PiStarts, PiFinishes, PiDies
  <2>. HIDE DEF Stay
  <2>. QED  BY <2>5, <2>6, <2>7 DEF Next
<1>. QED  BY <1>1, InvariantHolds, PTL DEF Spec, FinishedNeverRuns

------------------------------------------------------------------------------
\* A submission that Pi has accepted is in the Bridge session it was sent to; and so is every turn
\* that is reported running or succeeded.
AcceptedBy(c) == c.step = "accepted" => c.turn \in bridges[c.bridge].accepted
AcceptedInv == RunningWasAccepted /\ \A r \in Requests : AcceptedBy(call[r])

\* What the Bridge has accepted stays accepted, also in a session that was deleted.
Growing ==
    \A b \in DOMAIN bridges :
        b \in DOMAIN bridges' /\ bridges[b].accepted \subseteq bridges'[b].accepted

LEMMA BridgesGrow ==
  ASSUME IInv, [Next]_vars
  PROVE  Growing
<1>1. bridges \in Seq(BridgeSession)
  BY DEF IInv, TypeOK
<1>2. \A b \in DOMAIN bridges : bridges[b] \in BridgeSession
  BY <1>1, ElementOfSeq
<1>3. ASSUME NEW b \in DOMAIN bridges, NEW box, box.accepted = bridges[b].accepted,
             bridges' = [bridges EXCEPT ![b] = box]
      PROVE  Growing
  BY <1>1, <1>3 DEF Growing
<1>4. CASE UNCHANGED bridges
  BY <1>4 DEF Growing
<1>5. ASSUME NEW r \in Requests, CreateBridgeSession(r)
      PROVE  Growing
  BY <1>1, <1>5 DEF CreateBridgeSession, Growing
<1>6. ASSUME NEW r \in Requests, Prompt(r)
      PROVE  Growing
  BY <1>1, <1>2, <1>4, <1>6, UnderWay DEF Prompt, At, BridgeSession, Growing
<1>7. ASSUME NEW r \in Requests, Abort(r)
      PROVE  Growing
  <2>1. call[r].bridge \in DOMAIN bridges
    BY <1>7, UnderWay DEF Abort, At
  <2>2. CASE bridges' = [bridges EXCEPT ![call[r].bridge].pending = {}]
    <3>1. bridges[call[r].bridge] \in BridgeSession
      BY <1>2, <2>1
    <3>. DEFINE box == [bridges[call[r].bridge] EXCEPT !.pending = {}]
    <3>2. box.accepted = bridges[call[r].bridge].accepted
      BY <3>1 DEF BridgeSession
    <3>3. bridges' = [bridges EXCEPT ![call[r].bridge] = box]
      BY <2>2
    <3>. QED  BY <1>3, <2>1, <3>2, <3>3
  <2>. QED  BY <1>4, <1>7, <2>2 DEF Abort
<1>8. ASSUME NEW r \in Requests, RemoveBridgeSession(r)
      PROVE  Growing
  BY <1>1, <1>2, <1>8, UnderWay DEF RemoveBridgeSession, At, BridgeSession, Growing
<1>9. ASSUME NEW b \in DOMAIN bridges, PiStarts(b) \/ PiFinishes(b) \/ PiDies(b)
      PROVE  Growing
  <2>1. bridges[b] \in BridgeSession
    BY <1>2
  <2>2. CASE PiStarts(b)
    <3>1. bridges' = [bridges EXCEPT ![b] = [bridges[b] EXCEPT !.streaming = TRUE]]
      BY <1>1, <2>1, <2>2 DEF PiStarts, BridgeSession
    <3>. QED  BY <1>3, <2>1, <3>1 DEF BridgeSession
  <2>3. CASE PiFinishes(b)
    <3>1. PICK finished \in SUBSET bridges[b].pending :
            bridges' = [bridges EXCEPT ![b].streaming = FALSE, ![b].done = @ \cup finished,
                                       ![b].pending = @ \ finished]
      BY <2>3 DEF PiFinishes
    <3>. DEFINE box == [bridges[b] EXCEPT !.streaming = FALSE, !.done = @ \cup finished,
                                          !.pending = @ \ finished]
    <3>2. bridges' = [bridges EXCEPT ![b] = box] /\ box.accepted = bridges[b].accepted
      BY <1>1, <2>1, <3>1 DEF BridgeSession
    <3>. HIDE DEF box
    <3>. QED  BY <1>3, <3>2
  <2>4. CASE PiDies(b)
    <3>1. bridges' = [bridges EXCEPT ![b] = [bridges[b] EXCEPT !.streaming = FALSE, !.pending = {}]]
      BY <1>1, <2>1, <2>4 DEF PiDies, BridgeSession
    <3>. QED  BY <1>3, <2>1, <3>1 DEF BridgeSession
  <2>. QED  BY <1>9, <2>2, <2>3, <2>4
<1>10. CASE Crash
  BY <1>4, <1>10 DEF Crash
<1>11. ASSUME NEW r \in Requests, Arrive(r)
       PROVE  Growing
  BY <1>4, <1>11 DEF Arrive, PutSession, RefreshSession, DeleteSession, SubmitTurn, CancelTurn
<1>12. ASSUME NEW r \in Requests,
              RecordBridgeSession(r) \/ ConfirmTurn(r) \/ FailTurn(r) \/ ReadStatus(r)
                 \/ ApplyStatus(r) \/ ApplyCancel(r) \/ ApplyDelete(r) \/ Refused(r)
       PROVE  Growing
  BY <1>4, <1>12 DEF RecordBridgeSession, ConfirmTurn, FailTurn, ReadStatus, ApplyStatus,
                     ApplyCancel, ApplyDelete, Refused
<1>. QED  BY <1>4, <1>5, <1>6, <1>7, <1>8, <1>9, <1>10, <1>11, <1>12 DEF Next, Serve, Pi, vars

\* A turn starts to run, or succeeds, only by the end of its own accepted submission or as one that
\* runs already.
Reported(s, t) == turns[s][t] \in {"running", "succeeded"}
Justified(s, t) ==
    \/ Reported(s, t)
    \/ \E r \in Requests : At(r, "accepted") /\ call[r].turn = t

LEMMA ReportsAreJustified ==
  ASSUME IInv, [Next]_vars, NEW s \in Sessions, NEW t \in Turns, Reported(s, t)'
  PROVE  Justified(s, t)
<1>1. /\ turns \in [Sessions -> [Turns -> TurnStatuses]]
      /\ binding \in [Sessions -> Row]
  BY DEF IInv, TypeOK
<1>2. CASE UNCHANGED turns
  BY <1>2 DEF Reported, Justified
<1>3. ASSUME NEW u \in Sessions, NEW v \in Turns, NEW status,
             status \notin {"running", "succeeded"}, turns' = [turns EXCEPT ![u][v] = status]
      PROVE  Justified(s, t)
  BY <1>1, <1>3 DEF Reported, Justified
<1>4. ASSUME NEW u \in Sessions, Removed(u)
      PROVE  Justified(s, t)
  BY <1>1, <1>4 DEF Removed, NoTurns, Reported, Justified
<1>5. ASSUME NEW r \in Requests, Arrive(r)
      PROVE  Justified(s, t)
  <2>1. PICK u \in Sessions :
          \/ PutSession(r, u) \/ RefreshSession(r, u) \/ DeleteSession(r, u)
          \/ \E v \in Turns : SubmitTurn(r, u, v) \/ CancelTurn(r, u, v)
    BY <1>5 DEF Arrive
  <2>2. CASE PutSession(r, u) \/ RefreshSession(r, u)
    BY <1>2, <2>2 DEF PutSession, RefreshSession
  <2>3. CASE DeleteSession(r, u)
    BY <1>2, <1>4, <2>3 DEF DeleteSession
  <2>4. ASSUME NEW v \in Turns, SubmitTurn(r, u, v)
        PROVE  Justified(s, t)
    <3>1. turns' = [turns EXCEPT ![u][v] = "queued"]
      BY <2>4 DEF SubmitTurn
    <3>2. "queued" \notin {"running", "succeeded"}
      OBVIOUS
    <3>. QED  BY <1>3, <3>1, <3>2, Zenon
  <2>5. ASSUME NEW v \in Turns, CancelTurn(r, u, v)
        PROVE  Justified(s, t)
    BY <1>2, <1>3, <2>5 DEF CancelTurn, Cancelled
  <2>. QED  BY <2>1, <2>2, <2>3, <2>4, <2>5
<1>6. ASSUME NEW r \in Requests, ConfirmTurn(r)
      PROVE  Justified(s, t)
  <2>1. /\ At(r, "accepted")
        /\ turns' = turns \/ turns' = [turns EXCEPT ![call[r].session][call[r].turn] = "running"]
    BY <1>6 DEF ConfirmTurn, Becomes
  <2>2. call[r].session \in Sessions /\ call[r].turn \in Turns
    BY <2>1, UnderWay DEF At, TurnSteps
  <2>3. CASE call[r].turn = t
    BY <2>1, <2>3 DEF Justified
  <2>4. CASE call[r].turn # t
    BY <1>1, <2>1, <2>2, <2>4 DEF Justified, Reported
  <2>. QED  BY <2>3, <2>4
<1>7. ASSUME NEW r \in Requests, FailTurn(r)
      PROVE  Justified(s, t)
  <2>1. /\ At(r, "refused")
        /\ turns' = turns \/ turns' = [turns EXCEPT ![call[r].session][call[r].turn] = "failed"]
    BY <1>7 DEF FailTurn, Becomes
  <2>2. call[r].session \in Sessions /\ call[r].turn \in Turns
    BY <2>1, UnderWay DEF At, TurnSteps
  <2>3. "failed" \notin {"running", "succeeded"}
    OBVIOUS
  <2>. QED  BY <1>2, <1>3, <2>1, <2>2, <2>3, Zenon
<1>8. ASSUME NEW r \in Requests, ApplyStatus(r)
      PROVE  Justified(s, t)
  <2> DEFINE u == call[r].session
             active == binding[u].active
  <2>1. \/ turns' = turns
        \/ /\ active # None /\ turns[u][active] = "running"
           /\ turns' = [turns EXCEPT ![u][active] = "succeeded"]
    BY <1>8 DEF ApplyStatus
  <2>2. u \in Sessions /\ (active # None => active \in Turns)
    <3>1. u \in Sessions
      BY <1>8, UnderWay DEF ApplyStatus, At
    <3>2. binding[u] \in Row
      BY <1>1, <3>1
    <3>. QED  BY <3>1, <3>2 DEF Row
  <2>. HIDE DEF u, active
  <2>3. CASE turns' = turns
    BY <1>2, <2>3
  <2>4. CASE /\ active # None /\ turns[u][active] = "running"
             /\ turns' = [turns EXCEPT ![u][active] = "succeeded"]
    <3>1. CASE s = u /\ t = active
      BY <2>4, <3>1 DEF Justified, Reported
    <3>2. CASE ~(s = u /\ t = active)
      BY <1>1, <2>2, <2>4, <3>2 DEF Justified, Reported
    <3>. QED  BY <3>1, <3>2
  <2>. QED  BY <2>1, <2>3, <2>4
<1>9. ASSUME NEW r \in Requests, ApplyCancel(r)
      PROVE  Justified(s, t)
  <2>1. /\ call[r].step \in TurnSteps
        /\ turns' = turns \/ turns' = [turns EXCEPT ![call[r].session][call[r].turn] = "cancelled"]
    BY <1>9 DEF ApplyCancel, Cancelled, At, TurnSteps
  <2>2. call[r].session \in Sessions /\ call[r].turn \in Turns
    BY <2>1, UnderWay DEF TurnSteps
  <2>3. "cancelled" \notin {"running", "succeeded"}
    OBVIOUS
  <2>. QED  BY <1>2, <1>3, <2>1, <2>2, <2>3, Zenon
<1>10. ASSUME NEW r \in Requests, ApplyDelete(r)
       PROVE  Justified(s, t)
  <2>1. call[r].session \in Sessions
    BY <1>10, UnderWay DEF ApplyDelete, At
  <2>. QED  BY <1>2, <1>4, <1>10, <2>1 DEF ApplyDelete
<1>11. ASSUME NEW r \in Requests,
              CreateBridgeSession(r) \/ RecordBridgeSession(r) \/ Prompt(r) \/ ReadStatus(r)
                 \/ Abort(r) \/ RemoveBridgeSession(r) \/ Refused(r)
       PROVE  Justified(s, t)
  BY <1>2, <1>11 DEF CreateBridgeSession, RecordBridgeSession, Prompt, ReadStatus, Abort,
                     RemoveBridgeSession, Refused
<1>12. CASE Pi \/ Crash
  BY <1>2, <1>12 DEF Pi, Crash, PiStarts, PiFinishes, PiDies
<1>. QED  BY <1>2, <1>5, <1>6, <1>7, <1>8, <1>9, <1>10, <1>11, <1>12 DEF Next, Serve, vars


\* A request changes its own record, and becomes accepted only when Pi has accepted its turn.
LEMMA OwnRecord ==
  ASSUME IInv, NEW q \in Requests, Arrive(q) \/ Serve(q)
  PROVE  \A r \in Requests \ {q} : call'[r] = call[r]
<1>1. call \in [Requests -> Local]
  BY DEF IInv, TypeOK
<1>2. CASE Arrive(q)
  BY <1>1, <1>2 DEF Arrive, PutSession, RefreshSession, DeleteSession, SubmitTurn, CancelTurn, Begin
<1>3. CASE Serve(q)
  <2>1. ASSUME NEW step, Goto(q, step) \/ Answered(q, step) \/ End(q)
        PROVE  \A r \in Requests \ {q} : call'[r] = call[r]
    BY <1>1, <2>1 DEF Goto, Answered, End
  <2>2. CASE CreateBridgeSession(q)
    BY <1>1, <2>2 DEF CreateBridgeSession, End
  <2>3. CASE ReadStatus(q)
    BY <1>1, <2>3 DEF ReadStatus, End
  <2>4. CASE ~CreateBridgeSession(q) /\ ~ReadStatus(q)
    BY <1>3, <2>1, <2>4 DEF Serve, RecordBridgeSession, Prompt, ConfirmTurn, FailTurn, ApplyStatus,
       Abort, ApplyCancel, RemoveBridgeSession, ApplyDelete, Refused
  <2>. QED  BY <2>2, <2>3, <2>4
<1>. QED  BY <1>2, <1>3

LEMMA AcceptancesAreJustified ==
  ASSUME IInv, NEW r \in Requests, Arrive(r) \/ Serve(r), At(r, "accepted")'
  PROVE  AcceptedBy(call[r])'
<1>1. /\ call \in [Requests -> Local] /\ call[r] \in Local
      /\ Idle.step = "idle"
  BY DEF IInv, TypeOK, Idle
<1>2. CASE Arrive(r)
  <2>1. ASSUME NEW step \in {"prompt", "status", "abort", "remove"}, NEW s, NEW t,
               Begin(r, step, s, t)
        PROVE  FALSE
    BY <1>1, <2>1 DEF Begin, At, Idle
  <2>2. ASSUME NEW s \in Sessions, PutSession(r, s)
        PROVE  FALSE
    <3>1. At(r, "idle")
      BY <2>2 DEF PutSession
    <3>2. PICK row \in IF binding[s].id = None
                       THEN {NewRow(drawn + 1, cwd) : cwd \in Directories} ELSE {binding[s]} :
            \/ call' = [call EXCEPT ![r] = [Idle EXCEPT !.step = "create", !.session = s,
                                                       !.row = row.id, !.cwd = row.cwd]]
            \/ UNCHANGED call
      BY <2>2 DEF PutSession
    <3>. QED  BY <1>1, <3>1, <3>2 DEF At, Idle
  <2>3. CASE At(r, "idle") /\ UNCHANGED call
    BY <2>3 DEF At
  <2>. QED  BY <1>2, <2>1, <2>2, <2>3 DEF Arrive, RefreshSession, DeleteSession, SubmitTurn, CancelTurn
<1>3. CASE Prompt(r)
  <2>1. call[r].step = "prompt"
    BY <1>3 DEF Prompt, At
  <2>2. call'[r].turn = call[r].turn /\ call'[r].bridge = call[r].bridge
    <3>1. ~End(r)
      BY <1>1 DEF End, At
    <3>2. \E step : Goto(r, step)
      BY <1>3, <3>1 DEF Prompt, Answered
    <3>. QED  BY <1>1, <3>2 DEF Goto
  <2>3. bridges[call[r].bridge].live
    <3>1. ASSUME Goto(r, "refused")
          PROVE  FALSE
      BY <1>1, <3>1 DEF Goto, At
    <3>. QED  BY <1>3, <3>1 DEF Prompt
  <2>4. /\ call[r].bridge \in DOMAIN bridges /\ bridges \in Seq(BridgeSession)
        /\ bridges[call[r].bridge] \in BridgeSession
    BY <2>1, UnderWay
  <2> DEFINE new == {call[r].turn} \ bridges[call[r].bridge].accepted
             box == [bridges[call[r].bridge] EXCEPT !.accepted = @ \cup new, !.pending = @ \cup new]
  <2>5. bridges' = [bridges EXCEPT ![call[r].bridge] = box]
    BY <1>3, <2>3, <2>4 DEF Prompt, BridgeSession
  <2>6. call[r].turn \in box.accepted
    BY <2>4 DEF BridgeSession
  <2>. HIDE DEF box
  <2>7. bridges'[call[r].bridge] = box
    BY <2>4, <2>5
  <2>. QED  BY <2>2, <2>6, <2>7 DEF AcceptedBy
<1>4. CASE Serve(r) /\ ~Prompt(r)
  <2>1. ASSUME NEW step, step # "accepted", Goto(r, step)
        PROVE  FALSE
    BY <1>1, <2>1 DEF Goto, At
  <2>2. ASSUME End(r)
        PROVE  FALSE
    BY <1>1, <2>2 DEF End, At
  <2>3. ASSUME NEW step, step # "accepted", Answered(r, step)
        PROVE  FALSE
    <3>1. Goto(r, step) \/ Goto(r, "refused") \/ End(r)
      BY <2>3 DEF Answered
    <3>2. "refused" # "accepted"
      OBVIOUS
    <3>3. ~Goto(r, "refused")
      BY <2>1, <3>2, Zenon
    <3>4. ASSUME Goto(r, step)
          PROVE  FALSE
      <4>1. call'[r].step = step
        BY <1>1, <3>4 DEF Goto
      <4>. QED  BY <2>3, <4>1 DEF At
    <3>. QED  BY <2>2, <3>1, <3>3, <3>4
  <2>4. CASE CreateBridgeSession(r)
    <3>1. \/ call' = [call EXCEPT ![r].step = "created", ![r].bridge = Len(bridges) + 1]
          \/ End(r)
      BY <2>4 DEF CreateBridgeSession
    <3>2. CASE call' = [call EXCEPT ![r].step = "created", ![r].bridge = Len(bridges) + 1]
      <4>1. call'[r].step = "created"
        BY <1>1, <3>2 DEF Local
      <4>. QED  BY <4>1 DEF At
    <3>. QED  BY <2>2, <3>1, <3>2
  <2>5. CASE ReadStatus(r)
    <3>1. \/ call' = [call EXCEPT ![r].step = "observed",
                                    ![r].seen = bridges[call[r].bridge].streaming]
          \/ End(r)
      BY <2>5 DEF ReadStatus
    <3>2. CASE call' = [call EXCEPT ![r].step = "observed",
                                    ![r].seen = bridges[call[r].bridge].streaming]
      <4>1. call'[r].step = "observed"
        BY <1>1, <3>2 DEF Local
      <4>. QED  BY <4>1 DEF At
    <3>. QED  BY <2>2, <3>1, <3>2
  <2>6. CASE ~CreateBridgeSession(r) /\ ~ReadStatus(r)
    BY <1>4, <2>1, <2>2, <2>3, <2>6 DEF Serve, RecordBridgeSession, ConfirmTurn, FailTurn, ApplyStatus,
       Abort, ApplyCancel, RemoveBridgeSession, ApplyDelete, Refused
  <2>. QED  BY <1>4, <2>4, <2>5, <2>6
<1>. QED  BY <1>2, <1>3, <1>4

LEMMA AcceptedInvNext ==
  IInv /\ AcceptedInv /\ [Next]_vars => AcceptedInv'
<1>. SUFFICES ASSUME IInv, AcceptedInv, [Next]_vars PROVE AcceptedInv'
  OBVIOUS
<1>1. Growing
  BY BridgesGrow
<1>2. ASSUME NEW r \in Requests, At(r, "accepted")
      PROVE  call[r].bridge \in DOMAIN bridges /\ call[r].turn \in bridges[call[r].bridge].accepted
  BY <1>2, UnderWay DEF At, AcceptedInv, AcceptedBy
<1>3. RunningWasAccepted'
  <2>. SUFFICES ASSUME NEW s \in Sessions, NEW t \in Turns, Reported(s, t)'
                PROVE  \E b \in DOMAIN bridges' : t \in bridges'[b].accepted
    BY DEF RunningWasAccepted, Reported
  <2>1. \E b \in DOMAIN bridges : t \in bridges[b].accepted
    BY <1>2, ReportsAreJustified DEF Justified, Reported, AcceptedInv, RunningWasAccepted
  <2>. QED  BY <1>1, <2>1 DEF Growing
<1>4. ASSUME NEW r \in Requests
      PROVE  AcceptedBy(call[r])'
  <2>1. CASE call'[r] = call[r]
    <3>. SUFFICES ASSUME call[r].step = "accepted"
                  PROVE  call[r].turn \in bridges'[call[r].bridge].accepted
      BY <2>1 DEF AcceptedBy
    <3>. QED  BY <1>1, <1>2 DEF Growing, At
  <2>2. ASSUME NEW q \in Requests, Arrive(q) \/ Serve(q)
        PROVE  AcceptedBy(call[r])'
    <3>1. CASE q # r
      BY <2>1, <2>2, <3>1, OwnRecord
    <3>2. CASE q = r
      BY <2>2, <3>2, AcceptancesAreJustified DEF AcceptedBy, At
    <3>. QED  BY <3>1, <3>2
  <2>3. CASE Pi
    BY <2>1, <2>3 DEF Pi, PiStarts, PiFinishes, PiDies
  <2>4. CASE Crash
    BY <2>4 DEF Crash, AcceptedBy, Idle
  <2>. QED  BY <2>1, <2>2, <2>3, <2>4 DEF Next, vars
<1>. QED  BY <1>3, <1>4 DEF AcceptedInv

\* Whatever answers are lost and whatever is deleted meanwhile, Pi has accepted every turn that is
\* reported running or succeeded.
THEOREM ReportedTurnsWereAccepted == Spec => []RunningWasAccepted
<1>1. Init => AcceptedInv
  BY DEF Init, AcceptedInv, RunningWasAccepted, AcceptedBy, NoTurns, Idle
<1>2. AcceptedInv => RunningWasAccepted
  BY DEF AcceptedInv
<1>. QED  BY <1>1, <1>2, AcceptedInvNext, InvariantHolds, PTL DEF Spec

==============================================================================
