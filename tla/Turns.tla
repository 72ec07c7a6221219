-------------------------------- MODULE Turns --------------------------------
(***************************************************************************)
(* Sessions and turns of the Runner Manager: the sessions of one ready      *)
(* instance, the turns submitted to them, and the Bridge sessions behind.   *)
(*                                                                         *)
(*   app/session_routes.py   PutSession, RefreshSession, DeleteSession      *)
(*   app/turn_routes.py      SubmitTurn, CancelTurn                         *)
(*   app/helpers.py          the look-ups they share                        *)
(*                                                                         *)
(* A handler is a coroutine of the Manager's event loop: it gives up        *)
(* control only while a thread calls the Bridge, so a request is an atomic  *)
(* first part, the call, and an atomic last part.  What the first part read *)
(* (row, bridge, seen) is held in call[r] and may be stale in the last.     *)
(*                                                                         *)
(* Abstracted: inputs and titles (a second input for a turn id is refused   *)
(* and changes nothing), the legacy session ids of migrated data, listings. *)
(* The Bridge is seen through its answers: a session that lives, the turns  *)
(* Pi has accepted, those it still works on and those it finished, and      *)
(* whether agent_start was the last agent event the Bridge read.            *)
(***************************************************************************)
EXTENDS Integers, Sequences, FiniteSets

CONSTANTS
    Sessions,       \* session ids of the consumer
    Directories,    \* working directories it asks for
    Requests,       \* requests served at the same time
    Turns,          \* turn ids
    Faults,         \* which of FaultKinds the environment may cause
    MaxFaults,      \* bound: faults in one behaviour
    MaxBindings     \* bound: how often a session is created

FaultKinds == {"refuse", "lost", "death", "crash"}
None == 0

ASSUME FaultAssumption == Faults \subseteq FaultKinds
ASSUME BoundAssumption == MaxFaults \in Nat /\ MaxBindings \in Nat
ASSUME TurnAssumption == None \notin Turns

VARIABLES
    binding,   \* manager_session_bindings: the row of a session, if there is one
    drawn,     \* ids drawn for such rows
    turns,     \* manager_turn_bindings: the status of each turn of a session
    call,      \* the requests under way and their local variables
    bridges,   \* every session the Bridge ever created; its id is its index
    faults     \* faults so far

vars == <<binding, drawn, turns, call, bridges, faults>>

------------------------------------------------------------------------------
NoRow == [id |-> None, bridge |-> None, cwd |-> None, state |-> "none", active |-> None]
NewRow(id, cwd) == [NoRow EXCEPT !.id = id, !.cwd = cwd, !.state = "provisioning"]
NoTurns == [t \in Turns |-> "none"]
Idle == [step |-> "idle", session |-> None, turn |-> None, row |-> None, bridge |-> None,
         cwd |-> None, seen |-> FALSE]
NewBridgeSession(cwd) ==
    [cwd |-> cwd, live |-> TRUE, streaming |-> FALSE, accepted |-> {}, pending |-> {}, done |-> {}]

Init ==
    /\ binding = [s \in Sessions |-> NoRow]
    /\ drawn = 0
    /\ turns = [s \in Sessions |-> NoTurns]
    /\ call = [r \in Requests |-> Idle]
    /\ bridges = <<>>
    /\ faults = 0

Fault(kind) == kind \in Faults /\ faults < MaxFaults /\ faults' = faults + 1

At(r, step) == call[r].step = step
Goto(r, step) == call' = [call EXCEPT ![r].step = step]
End(r) == call' = [call EXCEPT ![r] = Idle]

\* A request that calls the Bridge: what it read of its session's row before.
Begin(r, step, s, t) ==
    /\ At(r, "idle")
    /\ call' = [call EXCEPT ![r] =
            [Idle EXCEPT !.step = step, !.session = s, !.turn = t,
                         !.row = binding[s].id, !.bridge = binding[s].bridge]]

\* The call took effect; its answer arrives, or is lost and the handler sees a failure.
Answered(r, next) ==
    \/ Goto(r, next) /\ UNCHANGED faults
    \/ Fault("lost") /\ IF At(r, "prompt") THEN Goto(r, "refused") ELSE End(r)

\* The row the request has read is still there.
Current(r) == binding[call[r].session].id = call[r].row

Live == {b \in DOMAIN bridges : bridges[b].live}

\* Mutant of the look-up of a turn: one that failed is submitted again.
ResubmitsFailed(s, t) == turns[s][t] \in {"none", "failed"}

\* The Bridge's sessions for a working directory; a turn id that is new; a session without an
\* active turn.
Adoptable(cwd) == {b \in Live : bridges[b].cwd = cwd}
Submittable(s, t) == turns[s][t] = "none"
Free(s) == binding[s].active = None

------------------------------------------------------------------------------
(* PUT session.                                                              *)

\* The row is inserted, then the Bridge's list is searched in the same stretch of the event
\* loop: a session of its working directory is adopted at once, otherwise one is created.
PutSession(r, s) ==
    /\ At(r, "idle")
    /\ binding[s].bridge = None
    /\ \E row \in IF binding[s].id = None
                 THEN {NewRow(drawn + 1, cwd) : cwd \in Directories} ELSE {binding[s]} :
        /\ row.id <= MaxBindings
        /\ drawn' = IF row.id > drawn THEN row.id ELSE drawn
        /\ \/ /\ Adoptable(row.cwd) = {}
              /\ binding' = [binding EXCEPT ![s] = row]
              /\ call' = [call EXCEPT ![r] = [Idle EXCEPT !.step = "create", !.session = s,
                                                        !.row = row.id, !.cwd = row.cwd]]
              /\ UNCHANGED faults
           \/ /\ \E b \in Adoptable(row.cwd) :
                    binding' = [binding EXCEPT ![s] = [row EXCEPT !.bridge = b, !.state = "ready"]]
              /\ UNCHANGED <<call, faults>>
           \/ /\ Fault("refuse")
              /\ binding' = [binding EXCEPT ![s] = row]
              /\ UNCHANGED call
    /\ UNCHANGED <<turns, bridges>>

CreateBridgeSession(r) ==
    /\ At(r, "create")
    /\ bridges' = Append(bridges, NewBridgeSession(call[r].cwd))
    /\ \/ /\ call' = [call EXCEPT ![r].step = "created", ![r].bridge = Len(bridges) + 1]
          /\ UNCHANGED faults
       \/ Fault("lost") /\ End(r)
    /\ UNCHANGED <<binding, drawn, turns>>

RecordBridgeSession(r) ==
    /\ At(r, "created")
    /\ binding' = IF Current(r)
                  THEN [binding EXCEPT ![call[r].session] =
                            [@ EXCEPT !.bridge = call[r].bridge, !.state = "ready"]]
                  ELSE binding
    /\ End(r)
    /\ UNCHANGED <<drawn, turns, bridges, faults>>

------------------------------------------------------------------------------
(* PUT turn.                                                                 *)

\* A known turn id is answered from the table, an active turn refuses any other.
SubmitTurn(r, s, t) ==
    /\ binding[s].bridge # None
    /\ Submittable(s, t)
    /\ Free(s)
    /\ turns' = [turns EXCEPT ![s][t] = "queued"]
    /\ Begin(r, "prompt", s, t)
    /\ UNCHANGED <<binding, drawn, bridges, faults>>

\* Mutant of Prompt: a 404 is as good as an acceptance.
GoneIsFine(r) ==
    LET b == call[r].bridge IN
    /\ At(r, "prompt")
    /\ Goto(r, "accepted")
    /\ bridges' = IF bridges[b].live
                  THEN [bridges EXCEPT ![b].accepted = @ \cup {call[r].turn}] ELSE bridges
    /\ UNCHANGED <<binding, drawn, turns, faults>>

\* The Bridge runs a request id once: a known one is answered again.
Prompt(r) ==
    LET b == call[r].bridge
        t == call[r].turn
        new == {t} \ bridges[b].accepted
    IN  /\ At(r, "prompt")
        /\ \/ /\ bridges[b].live
              /\ bridges' = [bridges EXCEPT ![b].accepted = @ \cup new, ![b].pending = @ \cup new]
              /\ Answered(r, "accepted")
           \/ /\ ~bridges[b].live
              /\ Goto(r, "refused")
              /\ UNCHANGED <<bridges, faults>>
        /\ UNCHANGED <<binding, drawn, turns>>

\* The turn of the request gets a status, if its row is still there.
Becomes(r, status) ==
    turns' = IF Current(r) THEN [turns EXCEPT ![call[r].session][call[r].turn] = status] ELSE turns

\* Mutants: the session row is not updated with the turn; a failure is only raised.
ConfirmTurnOnly(r) ==
    /\ At(r, "accepted")
    /\ Becomes(r, "running")
    /\ End(r)
    /\ UNCHANGED <<binding, drawn, bridges, faults>>
RaiseOnly(r) ==
    /\ At(r, "refused")
    /\ End(r)
    /\ UNCHANGED <<binding, drawn, turns, bridges, faults>>

ConfirmTurn(r) ==
    /\ At(r, "accepted")
    /\ Becomes(r, "running")
    /\ binding' = IF Current(r)
                  THEN [binding EXCEPT ![call[r].session] =
                            [@ EXCEPT !.state = "running", !.active = call[r].turn]]
                  ELSE binding
    /\ End(r)
    /\ UNCHANGED <<drawn, bridges, faults>>

FailTurn(r) ==
    /\ At(r, "refused")
    /\ Becomes(r, "failed")
    /\ End(r)
    /\ UNCHANGED <<binding, drawn, bridges, faults>>

------------------------------------------------------------------------------
(* GET session, GET turn.                                                    *)

RefreshSession(r, s) ==
    /\ binding[s].bridge # None
    /\ Begin(r, "status", s, None)
    /\ UNCHANGED <<binding, drawn, turns, bridges, faults>>

ReadStatus(r) ==
    LET box == bridges[call[r].bridge] IN
    /\ At(r, "status")
    /\ IF box.live
       THEN call' = [call EXCEPT ![r].step = "observed", ![r].seen = box.streaming]
       ELSE End(r)
    /\ UNCHANGED <<binding, drawn, turns, bridges, faults>>

\* Mutant: the Bridge's word for a session that does not stream is stored.
BridgeWord(seen) == IF seen THEN "running" ELSE "idle"

StateOf(seen) == IF seen THEN "running" ELSE "ready"

\* A session that does not stream has no active turn; a running one has succeeded.
ApplyStatus(r) ==
    LET s == call[r].session
        seen == call[r].seen
        active == binding[s].active
    IN  /\ At(r, "observed")
        /\ IF Current(r)
           THEN /\ binding' = [binding EXCEPT ![s].state = StateOf(seen),
                                              ![s].active = IF seen THEN @ ELSE None]
                /\ turns' = IF ~seen /\ active # None /\ turns[s][active] = "running"
                            THEN [turns EXCEPT ![s][active] = "succeeded"] ELSE turns
           ELSE UNCHANGED <<binding, turns>>
        /\ End(r)
        /\ UNCHANGED <<drawn, bridges, faults>>

------------------------------------------------------------------------------
(* POST turn:cancel.                                                         *)

\* Mutant: the session is not released.
CancelledOnly(s, t) == turns' = [turns EXCEPT ![s][t] = "cancelled"] /\ UNCHANGED binding

\* The turn becomes cancelled, whatever its status; an active one is released.
Cancelled(s, t) ==
    /\ turns' = [turns EXCEPT ![s][t] = "cancelled"]
    /\ binding' = IF binding[s].active = t
                  THEN [binding EXCEPT ![s] = [@ EXCEPT !.active = None, !.state = "ready"]]
                  ELSE binding

\* Only an active turn is aborted in the Bridge.
CancelTurn(r, s, t) ==
    /\ turns[s][t] # "none"
    /\ \/ /\ binding[s].active = t
          /\ Begin(r, "abort", s, t)
          /\ UNCHANGED <<turns, binding>>
       \/ /\ binding[s].active # t
          /\ At(r, "idle")
          /\ Cancelled(s, t)
          /\ UNCHANGED call
    /\ UNCHANGED <<drawn, bridges, faults>>

\* Pi drops what it works on; a Pi that does not run (409) has nothing to drop.
Abort(r) ==
    LET b == call[r].bridge IN
    /\ At(r, "abort")
    /\ IF bridges[b].live
       THEN bridges' = [bridges EXCEPT ![b].pending = {}] /\ Answered(r, "aborted")
       ELSE End(r) /\ UNCHANGED <<bridges, faults>>
    /\ UNCHANGED <<binding, drawn, turns>>

\* The row is looked up again by the session's id.
ApplyCancel(r) ==
    LET s == call[r].session IN
    /\ At(r, "aborted")
    /\ IF turns[s][call[r].turn] # "none"
       THEN Cancelled(s, call[r].turn)
       ELSE UNCHANGED <<turns, binding>>
    /\ End(r)
    /\ UNCHANGED <<drawn, bridges, faults>>

------------------------------------------------------------------------------
(* DELETE session.                                                           *)

\* The turns of a deleted row go with it.
Removed(s) ==
    /\ binding' = [binding EXCEPT ![s] = NoRow]
    /\ turns' = [turns EXCEPT ![s] = NoTurns]

DeleteSession(r, s) ==
    /\ binding[s].id # None
    /\ IF binding[s].bridge # None
       THEN Begin(r, "remove", s, None) /\ UNCHANGED <<binding, turns>>
       ELSE At(r, "idle") /\ Removed(s) /\ UNCHANGED call
    /\ UNCHANGED <<drawn, bridges, faults>>

\* A session that is already gone (404) is as good as deleted.
RemoveBridgeSession(r) ==
    /\ At(r, "remove")
    /\ bridges' = [bridges EXCEPT ![call[r].bridge] =
            [@ EXCEPT !.live = FALSE, !.streaming = FALSE, !.pending = {}]]
    /\ Answered(r, "removed")
    /\ UNCHANGED <<binding, drawn, turns>>

ApplyDelete(r) ==
    /\ At(r, "removed")
    /\ IF Current(r) THEN Removed(call[r].session) ELSE UNCHANGED <<binding, turns>>
    /\ End(r)
    /\ UNCHANGED <<drawn, bridges, faults>>

------------------------------------------------------------------------------
(* The environment.                                                          *)

\* A call to the Bridge fails before it takes effect.
Refused(r) ==
    /\ call[r].step \in {"create", "prompt", "status", "abort", "remove"}
    /\ Fault("refuse")
    /\ IF At(r, "prompt") THEN Goto(r, "refused") ELSE End(r)
    /\ UNCHANGED <<binding, drawn, turns, bridges>>

\* Pi answers a prompt before it starts on it: agent_start comes later.
PiStarts(b) ==
    /\ bridges[b].live
    /\ bridges[b].pending # {}
    /\ ~bridges[b].streaming
    /\ bridges' = [bridges EXCEPT ![b].streaming = TRUE]
    /\ UNCHANGED <<binding, drawn, turns, call, faults>>

\* A run ends with some of what Pi had accepted; a late follow-up may be left for the next run.
PiFinishes(b) ==
    /\ bridges[b].streaming
    /\ \E finished \in SUBSET bridges[b].pending :
        /\ finished = {} => bridges[b].pending = {}
        /\ bridges' = [bridges EXCEPT ![b].streaming = FALSE, ![b].done = @ \cup finished,
                                      ![b].pending = @ \ finished]
    /\ UNCHANGED <<binding, drawn, turns, call, faults>>

PiDies(b) ==
    /\ bridges[b].pending # {}
    /\ Fault("death")
    /\ bridges' = [bridges EXCEPT ![b] = [@ EXCEPT !.streaming = FALSE, !.pending = {}]]
    /\ UNCHANGED <<binding, drawn, turns, call>>

\* The Manager dies and starts again; its tables survive and nobody looks at them.
Crash ==
    /\ \E r \in Requests : ~At(r, "idle")
    /\ Fault("crash")
    /\ call' = [r \in Requests |-> Idle]
    /\ UNCHANGED <<binding, drawn, turns, bridges>>

Serve(r) ==
    \/ CreateBridgeSession(r) \/ RecordBridgeSession(r)
    \/ Prompt(r) \/ ConfirmTurn(r) \/ FailTurn(r)
    \/ ReadStatus(r) \/ ApplyStatus(r)
    \/ Abort(r) \/ ApplyCancel(r)
    \/ RemoveBridgeSession(r) \/ ApplyDelete(r)
    \/ Refused(r)

Arrive(r) ==
    \E s \in Sessions :
        \/ PutSession(r, s) \/ RefreshSession(r, s) \/ DeleteSession(r, s)
        \/ \E t \in Turns : SubmitTurn(r, s, t) \/ CancelTurn(r, s, t)

Pi == \E b \in DOMAIN bridges : PiStarts(b) \/ PiFinishes(b) \/ PiDies(b)

Next == (\E r \in Requests : Arrive(r) \/ Serve(r)) \/ Pi \/ Crash

Spec == Init /\ [][Next]_vars

\* A handler is served until it ends (a call to the Bridge has a timeout).
FairSpec == Spec /\ \A r \in Requests : WF_vars(Serve(r))

\* Moreover Pi works on what it accepted, and some consumer polls.
PolledSpec ==
    /\ FairSpec
    /\ WF_vars(\E b \in DOMAIN bridges : PiStarts(b) \/ PiFinishes(b))
    /\ \A r \in Requests, s \in Sessions : SF_vars(RefreshSession(r, s))

------------------------------------------------------------------------------
(* Properties.                                                               *)

TurnStatuses == {"none", "queued", "running", "succeeded", "cancelled", "failed"}
SessionStates == {"none", "provisioning", "ready", "running"}
Row == [id : Nat, bridge : Nat, cwd : Directories \cup {None}, state : SessionStates,
        active : Turns \cup {None}]
Steps == {"idle", "create", "created", "prompt", "accepted", "refused", "status", "observed",
          "abort", "aborted", "remove", "removed"}
Local == [step : Steps, session : Sessions \cup {None}, turn : Turns \cup {None}, row : Nat,
          bridge : Nat, cwd : Directories \cup {None}, seen : BOOLEAN]
BridgeSession == [cwd : Directories, live : BOOLEAN, streaming : BOOLEAN,
                  accepted : SUBSET Turns, pending : SUBSET Turns, done : SUBSET Turns]

\* The tables, the requests under way and the Bridge's sessions hold values of their types.
TypeOK ==
    /\ binding \in [Sessions -> Row]
    /\ drawn \in Nat
    /\ turns \in [Sessions -> [Turns -> TurnStatuses]]
    /\ call \in [Requests -> Local]
    /\ bridges \in Seq(BridgeSession)
    /\ faults \in Nat

\* The active turn of a session is one that runs, so that whatever ends it (a refresh, a cancel)
\* also frees the session: put_turn, get_session and cancel_turn change the two rows together.
ActiveIsRunning ==
    \A s \in Sessions :
        binding[s].active # None => turns[s][binding[s].active] = "running"

\* Two requests never submit the same turn of the same row to the Bridge: the row is inserted
\* before the call (put_turn).  The proof of the properties rests on this; Turns_proofs proves it.
Submitting(r) == call[r].step \in {"prompt", "accepted", "refused"}
SubmittedOnce ==
    \A r, other \in Requests :
        /\ Submitting(r) /\ Submitting(other)
        /\ call[r].turn = call[other].turn /\ call[r].row = call[other].row
        => r = other

\* A turn that has succeeded or failed never becomes queued or running again, however late a
\* request for it ends and however often its id is submitted (put_turn).
FinishedNeverRuns ==
    [][\A s \in Sessions, t \in Turns :
        turns[s][t] \in {"succeeded", "failed"} => turns'[s][t] \notin {"queued", "running"}]_vars

\* Pi has accepted every turn that is reported running or succeeded, whatever answers are lost
\* and whatever row or Bridge session was deleted meanwhile (put_turn, get_session).
RunningWasAccepted ==
    \A s \in Sessions, t \in Turns :
        turns[s][t] \in {"running", "succeeded"} =>
            \E b \in DOMAIN bridges : t \in bridges[b].accepted

\* A directory never has two Bridge sessions, which would split a session's history: put_session
\* adopts the one an interrupted attempt left behind.  (One request at a time.)
OneBridgeSession ==
    \A cwd \in Directories : Cardinality({b \in Live : bridges[b].cwd = cwd}) <= 1

\* Two sessions of the consumer are not the same session of the Bridge: "session_id" is stable
\* and unique in the instance (the description of put_session).
OwnBridgeSession ==
    \A s, other \in Sessions :
        binding[s].bridge # None /\ binding[s].bridge = binding[other].bridge => s = other

\* At most one turn of a session is queued or running (docs/api/turns.md).
OneActiveTurn ==
    \A s \in Sessions :
        Cardinality({t \in Turns : turns[s][t] \in {"queued", "running"}}) <= 1

\* A terminal status is final: succeeded, cancelled and failed turns stay so while the row lives
\* (the description of get_turn).
TerminalIsFinal ==
    [][\A s \in Sessions, t \in Turns :
        turns[s][t] \in {"succeeded", "cancelled", "failed"} /\ binding[s].id = binding'[s].id
        => turns'[s][t] = turns[s][t]]_vars

\* A turn is reported succeeded only when Pi has finished it (the description of get_session).
SucceededIsDone ==
    \A s \in Sessions, t \in Turns :
        turns[s][t] = "succeeded" => \E b \in DOMAIN bridges : t \in bridges[b].done

\* Every submission comes to an answer that is recorded: no turn stays queued (put_turn).
SubmissionsEnd ==
    \A s \in Sessions, t \in Turns : turns[s][t] = "queued" ~> turns[s][t] # "queued"

\* With somebody polling, every running turn comes to a terminal status (get_turn), but for one
\* whose Bridge session was deleted by a request that did not hear of it.
Stranded(s) == binding[s].bridge # None /\ ~bridges[binding[s].bridge].live
RunningEnds ==
    \A s \in Sessions, t \in Turns :
        turns[s][t] = "running" ~> turns[s][t] # "running" \/ Stranded(s)
==============================================================================
