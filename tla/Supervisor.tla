----------------------------- MODULE Supervisor -----------------------------
(***************************************************************************)
(* The Bridge's supervisor of Pi processes, with the routes that use it.    *)
(*                                                                         *)
(*   rpc/supervisor.py          GetOrStart, Stop, Reload, Reap, Exited      *)
(*   rpc/process.py             Spawn, Boot, Terminate, PiStarts, PiEnds    *)
(*   app/session_routes.py      Prompt, DeleteSession                       *)
(*   app/session_runtime_routes.py  StopSession, Reload                     *)
(*                                                                         *)
(* Every request is a coroutine of one event loop, and so is the reaper: a  *)
(* step is what runs between two suspensions.  Session locks and command    *)
(* locks are first-come first-served queues, their holder first.  The map   *)
(* lock is never held across a suspension and needs no state.               *)
(*                                                                         *)
(* Abstracted: which of several idle processes is the oldest, and when one  *)
(* has been idle for long; the request id that events are tagged with; the  *)
(* other reasons to restart a process (system prompt, model catalog) are    *)
(* those of a reload; several calls of Pi in a row are one.                 *)
(***************************************************************************)
EXTENDS Integers, Sequences, FiniteSets

CONSTANTS
    Sessions,    \* sessions of the Bridge's catalog
    Requests,    \* requests, each served once
    Reaper,      \* the reaper task
    Keys,        \* idempotency keys of prompts
    Capacity,    \* settings.max_active_sessions
    Faults,      \* which of FaultKinds the environment may cause
    MaxFaults,   \* bound: faults in one behaviour
    MaxServed    \* bound: requests served at the same time

FaultKinds == {"spawn", "silent", "lost", "death"}
None == 0

ASSUME TaskAssumption == Reaper \notin Requests
ASSUME CapacityAssumption == Capacity \in Nat \ {0}
ASSUME FaultAssumption == Faults \subseteq FaultKinds
ASSUME BoundAssumption == MaxFaults \in Nat /\ MaxServed \in Nat

VARIABLES
    status,       \* catalog: last_status of each session, "deleted" when its record is gone
    procs,        \* every process ever spawned; its id is its index
    registered,   \* self.processes: the process of a session, or None
    lock,         \* _session_locks: who holds and who waits
    command,      \* _command_locks
    task,         \* the requests and the reaper, with their local variables
    accepted,     \* journal: keys with an input_accepted record
    given,        \* how often a prompt was handed to Pi (observed by the properties only)
    generation,   \* _mcp_generation
    faults

vars == <<status, procs, registered, lock, command, task, accepted, given, generation, faults>>
------------------------------------------------------------------------------
Tasks == Requests \cup {Reaper}

NewTask == [step |-> "new", session |-> None, key |-> None, proc |-> None, target |-> None,
            next |-> "done", todo |-> {}]
\* Mutant: the process does not know its session.
Nameless(s) ==
    [session |-> None, alive |-> TRUE, expected |-> FALSE, reading |-> TRUE, streaming |-> FALSE,
     deaf |-> FALSE, queue |-> {}, tools |-> generation, generation |-> None]
NewProcess(s) ==
    [session |-> s, alive |-> TRUE, expected |-> FALSE, reading |-> TRUE, streaming |-> FALSE,
     deaf |-> FALSE, queue |-> {}, tools |-> generation, generation |-> None]

Init ==
    /\ status = [s \in Sessions |-> "stopped"]
    /\ procs = <<>>
    /\ registered = [s \in Sessions |-> None]
    /\ lock = [s \in Sessions |-> <<>>]
    /\ command = [s \in Sessions |-> <<>>]
    /\ task = [t \in Tasks |-> NewTask]
    /\ accepted = [s \in Sessions |-> {}]
    /\ given = [s \in Sessions |-> [k \in Keys |-> 0]]
    /\ generation = 1
    /\ faults = 0

Fault(kind) == kind \in Faults /\ faults < MaxFaults /\ faults' = faults + 1

Exists(s) == status[s] # "deleted"
SetRuntime(s, new) == status' = IF Exists(s) THEN [status EXCEPT ![s] = new] ELSE status

Active(s) == registered[s] # None /\ procs[registered[s]].alive
ActiveSessions == {s \in Sessions : Active(s)}
IsIdle(p) == procs[p].alive /\ ~procs[p].streaming
Answers(p) == procs[p].alive /\ ~procs[p].deaf
IdleSessions == {s \in ActiveSessions : IsIdle(registered[s])}
Registered == {registered[s] : s \in Sessions} \ {None}

At(t, step) == task[t].step = step

\* Mutant: whoever waits for a lock has it.
HasOrWaits(queues, s, t) == \E k \in DOMAIN queues[s] : queues[s][k] = t
Holds(queues, s, t) == queues[s] # <<>> /\ Head(queues[s]) = t
Enqueued(queues, s, t) == [queues EXCEPT ![s] = Append(@, t)]
Released(queues, s) == [queues EXCEPT ![s] = Tail(@)]

Goto(t, step) == task' = [task EXCEPT ![t].step = step]

\* Waits for the lock of target, to stop its process; then the task goes on with next.
Stopping(t, target, next) ==
    /\ lock' = Enqueued(lock, target, t)
    /\ task' = [task EXCEPT ![t].step = "stop", ![t].target = target, ![t].next = next]

\* A new request, if the server takes one more.
New(t) ==
    /\ t \in Requests /\ At(t, "new")
    /\ Cardinality({r \in Requests : task[r].step \notin {"new", "done"}}) < MaxServed

------------------------------------------------------------------------------
(* POST prompts.                                                             *)

Prompt(t, s, k) ==
    /\ New(t)
    /\ command' = Enqueued(command, s, t)
    /\ task' = [task EXCEPT ![t] = [NewTask EXCEPT !.step = "command", !.session = s, !.key = k]]
    /\ UNCHANGED <<status, procs, registered, lock, accepted, given, generation, faults>>

\* A process that was started before the last reload.  Mutant: nobody looks.
NeverRestarts(s) == FALSE
NeedsRestart(s) == Active(s) /\ procs[registered[s]].generation # generation

\* Mutant: the journal is not asked.
NeverKnown(s, k) == FALSE
Known(s, k) == k \in accepted[s]

\* A prompt answered without Pi: known, for a deleted session, or too early for a restart.
Answered(s, k) ==
    \/ Known(s, k)
    \/ ~Exists(s)
    \/ NeedsRestart(s) /\ procs[registered[s]].streaming

Lookup(t) ==
    LET s == task[t].session IN
    /\ At(t, "command") /\ Holds(command, s, t)
    /\ \/ /\ Answered(s, task[t].key)
          /\ Goto(t, "done")
          /\ command' = Released(command, s)
          /\ UNCHANGED lock
       \/ /\ ~Answered(s, task[t].key)
          /\ IF NeedsRestart(s)
             THEN Stopping(t, s, "start")
             ELSE lock' = Enqueued(lock, s, t) /\ Goto(t, "start")
          /\ UNCHANGED command
    /\ UNCHANGED <<status, procs, registered, accepted, given, generation, faults>>

\* The prompt fails, and gives up the locks it holds.  Mutant: but for the session's lock.
KeepsLock(t) ==
    /\ Goto(t, "done")
    /\ command' = Released(command, task[t].session)
    /\ UNCHANGED lock
GiveUp(t) ==
    /\ Goto(t, "done")
    /\ lock' = Released(lock, task[t].session)
    /\ command' = Released(command, task[t].session)

\* Mutant: the capacity is off by one.
OneTooMany == Cardinality(ActiveSessions) > Capacity
Reuse(s) == Active(s)
Full == Cardinality(ActiveSessions) >= Capacity

\* With its session's lock: the active process, a free slot, or the slot of an idle session.
GetOrStart(t) ==
    LET s == task[t].session IN
    /\ At(t, "start") /\ Holds(lock, s, t)
    /\ \/ /\ Reuse(s)
          /\ task' = [task EXCEPT ![t].step = "send", ![t].proc = registered[s]]
          /\ lock' = Released(lock, s)
          /\ UNCHANGED command
       \/ /\ ~Reuse(s) /\ ~Full
          /\ Goto(t, "spawn")
          /\ UNCHANGED <<lock, command>>
       \/ /\ ~Reuse(s) /\ Full
          /\ \E victim \in IdleSessions : Stopping(t, victim, "spawn")
          /\ UNCHANGED command
       \/ /\ ~Reuse(s) /\ Full /\ IdleSessions = {}
          /\ GiveUp(t)
    /\ UNCHANGED <<status, procs, registered, accepted, given, generation, faults>>

Spawn(t) ==
    LET s == task[t].session IN
    /\ At(t, "spawn")
    /\ \/ /\ SetRuntime(s, "starting")
          /\ procs' = Append(procs, NewProcess(s))
          /\ task' = [task EXCEPT ![t].step = "boot", ![t].proc = Len(procs) + 1]
          /\ UNCHANGED <<lock, command, faults>>
       \/ /\ Fault("spawn")
          /\ SetRuntime(s, "failed")
          /\ GiveUp(t)
          /\ UNCHANGED procs
    /\ UNCHANGED <<registered, accepted, given, generation>>

\* Pi answers get_state and the process is registered.  If it does not answer, it is not stopped.
Boot(t) ==
    LET s == task[t].session
        p == task[t].proc
    IN  /\ At(t, "boot")
        /\ \/ /\ registered' = [registered EXCEPT ![s] = p]
              /\ procs' = [procs EXCEPT ![p].generation = generation]
              /\ Goto(t, "settle")
              /\ UNCHANGED <<status, lock, command, faults>>
           \/ /\ IF procs[p].alive THEN Fault("silent") ELSE UNCHANGED faults
              /\ SetRuntime(s, "failed")
              /\ GiveUp(t)
              /\ UNCHANGED <<registered, procs>>
        /\ UNCHANGED <<accepted, given, generation>>

\* Asked once more; the journal has no place for an event of a deleted session.
Settle(t) ==
    LET s == task[t].session
        p == task[t].proc
    IN  /\ At(t, "settle")
        /\ \/ /\ SetRuntime(s, IF procs[p].streaming THEN "running" ELSE "idle")
              /\ IF Exists(s)
                 THEN Goto(t, "send") /\ lock' = Released(lock, s) /\ UNCHANGED command
                 ELSE GiveUp(t)
              /\ UNCHANGED faults
           \/ /\ IF procs[p].alive THEN Fault("silent") ELSE UNCHANGED faults
              /\ GiveUp(t)
              /\ UNCHANGED status
        /\ UNCHANGED <<procs, registered, accepted, given, generation>>

\* The prompt is answered with 503.
Unavailable(t) == Goto(t, "done")

\* The prompt proper, without the session's lock.
Send(t) ==
    LET s == task[t].session
        p == task[t].proc
        k == task[t].key
    IN  /\ At(t, "send")
        /\ command' = Released(command, s)
        /\ \/ /\ Answers(p)
              /\ procs' = [procs EXCEPT ![p].queue = @ \cup {k}]
              /\ given' = [given EXCEPT ![s][k] = @ + 1]
              /\ \/ Goto(t, "record") /\ UNCHANGED faults
                 \/ Unavailable(t) /\ Fault("lost")
           \/ /\ ~Answers(p)
              /\ Unavailable(t)
              /\ UNCHANGED <<procs, given, faults>>
        /\ UNCHANGED <<status, registered, lock, accepted, generation>>

\* After the command lock is free again.
Record(t) ==
    LET s == task[t].session IN
    /\ At(t, "record")
    /\ accepted' = IF Exists(s) THEN [accepted EXCEPT ![s] = @ \cup {task[t].key}] ELSE accepted
    /\ Goto(t, "done")
    /\ UNCHANGED <<status, procs, registered, lock, command, given, generation, faults>>

------------------------------------------------------------------------------
(* Stopping a process: stop, eviction, restart, reload and reaper.           *)

Stop(t) ==
    LET s == task[t].target IN
    /\ At(t, "stop") /\ Holds(lock, s, t)
    /\ IF Active(s)
       THEN /\ SetRuntime(s, "stopping")
            /\ task' = [task EXCEPT ![t].step = "stopping", ![t].proc = registered[s]]
            /\ UNCHANGED lock
       ELSE /\ IF task[t].next = "start"
               THEN lock' = Enqueued(Released(lock, s), s, t)
               ELSE lock' = Released(lock, s)
            /\ Goto(t, task[t].next)
            /\ UNCHANGED status
    /\ UNCHANGED <<procs, registered, command, accepted, given, generation, faults>>

\* A stop, and a deletion, first ask a generating Pi to abort.
Aborts(t) ==
    /\ At(t, "stopping") /\ task[t].next \in {"done", "erase"}
    /\ procs[task[t].proc].alive /\ procs[task[t].proc].streaming

\* Pi does not answer in time: only the errors of Pi itself are ignored, so it is not stopped.
AbortFails(t) ==
    /\ Aborts(t)
    /\ IF Answers(task[t].proc) THEN Fault("silent") ELSE UNCHANGED faults
    /\ Goto(t, "done")
    /\ lock' = Released(lock, task[t].target)
    /\ UNCHANGED <<status, procs, registered, command, accepted, given, generation>>

Terminate(t) ==
    /\ At(t, "stopping")
    /\ Aborts(t) => Answers(task[t].proc)
    /\ procs' = [procs EXCEPT ![task[t].proc].expected = procs[task[t].proc].alive]
    /\ Goto(t, "waiting")
    /\ UNCHANGED <<status, registered, lock, command, accepted, given, generation, faults>>

\* The process is gone, and its reader too unless it had died by itself.  Mutant: it was told to.
Signalled(p) == TRUE
Down(p) == ~procs[p].alive /\ (procs[p].expected => ~procs[p].reading)

\* Writing the event of a deleted session fails, which ends whoever wanted it stopped.
Stopped(t) ==
    LET s == task[t].target
        p == task[t].proc
        mine == task[t].session
        freed == Released(lock, s)
    IN  /\ At(t, "waiting")
        /\ Down(p)
        /\ registered' = [registered EXCEPT ![s] = None]
        /\ SetRuntime(s, "stopped")
        /\ IF Exists(s)
           THEN /\ Goto(t, task[t].next)
                /\ lock' = IF task[t].next = "start" THEN Enqueued(freed, s, t) ELSE freed
                /\ UNCHANGED command
           ELSE /\ Goto(t, IF t = Reaper THEN "dead" ELSE "done")
                /\ lock' = IF task[t].next = "spawn" THEN Released(freed, mine) ELSE freed
                /\ command' = IF task[t].next \in {"start", "spawn"}
                              THEN Released(command, mine) ELSE command
        /\ UNCHANGED <<procs, accepted, given, generation, faults>>

StopSession(t, s) ==
    /\ New(t)
    /\ Exists(s)
    /\ Stopping(t, s, "done")
    /\ UNCHANGED <<status, procs, registered, command, accepted, given, generation, faults>>

\* Mutant: no process is stopped.
NeverStops(s) == FALSE
MustStop(s) == Active(s)

\* With force: an active process is stopped first.
DeleteSession(t, s) ==
    /\ New(t)
    /\ Exists(s)
    /\ IF MustStop(s)
       THEN /\ lock' = Enqueued(lock, s, t)
            /\ task' = [task EXCEPT ![t] = [NewTask EXCEPT !.step = "stop", !.session = s,
                                                          !.target = s, !.next = "erase"]]
       ELSE /\ task' = [task EXCEPT ![t] = [NewTask EXCEPT !.step = "erase", !.session = s]]
            /\ UNCHANGED lock
    /\ UNCHANGED <<status, procs, registered, command, accepted, given, generation, faults>>

Erase(t) ==
    /\ At(t, "erase")
    /\ status' = [status EXCEPT ![task[t].session] = "deleted"]
    /\ accepted' = [accepted EXCEPT ![task[t].session] = {}]
    /\ Goto(t, "done")
    /\ UNCHANGED <<procs, registered, lock, command, given, generation, faults>>

\* The registered processes, taken one by one.
Reload(t) ==
    /\ New(t)
    /\ generation' = generation + 1
    /\ task' = [task EXCEPT ![t] = [NewTask EXCEPT !.step = "loop",
                                        !.todo = Registered]]
    /\ UNCHANGED <<status, procs, registered, lock, command, accepted, given, faults>>

\* Those that have been idle for long are any.
Reap ==
    /\ task[Reaper].step = "new"
    /\ \E old \in SUBSET Registered :
        /\ old # {}
        /\ task' = [task EXCEPT ![Reaper] = [NewTask EXCEPT !.step = "loop", !.todo = old]]
    /\ UNCHANGED <<status, procs, registered, lock, command, accepted, given, generation, faults>>

\* Whether a process is idle is seen just before it is stopped, and never again.
Loop(t) ==
    /\ At(t, "loop")
    /\ \/ /\ task[t].todo = {}
          /\ task' = [task EXCEPT ![t] = [NewTask EXCEPT !.step =
                            IF t = Reaper THEN "new" ELSE "done"]]
          /\ UNCHANGED lock
       \/ \E p \in task[t].todo :
            LET s == procs[p].session IN
            IF IsIdle(p)
            THEN /\ lock' = Enqueued(lock, s, t)
                 /\ task' = [task EXCEPT ![t].step = "stop", ![t].target = s, ![t].next = "loop",
                                         ![t].todo = @ \ {p}]
            ELSE task' = [task EXCEPT ![t].todo = @ \ {p}] /\ UNCHANGED lock
    /\ UNCHANGED <<status, procs, registered, command, accepted, given, generation, faults>>

------------------------------------------------------------------------------
(* Pi.                                                                       *)

\* The reader fails over an event of a deleted session, and reads no more.
PiStarts(p) ==
    /\ procs[p].alive /\ procs[p].queue # {} /\ ~procs[p].streaming /\ ~procs[p].deaf
    /\ procs' = [procs EXCEPT ![p].streaming = TRUE, ![p].deaf = ~Exists(procs[p].session)]
    /\ SetRuntime(procs[p].session, "running")
    /\ UNCHANGED <<registered, lock, command, task, accepted, given, generation, faults>>

PiEnds(p) ==
    /\ procs[p].alive /\ procs[p].streaming /\ ~procs[p].deaf
    /\ procs' = [procs EXCEPT ![p].streaming = FALSE, ![p].queue = {},
                              ![p].deaf = ~Exists(procs[p].session)]
    /\ SetRuntime(procs[p].session, "idle")
    /\ UNCHANGED <<registered, lock, command, task, accepted, given, generation, faults>>

\* A terminated process exits, or is killed; another one may die.
Exits(p) ==
    /\ procs[p].alive
    /\ IF procs[p].expected THEN UNCHANGED faults ELSE Fault("death")
    /\ procs' = [procs EXCEPT ![p].alive = FALSE]
    /\ UNCHANGED <<status, registered, lock, command, task, accepted, given, generation>>

\* Mutant: whatever process is registered is forgotten.
AlwaysGone(s) == TRUE
Gone(s) == ~Active(s)

\* The reader of its output has come to the end, and forgets the session's process if it is dead.
Exited(p) ==
    LET s == procs[p].session IN
    /\ ~procs[p].alive /\ procs[p].reading
    /\ procs' = [procs EXCEPT ![p].reading = FALSE]
    /\ registered' = IF Gone(s) THEN [registered EXCEPT ![s] = None] ELSE registered
    /\ SetRuntime(s, IF procs[p].expected THEN "stopped" ELSE "failed")
    /\ UNCHANGED <<lock, command, task, accepted, given, generation, faults>>

Serve(t) ==
    \/ Lookup(t) \/ GetOrStart(t) \/ Spawn(t) \/ Boot(t) \/ Settle(t) \/ Send(t) \/ Record(t)
    \/ Stop(t) \/ AbortFails(t) \/ Terminate(t) \/ Stopped(t) \/ Erase(t) \/ Loop(t)

Arrive(t) ==
    \/ \E s \in Sessions :
        \/ \E k \in Keys : Prompt(t, s, k)
        \/ StopSession(t, s) \/ DeleteSession(t, s)
    \/ Reload(t)

Pi == \E p \in DOMAIN procs : PiStarts(p) \/ PiEnds(p) \/ Exits(p) \/ Exited(p)

Next == (\E t \in Tasks : Arrive(t) \/ Serve(t)) \/ Reap \/ Pi

Spec == Init /\ [][Next]_vars

\* Coroutines are scheduled, calls of Pi have a timeout, a terminated process is killed in the end.
FairSpec ==
    /\ Spec
    /\ \A t \in Tasks : WF_vars(Serve(t))
    /\ WF_vars(\E p \in DOMAIN procs : Exited(p) \/ (procs[p].expected /\ Exits(p)))

------------------------------------------------------------------------------
(* Properties.                                                               *)

Statuses == {"stopped", "starting", "idle", "running", "stopping", "failed", "deleted"}
Steps == {"new", "command", "start", "spawn", "boot", "settle", "send", "record", "stop",
          "stopping", "waiting", "erase", "loop", "done", "dead"}
Process == [session : Sessions, alive : BOOLEAN, expected : BOOLEAN, reading : BOOLEAN,
            streaming : BOOLEAN, deaf : BOOLEAN, queue : SUBSET Keys, tools : Nat, generation : Nat]
Local == [step : Steps, session : Sessions \cup {None}, key : Keys \cup {None}, proc : Nat,
          target : Sessions \cup {None}, next : {"start", "spawn", "erase", "loop", "done"},
          todo : SUBSET Nat]

\* The catalog, the process table, the locks and the tasks hold values of their types.
TypeOK ==
    /\ status \in [Sessions -> Statuses]
    /\ procs \in Seq(Process)
    /\ registered \in [Sessions -> Nat]
    /\ lock \in [Sessions -> Seq(Tasks)]
    /\ command \in [Sessions -> Seq(Tasks)]
    /\ task \in [Tasks -> Local]
    /\ accepted \in [Sessions -> SUBSET Keys]
    /\ given \in [Sessions -> [Keys -> Nat]]
    /\ generation \in Nat
    /\ faults \in Nat

\* A session never has two processes at work: started or being started, and not yet dead.  Those
\* whose start failed are left alone by get_or_start, and not counted.
Started(p) == procs[p].generation # None \/ \E t \in Tasks : At(t, "boot") /\ task[t].proc = p
OneProcess ==
    \A p, q \in DOMAIN procs :
        /\ procs[p].alive /\ Started(p) /\ procs[q].alive /\ Started(q)
        /\ procs[p].session = procs[q].session
        => p = q

\* Once registered, a process is found under its session until it is dead: neither a late exit of
\* its predecessor (_process_exited) nor a stop or start that waited loses it.
StaysRegistered ==
    \A p \in DOMAIN procs :
        procs[p].alive /\ procs[p].generation # None => registered[procs[p].session] = p

\* A session's process is one, and the one that is found under it.
OneKnownProcess == OneProcess /\ StaysRegistered

\* Nobody works on a session.
Quiet(s) ==
    /\ lock[s] = <<>> /\ command[s] = <<>>
    /\ \A t \in Tasks : task[t].step \in {"erase", "record"} => task[t].session # s

\* At most max_active_sessions have a live process (docs/deployment/bridge-configuration.md).
CapacityRespected == Cardinality(ActiveSessions) <= Capacity

\* A prompt with an idempotency key is executed once (the description of the header).
PromptOnce == \A s \in Sessions, k \in Keys : given[s][k] <= 1

\* A deleted session leaves no process behind (the description of delete_session).
DeletedIsGone ==
    \A p \in DOMAIN procs :
        procs[p].alive /\ ~Exists(procs[p].session) => ~Quiet(procs[p].session)

\* The reaper never ends (docs/deployment/bridge-configuration.md promises that idle processes
\* are reclaimed).
ReaperRuns == ~At(Reaper, "dead")

\* A process that counts as up to date has been spawned after the last reload (the comment of
\* reload_mcp_gateway).
ToolsAreFresh ==
    \A p \in DOMAIN procs :
        procs[p].alive /\ procs[p].generation = generation => procs[p].tools = generation

\* A prompt that nothing overlaps is given to a process with the tools of the last reload: an idle
\* one was restarted by the reload, a streaming one by this prompt (needs_configuration_restart).
NextPromptRestarts ==
    [][\A s \in Sessions :
        given'[s] # given[s] => procs[registered[s]].tools = generation]_vars

\* A reload, an eviction or the reaper stops no process that is generating (the comment of
\* reload_mcp_gateway).
StopsOnlyIdle ==
    [][\A t \in Tasks :
        /\ At(t, "stopping") /\ task'[t].step = "waiting"
        /\ task[t].next \in {"spawn", "loop"}
        => ~procs[task[t].proc].streaming]_vars

\* Whoever asked for a process to be stopped finds it dead in the end (the summary of stop_session).
StopStops ==
    [][\A t \in Requests :
        /\ task[t].step \in {"stopping", "waiting"} /\ task[t].next \in {"done", "erase"}
        /\ task'[t].step \in {"done", "erase"}
        => ~procs[task[t].proc].alive]_vars

\* Who waits for a lock, and for whom: the task that is first in the queue.
WaitsIn(queues, s, t, u) == ~Holds(queues, s, t) /\ Holds(queues, s, u)
Waits(t) ==
    \/ At(t, "command") /\ ~Holds(command, task[t].session, t)
    \/ At(t, "start") /\ ~Holds(lock, task[t].session, t)
    \/ At(t, "stop") /\ ~Holds(lock, task[t].target, t)
WaitsFor(t, u) ==
    \/ At(t, "command") /\ WaitsIn(command, task[t].session, t, u)
    \/ At(t, "start") /\ WaitsIn(lock, task[t].session, t, u)
    \/ At(t, "stop") /\ WaitsIn(lock, task[t].target, t, u)

\* Locks are never waited for in a circle, though get_or_start stops the process of another session
\* with the lock of its own: of tasks that all wait, one waits for a task that does not.
NoLockCycle ==
    \A circle \in SUBSET {t \in Tasks : Waits(t)} :
        circle # {} => \E t \in circle, u \in Tasks \ circle : WaitsFor(t, u)

\* Every request is served to its end: no locks are waited for in a circle.
RequestsEnd == \A t \in Requests : (task[t].step # "new") ~> (task[t].step = "done")
==============================================================================
