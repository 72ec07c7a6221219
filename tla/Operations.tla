----------------------------- MODULE Operations -----------------------------
(***************************************************************************)
(* The instance life cycle of the Runner Manager: the API that queues       *)
(* operations, the single worker that executes them against LiteLLM,        *)
(* OpenSandbox and the Bridge, and the monitor that queues recoveries.      *)
(*                                                                         *)
(*   app/instance_routes.py, service/short_transactions.py   the API        *)
(*   service/long_tasks.py: OperationExecutor                exec           *)
(*   service/long_tasks.py: SandboxRecoveryMonitor           monitor        *)
(*   app/factory.py: lifespan and its loops                  Crash, fairness *)
(*                                                                         *)
(* A session of the database reads outside a transaction: autoflush is off  *)
(* and the driver begins one at the first write.  So a session block that   *)
(* reads and then writes is two steps or more, and what it writes rests on   *)
(* what it read: an UPDATE names only the attributes that differ from the    *)
(* loaded ones (Updated).  The API's handlers hold the event loop from first *)
(* to last statement, so one runs at a time (api); the worker and the        *)
(* monitor are threads and interleave with it anywhere.                     *)
(*                                                                         *)
(* Every upstream call is one step.  It may be rejected or take effect and   *)
(* lose its answer, the database may refuse, or the process may die:        *)
(* Faults says which, MaxFaults how often in a behaviour.                   *)
(*                                                                         *)
(* Abstracted: consumers and names (an instance is a member of Instances),  *)
(* the display-only "phase" and problem texts, the payloads.  The bridge    *)
(* token and the LiteLLM key of an instance are drawn together everywhere   *)
(* in the code, so one number, the credential generation, stands for both.  *)
(***************************************************************************)
EXTENDS Integers, Sequences, FiniteSets

CONSTANTS
    Instances,          \* (consumer, subject_ref) pairs
    Policies,           \* published policy revisions
    ProvisionAttempts,  \* max_attempts of provision, stop and destroy (8 in the code)
    RecoveryAttempts,   \* max_attempts of a recovery (3 in the code)
    Faults,             \* which of FaultKinds the environment may cause
    MaxFaults,          \* bound: faults in one behaviour
    MaxRequests,        \* bound: operations queued through the API
    MaxCredentials      \* bound: credential generations of one instance

FaultKinds == {"reject", "lost", "death", "crash", "database"}
None == 0

ASSUME PolicyAssumption == Policies \subseteq Nat \ {None}
ASSUME AttemptAssumption ==
    /\ ProvisionAttempts \in Nat \ {0}
    /\ RecoveryAttempts \in Nat \ {0}
ASSUME FaultAssumption == Faults \subseteq FaultKinds
ASSUME BoundAssumption ==
    /\ MaxFaults \in Nat
    /\ MaxRequests \in Nat
    /\ MaxCredentials \in Nat

VARIABLES
    inst,     \* manager_runner_instances
    issued,   \* credential generations drawn so far for an instance
    ops,      \* manager_operations, in created_at order
    api,      \* the request that a handler of the API works on, and what the handler has read
    exec,     \* the local variables of the operation worker
    monitor,  \* the local variables of the recovery monitor
    boxes,    \* OpenSandbox: every sandbox ever created; its id is its index
    key,      \* LiteLLM: the key registered under the instance's alias
    faults    \* faults so far

vars == <<inst, issued, ops, api, exec, monitor, boxes, key, faults>>
database == <<inst, issued, ops>>
upstream == <<boxes, key>>

------------------------------------------------------------------------------
States == {"absent", "provisioning", "ready", "stopping", "stopped",
           "destroying", "destroyed", "failed"}
ProvisionKinds == {"provision", "recovery"}
StopKinds == {"stop", "destroy"}
Kinds == ProvisionKinds \cup StopKinds
Statuses == {"pending", "running", "succeeded", "failed"}

NoKey == [cred |-> None, policy |-> None]
NoRow == [state |-> "unread", url |-> None]
NoRequest == [step |-> "idle", kind |-> "none", inst |-> None, policy |-> None, renew |-> FALSE,
              state |-> "absent", found |-> None]
IdleExec == [op |-> None, step |-> "idle", sandbox |-> None, cred |-> None,
             policy |-> None, sid |-> None, retryable |-> FALSE, seen |-> NoRow]
IdleMonitor == [step |-> "idle", left |-> {}, inst |-> None, sandbox |-> None, url |-> None]

Active(o) == ops[o].status \in {"pending", "running"}
ActiveOps(i, kinds) ==
    {o \in DOMAIN ops : ops[o].inst = i /\ ops[o].kind \in kinds /\ Active(o)}

\* Mutant of Peers: every kind is a peer of every other.
AnyKind(kind) == Kinds

\* The kinds an operation is deduplicated against.
Peers(kind) == IF kind \in ProvisionKinds THEN ProvisionKinds ELSE {kind}

NewOp(i, kind) ==
    [inst |-> i, kind |-> kind, status |-> "pending", attempt |-> 0, waiting |-> FALSE]

Room == Cardinality({o \in DOMAIN ops : ops[o].kind # "recovery"}) < MaxRequests

\* What an attribute is once a session has stored "new", having loaded "loaded": an attribute set
\* to the value it was loaded with is not part of the UPDATE.
Updated(loaded, new, current) == IF new = loaded THEN current ELSE new

Init ==
    /\ inst = [i \in Instances |-> [state |-> "absent", policy |-> None, sandbox |-> None,
                                    url |-> None, cred |-> None]]
    /\ issued = [i \in Instances |-> 0]
    /\ ops = <<>>
    /\ api = NoRequest
    /\ exec = IdleExec
    /\ monitor = IdleMonitor
    /\ boxes = <<>>
    /\ key = [i \in Instances |-> NoKey]
    /\ faults = 0

------------------------------------------------------------------------------
(* The instance API.  A handler has no await between its first statement and *)
(* its commit: one request is in progress at a time.  It reads the row, then *)
(* searches for an active operation, then writes; the worker and the monitor *)
(* may commit before each.  A handler the database fails leaves no trace.    *)

OpKind(kind) == IF kind \in StopKinds THEN kind ELSE "provision"
Begun(kind) == CASE kind = "stop" -> "stopping" [] kind = "destroy" -> "destroying"
                 [] OTHER -> "provisioning"

Completed(i) ==
    \E o \in DOMAIN ops :
        ops[o].inst = i /\ ops[o].kind = "provision" /\ ops[o].status = "succeeded"

\* Mutant of Renews: a change of policy keeps the credentials.
RenewsSettledOnly(i, p) == inst[i].state \in {"stopped", "failed", "destroyed"}

\* A settled or re-policied instance draws fresh credentials.
Renews(i, p) ==
    \/ inst[i].policy # p
    \/ inst[i].state \in {"stopped", "failed", "destroyed"}

\* PUT /v1/instances/{subject_ref} of an instance that has no row: its insert begins the
\* transaction, in which the operation is inserted too.
Create(i, p) ==
    /\ api.step = "idle"
    /\ inst[i].state = "absent"
    /\ Room
    /\ issued[i] < MaxCredentials
    /\ issued' = [issued EXCEPT ![i] = @ + 1]
    /\ inst' = [inst EXCEPT ![i].state = "provisioning", ![i].policy = p,
                            ![i].cred = issued[i] + 1]
    /\ ops' = Append(ops, NewOp(i, "provision"))
    /\ UNCHANGED <<api, exec, monitor, upstream, faults>>

\* A handler reads the row of an existing instance.
Read(i, kind, policy, renew) ==
    /\ api.step = "idle"
    /\ inst[i].state # "absent"
    /\ Room \/ ActiveOps(i, Peers(OpKind(kind))) # {}
    /\ api' = [step |-> "search", kind |-> kind, inst |-> i, policy |-> policy, renew |-> renew,
               state |-> inst[i].state, found |-> None]
    /\ UNCHANGED <<database, exec, monitor, upstream, faults>>

\* PUT /v1/instances/{subject_ref}
Ensure(i, p) ==
    /\ Renews(i, p) => issued[i] < MaxCredentials
    /\ Read(i, "ensure", p, Renews(i, p))

\* POST :reconcile
Reconcile(i) == Read(i, "reconcile", None, FALSE)

\* POST :stop and :destroy
RequestStop(i, kind) == Read(i, kind, None, FALSE)

\* An ensure of a ready instance under an unchanged policy returns the last successful provision.
Satisfied ==
    /\ api.kind = "ensure"
    /\ api.state = "ready"
    /\ inst[api.inst].policy = api.policy
    /\ Completed(api.inst)

\* An ensure that renews and a reconcile set the state whatever the search finds.
Begins == api.renew \/ api.kind = "reconcile"

\* Mutant of Search: the search is left out.
InsertAnyway ==
    /\ api.step = "search"
    /\ api' = IF Satisfied THEN NoRequest ELSE [api EXCEPT !.step = "write"]
    /\ UNCHANGED <<database, exec, monitor, upstream, faults>>

\* The search for an active operation of the same class.
Search ==
    LET active == ActiveOps(api.inst, Peers(OpKind(api.kind))) IN
    /\ api.step = "search"
    /\ \/ Satisfied /\ api' = NoRequest
       \/ /\ ~Satisfied
          /\ active = {}
          /\ Room
          /\ api' = [api EXCEPT !.step = "write"]
       \/ /\ ~Satisfied
          /\ \E o \in active :
                api' = IF Begins THEN [api EXCEPT !.step = "write", !.found = o] ELSE NoRequest
    /\ UNCHANGED <<database, exec, monitor, upstream, faults>>

\* The flush and the commit: the row's changed attributes, and a new operation if none was found.
Store ==
    LET i == api.inst
        new == api.found = None
        begins == Begins \/ (new /\ api.kind \in StopKinds)
    IN  /\ api.step = "write"
        /\ ops' = IF new THEN Append(ops, NewOp(i, OpKind(api.kind))) ELSE ops
        /\ issued' = IF api.renew THEN [issued EXCEPT ![i] = @ + 1] ELSE issued
        /\ inst' = [inst EXCEPT
                ![i].state = IF begins THEN Updated(api.state, Begun(api.kind), @) ELSE @,
                ![i].policy = IF api.kind = "ensure" THEN api.policy ELSE @,
                ![i].cred = IF api.renew THEN issued[i] + 1 ELSE @]
        /\ api' = NoRequest
        /\ UNCHANGED <<exec, monitor, upstream, faults>>

------------------------------------------------------------------------------
(* The worker.  exec.op is the operation it executes, exec.step the database *)
(* session or upstream call it makes next; sandbox, cred and policy are the  *)
(* snapshot _load took, sid the local sandbox_id, seen the row that the      *)
(* session which ends the operation has loaded.  The worker alone writes the *)
(* operations and the sandbox id; _phase writes what is only displayed.      *)

Subject == ops[exec.op].inst
Forced == ops[exec.op].kind = "recovery"

Goto(step) == exec' = [exec EXCEPT !.step = step]
Raise(retryable) ==
    exec' = [exec EXCEPT !.step = "fail", !.retryable = retryable, !.seen = NoRow]

\* A fault of the given kind happens, if the environment may still cause one.
Fault(kind) == kind \in Faults /\ faults < MaxFaults /\ faults' = faults + 1

\* A call took effect; its answer arrives, or is lost and the client raises a retryable 503.
Answered(next) ==
    \/ exec' = next /\ UNCHANGED faults
    \/ Fault("lost") /\ Raise(TRUE)

Eligible == {o \in DOMAIN ops : ops[o].status = "pending" /\ ~ops[o].waiting}

\* execute_next claims the oldest eligible operation.
Claim ==
    /\ exec.step = "idle"
    /\ \E o \in Eligible :
        /\ \A other \in Eligible : o <= other
        /\ ops' = [ops EXCEPT ![o].status = "running", ![o].attempt = @ + 1]
        /\ exec' = [IdleExec EXCEPT !.op = o, !.step = "load"]
    /\ UNCHANGED <<inst, issued, api, monitor, upstream, faults>>

\* Mutant of FirstStopStep: a stop with no sandbox leaves the key alone.
DoneWithoutSandbox(row) == IF row.sandbox # None THEN "delete_sandbox" ELSE "close"

LacksCredentials(row) == row.cred = None
FirstStopStep(row) == IF row.sandbox # None THEN "delete_sandbox" ELSE "revoke_key"

\* _load snapshots the instance row.
Load ==
    LET row == inst[Subject] IN
    /\ exec.step = "load"
    /\ \/ LacksCredentials(row) /\ Raise(FALSE)
       \/ /\ ~LacksCredentials(row)
          /\ exec' = [exec EXCEPT
                !.sandbox = row.sandbox, !.cred = row.cred, !.policy = row.policy,
                !.step = IF ops[exec.op].kind \in ProvisionKinds THEN "clear_key"
                         ELSE FirstStopStep(row)]
    /\ UNCHANGED <<database, api, monitor, upstream, faults>>

\* ensure_key deletes whatever key the alias has ...
ClearKey ==
    /\ exec.step = "clear_key"
    /\ key' = [key EXCEPT ![Subject] = NoKey]
    /\ Answered([exec EXCEPT !.step = "generate_key"])
    /\ UNCHANGED <<database, api, monitor, boxes>>

\* ... and registers the one of the snapshot.
GenerateKey ==
    /\ exec.step = "generate_key"
    /\ key' = [key EXCEPT ![Subject] = [cred |-> exec.cred, policy |-> exec.policy]]
    /\ Answered([exec EXCEPT !.step =
            IF Forced THEN IF exec.sandbox # None THEN "replace" ELSE "create"
            ELSE IF exec.sandbox # None THEN "inspect" ELSE "find"])
    /\ UNCHANGED <<database, api, monitor, boxes>>

\* delete answers 404 for a sandbox that is gone.
Gone(s) == boxes[s].status = "gone"
Deleted(s) == [boxes EXCEPT ![s].status = "gone"]

\* A recovery deletes the old sandbox, tolerating a 404, and forgets it.
ReplaceSandbox ==
    /\ exec.step = "replace"
    /\ boxes' = Deleted(exec.sandbox)
    /\ Answered([exec EXCEPT !.step = "forget"])
    /\ UNCHANGED <<database, api, monitor, key>>

ForgetSandbox ==
    /\ exec.step = "forget"
    /\ inst' = [inst EXCEPT ![Subject].sandbox = None]
    /\ Goto("create")
    /\ UNCHANGED <<issued, ops, api, monitor, upstream, faults>>

\* A provision keeps the recorded sandbox if it exists and holds the current token's hash.
InspectSandbox ==
    /\ exec.step = "inspect"
    /\ \/ Gone(exec.sandbox) /\ Goto("create")
       \/ /\ ~Gone(exec.sandbox)
          /\ boxes[exec.sandbox].cred = exec.cred
          /\ exec' = [exec EXCEPT !.sid = exec.sandbox, !.step = "wait"]
       \/ /\ ~Gone(exec.sandbox)
          /\ boxes[exec.sandbox].cred # exec.cred
          /\ Goto("discard")
    /\ UNCHANGED <<database, api, monitor, upstream, faults>>

\* Mutant of DiscardSandbox: the stale sandbox stays.
LeaveStale ==
    /\ exec.step = "discard"
    /\ Goto("create")
    /\ UNCHANGED <<database, api, monitor, upstream, faults>>

\* The stale sandbox is deleted; here a 404 is an error.
DiscardSandbox ==
    /\ exec.step = "discard"
    /\ \/ Gone(exec.sandbox) /\ Raise(FALSE) /\ UNCHANGED <<boxes, faults>>
       \/ /\ ~Gone(exec.sandbox)
          /\ boxes' = Deleted(exec.sandbox)
          /\ Answered([exec EXCEPT !.step = "create"])
    /\ UNCHANGED <<database, api, monitor, key>>

\* With no recorded sandbox, a provision adopts any that OpenSandbox lists for the instance.
\* The row is not updated with the adopted id.
FindSandbox ==
    LET found == {s \in DOMAIN boxes : boxes[s].inst = Subject /\ ~Gone(s)} IN
    /\ exec.step = "find"
    /\ \/ found = {} /\ Goto("create")
       \/ \E s \in found : exec' = [exec EXCEPT !.sid = s, !.step = "wait"]
    /\ UNCHANGED <<database, api, monitor, upstream, faults>>

CreateSandbox ==
    /\ exec.step = "create"
    /\ boxes' = Append(boxes, [inst |-> Subject, cred |-> exec.cred, policy |-> exec.policy,
                               models |-> None, status |-> "starting"])
    /\ Answered([exec EXCEPT !.sid = Len(boxes) + 1, !.step = "record"])
    /\ UNCHANGED <<database, api, monitor, key>>

RecordSandbox ==
    /\ exec.step = "record"
    /\ inst' = [inst EXCEPT ![Subject].sandbox = exec.sid]
    /\ Goto("wait")
    /\ UNCHANGED <<issued, ops, api, monitor, upstream, faults>>

\* _wait_running polls until the sandbox runs, fails or the deadline passes.
WaitRunning ==
    LET status == boxes[exec.sid].status IN
    /\ exec.step = "wait"
    /\ \/ status = "running" /\ Goto("bridge")
       \/ status = "starting" /\ Raise(TRUE)
       \/ status \in {"dead", "gone"} /\ Raise(FALSE)
    /\ UNCHANGED <<database, api, monitor, upstream, faults>>

\* bridge.ready() is polled until the deadline: any failure to answer is a timeout.
WaitBridge ==
    /\ exec.step = "bridge"
    /\ \/ boxes[exec.sid].status = "running" /\ Goto("models")
       \/ Raise(TRUE)
    /\ UNCHANGED <<database, api, monitor, upstream, faults>>

\* The Bridge is reached through the proxy, which knows the sandbox's token by its hash, and
\* accepts a catalog its own LiteLLM key can use.
ReplaceModels ==
    LET box == boxes[exec.sid]
        running == box.status = "running"
        accepted == running /\ box.cred = exec.cred /\ key[Subject].cred = box.cred
    IN  /\ exec.step = "models"
        /\ \/ /\ accepted
              /\ boxes' = [boxes EXCEPT ![exec.sid].models = exec.policy]
              /\ Answered([exec EXCEPT !.step = "commit"])
           \/ /\ ~accepted
              /\ \E retryable \in IF running THEN {box.cred = exec.cred} ELSE BOOLEAN :
                    Raise(retryable)
              /\ UNCHANGED <<boxes, faults>>
        /\ UNCHANGED <<database, api, monitor, key>>

\* The session that ends an operation reads the instance's row before it writes it.
SeeRow ==
    /\ exec.step \in {"commit", "close", "fail"}
    /\ exec.seen = NoRow
    /\ exec' = [exec EXCEPT !.seen = [state |-> inst[Subject].state, url |-> inst[Subject].url]]
    /\ UNCHANGED <<database, api, monitor, upstream, faults>>

CommitReady ==
    /\ exec.step = "commit"
    /\ exec.seen # NoRow
    /\ ops' = [ops EXCEPT ![exec.op].status = "succeeded"]
    /\ inst' = [inst EXCEPT ![Subject].state = Updated(exec.seen.state, "ready", @),
                            ![Subject].url = Updated(exec.seen.url, exec.sid, @)]
    /\ exec' = IdleExec
    /\ UNCHANGED <<issued, api, monitor, upstream, faults>>

\* _stop deletes the sandbox of the snapshot, tolerating a 404, and revokes the key.
DeleteSandbox ==
    /\ exec.step = "delete_sandbox"
    /\ boxes' = Deleted(exec.sandbox)
    /\ Answered([exec EXCEPT !.step = "revoke_key"])
    /\ UNCHANGED <<database, api, monitor, key>>

RevokeKey ==
    /\ exec.step = "revoke_key"
    /\ key' = [key EXCEPT ![Subject] = NoKey]
    /\ Answered([exec EXCEPT !.step = "close"])
    /\ UNCHANGED <<database, api, monitor, boxes>>

\* Mutant of StoppedState: the operation's kind is taken for the state.
KindAsState(kind) == kind

StoppedState(kind) == IF kind = "destroy" THEN "destroyed" ELSE "stopped"

CommitStopped ==
    /\ exec.step = "close"
    /\ exec.seen # NoRow
    /\ ops' = [ops EXCEPT ![exec.op].status = "succeeded"]
    /\ inst' = [inst EXCEPT
            ![Subject].state = Updated(exec.seen.state, StoppedState(ops[exec.op].kind), @),
            ![Subject].sandbox = None,
            ![Subject].url = Updated(exec.seen.url, None, @),
            ![Subject].cred = None]
    /\ exec' = IdleExec
    /\ UNCHANGED <<issued, api, monitor, upstream, faults>>

\* An upstream call fails before it takes effect, with a retryable status or not.
CallSteps == {"clear_key", "generate_key", "replace", "inspect", "discard", "find", "create",
              "wait", "models", "delete_sandbox", "revoke_key"}
Rejected ==
    /\ exec.step \in CallSteps
    /\ Fault("reject")
    /\ \E retryable \in BOOLEAN : Raise(retryable)
    /\ UNCHANGED <<database, api, monitor, upstream>>

\* Mutant of StateAfterFailure: a stop that failed counts as a stop.
StopsAnyway(o) == IF ops[o].kind = "stop" THEN "stopped" ELSE "failed"

\* Mutants: the claim's count is not taken back, or one too many is.
CountTwice(op) == op.attempt
TakeBackTwo(op) == IF op.attempt > 1 THEN op.attempt - 2 ELSE 0

\* max_attempts, the attempts before this one, and the state an instance gets from an operation's failure.
Limit(op) == IF op.kind = "recovery" THEN RecoveryAttempts ELSE ProvisionAttempts
Spent(op) == IF op.attempt > 0 THEN op.attempt - 1 ELSE 0
StateAfterFailure(o) == "failed"

\* _fail takes back the attempt execute_next counted, mark_operation_failed counts it again;
\* a recovery is always retried and waits between its attempts (5 s, then 15 s).
Fail ==
    LET op == ops[exec.op]
        spent == Spent(op)
        recovering == op.kind = "recovery"
        again == (exec.retryable \/ recovering) /\ spent + 1 < Limit(op)
    IN  /\ exec.step = "fail"
        /\ exec.seen # NoRow
        /\ ops' = [ops EXCEPT ![exec.op].attempt = spent + 1,
                              ![exec.op].status = IF again THEN "pending" ELSE "failed",
                              ![exec.op].waiting = again /\ recovering /\ spent < 2]
        /\ IF again
           THEN UNCHANGED inst
           ELSE inst' = [inst EXCEPT ![Subject].state =
                                    Updated(exec.seen.state, StateAfterFailure(exec.op), @)]
        /\ exec' = IdleExec
        /\ UNCHANGED <<issued, api, monitor, upstream, faults>>

Execute ==
    \/ Claim \/ Load \/ ClearKey \/ GenerateKey
    \/ ReplaceSandbox \/ ForgetSandbox \/ InspectSandbox \/ DiscardSandbox \/ FindSandbox
    \/ CreateSandbox \/ RecordSandbox \/ WaitRunning \/ WaitBridge \/ ReplaceModels
    \/ SeeRow \/ CommitReady \/ DeleteSandbox \/ RevokeKey \/ CommitStopped
    \/ Rejected \/ Fail

\* The retry time of a waiting recovery comes.
RetryDue(o) ==
    /\ o \in DOMAIN ops
    /\ ops[o].waiting
    /\ ops' = [ops EXCEPT ![o].waiting = FALSE]
    /\ UNCHANGED <<inst, issued, api, exec, monitor, upstream, faults>>

------------------------------------------------------------------------------
(* The recovery monitor.                                                     *)

\* The monitor goes on to the next candidate, or ends the round.
Continue(left) ==
    monitor' = IF left = {} THEN IdleMonitor ELSE [IdleMonitor EXCEPT !.step = "pick", !.left = left]

ListCandidates ==
    LET candidates == {i \in Instances : inst[i].state = "ready" /\ inst[i].sandbox # None} IN
    /\ monitor.step = "idle"
    /\ candidates # {}
    /\ Continue(candidates)
    /\ UNCHANGED <<database, api, exec, upstream, faults>>

\* Read the candidate's sandbox id again, in a session of its own.
PickCandidate ==
    /\ monitor.step = "pick"
    /\ \E i \in monitor.left :
        IF inst[i].sandbox = None
        THEN Continue(monitor.left \ {i})
        ELSE monitor' = [step |-> "observe", left |-> monitor.left \ {i}, inst |-> i,
                         sandbox |-> inst[i].sandbox, url |-> None]
    /\ UNCHANGED <<database, api, exec, upstream, faults>>

\* Mutant of Down: a 404 is no evidence.
DownIfListed(s) == boxes[s].status \in {"starting", "dead"}

Down(s) == boxes[s].status # "running"

\* A 404 or any state but running queues a recovery; any other error skips the candidate.
Observe ==
    /\ monitor.step = "observe"
    /\ \/ /\ ~Down(monitor.sandbox)
          /\ Continue(monitor.left)
          /\ UNCHANGED faults
       \/ /\ Down(monitor.sandbox)
          /\ monitor' = [monitor EXCEPT !.step = "confirm"]
          /\ UNCHANGED faults
       \/ Fault("reject") /\ Continue(monitor.left)
    /\ UNCHANGED <<database, api, exec, upstream>>

\* enqueue_sandbox_recovery reads the row again: is the instance still ready ...
ConfirmReady ==
    /\ monitor.step = "confirm"
    /\ \/ /\ inst[monitor.inst].state = "ready"
          /\ monitor' = [monitor EXCEPT !.step = "search", !.url = inst[monitor.inst].url]
       \/ /\ inst[monitor.inst].state # "ready"
          /\ Continue(monitor.left)
    /\ UNCHANGED <<database, api, exec, upstream, faults>>

\* ... and is it idle?
ConfirmIdle ==
    LET active == ActiveOps(monitor.inst, Kinds) IN
    /\ monitor.step = "search"
    /\ \/ active = {} /\ monitor' = [monitor EXCEPT !.step = "insert"]
       \/ active # {} /\ Continue(monitor.left)
    /\ UNCHANGED <<database, api, exec, upstream, faults>>

\* Then it commits the recovery and the changed attributes of the row, which it loaded as ready.
EnqueueRecovery ==
    LET i == monitor.inst IN
    /\ monitor.step = "insert"
    /\ ops' = Append(ops, NewOp(i, "recovery"))
    /\ inst' = [inst EXCEPT ![i].state = "provisioning", ![i].url = Updated(monitor.url, None, @)]
    /\ Continue(monitor.left)
    /\ UNCHANGED <<issued, api, exec, upstream, faults>>

Watch ==
    \/ ListCandidates \/ PickCandidate \/ Observe
    \/ ConfirmReady \/ ConfirmIdle \/ EnqueueRecovery

------------------------------------------------------------------------------
(* The environment.                                                          *)

SandboxStarts(s) ==
    /\ s \in DOMAIN boxes
    /\ boxes[s].status = "starting"
    /\ boxes' = [boxes EXCEPT ![s].status = "running"]
    /\ UNCHANGED <<database, api, exec, monitor, key, faults>>

\* A sandbox fails or terminates, or OpenSandbox loses it altogether.
SandboxDies(s) ==
    /\ s \in DOMAIN boxes
    /\ boxes[s].status \in {"starting", "running"}
    /\ Fault("death")
    /\ \E status \in {"dead", "gone"} : boxes' = [boxes EXCEPT ![s].status = status]
    /\ UNCHANGED <<database, api, exec, monitor, key>>

\* The database refuses a session of the worker.  execute_next takes that for the failure of the
\* operation, unless it happens in the claim or in _fail itself: that ends operation_loop.
WorkerDatabaseFails ==
    /\ exec.step \notin {"generate_key", "discard", "ended"}
    /\ Fault("database")
    /\ IF exec.step \in {"idle", "fail"}
       THEN exec' = [IdleExec EXCEPT !.step = "ended"]
       ELSE Raise(FALSE)
    /\ UNCHANGED <<database, api, monitor, upstream>>

\* The database refuses a session of the monitor, which ends sandbox_recovery_loop.
MonitorDatabaseFails ==
    /\ monitor.step \notin {"observe", "ended"}
    /\ Fault("database")
    /\ monitor' = [IdleMonitor EXCEPT !.step = "ended"]
    /\ UNCHANGED <<database, api, exec, upstream>>

\* The manager dies and starts again: the tables survive, nothing resets a running operation.
Crash ==
    /\ api # NoRequest \/ exec # IdleExec \/ monitor # IdleMonitor
    /\ Fault("crash")
    /\ api' = NoRequest
    /\ exec' = IdleExec
    /\ monitor' = IdleMonitor
    /\ UNCHANGED <<database, upstream>>

Next ==
    \/ \E i \in Instances :
        \/ Reconcile(i)
        \/ \E p \in Policies : Create(i, p) \/ Ensure(i, p)
        \/ \E kind \in StopKinds : RequestStop(i, kind)
    \/ Search \/ Store
    \/ Execute
    \/ \E o \in DOMAIN ops : RetryDue(o)
    \/ Watch
    \/ \E s \in DOMAIN boxes : SandboxStarts(s) \/ SandboxDies(s)
    \/ WorkerDatabaseFails \/ MonitorDatabaseFails
    \/ Crash

Spec == Init /\ [][Next]_vars

\* The loops of lifespan go on as long as the process does and the database answers: they catch no
\* exception, so a fault "database" or "crash" can end them.  The clock advances.  Requests, faults
\* and OpenSandbox itself are owed nothing: a wait ends at the worker's own deadline.
Liveness ==
    /\ WF_vars(Execute)
    /\ WF_vars(Watch)
    /\ WF_vars(\E o \in DOMAIN ops : RetryDue(o))

FairSpec == Spec /\ Liveness

------------------------------------------------------------------------------
(* Properties.                                                               *)

Row == [state : States, policy : Policies \cup {None}, sandbox : Nat, url : Nat, cred : Nat]
OpRow == [inst : Instances, kind : Kinds, status : Statuses, attempt : Nat, waiting : BOOLEAN]
Box == [inst : Instances, cred : Nat, policy : Policies \cup {None},
        models : Policies \cup {None}, status : {"starting", "running", "dead", "gone"}]
ProvisionSteps == {"clear_key", "generate_key", "replace", "forget", "inspect", "discard", "find",
                   "create", "record", "wait", "bridge", "models", "commit"}
Key == [cred : Nat, policy : Policies \cup {None}]
StopSteps == {"delete_sandbox", "revoke_key", "close"}
Steps == {"idle", "ended", "load", "fail"} \cup ProvisionSteps \cup StopSteps
Locals == [op : Nat, step : Steps, sandbox : Nat, cred : Nat,
           policy : Policies \cup {None}, sid : Nat, retryable : BOOLEAN,
           seen : [state : States \cup {"unread"}, url : Nat]]
Request == [step : {"idle", "search", "write"}, kind : {"none", "ensure", "reconcile"} \cup StopKinds,
            inst : Instances \cup {None}, policy : Policies \cup {None}, renew : BOOLEAN,
            state : States, found : Nat]
Rounds == [step : {"idle", "ended", "pick", "observe", "confirm", "search", "insert"},
           left : SUBSET Instances, inst : Instances \cup {None}, sandbox : Nat, url : Nat]

\* The tables, the locals of the handler and of the two threads, and the upstream systems hold
\* values of their types.
TypeOK ==
    /\ inst \in [Instances -> Row]
    /\ issued \in [Instances -> Nat]
    /\ ops \in Seq(OpRow)
    /\ api \in Request
    /\ exec \in Locals
    /\ monitor \in Rounds
    /\ boxes \in Seq(Box)
    /\ key \in [Instances -> Key]
    /\ faults \in Nat

\* The state of the abstract life cycle that a state of this module stands for.
Life == [i \in Instances |-> inst[i].state]
Owed == [i \in Instances |-> {ops[o].kind : o \in ActiveOps(i, Kinds)}]
Granted == [i \in Instances |-> key[i] # NoKey]
L == INSTANCE Lifecycle WITH life <- Life, owed <- Owed, granted <- Granted

\* Operations implements the promise of the instance API, stale reads and all: an instance gets
\* ready, stopped, destroyed or failed only by the end of an operation that was asked for and not
\* ended before, and the model key is then as that end says (short_transactions.py, long_tasks.py).
ImplementsLifecycle == L!Spec

\* At most one operation of a kind is under way for an instance, although each is inserted by a
\* session whose search another thread may have overtaken (ensure, enqueue_instance_operation,
\* enqueue_sandbox_recovery): only the API inserts the one kind, only the monitor the other.
OneActivePerKind ==
    \A o, other \in DOMAIN ops :
        /\ Active(o) /\ Active(other)
        /\ ops[o].inst = ops[other].inst
        /\ ops[o].kind = ops[other].kind
        => o = other

\* A provision and a recovery exclude each other (the search of enqueue_sandbox_recovery and the
\* active_kinds of enqueue_instance_operation are there for that).
OneActivePerClass ==
    \A o, other \in DOMAIN ops :
        /\ Active(o) /\ Active(other)
        /\ ops[o].inst = ops[other].inst
        /\ ops[other].kind \in Peers(ops[o].kind)
        => o = other

\* An instance is in a transitional state only while an operation that ends it is pending or running.
Owing(i) ==
    /\ inst[i].state = "provisioning" => ActiveOps(i, ProvisionKinds) # {}
    /\ inst[i].state = "stopping" => ActiveOps(i, {"stop"}) # {}
    /\ inst[i].state = "destroying" => ActiveOps(i, {"destroy"}) # {}
TransitionalIsOwed == \A i \in Instances : Owing(i)

\* A request stores its state on the strength of an operation that has ended since it was found.
LateRequest(i) ==
    api.step = "write" /\ api.inst = i /\ api.found # None /\ ~Active(api.found) /\ api' = NoRequest

\* The worker ends an operation and leaves the state alone, for it was the right one when read.
LateEnd(i) ==
    /\ exec.step \in {"commit", "fail"} /\ exec.seen # NoRow /\ Subject = i
    /\ exec.seen.state # inst[i].state
    /\ inst'[i].state = inst[i].state

\* No instance is left in a transitional state with nothing under way that ends it, whatever
\* requests, failures and crashes come in between, but for two races: a reconcile or an ensure that
\* returns an operation whose end it overlooks, and the end of an operation that overlooks a
\* reconcile or an ensure.  Stops and destroys know no such race.
AbandonedByRacesOnly ==
    [][\A i \in Instances :
        Owing(i) /\ ~Owing(i)' =>
            inst'[i].state = "provisioning" /\ (LateRequest(i) \/ LateEnd(i))]_vars

\* While an instance is stopped or destroyed and none of its provisions is under way, its model key
\* is not registered with LiteLLM (_stop, and no later provision before the next ensure).
StoppedIsRevoked ==
    \A i \in Instances :
        inst[i].state \in {"stopped", "destroyed"} /\ ActiveOps(i, ProvisionKinds) = {} =>
            key[i] = NoKey

\* The row of a stopped or destroyed instance holds no credentials, and no key is registered for it.
StoppedHasNothing ==
    \A i \in Instances :
        inst[i].state \in {"stopped", "destroyed"} => key[i] = NoKey /\ inst[i].cred = None

\* The worker holds a running operation, of the kind its step belongs to.
Working ==
    exec.step \notin {"idle", "ended"} =>
        /\ exec.op \in DOMAIN ops
        /\ ops[exec.op].status = "running"
        /\ exec.step \in ProvisionSteps => ops[exec.op].kind \in ProvisionKinds
        /\ exec.step \in StopSteps => ops[exec.op].kind \in StopKinds

\* A provision under way has credentials.
Loaded == exec.step \in ProvisionSteps => exec.cred # None

\* The registered key is the snapshot's once it was generated, and none once it was revoked.
KeyFollows ==
    /\ exec.step \in ProvisionSteps \ {"clear_key", "generate_key"} =>
            key[Subject] = [cred |-> exec.cred, policy |-> exec.policy]
    /\ exec.step = "close" => key[Subject] = NoKey

\* What the end of an operation has read of the row is changed only by requests of another kind,
\* and by a recovery that comes after.
SeenHolds ==
    exec.seen # NoRow =>
        /\ exec.step \in {"commit", "close", "fail"}
        /\ inst[Subject].state # exec.seen.state =>
                \/ inst[Subject].state = "provisioning"
                \/ \E kind \in StopKinds \ {ops[exec.op].kind} : inst[Subject].state = Begun(kind)
        /\ inst[Subject].url # exec.seen.url =>
                ActiveOps(Subject, {"recovery"}) \ {exec.op} # {}

\* A request in progress has an instance with a row, and what its search found stays true of the
\* operations that the API inserts.
Asking ==
    api.step # "idle" =>
        /\ api.kind # "none"
        /\ api.renew => api.kind = "ensure"
        /\ api.kind = "ensure" /\ ~api.renew => api.policy = inst[api.inst].policy
        /\ api.inst \in Instances
        /\ inst[api.inst].state # "absent"
        /\ api.found # None =>
                /\ api.step = "write" /\ Begins
                /\ api.found \in DOMAIN ops
                /\ ops[api.found].inst = api.inst
                /\ ops[api.found].kind \in ProvisionKinds
        /\ api.step = "write" /\ api.found = None =>
                ActiveOps(api.inst, {OpKind(api.kind)}) = {}

\* A monitor that observes or enqueues has an instance at hand, which has a row and no recovery
\* once it was found idle.
Watching ==
    /\ \A i \in monitor.left : inst[i].state # "absent"
    /\ monitor.step \in {"observe", "confirm", "search", "insert"} =>
            monitor.inst \in Instances /\ inst[monitor.inst].state # "absent"
    /\ monitor.step = "insert" => ActiveOps(monitor.inst, {"recovery"}) = {}

\* Every operation is of an instance that has a row.
Rooted == \A o \in DOMAIN ops : inst[ops[o].inst].state # "absent"

\* The handler and the threads agree with the tables and with LiteLLM, although each changes them
\* between two steps of the others (instance_routes.py, OperationExecutor, the monitor).
ThreadsAgree ==
    Working /\ Loaded /\ KeyFollows /\ SeenHolds /\ Asking /\ Watching /\ Rooted

\* "attempt" counts the executions of an operation, through failures and retries: it moves on a
\* claim only and stays within the kind's limit; an ended operation is never touched again.
RetryBudget ==
    [][\A o \in DOMAIN ops :
        LET claimed == ops[o].status = "pending" /\ ops'[o].status = "running"
        IN  /\ ops'[o].attempt = ops[o].attempt + (IF claimed THEN 1 ELSE 0)
            /\ ops'[o].attempt <= Limit(ops[o])
            /\ ops[o].status \in {"succeeded", "failed"} => ops'[o] = ops[o]]_vars

\* A provision or recovery succeeds only with a sandbox that was created with the credentials
\* and the policy it loaded, has the policy's models, and whose key LiteLLM knows.
ProvisionDelivers ==
    [][\A o \in DOMAIN ops :
        /\ ops[o].kind \in ProvisionKinds
        /\ ops[o].status # "succeeded" /\ ops'[o].status = "succeeded"
        => LET box == boxes[exec.sid] IN
           /\ box.inst = ops[o].inst
           /\ box.cred = exec.cred
           /\ box.policy = exec.policy
           /\ box.models = exec.policy
           /\ key[ops[o].inst] = [cred |-> exec.cred, policy |-> exec.policy]]_vars

Live(i) == {s \in DOMAIN boxes : boxes[s].inst = i /\ ~Gone(s)}
Idle(i) == ActiveOps(i, Kinds) = {}

\* An instance never has two sandboxes: they would share its two volumes.
\* (Without lost answers, crashes and failures of the database.)
OneSandbox == \A i \in Instances : Cardinality(Live(i)) <= 1

\* Stopping and destroying leave no sandbox of the instance behind.
StoppedIsClean ==
    \A i \in Instances : inst[i].state \in {"stopped", "destroyed"} /\ Idle(i) => Live(i) = {}

\* A ready instance is one the recovery monitor watches, and sessions are sent to the sandbox
\* it watches.
ReadyIsWatched ==
    \A i \in Instances :
        inst[i].state = "ready" /\ Idle(i) =>
            inst[i].sandbox # None /\ inst[i].url = inst[i].sandbox

\* The sandboxes of an instance are accounted for: one at most at any time; and once nothing is under
\* way, none when it is down, and when it is ready the one that is watched.  (Without lost answers,
\* crashes and failures of the database.)
SandboxesAccounted == OneSandbox /\ StoppedIsClean /\ ReadyIsWatched

\* A ready instance with nothing under way has the key its sandbox was created with: no failed,
\* repeated or interrupted operation leaves it with a revoked or a newer one.
ReadyIsConsistent ==
    \A i \in Instances :
        inst[i].state = "ready" /\ Idle(i) =>
            LET box == boxes[inst[i].url] IN
            key[i] = [cred |-> box.cred, policy |-> box.policy]

\* A ready instance with nothing queued runs on its current credentials and policy.
ReadyIsCurrent ==
    \A i \in Instances :
        inst[i].state = "ready" /\ Idle(i) =>
            LET box == boxes[inst[i].url] IN
            /\ key[i] = [cred |-> inst[i].cred, policy |-> inst[i].policy]
            /\ box.cred = inst[i].cred
            /\ box.policy = inst[i].policy

\* While a stop or destroy is under way the instance's sessions cannot be reached: _connection
\* refuses (the stop endpoint's description).
StoppingRefusesSessions ==
    \A i \in Instances :
        ActiveOps(i, StopKinds) # {} =>
            ~(inst[i].state = "ready" /\ inst[i].url # None /\ inst[i].cred # None)

\* Where nothing upstream fails, a stop or destroy does not fail.
StopsSucceed == \A o \in DOMAIN ops : ops[o].kind \in StopKinds => ops[o].status # "failed"

\* A recovery, which deletes the sandbox, is queued only for one that does not run.
RecoversOnlyTheDead ==
    [][\A i \in Instances :
        ActiveOps(i, {"recovery"}) = {} /\ ActiveOps(i, {"recovery"})' # {}
        => inst[i].sandbox = None \/ boxes[inst[i].sandbox].status # "running"]_vars

\* A ready instance whose sandbox has died does not stay that way: the monitor sees it.
DeathIsNoticed ==
    \A i \in Instances :
        LET unserved == /\ inst[i].state = "ready"
                        /\ inst[i].sandbox # None
                        /\ boxes[inst[i].sandbox].status \in {"dead", "gone"}
        IN  unserved ~> ~unserved

\* Every operation among the first n comes to an end.
OperationsEnd(n) ==
    \A o \in 1..n :
        o \in DOMAIN ops ~> o \in DOMAIN ops /\ ops[o].status \in {"succeeded", "failed"}
==============================================================================
