-------------------------- MODULE Operations_proofs --------------------------
(***************************************************************************)
(* Safety of module Operations for every set of instances and policies, any *)
(* limits and any faults, and that it implements module Lifecycle.           *)
(*                                                                         *)
(* The properties are not inductive by themselves.  Every handler and        *)
(* session rests on rows it has read before, so the invariant says what of   *)
(* them still holds when it writes: the locals of the handler, the worker and *)
(* the monitor agree with the tables (ThreadsAgree) although each changes     *)
(* them between two steps of the others; and no two operations of a kind are  *)
(* under way (OneActivePerKind).  IInv is their conjunction; what a provision *)
(* delivers, the refinement, the retry budget and, where no answer is lost,   *)
(* the account of the sandboxes follow from it in the later parts.            *)
(***************************************************************************)
EXTENDS Operations, FiniteSetTheorems, SequenceTheorems, TLAPS

IInv ==
    /\ TypeOK /\ ThreadsAgree
    /\ OneActivePerKind /\ StoppedIsRevoked

------------------------------------------------------------------------------
(* Sequences of operations and of sandboxes.                                 *)

LEMMA AppendTyped ==
    ASSUME NEW S, NEW q \in Seq(S), NEW e \in S
    PROVE  /\ Append(q, e) \in Seq(S)
           /\ DOMAIN Append(q, e) = DOMAIN q \cup {Len(q) + 1}
           /\ Len(q) + 1 \notin DOMAIN q
           /\ \A k \in DOMAIN q : Append(q, e)[k] = q[k]
           /\ Append(q, e)[Len(q) + 1] = e
  OBVIOUS

LEMMA ExceptTyped ==
    ASSUME NEW S, NEW q \in Seq(S), NEW k, NEW e, k \in DOMAIN q => e \in S
    PROVE  /\ [q EXCEPT ![k] = e] \in Seq(S)
           /\ DOMAIN [q EXCEPT ![k] = e] = DOMAIN q
           /\ \A j \in DOMAIN q : [q EXCEPT ![k] = e][j] = IF j = k THEN e ELSE q[j]
  <1>1. CASE k \in DOMAIN q
    BY <1>1, LenProperties, ExceptSeq
  <1>2. CASE k \notin DOMAIN q
    <2>1. q \in [DOMAIN q -> S]
      BY LenProperties
    <2>2. [q EXCEPT ![k] = e] = q
      BY <1>2, <2>1
    <2>. QED  BY <1>2, <2>2
  <1>. QED  BY <1>1, <1>2

LEMMA OpAt ==
    ASSUME TypeOK, NEW o \in DOMAIN ops
    PROVE  ops[o] \in OpRow
  BY LenProperties, ElementOfSeq DEF TypeOK

(* What the two ways the code changes manager_operations do to it: a row is   *)
(* added, or a row gets a new status.                                        *)

LEMMA OpAdded ==
    ASSUME TypeOK, OneActivePerKind,
           NEW i \in Instances, NEW kind \in Kinds,
           ActiveOps(i, {kind}) = {},
           ops' = Append(ops, NewOp(i, kind))
    PROVE  /\ ops' \in Seq(OpRow)
           /\ DOMAIN ops' = DOMAIN ops \cup {Len(ops) + 1}
           /\ Len(ops) + 1 \notin DOMAIN ops
           /\ \A o \in DOMAIN ops : ops'[o] = ops[o]
           /\ ops'[Len(ops) + 1] = NewOp(i, kind)
           /\ OneActivePerKind'
  <1>1. NewOp(i, kind) \in OpRow
    BY DEF NewOp, OpRow, Statuses
  <1>2. /\ ops' \in Seq(OpRow)
        /\ DOMAIN ops' = DOMAIN ops \cup {Len(ops) + 1}
        /\ Len(ops) + 1 \notin DOMAIN ops
        /\ \A o \in DOMAIN ops : ops'[o] = ops[o]
        /\ ops'[Len(ops) + 1] = NewOp(i, kind)
    BY <1>1, AppendTyped DEF TypeOK
  <1>3. \A o \in DOMAIN ops : Active(o) /\ ops[o].inst = i => ops[o].kind # kind
    BY DEF ActiveOps
  <1>4. OneActivePerKind'
    BY <1>2, <1>3 DEF OneActivePerKind, Active, NewOp
  <1>. QED  BY <1>2, <1>4

------------------------------------------------------------------------------
(* The actions one by one: types.                                            *)

\* A request or an operation's end rewrites one row of manager_runner_instances.
LEMMA RowChanged ==
    ASSUME TypeOK, NEW i, NEW row, i \in Instances => row \in Row,
           inst' = [inst EXCEPT ![i] = row]
    PROVE  inst' \in [Instances -> Row]
  BY DEF TypeOK

LEMMA RowAt == ASSUME TypeOK, NEW i \in Instances PROVE inst[i] \in Row
  BY DEF TypeOK

LEMMA StateUpdated ==
    ASSUME TypeOK, NEW i, NEW loaded, NEW state \in States,
           inst' = [inst EXCEPT ![i].state = Updated(loaded, state, @)]
    PROVE  inst' \in [Instances -> Row]
  <1>. DEFINE row == [inst[i] EXCEPT !.state = Updated(loaded, state, @)]
  <1>1. i \in Instances => row \in Row
    BY RowAt DEF Row, Updated
  <1>2. inst' = [inst EXCEPT ![i] = row]
    OBVIOUS
  <1>. HIDE DEF row
  <1>. QED  BY <1>1, <1>2, RowChanged

LEMMA KindIs == ASSUME TypeOK, Asking, api.step # "idle"
    PROVE  /\ OpKind(api.kind) \in Kinds \ {"recovery"}
           /\ Begun(api.kind) \in {"provisioning", "stopping", "destroying"}
           /\ api.inst \in Instances
  BY DEF Asking, TypeOK, Request, OpKind, Begun, Kinds, ProvisionKinds, StopKinds

\* The steps of the API that read only.
Reads ==
    \/ \E i \in Instances :
        \/ Reconcile(i)
        \/ \E p \in Policies : Ensure(i, p)
        \/ \E kind \in StopKinds : RequestStop(i, kind)
    \/ Search

LEMMA ApiTypes ==
    ASSUME TypeOK, Asking,
           Reads \/ Store \/ \E i \in Instances, p \in Policies : Create(i, p)
    PROVE  TypeOK'
  <1>0. \A n \in Nat : n + 1 \in Nat
    OBVIOUS
  <1>1. ASSUME NEW i \in Instances, NEW p \in Policies, Create(i, p)
        PROVE  TypeOK'
    <2>1. NewOp(i, "provision") \in OpRow
      BY DEF NewOp, OpRow, Statuses, Kinds, ProvisionKinds
    <2>2. ops' \in Seq(OpRow)
      BY <1>1, <2>1, AppendTyped DEF Create, TypeOK
    <2>3. issued' \in [Instances -> Nat]
      BY <1>0, <1>1 DEF Create, TypeOK
    <2>. DEFINE row == [inst[i] EXCEPT !.state = "provisioning", !.policy = p, !.cred = issued[i] + 1]
    <2>4. row \in Row
      BY <1>0, RowAt DEF Row, States, TypeOK
    <2>5. inst' = [inst EXCEPT ![i] = row]
      BY <1>1 DEF Create
    <2>. HIDE DEF row
    <2>6. inst' \in [Instances -> Row]
      BY <2>4, <2>5, RowChanged
    <2>. QED  BY <1>1, <2>2, <2>3, <2>6 DEF Create, TypeOK, upstream
  <1>2. ASSUME NEW i \in Instances, NEW kind \in {"ensure", "reconcile"} \cup StopKinds,
               NEW p \in Policies \cup {None}, NEW renew \in BOOLEAN, Read(i, kind, p, renew)
        PROVE  TypeOK'
    <2>1. inst[i].state \in States
      BY RowAt DEF Row
    <2>2. api' \in Request
      BY <1>2, <2>1 DEF Read, Request, None
    <2>. QED  BY <1>2, <2>2 DEF Read, TypeOK, database, upstream
  <1>3. ASSUME NEW i \in Instances, NEW p \in Policies, Ensure(i, p)
        PROVE  TypeOK'
    <2>1. Renews(i, p) \in BOOLEAN
      BY DEF Renews
    <2>. QED  BY <1>2, <1>3, <2>1 DEF Ensure
  <1>4. ASSUME NEW i \in Instances,
               Reconcile(i) \/ \E kind \in StopKinds : RequestStop(i, kind)
        PROVE  TypeOK'
    BY <1>2, <1>4 DEF Reconcile, RequestStop
  <1>5. CASE Search
    <2>1. \A o \in DOMAIN ops : o \in Nat
      BY LenProperties DEF TypeOK
    <2>2. NoRequest \in Request
      BY DEF NoRequest, Request, None, States
    <2>3. api' \in Request
      <3>1. CASE api' = NoRequest
        BY <2>2, <3>1
      <3>2. CASE api' = [api EXCEPT !.step = "write"]
        BY <3>2 DEF TypeOK, Request
      <3>3. ASSUME NEW o \in DOMAIN ops, api' = [api EXCEPT !.step = "write", !.found = o]
            PROVE  api' \in Request
        BY <2>1, <3>3 DEF TypeOK, Request
      <3>. QED  BY <1>5, <3>1, <3>2, <3>3 DEF Search, ActiveOps
    <2>. QED  BY <1>5, <2>3 DEF Search, TypeOK, database, upstream
  <1>6. CASE Store
    <2>. DEFINE i == api.inst
                row == [inst[i] EXCEPT
                    !.state = IF Begins \/ (api.found = None /\ api.kind \in StopKinds)
                              THEN Updated(api.state, Begun(api.kind), @) ELSE @,
                    !.policy = IF api.kind = "ensure" THEN api.policy ELSE @,
                    !.cred = IF api.renew THEN issued[i] + 1 ELSE @]
    <2>1. i \in Instances /\ OpKind(api.kind) \in Kinds /\ Begun(api.kind) \in States
      BY <1>6, KindIs DEF Store, States
    <2>2. ops' \in Seq(OpRow)
      <3>1. NewOp(i, OpKind(api.kind)) \in OpRow
        BY <2>1 DEF NewOp, OpRow, Statuses
      <3>2. Append(ops, NewOp(i, OpKind(api.kind))) \in Seq(OpRow)
        BY <3>1, AppendTyped DEF TypeOK
      <3>. QED  BY <1>6, <3>2 DEF Store, TypeOK
    <2>3. issued' \in [Instances -> Nat]
      BY <1>0, <1>6 DEF Store, TypeOK
    <2>4. row \in Row
      <3>1. issued[i] + 1 \in Nat /\ api.policy \in Policies \cup {None}
        BY <1>0, <2>1 DEF TypeOK, Request
      <3>2. inst[i] \in Row
        BY <2>1, RowAt
      <3>3. Updated(api.state, Begun(api.kind), inst[i].state) \in States
        BY <2>1, <3>2 DEF Updated, Row
      <3>. QED  BY <3>1, <3>2, <3>3 DEF Row
    <2>5. inst' = [inst EXCEPT ![i] = row]
      BY <1>6 DEF Store
    <2>. HIDE DEF row
    <2>6. inst' \in [Instances -> Row]
      BY <2>4, <2>5, RowChanged
    <2>7. NoRequest \in Request
      BY DEF NoRequest, Request, None, States
    <2>. QED  BY <1>6, <2>2, <2>3, <2>6, <2>7 DEF Store, TypeOK, upstream
  <1>. QED  BY <1>1, <1>3, <1>4, <1>5, <1>6 DEF Reads

LEMMA FaultTyped == ASSUME TypeOK, NEW kind, Fault(kind)
    PROVE  faults' \in Nat
  BY DEF TypeOK, Fault

LEMMA BoxAt == ASSUME TypeOK, NEW s \in DOMAIN boxes PROVE boxes[s] \in Box
  BY LenProperties, ElementOfSeq DEF TypeOK

LEMMA DeletedTyped == ASSUME TypeOK, NEW s PROVE Deleted(s) \in Seq(Box)
  <1>. DEFINE box == [boxes[s] EXCEPT !.status = "gone"]
  <1>1. s \in DOMAIN boxes => box \in Box
    BY BoxAt DEF Box
  <1>2. Deleted(s) = [boxes EXCEPT ![s] = box]
    BY DEF Deleted
  <1>. HIDE DEF box
  <1>3. [boxes EXCEPT ![s] = box] \in Seq(Box)
    BY <1>1, ExceptTyped DEF TypeOK
  <1>. QED  BY <1>2, <1>3

\* The worker's locals after a failed call and after an answered one.
LEMMA RaiseTyped == ASSUME TypeOK, NEW retryable \in BOOLEAN, Raise(retryable)
    PROVE  exec' \in Locals
  BY DEF Raise, TypeOK, Locals, Steps, NoRow, None

LEMMA AnsweredTyped == ASSUME TypeOK, NEW next \in Locals, Answered(next)
    PROVE  exec' \in Locals /\ faults' \in Nat
  BY FaultTyped, RaiseTyped DEF Answered, TypeOK

LEMMA Stepped ==
    ASSUME exec \in Locals, NEW sid \in Nat, NEW step \in Steps
    PROVE  /\ [exec EXCEPT !.step = step] \in Locals
           /\ [exec EXCEPT !.sid = sid, !.step = step] \in Locals
  BY DEF Locals

LEMMA WorkerTypes ==
    ASSUME TypeOK, Working, Execute
    PROVE  TypeOK'
  <1>a. exec \in Locals
    BY DEF TypeOK
  <1>b. exec.step \notin {"idle", "ended"} => Subject \in Instances
    BY OpAt DEF Working, Subject, OpRow
  <1>c. IdleExec \in Locals
    BY DEF IdleExec, NoRow, Locals, Steps, None
  <1>1. CASE Claim
    <2>1. PICK o \in Eligible :
                /\ ops' = [ops EXCEPT ![o].status = "running", ![o].attempt = @ + 1]
                /\ exec' = [IdleExec EXCEPT !.op = o, !.step = "load"]
      BY <1>1 DEF Claim
    <2>2. o \in DOMAIN ops /\ ops[o] \in OpRow
      BY OpAt DEF Eligible
    <2>. DEFINE row == [ops[o] EXCEPT !.status = "running", !.attempt = @ + 1]
    <2>3. ops[o].attempt \in Nat /\ ops[o].attempt + 1 \in Nat
      BY <2>2 DEF OpRow
    <2>3b. row \in OpRow
      BY <2>2, <2>3 DEF OpRow, Statuses
    <2>3a. ops' = [ops EXCEPT ![o] = row]
      BY <2>1
    <2>. HIDE DEF row
    <2>4. ops' \in Seq(OpRow)
      BY <2>3b, <2>3a, ExceptTyped DEF TypeOK
    <2>5. o \in Nat
      BY <2>2, LenProperties DEF TypeOK
    <2>6. exec' \in Locals
      BY <2>1, <2>5 DEF IdleExec, NoRow, Locals, Steps, None
    <2>. QED  BY <1>1, <2>4, <2>6 DEF Claim, TypeOK, upstream
  <1>2. CASE Load
    <2>1. inst[Subject] \in Row
      BY <1>2, <1>b, RowAt DEF Load
    <2>2. FirstStopStep(inst[Subject]) \in Steps
      BY DEF FirstStopStep, Steps, StopSteps
    <2>3. ASSUME Raise(FALSE)
          PROVE  exec' \in Locals
      BY <2>3, RaiseTyped
    <2>4. ASSUME NEW step \in Steps,
                 exec' = [exec EXCEPT !.sandbox = inst[Subject].sandbox, !.cred = inst[Subject].cred,
                                      !.policy = inst[Subject].policy, !.step = step]
          PROVE  exec' \in Locals
      BY <1>a, <2>1, <2>4 DEF Row, Locals
    <2>5. exec' \in Locals
      BY <1>2, <2>2, <2>3, <2>4 DEF Load, Steps, ProvisionSteps
    <2>. QED  BY <1>2, <2>5 DEF Load, TypeOK, database, upstream
  <1>3. CASE ClearKey \/ GenerateKey \/ RevokeKey
    <2>1. key' \in [Instances -> Key]
      <3>1. \A r \in Key :
                [key EXCEPT ![Subject] = r] \in [Instances -> Key]
        BY DEF TypeOK
      <3>2. /\ NoKey \in Key
            /\ [cred |-> exec.cred, policy |-> exec.policy] \in Key
        BY <1>a DEF NoKey, None, Key, Locals
      <3>. QED  BY <1>3, <3>1, <3>2 DEF ClearKey, GenerateKey, RevokeKey
    <2>2. exec' \in Locals /\ faults' \in Nat
      BY <1>3, <1>a, AnsweredTyped
         DEF ClearKey, GenerateKey, RevokeKey, Locals, Steps, ProvisionSteps, StopSteps
    <2>. QED  BY <1>3, <2>1, <2>2 DEF ClearKey, GenerateKey, RevokeKey, TypeOK, database
  <1>4. CASE ReplaceSandbox \/ DeleteSandbox \/ DiscardSandbox
    <2>1. boxes' \in Seq(Box)
      BY <1>4, DeletedTyped DEF ReplaceSandbox, DeleteSandbox, DiscardSandbox, TypeOK
    <2>2. exec' \in Locals /\ faults' \in Nat
      BY <1>4, <1>a, AnsweredTyped, RaiseTyped
         DEF ReplaceSandbox, DeleteSandbox, DiscardSandbox, TypeOK, Locals, Steps, ProvisionSteps,
             StopSteps
    <2>. QED  BY <1>4, <2>1, <2>2 DEF ReplaceSandbox, DeleteSandbox, DiscardSandbox, TypeOK, database
  <1>5. CASE ForgetSandbox \/ RecordSandbox
    <2>1. inst' \in [Instances -> Row]
      <3>1. PICK s \in Nat : inst' = [inst EXCEPT ![Subject].sandbox = s]
        BY <1>5, <1>a DEF ForgetSandbox, RecordSandbox, None, Locals
      <3>. DEFINE row == [inst[Subject] EXCEPT !.sandbox = s]
      <3>2. Subject \in Instances => row \in Row
        BY RowAt DEF Row
      <3>3. inst' = [inst EXCEPT ![Subject] = row]
        BY <3>1
      <3>. HIDE DEF row
      <3>. QED  BY <3>2, <3>3, RowChanged
    <2>2. exec' \in Locals
      BY <1>5, <1>a DEF ForgetSandbox, RecordSandbox, Goto, Locals, Steps, ProvisionSteps
    <2>. QED  BY <1>5, <2>1, <2>2 DEF ForgetSandbox, RecordSandbox, TypeOK, upstream
  <1>6. CASE InspectSandbox \/ FindSandbox \/ WaitRunning \/ WaitBridge
    <2>1. exec' \in Locals
      <3>1. \A s \in DOMAIN boxes : s \in Nat
        BY LenProperties DEF TypeOK
      <3>2. CASE InspectSandbox
        <4>1. {"create", "discard", "wait"} \subseteq Steps /\ exec.sandbox \in Nat
          BY <1>a DEF Steps, ProvisionSteps, Locals
        <4>. QED  BY <1>a, <3>2, <4>1, Stepped DEF InspectSandbox, Goto
      <3>4. CASE FindSandbox
        <4>1. {"create", "wait"} \subseteq Steps
          BY DEF Steps, ProvisionSteps
        <4>2. CASE exec' = [exec EXCEPT !.step = "create"]
          BY <1>a, <4>1, <4>2, Stepped DEF Locals
        <4>3. ASSUME NEW s \in DOMAIN boxes, exec' = [exec EXCEPT !.sid = s, !.step = "wait"]
              PROVE  exec' \in Locals
          BY <1>a, <3>1, <4>1, <4>3, Stepped
        <4>. QED  BY <3>4, <4>2, <4>3 DEF FindSandbox, Goto
      <3>3. CASE WaitRunning \/ WaitBridge
        BY <1>a, <3>3, RaiseTyped
           DEF WaitRunning, WaitBridge, Goto, Locals, Steps, ProvisionSteps
      <3>. QED  BY <1>6, <3>2, <3>3, <3>4
    <2>. QED  BY <1>6, <2>1
              DEF InspectSandbox, FindSandbox, WaitRunning, WaitBridge, TypeOK, database, upstream
  <1>7. CASE CreateSandbox
    <2>. DEFINE box == [inst |-> Subject, cred |-> exec.cred, policy |-> exec.policy,
                        models |-> None, status |-> "starting"]
    <2>1. box \in Box
      BY <1>7, <1>a, <1>b DEF CreateSandbox, Box, Locals
    <2>2. boxes' \in Seq(Box)
      BY <1>7, <2>1, AppendTyped DEF CreateSandbox, TypeOK
    <2>3. Len(boxes) + 1 \in Nat
      BY LenProperties DEF TypeOK
    <2>4. exec' \in Locals /\ faults' \in Nat
      <3>. DEFINE next == [exec EXCEPT !.sid = Len(boxes) + 1, !.step = "record"]
      <3>1. next \in Locals
        BY <1>a, <2>3 DEF Locals, Steps, ProvisionSteps
      <3>2. Answered(next)
        BY <1>7 DEF CreateSandbox
      <3>. HIDE DEF next
      <3>. QED  BY <3>1, <3>2, AnsweredTyped
    <2>. QED  BY <1>7, <2>2, <2>4 DEF CreateSandbox, TypeOK, database
  <1>8. CASE ReplaceModels
    <2>. DEFINE box == [boxes[exec.sid] EXCEPT !.models = exec.policy]
    <2>1. exec.sid \in DOMAIN boxes => box \in Box
      BY <1>a, BoxAt DEF Box, Locals
    <2>2. boxes' = [boxes EXCEPT ![exec.sid] = box] \/ UNCHANGED boxes
      BY <1>8 DEF ReplaceModels
    <2>. HIDE DEF box
    <2>3. [boxes EXCEPT ![exec.sid] = box] \in Seq(Box)
      BY <2>1, ExceptTyped DEF TypeOK
    <2>4. exec' \in Locals /\ faults' \in Nat
      BY <1>8, <1>a, AnsweredTyped, RaiseTyped DEF ReplaceModels, TypeOK, Locals, Steps, ProvisionSteps
    <2>. QED  BY <1>8, <2>2, <2>3, <2>4 DEF ReplaceModels, TypeOK, database
  <1>9. CASE CommitReady \/ CommitStopped
    <2>. DEFINE row == [ops[exec.op] EXCEPT !.status = "succeeded"]
    <2>1. exec.op \in DOMAIN ops
      BY <1>9 DEF CommitReady, CommitStopped, Working
    <2>2. row \in OpRow /\ ops' = [ops EXCEPT ![exec.op] = row]
      BY <1>9, <2>1, OpAt DEF CommitReady, CommitStopped, OpRow, Statuses
    <2>. HIDE DEF row
    <2>3. ops' \in Seq(OpRow)
      BY <2>2, ExceptTyped DEF TypeOK
    <2>4. inst' \in [Instances -> Row]
      <3>. DEFINE up == [inst[Subject] EXCEPT !.state = Updated(exec.seen.state, "ready", @),
                                              !.url = Updated(exec.seen.url, exec.sid, @)]
                  stopped == StoppedState(ops[exec.op].kind)
                  down == [inst[Subject] EXCEPT !.state = Updated(exec.seen.state, stopped, @),
                                                !.sandbox = None,
                                                !.url = Updated(exec.seen.url, None, @),
                                                !.cred = None]
      <3>1. inst' = [inst EXCEPT ![Subject] = up] \/ inst' = [inst EXCEPT ![Subject] = down]
        BY <1>9 DEF CommitReady, CommitStopped
      <3>2. ASSUME Subject \in Instances
            PROVE  up \in Row /\ down \in Row
        <4>1. inst[Subject] \in Row /\ exec.sid \in Nat
          BY <1>a, <3>2, RowAt DEF Locals
        <4>2. /\ Updated(exec.seen.state, "ready", inst[Subject].state) \in States
              /\ Updated(exec.seen.state, stopped, inst[Subject].state) \in States
          BY <4>1 DEF Row, States, StoppedState, Updated
        <4>3. /\ Updated(exec.seen.url, exec.sid, inst[Subject].url) \in Nat
              /\ Updated(exec.seen.url, None, inst[Subject].url) \in Nat
          BY <4>1 DEF Row, None, Updated
        <4>. QED  BY <4>1, <4>2, <4>3 DEF Row, None
      <3>. HIDE DEF up, down
      <3>. QED  BY <3>1, <3>2, RowChanged
    <2>. QED  BY <1>9, <1>c, <2>3, <2>4 DEF CommitReady, CommitStopped, TypeOK, upstream
  <1>10. CASE Rejected
    BY <1>10, FaultTyped, RaiseTyped DEF Rejected, TypeOK, database, upstream
  <1>11. CASE Fail
    <2>1. exec.op \in DOMAIN ops
      BY <1>11 DEF Fail, Working
    <2>2. ops[exec.op] \in OpRow
      BY <2>1, OpAt
    <2>3. Spent(ops[exec.op]) \in Nat
      BY <2>2 DEF Spent, OpRow
    <2>4. PICK status \in Statuses, waiting \in BOOLEAN :
            ops' = [ops EXCEPT ![exec.op].attempt = Spent(ops[exec.op]) + 1,
                               ![exec.op].status = status, ![exec.op].waiting = waiting]
      BY <1>11 DEF Fail, Statuses
    <2>. DEFINE row == [ops[exec.op] EXCEPT !.attempt = Spent(ops[exec.op]) + 1,
                                            !.status = status, !.waiting = waiting]
    <2>5. Spent(ops[exec.op]) + 1 \in Nat
      BY <2>3
    <2>5b. row \in OpRow
      BY <2>2, <2>5 DEF OpRow
    <2>5a. ops' = [ops EXCEPT ![exec.op] = row]
      BY <2>4
    <2>. HIDE DEF row
    <2>6. ops' \in Seq(OpRow)
      BY <2>5b, <2>5a, ExceptTyped DEF TypeOK
    <2>7. inst' \in [Instances -> Row]
      <3>1. CASE UNCHANGED inst
        BY <3>1 DEF TypeOK
      <3>2. CASE inst' = [inst EXCEPT ![Subject].state = Updated(exec.seen.state, "failed", @)]
        BY <3>2, StateUpdated DEF States
      <3>. QED  BY <1>11, <3>1, <3>2 DEF Fail, StateAfterFailure
    <2>. QED  BY <1>11, <1>c, <2>6, <2>7 DEF Fail, TypeOK, upstream
  <1>12. CASE SeeRow
    <2>1. inst[Subject].state \in States /\ inst[Subject].url \in Nat
      BY <1>12, <1>b, RowAt DEF SeeRow, Row
    <2>2. exec' \in Locals
      BY <1>12, <1>a, <2>1 DEF SeeRow, Locals
    <2>. QED  BY <1>12, <2>2 DEF SeeRow, TypeOK, database, upstream
  <1>. QED
    BY <1>1, <1>2, <1>3, <1>4, <1>5, <1>6, <1>7, <1>8, <1>9, <1>10, <1>11, <1>12 DEF Execute

LEMMA MonitorTypes ==
    ASSUME TypeOK, Watching, Watch
    PROVE  TypeOK'
  <1>a. monitor \in Rounds
    BY DEF TypeOK
  <1>b. ASSUME NEW left \in SUBSET Instances, Continue(left)
        PROVE  monitor' \in Rounds
    BY <1>b DEF Continue, IdleMonitor, None, Rounds
  <1>1. CASE ListCandidates
    BY <1>1, <1>b DEF ListCandidates, TypeOK, database, upstream
  <1>2. CASE PickCandidate
    <2>1. PICK i \in monitor.left :
            IF inst[i].sandbox = None
            THEN Continue(monitor.left \ {i})
            ELSE monitor' = [step |-> "observe", left |-> monitor.left \ {i}, inst |-> i,
                             sandbox |-> inst[i].sandbox, url |-> None]
      BY <1>2 DEF PickCandidate
    <2>2. monitor.left \in SUBSET Instances
      BY <1>a DEF Rounds
    <2>3. inst[i].sandbox \in Nat
      BY <2>2, RowAt DEF Row
    <2>4. monitor' \in Rounds
      BY <1>a, <1>b, <2>1, <2>2, <2>3 DEF Rounds, None
    <2>. QED  BY <1>2, <2>4 DEF PickCandidate, TypeOK, database, upstream
  <1>3. CASE Observe \/ ConfirmReady \/ ConfirmIdle
    <2>1. monitor.left \in SUBSET Instances
      BY <1>a DEF Rounds
    <2>2. monitor.step \in {"confirm"} => inst[monitor.inst].url \in Nat
      BY RowAt DEF Watching, Row
    <2>3. monitor' \in Rounds
      BY <1>3, <1>a, <1>b, <2>1, <2>2 DEF Observe, ConfirmReady, ConfirmIdle, Rounds
    <2>4. faults' \in Nat
      BY <1>3, FaultTyped DEF Observe, ConfirmReady, ConfirmIdle, TypeOK
    <2>. QED  BY <1>3, <2>3, <2>4 DEF Observe, ConfirmReady, ConfirmIdle, TypeOK, database, upstream
  <1>4. CASE EnqueueRecovery
    <2>. DEFINE i == monitor.inst
                row == [inst[i] EXCEPT !.state = "provisioning", !.url = Updated(monitor.url, None, @)]
    <2>1. i \in Instances
      BY <1>4 DEF EnqueueRecovery, Watching
    <2>2. monitor' \in Rounds
      BY <1>4, <1>a, <1>b DEF EnqueueRecovery, Rounds
    <2>3. NewOp(i, "recovery") \in OpRow
      BY <2>1 DEF NewOp, OpRow, Statuses, Kinds, ProvisionKinds
    <2>4. ops' \in Seq(OpRow)
      BY <1>4, <2>3, AppendTyped DEF EnqueueRecovery, TypeOK
    <2>a. inst[i] \in Row /\ Updated(monitor.url, None, inst[i].url) \in Nat
      BY <2>1, RowAt DEF Row, None, Updated
    <2>5. row \in Row /\ inst' = [inst EXCEPT ![i] = row]
      BY <1>4, <2>a DEF EnqueueRecovery, Row, States
    <2>. HIDE DEF row
    <2>6. inst' \in [Instances -> Row]
      BY <2>5, RowChanged
    <2>. QED  BY <1>4, <2>2, <2>4, <2>6 DEF EnqueueRecovery, TypeOK, upstream
  <1>. QED  BY <1>1, <1>2, <1>3, <1>4 DEF Watch

LEMMA OtherTypes ==
    ASSUME TypeOK,
           \/ \E o \in DOMAIN ops : RetryDue(o)
           \/ \E s \in DOMAIN boxes : SandboxStarts(s) \/ SandboxDies(s)
           \/ WorkerDatabaseFails \/ MonitorDatabaseFails \/ Crash
    PROVE  TypeOK'
  <1>1. ASSUME NEW o \in DOMAIN ops, RetryDue(o)
        PROVE  TypeOK'
    <2>. DEFINE row == [ops[o] EXCEPT !.waiting = FALSE]
    <2>1. row \in OpRow
      BY OpAt DEF OpRow
    <2>2. ops' = [ops EXCEPT ![o] = row]
      BY <1>1 DEF RetryDue
    <2>. HIDE DEF row
    <2>3. ops' \in Seq(OpRow)
      BY <2>1, <2>2, ExceptTyped DEF TypeOK
    <2>. QED  BY <1>1, <2>3 DEF RetryDue, TypeOK, upstream
  <1>2. ASSUME NEW s \in DOMAIN boxes, NEW status \in {"running", "dead", "gone"},
               boxes' = [boxes EXCEPT ![s].status = status]
        PROVE  boxes' \in Seq(Box)
    <2>. DEFINE box == [boxes[s] EXCEPT !.status = status]
    <2>1. box \in Box
      BY BoxAt DEF Box
    <2>2. boxes' = [boxes EXCEPT ![s] = box]
      BY <1>2
    <2>. HIDE DEF box
    <2>. QED  BY <2>1, <2>2, ExceptTyped DEF TypeOK
  <1>3. ASSUME NEW s \in DOMAIN boxes, SandboxStarts(s) \/ SandboxDies(s)
        PROVE  TypeOK'
    BY <1>2, <1>3, FaultTyped DEF SandboxStarts, SandboxDies, TypeOK, database
  <1>a. /\ IdleExec \in Locals /\ [IdleExec EXCEPT !.step = "ended"] \in Locals
        /\ IdleMonitor \in Rounds /\ [IdleMonitor EXCEPT !.step = "ended"] \in Rounds
        /\ NoRequest \in Request
    BY DEF IdleExec, NoRow, IdleMonitor, NoRequest, Locals, Steps, Rounds, Request, States, None
  <1>4. CASE WorkerDatabaseFails
    <2>1. exec' \in Locals
      BY <1>4, <1>a, RaiseTyped DEF WorkerDatabaseFails
    <2>. QED  BY <1>4, <2>1, FaultTyped DEF WorkerDatabaseFails, TypeOK, database, upstream
  <1>5. CASE MonitorDatabaseFails
    BY <1>5, <1>a, FaultTyped DEF MonitorDatabaseFails, TypeOK, database, upstream
  <1>6. CASE Crash
    BY <1>6, <1>a, FaultTyped DEF Crash, TypeOK, database, upstream
  <1>. QED  BY <1>1, <1>3, <1>4, <1>5, <1>6

LEMMA TypeStep ==
    ASSUME IInv, [Next]_vars
    PROVE  TypeOK'
  <1>1. CASE UNCHANGED vars
    BY <1>1 DEF IInv, TypeOK, vars
  <1>2. CASE Next
    <2>1. ASSUME Reads \/ Store \/ \E i \in Instances, p \in Policies : Create(i, p)
          PROVE  TypeOK'
      BY <2>1, ApiTypes DEF IInv, ThreadsAgree
    <2>2. Execute => TypeOK'
      BY WorkerTypes DEF IInv, ThreadsAgree
    <2>3. Watch => TypeOK'
      BY MonitorTypes DEF IInv, ThreadsAgree
    <2>. QED  BY <1>2, <2>1, <2>2, <2>3, OtherTypes DEF Next, Reads, IInv
  <1>. QED  BY <1>1, <1>2

------------------------------------------------------------------------------
(* What a step does to manager_operations: it adds a row, or gives a row a    *)
(* new status.                                                               *)

\* Who adds an operation, and to an instance that has none of the kind under way.
Adds(i, kind) ==
    /\ i \in Instances /\ kind \in Kinds
    /\ ActiveOps(i, {kind}) = {}
    /\ ops' = Append(ops, NewOp(i, kind))
    /\ \/ kind = "provision" /\ \E p \in Policies : Create(i, p)
       \/ kind = OpKind(api.kind) /\ i = api.inst /\ api.found = None /\ Store
       \/ kind = "recovery" /\ i = monitor.inst /\ EnqueueRecovery

Succeeds(o) == o = exec.op /\ (CommitReady \/ CommitStopped)
Fails(o) == o = exec.op /\ Fail /\ inst'[Subject].state = Updated(exec.seen.state, "failed", inst[Subject].state)

OpKept(o) ==
    /\ o \in DOMAIN ops'
    /\ ops'[o].inst = ops[o].inst /\ ops'[o].kind = ops[o].kind
    /\ Active(o)' => Active(o)
    /\ ops'[o].status = "succeeded" => ops[o].status = "succeeded" \/ Succeeds(o)
    /\ Active(o) => Active(o)' \/ Succeeds(o) \/ Fails(o)
    /\ ops[o].status = "running" => \/ ops'[o].status = "running"
                                    \/ o = exec.op /\ (CommitReady \/ CommitStopped \/ Fail)

LEMMA OpRewritten ==
    ASSUME TypeOK, NEW k \in DOMAIN ops, NEW status, NEW row,
           row.inst = ops[k].inst, row.kind = ops[k].kind, row.status = status,
           ops' = [ops EXCEPT ![k] = row],
           \/ status = ops[k].status
           \/ status = "running" /\ ops[k].status = "pending"
           \/ status = "pending" /\ ops[k].status = "running" /\ k = exec.op /\ Fail
           \/ status = "succeeded" /\ Succeeds(k)
           \/ status = "failed" /\ Fails(k)
    PROVE  DOMAIN ops' = DOMAIN ops /\ \A o \in DOMAIN ops : OpKept(o)
  <1>1. \A o \in DOMAIN ops : /\ o \in DOMAIN ops'
                              /\ ops'[o] = IF o = k THEN row ELSE ops[o]
    OBVIOUS
  <1>2. DOMAIN ops' = DOMAIN ops
    OBVIOUS
  <1>. QED  BY <1>1, <1>2 DEF OpKept, Active, Succeeds, Fails

LEMMA OpsSteps ==
    ASSUME IInv, [Next]_vars
    PROVE  /\ \A o \in DOMAIN ops : OpKept(o)
           /\ DOMAIN ops' = DOMAIN ops \/ \E i, kind : Adds(i, kind)
  <1>a. TypeOK /\ OneActivePerKind /\ Working /\ Watching /\ Asking /\ Rooted
    BY DEF IInv, ThreadsAgree
  <1>1. CASE UNCHANGED ops
    BY <1>1 DEF OpKept, Active
  <1>2. ASSUME NEW i, NEW kind, Adds(i, kind), NEW o \in DOMAIN ops
        PROVE  OpKept(o)
    <2>1. o \in DOMAIN ops' /\ ops'[o] = ops[o]
      BY <1>a, <1>2, OpAdded DEF Adds
    <2>. QED  BY <2>1 DEF OpKept, Active
  <1>3. ASSUME NEW i \in Instances, NEW p \in Policies, Create(i, p)
        PROVE  Adds(i, "provision")
    <2>1. ActiveOps(i, {"provision"}) = {}
      BY <1>3, <1>a DEF Create, Rooted, ActiveOps
    <2>. QED  BY <1>3, <2>1 DEF Create, Adds, Kinds, ProvisionKinds
  <1>4. CASE Store
    <2>1. OpKind(api.kind) \in Kinds /\ api.inst \in Instances
      BY <1>4, <1>a, KindIs DEF Store
    <2>2. api.found # None => UNCHANGED ops
      BY <1>4 DEF Store
    <2>3. api.found = None => Adds(api.inst, OpKind(api.kind))
      BY <1>4, <1>a, <2>1 DEF Store, Adds, Asking
    <2>. QED  BY <1>1, <1>2, <2>2, <2>3
  <1>5. CASE Claim
    <2>1. PICK k \in Eligible :
            ops' = [ops EXCEPT ![k].status = "running", ![k].attempt = @ + 1]
      BY <1>5 DEF Claim
    <2>. DEFINE row == [ops[k] EXCEPT !.status = "running", !.attempt = @ + 1]
    <2>2. k \in DOMAIN ops /\ ops[k].status = "pending"
      BY DEF Eligible
    <2>3. ops' = [ops EXCEPT ![k] = row]
      BY <2>1
    <2>4. row.inst = ops[k].inst /\ row.kind = ops[k].kind /\ row.status = "running"
      BY <1>a, <2>2, OpAt DEF OpRow
    <2>. HIDE DEF row
    <2>. QED  BY <1>a, <2>2, <2>3, <2>4, OpRewritten
  <1>6. CASE CommitReady \/ CommitStopped
    <2>. DEFINE row == [ops[exec.op] EXCEPT !.status = "succeeded"]
    <2>1. exec.op \in DOMAIN ops
      BY <1>6, <1>a DEF CommitReady, CommitStopped, Working
    <2>2. ops' = [ops EXCEPT ![exec.op] = row]
      BY <1>6 DEF CommitReady, CommitStopped
    <2>3. /\ row.inst = ops[exec.op].inst /\ row.kind = ops[exec.op].kind
          /\ row.status = "succeeded" /\ Succeeds(exec.op)
      BY <1>6, <1>a, <2>1, OpAt DEF OpRow, Succeeds
    <2>. HIDE DEF row
    <2>. QED  BY <1>a, <2>1, <2>2, <2>3, OpRewritten
  <1>7. CASE Fail
    <2>1. /\ exec.op \in DOMAIN ops /\ ops[exec.op] \in OpRow /\ Subject \in Instances
          /\ ops[exec.op].status = "running"
      BY <1>7, <1>a, OpAt DEF Fail, Working, Subject, OpRow
    <2>2. PICK again \in BOOLEAN, waiting \in BOOLEAN :
            /\ ops' = [ops EXCEPT ![exec.op].attempt = Spent(ops[exec.op]) + 1,
                                  ![exec.op].status = IF again THEN "pending" ELSE "failed",
                                  ![exec.op].waiting = waiting]
            /\ again \/ inst' = [inst EXCEPT ![Subject].state =
                                        Updated(exec.seen.state, StateAfterFailure(exec.op), @)]
      BY <1>7 DEF Fail
    <2>. DEFINE row == [ops[exec.op] EXCEPT !.attempt = Spent(ops[exec.op]) + 1,
                                            !.status = IF again THEN "pending" ELSE "failed",
                                            !.waiting = waiting]
    <2>3. ops' = [ops EXCEPT ![exec.op] = row]
      BY <2>2
    <2>4. /\ row.inst = ops[exec.op].inst /\ row.kind = ops[exec.op].kind
          /\ row.status = IF again THEN "pending" ELSE "failed"
      BY <2>1 DEF OpRow
    <2>5. again \/ inst'[Subject].state = Updated(exec.seen.state, "failed", inst[Subject].state)
      BY <1>a, <2>1, <2>2 DEF StateAfterFailure, TypeOK, Row
    <2>6. again \/ Fails(exec.op)
      BY <1>7, <2>5 DEF Fails
    <2>. HIDE DEF row
    <2>. QED  BY <1>a, <1>7, <2>1, <2>3, <2>4, <2>6, OpRewritten
  <1>8. ASSUME NEW k \in DOMAIN ops, RetryDue(k)
        PROVE  DOMAIN ops' = DOMAIN ops /\ \A o \in DOMAIN ops : OpKept(o)
    <2>. DEFINE row == [ops[k] EXCEPT !.waiting = FALSE]
    <2>1. ops' = [ops EXCEPT ![k] = row]
      BY <1>8 DEF RetryDue
    <2>2. row.inst = ops[k].inst /\ row.kind = ops[k].kind /\ row.status = ops[k].status
      BY <1>a, OpAt DEF OpRow
    <2>. HIDE DEF row
    <2>. QED  BY <1>a, <2>1, <2>2, OpRewritten
  <1>9. CASE EnqueueRecovery
    <2>1. Adds(monitor.inst, "recovery")
      BY <1>9, <1>a DEF EnqueueRecovery, Adds, Watching, Kinds, ProvisionKinds
    <2>. QED  BY <1>2, <2>1
  <1>10. CASE Next /\ ~UNCHANGED ops
    <2>1. \/ \E i \in Instances, p \in Policies : Create(i, p)
          \/ Store \/ Claim \/ CommitReady \/ CommitStopped \/ Fail \/ EnqueueRecovery
          \/ \E k \in DOMAIN ops : RetryDue(k)
      BY <1>10
         DEF Next, Ensure, Reconcile, RequestStop, Read, Search, Execute, Load, ClearKey,
             GenerateKey, ReplaceSandbox, ForgetSandbox, InspectSandbox, DiscardSandbox,
             FindSandbox, CreateSandbox, RecordSandbox, WaitRunning, WaitBridge, ReplaceModels,
             SeeRow, DeleteSandbox, RevokeKey, Rejected, Watch, ListCandidates, PickCandidate,
             Observe, ConfirmReady, ConfirmIdle, SandboxStarts, SandboxDies, WorkerDatabaseFails,
             MonitorDatabaseFails, Crash, database
    <2>. QED  BY <1>2, <1>3, <1>4, <1>5, <1>6, <1>7, <1>8, <1>9, <2>1
  <1>. QED  BY <1>1, <1>10 DEF vars

LEMMA OpsKept == ASSUME IInv, [Next]_vars, NEW o \in DOMAIN ops PROVE OpKept(o)
  BY OpsSteps

\* An operation that was not there before was added in this step.
LEMMA OpsNew ==
    ASSUME IInv, [Next]_vars, NEW o \in DOMAIN ops', o \notin DOMAIN ops
    PROVE  /\ Adds(ops'[o].inst, ops'[o].kind) /\ o = Len(ops) + 1
           /\ ops'[o].status = "pending"
  <1>1. PICK i, kind : Adds(i, kind)
    BY OpsSteps
  <1>2. o = Len(ops) + 1 /\ ops'[o] = NewOp(i, kind)
    BY <1>1, OpAdded DEF Adds, IInv
  <1>3. ops'[o].inst = i /\ ops'[o].kind = kind /\ ops'[o].status = "pending"
    BY <1>2 DEF NewOp
  <1>. QED  BY <1>1, <1>2, <1>3

LEMMA OpsGrow ==
    ASSUME IInv, [Next]_vars, NEW i, NEW kind, Adds(i, kind)
    PROVE  /\ Len(ops) + 1 \in DOMAIN ops' \ DOMAIN ops
           /\ ops'[Len(ops) + 1] = NewOp(i, kind)
           /\ \A o \in DOMAIN ops : ops'[o] = ops[o]
  BY OpAdded DEF Adds, IInv

\* Operations of a set of kinds are under way as long as none of them ends.
LEMMA ActiveKept ==
    ASSUME IInv, [Next]_vars, NEW i, NEW kinds, NEW o \in ActiveOps(i, kinds),
           ~Succeeds(o), ~Fails(o)
    PROVE  o \in ActiveOps(i, kinds)'
  <1>1. o \in DOMAIN ops /\ ops[o].inst = i /\ ops[o].kind \in kinds /\ Active(o)
    BY DEF ActiveOps
  <1>2. OpKept(o)
    BY <1>1, OpsKept
  <1>. QED  BY <1>1, <1>2 DEF OpKept, ActiveOps

LEMMA OneActiveStep ==
    ASSUME IInv, [Next]_vars
    PROVE  OneActivePerKind'
  <1>. SUFFICES ASSUME NEW o \in DOMAIN ops', NEW other \in DOMAIN ops',
                       Active(o)', Active(other)',
                       ops'[o].inst = ops'[other].inst, ops'[o].kind = ops'[other].kind
                PROVE  o = other
    BY DEF OneActivePerKind
  <1>1. CASE o \in DOMAIN ops /\ other \in DOMAIN ops
    <2>1. OpKept(o) /\ OpKept(other)
      BY <1>1, OpsKept
    <2>. QED  BY <1>1, <2>1 DEF OpKept, OneActivePerKind, IInv
  <1>2. ASSUME NEW k \in DOMAIN ops, NEW new \in DOMAIN ops', new \notin DOMAIN ops,
               Active(k)', ops'[new].inst = ops'[k].inst, ops'[new].kind = ops'[k].kind
        PROVE  FALSE
    <2>1. OpKept(k)
      BY OpsKept
    <2>2. ActiveOps(ops'[new].inst, {ops'[new].kind}) = {}
      BY <1>2, OpsNew DEF Adds
    <2>. QED  BY <1>2, <2>1, <2>2 DEF OpKept, ActiveOps
  <1>3. CASE o \notin DOMAIN ops /\ other \notin DOMAIN ops
    BY <1>3, OpsNew
  <1>. QED  BY <1>1, <1>2, <1>3

------------------------------------------------------------------------------
(* What a step does to a row of manager_runner_instances.                    *)

\* The row keeps its sandbox, credentials and policy.
Stays(i) ==
    /\ inst'[i].sandbox = inst[i].sandbox
    /\ inst'[i].cred = inst[i].cred
    /\ inst'[i].policy = inst[i].policy

\* An ensure draws the next generation.
Draws(i) ==
    /\ inst'[i].sandbox = inst[i].sandbox
    /\ inst'[i].cred = issued[i] + 1
    /\ issued'[i] = issued[i] + 1

Created(i) ==
    /\ \E p \in Policies : Create(i, p)
    /\ inst'[i].state = "provisioning" /\ inst'[i].url = inst[i].url
    /\ Draws(i)

\* A request is stored.
Asked(i) ==
    /\ Store /\ i = api.inst
    /\ inst'[i].url = inst[i].url
    /\ inst'[i].state = IF Begins \/ (api.found = None /\ api.kind \in StopKinds)
                        THEN Updated(api.state, Begun(api.kind), inst[i].state)
                        ELSE inst[i].state
    /\ IF api.renew THEN Draws(i) ELSE Stays(i) /\ issued'[i] = issued[i]

Renewed(i) == Draws(i) /\ (Created(i) \/ (Asked(i) /\ api.renew))

\* A recovery is queued.
Requeued(i) ==
    /\ EnqueueRecovery /\ i = monitor.inst
    /\ inst'[i].state = "provisioning" /\ inst'[i].url = Updated(monitor.url, None, inst[i].url)
    /\ Stays(i)

\* A provision ends, a stop ends, an operation fails for good.
Delivered(i) ==
    /\ CommitReady /\ Subject = i
    /\ inst'[i].state = Updated(exec.seen.state, "ready", inst[i].state)
    /\ inst'[i].url = Updated(exec.seen.url, exec.sid, inst[i].url)
    /\ Stays(i)

Cleared(i) ==
    /\ CommitStopped /\ Subject = i
    /\ inst'[i].state = Updated(exec.seen.state, StoppedState(ops[exec.op].kind), inst[i].state)
    /\ inst'[i].sandbox = None /\ inst'[i].cred = None
    /\ inst'[i].policy = inst[i].policy

GivenUp(i) ==
    /\ Fail /\ Subject = i
    /\ inst'[i].state = Updated(exec.seen.state, "failed", inst[i].state)
    /\ inst'[i].url = inst[i].url
    /\ Stays(i)

\* A provision writes its sandbox down, or a recovery forgets the old one.
Noted(i) ==
    /\ inst'[i].state = inst[i].state /\ inst'[i].url = inst[i].url
    /\ inst'[i].cred = inst[i].cred /\ inst'[i].policy = inst[i].policy
    /\ \/ ForgetSandbox /\ Subject = i /\ inst'[i].sandbox = None
       \/ RecordSandbox /\ Subject = i /\ inst'[i].sandbox = exec.sid

LEMMA RowSteps ==
    ASSUME IInv, [Next]_vars, NEW i \in Instances
    PROVE  /\ issued'[i] = issued[i] \/ Renewed(i)
           /\ \/ inst'[i] = inst[i]
              \/ Created(i) \/ Asked(i) \/ Requeued(i)
              \/ Delivered(i) \/ Cleared(i) \/ GivenUp(i) \/ Noted(i)
  <1>a. /\ TypeOK /\ inst \in [Instances -> Row] /\ inst[i] \in Row
        /\ issued \in [Instances -> Nat]
    BY RowAt DEF IInv, TypeOK
  <1>b. Asking
    BY DEF IInv, ThreadsAgree
  <1>1. ASSUME NEW j \in Instances, NEW p \in Policies, Create(j, p)
        PROVE  \/ inst'[i] = inst[i] /\ issued'[i] = issued[i]
               \/ Created(i) /\ Renewed(i)
    <2>1. /\ inst' = [inst EXCEPT ![j].state = "provisioning", ![j].policy = p,
                                  ![j].cred = issued[j] + 1]
          /\ issued' = [issued EXCEPT ![j] = issued[j] + 1]
      BY <1>1 DEF Create
    <2>2. CASE i = j
      <3>1. inst'[i] = [inst[i] EXCEPT !.state = "provisioning", !.policy = p,
                                       !.cred = issued[i] + 1]
        BY <1>a, <2>1, <2>2
      <3>2. issued'[i] = issued[i] + 1
        BY <1>a, <2>1, <2>2
      <3>. QED  BY <1>a, <1>1, <2>2, <3>1, <3>2 DEF Created, Renewed, Draws, Row
    <2>3. CASE i # j
      BY <1>a, <2>1, <2>3
    <2>. QED  BY <2>2, <2>3
  <1>2. CASE Store
    <2>1. CASE i = api.inst
      <3>1. inst'[i] = [inst[i] EXCEPT
                !.state = IF Begins \/ (api.found = None /\ api.kind \in StopKinds)
                          THEN Updated(api.state, Begun(api.kind), @) ELSE @,
                !.policy = IF api.kind = "ensure" THEN api.policy ELSE @,
                !.cred = IF api.renew THEN issued[i] + 1 ELSE @]
        BY <1>a, <1>2, <2>1 DEF Store
      <3>2. issued'[i] = IF api.renew THEN issued[i] + 1 ELSE issued[i]
        BY <1>a, <1>2, <2>1 DEF Store
      <3>3. ~api.renew /\ api.kind = "ensure" => api.policy = inst[i].policy
        BY <1>2, <1>b, <2>1 DEF Asking, Store
      <3>. QED  BY <1>a, <1>2, <2>1, <3>1, <3>2, <3>3 DEF Asked, Renewed, Draws, Stays, Row
    <2>2. CASE i # api.inst
      BY <1>a, <1>2, <2>2 DEF Store
    <2>. QED  BY <2>1, <2>2
  <1>3. CASE EnqueueRecovery
    <2>1. inst' = [inst EXCEPT ![monitor.inst].state = "provisioning",
                               ![monitor.inst].url = Updated(monitor.url, None, @)]
      BY <1>3 DEF EnqueueRecovery
    <2>2. inst'[i] = inst[i] \/ Requeued(i)
      BY <1>a, <1>3, <2>1 DEF Requeued, Stays, Row
    <2>. QED  BY <1>3, <2>2 DEF EnqueueRecovery
  <1>4. CASE ForgetSandbox \/ RecordSandbox
    <2>2. CASE ForgetSandbox
      <3>1. inst' = [inst EXCEPT ![Subject].sandbox = None] /\ UNCHANGED issued
        BY <2>2 DEF ForgetSandbox
      <3>. QED  BY <1>a, <2>2, <3>1 DEF Noted, Row
    <2>3. CASE RecordSandbox
      <3>1. inst' = [inst EXCEPT ![Subject].sandbox = exec.sid] /\ UNCHANGED issued
        BY <2>3 DEF RecordSandbox
      <3>. QED  BY <1>a, <2>3, <3>1 DEF Noted, Row
    <2>. QED  BY <1>4, <2>2, <2>3
  <1>5. CASE CommitReady
    <2>1. inst' = [inst EXCEPT ![Subject].state = Updated(exec.seen.state, "ready", @),
                               ![Subject].url = Updated(exec.seen.url, exec.sid, @)]
      BY <1>5 DEF CommitReady
    <2>2. inst'[i] = inst[i] \/ Delivered(i)
      BY <1>a, <1>5, <2>1 DEF Delivered, Stays, Row
    <2>. QED  BY <1>5, <2>2 DEF CommitReady
  <1>6. CASE CommitStopped
    <2>1. CASE i = Subject
      <3>. DEFINE stopped == StoppedState(ops[exec.op].kind)
      <3>1. inst'[i] = [inst[i] EXCEPT !.state = Updated(exec.seen.state, stopped, @),
                                       !.sandbox = None,
                                       !.url = Updated(exec.seen.url, None, @),
                                       !.cred = None]
        BY <1>a, <1>6, <2>1 DEF CommitStopped
      <3>2. Cleared(i)
        BY <1>a, <1>6, <2>1, <3>1 DEF Cleared, Row
      <3>. QED  BY <1>6, <3>2 DEF CommitStopped
    <2>2. CASE i # Subject
      <3>1. inst'[i] = inst[i]
        BY <1>a, <1>6, <2>2 DEF CommitStopped
      <3>. QED  BY <1>6, <3>1 DEF CommitStopped
    <2>. QED  BY <2>1, <2>2
  <1>7. CASE Fail
    <2>1. \/ UNCHANGED inst
          \/ inst' = [inst EXCEPT ![Subject].state = Updated(exec.seen.state, "failed", @)]
      BY <1>7 DEF Fail, StateAfterFailure
    <2>2. inst'[i] = inst[i] \/ GivenUp(i)
      BY <1>a, <1>7, <2>1 DEF GivenUp, Stays, Row
    <2>. QED  BY <1>7, <2>2 DEF Fail
  <1>8. CASE UNCHANGED <<inst, issued>>
    BY <1>8
  <1>9. CASE Next /\ ~UNCHANGED <<inst, issued>>
    <2>1. \/ \E j \in Instances, p \in Policies : Create(j, p)
          \/ Store \/ EnqueueRecovery
          \/ ForgetSandbox \/ RecordSandbox \/ CommitReady \/ CommitStopped \/ Fail
      BY <1>9
         DEF Next, Ensure, Reconcile, RequestStop, Read, Search, Execute, Claim, Load, ClearKey,
             GenerateKey, ReplaceSandbox, InspectSandbox, DiscardSandbox, FindSandbox,
             CreateSandbox, WaitRunning, WaitBridge, ReplaceModels, SeeRow, DeleteSandbox,
             RevokeKey, Rejected, RetryDue, Watch, ListCandidates, PickCandidate, Observe,
             ConfirmReady, ConfirmIdle, SandboxStarts, SandboxDies, WorkerDatabaseFails,
             MonitorDatabaseFails, Crash, database
    <2>. QED  BY <1>1, <1>2, <1>3, <1>4, <1>5, <1>6, <1>7, <2>1
  <1>. QED  BY <1>8, <1>9 DEF vars

\* The states a request stores.
LEMMA AskedState ==
    ASSUME IInv, NEW i \in Instances, Asked(i)
    PROVE  \/ inst'[i].state = inst[i].state
           \/ inst'[i].state = "provisioning" /\ Begins
           \/ inst'[i].state = Begun(api.kind) /\ api.kind \in StopKinds /\ api.found = None
  <1>1. /\ api.renew => api.kind = "ensure"
        /\ api.kind \in {"ensure", "reconcile"} \cup StopKinds
    BY DEF Asked, Store, IInv, ThreadsAgree, Asking, TypeOK, Request
  <1>2. Begins => Begun(api.kind) = "provisioning"
    BY <1>1 DEF Begins, Begun
  <1>. QED  BY <1>2 DEF Asked, Updated

\* A row stays.
LEMMA Born ==
    ASSUME IInv, [Next]_vars, NEW i \in Instances, inst[i].state # "absent"
    PROVE  inst'[i].state # "absent"
  <1>1. CASE Asked(i)
    <2>1. Begun(api.kind) # "absent"
      BY DEF Begun
    <2>. QED  BY <1>1, <2>1, AskedState
  <1>2. CASE Created(i) \/ Requeued(i) \/ Delivered(i) \/ Cleared(i) \/ GivenUp(i) \/ Noted(i)
    BY <1>2 DEF Created, Requeued, Delivered, Cleared, GivenUp, Noted, Updated, StoppedState
  <1>. QED  BY <1>1, <1>2, RowSteps

\* What the end of an operation reads of the row is what it then finds, or a request has come
\* meanwhile.
LEMMA SeenState ==
    ASSUME IInv, exec.seen # NoRow
    PROVE  inst[Subject].state \in {exec.seen.state, "provisioning", "stopping", "destroying"}
  BY DEF IInv, ThreadsAgree, SeenHolds, Begun, StopKinds

\* An instance settles only by the end of an operation, and in the state it ends with.
LEMMA Settles ==
    ASSUME IInv, [Next]_vars, NEW i \in Instances
    PROVE  /\ inst'[i].state = "ready" =>
                \/ Delivered(i)
                \/ inst[i].state = "ready" /\ ~Cleared(i) /\ ~GivenUp(i)
           /\ inst'[i].state \in {"stopped", "destroyed"} =>
                \/ Cleared(i)
                \/ inst'[i].state = inst[i].state /\ ~Delivered(i) /\ ~GivenUp(i)
  <1>1. CASE Asked(i)
    <2>1. Begun(api.kind) \notin {"ready", "stopped", "destroyed"}
      BY DEF Begun
    <2>2. ~CommitReady /\ ~CommitStopped /\ ~Fail
      <3>1. UNCHANGED exec /\ api # api'
        BY <1>1 DEF Asked, Store, NoRequest
      <3>. QED  BY <3>1 DEF CommitReady, CommitStopped, Fail
    <2>. QED  BY <1>1, <2>1, <2>2, AskedState DEF Delivered, Cleared, GivenUp
  <1>2. CASE Delivered(i) \/ Cleared(i) \/ GivenUp(i)
    <2>1. Subject = i /\ exec.seen # NoRow
      BY <1>2 DEF Delivered, Cleared, GivenUp, CommitReady, CommitStopped, Fail
    <2>2. inst[i].state \in {exec.seen.state, "provisioning", "stopping", "destroying"}
      BY <2>1, SeenState
    <2>3. CASE Delivered(i)
      <3>1. exec.step = "commit"
        BY <2>3 DEF Delivered, CommitReady
      <3>. QED  BY <2>2, <2>3, <3>1 DEF Delivered, Updated
    <2>4. CASE Cleared(i)
      <3>1. inst'[i].state # "ready"
        BY <2>2, <2>4 DEF Cleared, Updated, StoppedState
      <3>. QED  BY <2>4, <3>1
    <2>5. CASE GivenUp(i)
      <3>1. inst'[i].state \notin {"ready", "stopped", "destroyed"}
        BY <2>2, <2>5 DEF GivenUp, Updated
      <3>. QED  BY <3>1
    <2>. QED  BY <1>2, <2>3, <2>4, <2>5
  <1>3. CASE ~(Delivered(i) \/ Cleared(i) \/ GivenUp(i) \/ Asked(i))
    BY <1>3, RowSteps DEF Created, Requeued, Noted
  <1>. QED  BY <1>1, <1>2, <1>3

------------------------------------------------------------------------------
(* What a step does to the worker's locals and to the keys.                  *)

\* The steps of the worker that end no operation and revoke or register no key.
QuietSteps ==
    \/ Load \/ ReplaceSandbox \/ ForgetSandbox \/ InspectSandbox \/ DiscardSandbox \/ FindSandbox
    \/ CreateSandbox \/ RecordSandbox \/ WaitRunning \/ WaitBridge \/ ReplaceModels
    \/ DeleteSandbox \/ Rejected

LEMMA QuietOps == ASSUME QuietSteps \/ SeeRow PROVE UNCHANGED <<ops, key, issued>>
  BY DEF QuietSteps, Load, ReplaceSandbox, ForgetSandbox, InspectSandbox, DiscardSandbox,
         FindSandbox, CreateSandbox, RecordSandbox, WaitRunning, WaitBridge, ReplaceModels,
         DeleteSandbox, Rejected, SeeRow, database, upstream

LEMMA OthersKey ==
    ASSUME [Next]_vars, ~(ClearKey \/ GenerateKey \/ RevokeKey)
    PROVE  UNCHANGED key
  BY DEF Next, vars, Create, Ensure, Reconcile, RequestStop, Read, Search, Store, Execute, Claim,
         Load, ReplaceSandbox, ForgetSandbox, InspectSandbox, DiscardSandbox, FindSandbox,
         CreateSandbox, RecordSandbox, WaitRunning, WaitBridge, ReplaceModels, SeeRow, CommitReady,
         DeleteSandbox, CommitStopped, Rejected, Fail, RetryDue, Watch, ListCandidates,
         PickCandidate, Observe, ConfirmReady, ConfirmIdle, EnqueueRecovery, SandboxStarts,
         SandboxDies, WorkerDatabaseFails, MonitorDatabaseFails, Crash, upstream

\* Only a crash and a failure of the database interfere with the worker.
LEMMA OthersExec ==
    ASSUME TypeOK, [Next]_vars, ~Execute
    PROVE  \/ UNCHANGED exec
           \/ exec'.step \in {"idle", "ended"} /\ exec'.seen = NoRow
           \/ /\ exec.step \notin {"idle", "ended"}
              /\ exec'.op = exec.op /\ exec'.step = "fail" /\ exec'.seen = NoRow
  <1>1. CASE Crash
    BY <1>1 DEF Crash, IdleExec
  <1>2. CASE WorkerDatabaseFails
    <2>1. exec \in Locals
      BY DEF TypeOK
    <2>2. CASE exec.step \in {"idle", "fail"}
      BY <1>2, <2>2 DEF WorkerDatabaseFails, IdleExec
    <2>3. CASE exec.step \notin {"idle", "fail"}
      BY <1>2, <2>1, <2>3 DEF WorkerDatabaseFails, Raise, Locals
    <2>. QED  BY <2>2, <2>3
  <1>3. ~Crash /\ ~WorkerDatabaseFails => UNCHANGED exec
    BY DEF Next, vars, Create, Ensure, Reconcile, RequestStop, Read, Search, Store, RetryDue, Watch,
           ListCandidates, PickCandidate, Observe, ConfirmReady, ConfirmIdle, EnqueueRecovery,
           SandboxStarts, SandboxDies, MonitorDatabaseFails
  <1>. QED  BY <1>1, <1>2, <1>3

\* The steps of a provision that has registered its key.
LaterSteps == ProvisionSteps \ {"clear_key", "generate_key"}

LEMMA QuietExec ==
    ASSUME TypeOK, QuietSteps, ~Load
    PROVE  /\ exec'.op = exec.op /\ exec.step \notin {"idle", "ended"}
           /\ exec.step \notin {"close", "fail"} /\ exec'.seen \in {exec.seen, NoRow}
           /\ exec.step = "commit" => exec'.seen = NoRow
           /\ \/ exec'.step = "fail"
              \/ /\ exec.step \in LaterSteps /\ exec'.step \in LaterSteps
                 /\ exec'.cred = exec.cred /\ exec'.policy = exec.policy
              \/ exec.step = "delete_sandbox" /\ exec'.step = "revoke_key"
  <1>1. exec \in Locals
    BY DEF TypeOK
  <1>2. ASSUME NEW retryable, Raise(retryable)
        PROVE  exec'.op = exec.op /\ exec'.step = "fail" /\ exec'.seen = NoRow
    BY <1>1, <1>2 DEF Raise, Locals
  <1>3. ASSUME NEW step, Goto(step)
        PROVE  /\ exec'.op = exec.op /\ exec'.step = step
               /\ exec'.cred = exec.cred /\ exec'.policy = exec.policy /\ exec'.seen = exec.seen
    BY <1>1, <1>3 DEF Goto, Locals
  <1>4. ASSUME NEW step, NEW sid, exec' = [exec EXCEPT !.sid = sid, !.step = step]
        PROVE  /\ exec'.op = exec.op /\ exec'.step = step
               /\ exec'.cred = exec.cred /\ exec'.policy = exec.policy /\ exec'.seen = exec.seen
    BY <1>1, <1>4 DEF Locals
  <1>5. CASE Rejected
    BY <1>2, <1>5 DEF Rejected, CallSteps
  <1>6. CASE ReplaceSandbox \/ DiscardSandbox \/ DeleteSandbox
    BY <1>2, <1>3, <1>6
       DEF ReplaceSandbox, DiscardSandbox, DeleteSandbox, Answered, Goto, LaterSteps, ProvisionSteps
  <1>7. CASE ForgetSandbox \/ RecordSandbox
    BY <1>3, <1>7 DEF ForgetSandbox, RecordSandbox, LaterSteps, ProvisionSteps
  <1>8. CASE WaitRunning \/ WaitBridge
    <2>1. /\ exec.step \in {"wait", "bridge"}
          /\ \/ Goto("bridge") \/ Goto("models")
             \/ Raise(TRUE) \/ Raise(FALSE)
      BY <1>8 DEF WaitRunning, WaitBridge
    <2>2. \/ /\ exec'.op = exec.op /\ exec'.step \in {"bridge", "models"}
             /\ exec'.cred = exec.cred /\ exec'.policy = exec.policy /\ exec'.seen = exec.seen
          \/ exec'.op = exec.op /\ exec'.step = "fail" /\ exec'.seen = NoRow
      BY <1>2, <1>3, <2>1
    <2>. QED  BY <2>1, <2>2 DEF LaterSteps, ProvisionSteps
  <1>9. CASE InspectSandbox \/ FindSandbox
    <2>1. /\ exec.step \in {"inspect", "find"}
          /\ \/ Goto("create") \/ Goto("discard")
             \/ \E sid : exec' = [exec EXCEPT !.sid = sid, !.step = "wait"]
      BY <1>9 DEF InspectSandbox, FindSandbox
    <2>2. /\ exec'.op = exec.op /\ exec'.step \in {"create", "discard", "wait"}
          /\ exec'.cred = exec.cred /\ exec'.policy = exec.policy /\ exec'.seen = exec.seen
      BY <1>3, <1>4, <2>1
    <2>. QED  BY <2>1, <2>2 DEF LaterSteps, ProvisionSteps
  <1>10. CASE CreateSandbox
    <2>1. /\ exec.step = "create"
          /\ \/ exec' = [exec EXCEPT !.sid = Len(boxes) + 1, !.step = "record"]
             \/ Raise(TRUE)
      BY <1>10 DEF CreateSandbox, Answered
    <2>2. \/ /\ exec'.op = exec.op /\ exec'.step \in {"record"}
             /\ exec'.cred = exec.cred /\ exec'.policy = exec.policy /\ exec'.seen = exec.seen
          \/ exec'.op = exec.op /\ exec'.step = "fail" /\ exec'.seen = NoRow
      BY <1>2, <1>4, <2>1
    <2>. QED  BY <2>1, <2>2 DEF LaterSteps, ProvisionSteps
  <1>11. CASE ReplaceModels
    <2>1. /\ exec.step = "models"
          /\ Goto("commit") \/ \E retryable : Raise(retryable)
      BY <1>11 DEF ReplaceModels, Answered, Goto
    <2>. QED  BY <1>2, <1>3, <2>1 DEF LaterSteps, ProvisionSteps
  <1>. QED  BY <1>5, <1>6, <1>7, <1>8, <1>9, <1>10, <1>11 DEF QuietSteps

\* The steps that register and revoke keys.
LEMMA KeyExec ==
    ASSUME TypeOK, ClearKey \/ RevokeKey \/ GenerateKey
    PROVE  /\ UNCHANGED <<inst, ops>> /\ exec.step \in {"clear_key", "revoke_key", "generate_key"}
           /\ exec'.op = exec.op /\ exec'.cred = exec.cred /\ exec'.policy = exec.policy
           /\ exec'.seen \in {exec.seen, NoRow}
           /\ \/ exec'.step = "fail"
              \/ exec.step = "clear_key" /\ exec'.step = "generate_key"
              \/ /\ exec.step = "generate_key"
                 /\ exec'.step \in {"replace", "create", "inspect", "find"}
                 /\ key' = [key EXCEPT ![Subject] = [cred |-> exec.cred, policy |-> exec.policy]]
              \/ /\ exec.step = "revoke_key" /\ exec'.step = "close"
                 /\ key' = [key EXCEPT ![Subject] = NoKey]
  BY DEF ClearKey, RevokeKey, GenerateKey, Answered, Raise, TypeOK, Locals, database

LEMMA ClaimExec ==
    ASSUME TypeOK, Claim
    PROVE  /\ exec'.op \in DOMAIN ops' /\ ops'[exec'.op].status = "running"
           /\ exec'.step = "load" /\ exec'.seen = NoRow
  <1>1. PICK o \in Eligible :
          /\ ops' = [ops EXCEPT ![o].status = "running", ![o].attempt = @ + 1]
          /\ exec' = [IdleExec EXCEPT !.op = o, !.step = "load"]
    BY DEF Claim
  <1>2. exec'.op = o /\ exec'.step = "load" /\ exec'.seen = NoRow
    BY <1>1 DEF IdleExec
  <1>3. o \in DOMAIN ops /\ ops[o] \in OpRow
    BY OpAt DEF Eligible
  <1>4. DOMAIN ops' = DOMAIN ops
    BY <1>1
  <1>. DEFINE row == [ops[o] EXCEPT !.status = "running", !.attempt = @ + 1]
  <1>5. ops'[o] = row
    BY <1>1, <1>3
  <1>6. row.status = "running"
    BY <1>3 DEF OpRow
  <1>. QED  BY <1>2, <1>3, <1>4, <1>5, <1>6

\* A load fails, or snapshots the row and goes to the first step of the operation's kind.
LEMMA LoadExec ==
    ASSUME IInv, Load
    PROVE  /\ UNCHANGED <<inst, ops, key>> /\ exec.step = "load" /\ exec'.op = exec.op
           /\ exec'.seen \in {exec.seen, NoRow}
           /\ \/ exec'.step = "fail"
              \/ /\ exec'.cred = inst[Subject].cred /\ exec'.cred # None
                 /\ \/ exec'.step = "clear_key" /\ ops[exec.op].kind \in ProvisionKinds
                    \/ /\ exec'.step \in {"delete_sandbox", "revoke_key"}
                       /\ ops[exec.op].kind \in StopKinds
  <1>a. TypeOK /\ Working /\ exec \in Locals
    BY DEF IInv, ThreadsAgree, TypeOK
  <1>1. UNCHANGED <<inst, ops, key>> /\ exec.step = "load"
    BY DEF Load, database, upstream
  <1>2. CASE Raise(FALSE)
    BY <1>a, <1>1, <1>2 DEF Raise, Locals
  <1>3. CASE ~Raise(FALSE)
    <2>. DEFINE row == inst[Subject]
                next == IF ops[exec.op].kind \in ProvisionKinds THEN "clear_key"
                        ELSE FirstStopStep(row)
    <2>1. /\ ~LacksCredentials(row)
          /\ exec' = [exec EXCEPT !.sandbox = row.sandbox, !.cred = row.cred,
                                  !.policy = row.policy, !.step = next]
      BY <1>3 DEF Load
    <2>2. /\ exec'.op = exec.op /\ exec'.step = next /\ exec'.cred = row.cred
          /\ exec'.seen = exec.seen
      BY <1>a, <2>1 DEF Locals
    <2>3. row.cred # None
      BY <2>1 DEF LacksCredentials
    <2>4. ops[exec.op].kind \in Kinds
      BY <1>a, <1>1, OpAt DEF Working, OpRow
    <2>5. \/ next = "clear_key" /\ ops[exec.op].kind \in ProvisionKinds
          \/ next \in {"delete_sandbox", "revoke_key"} /\ ops[exec.op].kind \in StopKinds
      BY <2>4 DEF FirstStopStep, Kinds
    <2>. QED  BY <1>1, <2>2, <2>3, <2>5
  <1>. QED  BY <1>2, <1>3

LEMMA EndExec ==
    ASSUME CommitReady \/ CommitStopped \/ Fail
    PROVE  exec'.step = "idle" /\ exec'.seen = NoRow
  BY DEF CommitReady, CommitStopped, Fail, IdleExec

LEMMA SeeExec ==
    ASSUME TypeOK, SeeRow
    PROVE  /\ UNCHANGED <<inst, ops, key>> /\ exec.step \in {"commit", "close", "fail"}
           /\ exec'.op = exec.op /\ exec'.step = exec.step /\ exec'.cred = exec.cred
           /\ exec'.policy = exec.policy /\ exec'.sandbox = exec.sandbox /\ exec'.sid = exec.sid
           /\ exec'.seen = [state |-> inst[Subject].state, url |-> inst[Subject].url]
  BY DEF SeeRow, TypeOK, Locals, database, upstream

\* The worker goes on with its operation.
LEMMA SubjectKept ==
    ASSUME IInv, [Next]_vars, exec.step \notin {"idle", "ended"}, exec'.op = exec.op
    PROVE  Subject \in Instances /\ Subject' = Subject
  <1>1. exec.op \in DOMAIN ops /\ ops[exec.op] \in OpRow
    BY OpAt DEF IInv, ThreadsAgree, Working
  <1>2. OpKept(exec.op)
    BY <1>1, OpsKept
  <1>. QED  BY <1>1, <1>2 DEF Subject, OpKept, OpRow

------------------------------------------------------------------------------
(* The worker's part of ThreadsAgree.                                        *)

LEMMA WorkingStep ==
    ASSUME IInv, [Next]_vars
    PROVE  Working'
  <1>a. TypeOK /\ Working
    BY DEF IInv, ThreadsAgree
  <1>1. CASE exec'.step \in {"idle", "ended"}
    BY <1>1 DEF Working
  <1>2. CASE Claim
    BY <1>a, <1>2, ClaimExec DEF Working, ProvisionSteps, StopSteps
  <1>3. CASE Load
    BY <1>a, <1>3, LoadExec DEF Working, ProvisionSteps, StopSteps
  <1>4. CASE ClearKey \/ RevokeKey \/ GenerateKey
    BY <1>a, <1>4, KeyExec DEF Working, ProvisionSteps, StopSteps
  <1>5. CASE QuietSteps /\ ~Load
    BY <1>a, <1>5, QuietExec, QuietOps DEF Working, LaterSteps, ProvisionSteps, StopSteps
  <1>6. CASE SeeRow
    BY <1>a, <1>6, SeeExec DEF Working
  <1>7. CASE ~Execute /\ exec'.step \notin {"idle", "ended"}
    <2>1. /\ exec.step \notin {"idle", "ended"} /\ exec'.op = exec.op
          /\ exec'.step \in {exec.step, "fail"}
      BY <1>a, <1>7, OthersExec
    <2>2. exec.op \in DOMAIN ops /\ OpKept(exec.op)
      BY <1>a, <2>1, OpsKept DEF Working
    <2>3. ~(CommitReady \/ CommitStopped \/ Fail)
      BY <1>7 DEF Execute
    <2>. QED  BY <1>a, <2>1, <2>2, <2>3 DEF Working, OpKept, ProvisionSteps, StopSteps
  <1>. QED  BY <1>1, <1>2, <1>3, <1>4, <1>5, <1>6, <1>7, EndExec DEF Execute, QuietSteps

LEMMA LoadedStep ==
    ASSUME IInv, [Next]_vars
    PROVE  Loaded' /\ KeyFollows'
  <1>a. /\ TypeOK /\ Working /\ Loaded /\ KeyFollows
        /\ key \in [Instances -> Key] /\ exec \in Locals
    BY DEF IInv, ThreadsAgree, TypeOK
  <1>1. CASE exec'.step \notin ProvisionSteps \cup {"close"}
    BY <1>1 DEF Loaded, KeyFollows
  <1>2. CASE Load
    BY <1>a, <1>2, LoadExec DEF Loaded, KeyFollows, ProvisionSteps
  <1>3. CASE ClearKey \/ RevokeKey \/ GenerateKey
    <2>1. Subject' = Subject /\ Subject \in Instances
      BY <1>3, <1>a, KeyExec, SubjectKept
    <2>2. Loaded'
      BY <1>a, <1>3, KeyExec DEF Loaded, ProvisionSteps
    <2>3. KeyFollows'
      BY <1>a, <1>3, <2>1, KeyExec DEF KeyFollows, ProvisionSteps
    <2>. QED  BY <2>2, <2>3
  <1>4. CASE QuietSteps /\ ~Load
    <2>1. Subject' = Subject /\ UNCHANGED key
      BY <1>4, <1>a, QuietExec, QuietOps, SubjectKept
    <2>. QED  BY <1>a, <1>4, <2>1, QuietExec DEF Loaded, KeyFollows, LaterSteps, ProvisionSteps
  <1>5. CASE SeeRow
    <2>1. Subject' = Subject /\ UNCHANGED key
      BY <1>5, <1>a, SeeExec, SubjectKept
    <2>. QED  BY <1>a, <1>5, <2>1, SeeExec DEF Loaded, KeyFollows
  <1>6. CASE ~Execute /\ exec'.step \in ProvisionSteps \cup {"close"}
    <2>1. UNCHANGED exec /\ exec.step \notin {"idle", "ended"}
      BY <1>a, <1>6, OthersExec DEF ProvisionSteps
    <2>2. UNCHANGED key
      BY <1>6, OthersKey DEF Execute
    <2>3. Subject' = Subject
      BY <2>1, SubjectKept
    <2>. QED  BY <1>a, <2>1, <2>2, <2>3 DEF Loaded, KeyFollows
  <1>7. Claim \/ CommitReady \/ CommitStopped \/ Fail => exec'.step \notin ProvisionSteps \cup {"close"}
    BY <1>a, ClaimExec, EndExec DEF ProvisionSteps
  <1>. QED  BY <1>1, <1>2, <1>3, <1>4, <1>5, <1>6, <1>7 DEF Execute, QuietSteps

\* The worker reads a row in SeeRow alone.
LEMMA SeenOnce ==
    ASSUME IInv, Execute, ~SeeRow
    PROVE  exec'.seen = NoRow
  <1>a. TypeOK /\ SeenHolds
    BY DEF IInv, ThreadsAgree
  <1>1. exec.step \notin {"commit", "close", "fail"} => exec.seen = NoRow
    BY <1>a DEF SeenHolds
  <1>2. CASE QuietSteps /\ ~Load
    BY <1>a, <1>1, <1>2, QuietExec
  <1>3. CASE Load
    BY <1>1, <1>3, LoadExec
  <1>4. CASE ClearKey \/ RevokeKey \/ GenerateKey
    BY <1>a, <1>1, <1>4, KeyExec
  <1>. QED  BY <1>a, <1>2, <1>3, <1>4, ClaimExec, EndExec DEF Execute, QuietSteps

LEMMA SeenStep ==
    ASSUME IInv, [Next]_vars
    PROVE  SeenHolds'
  <1>a. /\ TypeOK /\ Working /\ SeenHolds /\ Asking /\ Rooted
    BY DEF IInv, ThreadsAgree
  <1>1. CASE exec'.seen = NoRow
    BY <1>1 DEF SeenHolds
  <1>2. CASE SeeRow
    <2>1. Subject' = Subject
      BY <1>2, <1>a, SeeExec, SubjectKept
    <2>. QED  BY <1>2, <1>a, <2>1, SeeExec DEF SeenHolds
  <1>3. CASE ~Execute /\ exec'.seen # NoRow
    <2>1. UNCHANGED exec /\ exec.step \in {"commit", "close", "fail"}
      BY <1>a, <1>3, OthersExec DEF SeenHolds
    <2>2. Subject \in Instances /\ Subject' = Subject
      BY <2>1, SubjectKept
    <2>a. PICK i \in Instances : i = Subject
      BY <2>2
    <2>3. exec.op \in DOMAIN ops /\ OpKept(exec.op) /\ Active(exec.op) /\ ops[exec.op].inst = i
      <3>1. exec.op \in DOMAIN ops /\ ops[exec.op].status = "running"
        BY <1>a, <2>1 DEF Working
      <3>2. OpKept(exec.op)
        BY <3>1, OpsKept
      <3>3. Active(exec.op)
        BY <3>1 DEF Active
      <3>4. ops[exec.op].inst = i
        BY <2>a DEF Subject
      <3>. QED  BY <3>1, <3>2, <3>3, <3>4
    <2>4. ops'[exec'.op].kind = ops[exec.op].kind
      BY <2>1, <2>3 DEF OpKept
    <2>5. \/ inst'[i] = inst[i] \/ Created(i) \/ Asked(i) \/ Requeued(i)
      BY <1>3, RowSteps DEF Execute, Delivered, Cleared, GivenUp, Noted
    \* The state.
    <2>6. \/ inst'[i].state \in {inst[i].state, "provisioning"}
          \/ \E kind \in StopKinds \ {ops[exec.op].kind} : inst'[i].state = Begun(kind)
      <3>1. CASE Asked(i)
        <4>1. ASSUME api.kind \in StopKinds, api.found = None
              PROVE  api.kind # ops[exec.op].kind
          <5>1. ActiveOps(i, {api.kind}) = {}
            BY <1>a, <3>1, <4>1 DEF Asked, Store, Asking, OpKind
          <5>. QED  BY <2>3, <5>1 DEF ActiveOps
        <4>. QED  BY <3>1, <4>1, AskedState
      <3>. QED  BY <2>5, <3>1 DEF Created, Requeued
    <2>7. inst'[i].state # exec.seen.state =>
            \/ inst'[i].state = "provisioning"
            \/ \E kind \in StopKinds \ {ops[exec.op].kind} : inst'[i].state = Begun(kind)
      BY <1>a, <1>3, <2>1, <2>6, <2>a DEF SeenHolds
    \* The URL.
    <2>8. inst'[i].url # exec.seen.url => ActiveOps(i, {"recovery"})' \ {exec.op} # {}
      <3>1. CASE inst[i].url # exec.seen.url
        <4>1. PICK o \in ActiveOps(i, {"recovery"}) : o # exec.op
          BY <1>a, <1>3, <2>1, <2>a, <3>1 DEF SeenHolds
        <4>2. ~Succeeds(o) /\ ~Fails(o)
          BY <4>1 DEF Succeeds, Fails
        <4>. QED  BY <4>1, <4>2, ActiveKept
      <3>2. CASE inst'[i].url # inst[i].url
        <4>1. EnqueueRecovery /\ i = monitor.inst
          BY <2>5, <3>2 DEF Created, Asked, Requeued
        <4>2. Adds(i, "recovery")
          <5>1. ops' = Append(ops, NewOp(i, "recovery"))
            BY <4>1 DEF EnqueueRecovery
          <5>2. ActiveOps(i, {"recovery"}) = {}
            BY <4>1 DEF EnqueueRecovery, IInv, ThreadsAgree, Watching
          <5>. QED  BY <4>1, <5>1, <5>2 DEF Adds, Kinds, ProvisionKinds
        <4>3. /\ Len(ops) + 1 \in DOMAIN ops' \ DOMAIN ops
              /\ ops'[Len(ops) + 1] = NewOp(i, "recovery")
          BY <4>2, OpsGrow
        <4>4. Len(ops) + 1 \in ActiveOps(i, {"recovery"})'
          BY <4>3 DEF ActiveOps, Active, NewOp
        <4>. QED  BY <2>3, <4>3, <4>4
      <3>. QED  BY <3>1, <3>2
    <2>. QED  BY <2>1, <2>2, <2>a, <2>4, <2>7, <2>8 DEF SeenHolds
  <1>. QED  BY <1>1, <1>2, <1>3, SeenOnce

------------------------------------------------------------------------------
(* The handler's and the monitor's part.                                     *)

\* Only the monitor inserts recoveries, and it is where a request is written that the API
\* inserts the other kinds.
LEMMA NoneAdded ==
    ASSUME IInv, [Next]_vars, NEW i, NEW kind, ActiveOps(i, {kind}) = {},
           ~Adds(i, kind)
    PROVE  ActiveOps(i, {kind})' = {}
  <1>. SUFFICES ASSUME NEW o \in DOMAIN ops', ops'[o].inst = i, ops'[o].kind = kind, Active(o)'
                PROVE  FALSE
    BY DEF ActiveOps
  <1>1. CASE o \in DOMAIN ops
    <2>1. OpKept(o)
      BY <1>1, OpsKept
    <2>. QED  BY <1>1, <2>1 DEF OpKept, ActiveOps
  <1>2. CASE o \notin DOMAIN ops
    BY <1>2, OpsNew
  <1>. QED  BY <1>1, <1>2

LEMMA OthersApi ==
    ASSUME [Next]_vars
    PROVE  UNCHANGED api \/ api' = NoRequest \/ Reads
  BY DEF Next, vars, Reads, Create, Store, Execute, Claim, Load, ClearKey, GenerateKey,
         ReplaceSandbox, ForgetSandbox, InspectSandbox, DiscardSandbox, FindSandbox, CreateSandbox,
         RecordSandbox, WaitRunning, WaitBridge, ReplaceModels, SeeRow, CommitReady, DeleteSandbox,
         RevokeKey, CommitStopped, Rejected, Fail, RetryDue, Watch, ListCandidates, PickCandidate,
         Observe, ConfirmReady, ConfirmIdle, EnqueueRecovery, SandboxStarts, SandboxDies,
         WorkerDatabaseFails, MonitorDatabaseFails, Crash

LEMMA AskingStep ==
    ASSUME IInv, [Next]_vars
    PROVE  Asking'
  <1>a. TypeOK /\ Asking /\ inst \in [Instances -> Row] /\ api \in Request
    BY DEF IInv, ThreadsAgree, TypeOK
  <1>1. CASE api' = NoRequest
    BY <1>1 DEF NoRequest, Asking
  <1>2. ASSUME NEW i \in Instances, NEW kind \in {"ensure", "reconcile"} \cup StopKinds, NEW p,
               NEW renew \in BOOLEAN, Read(i, kind, p, renew),
               renew => kind = "ensure",
               kind = "ensure" /\ ~renew => p = inst[i].policy
        PROVE  Asking'
    <2>1. /\ api' = [step |-> "search", kind |-> kind, inst |-> i, policy |-> p, renew |-> renew,
                     state |-> inst[i].state, found |-> None]
          /\ inst[i].state # "absent" /\ UNCHANGED inst
      BY <1>2 DEF Read, database
    <2>2. kind # "none"
      BY DEF StopKinds
    <2>. QED  BY <1>2, <2>1, <2>2 DEF Asking, None
  <1>3. ASSUME NEW i \in Instances, NEW p \in Policies, Ensure(i, p)
        PROVE  Asking'
    <2>1. Renews(i, p) \in BOOLEAN /\ (~Renews(i, p) => p = inst[i].policy)
      BY DEF Renews
    <2>. QED  BY <1>2, <1>3, <2>1 DEF Ensure
  <1>4. ASSUME NEW i \in Instances, Reconcile(i) \/ \E kind \in StopKinds : RequestStop(i, kind)
        PROVE  Asking'
    <2>1. "ensure" \notin StopKinds
      BY DEF StopKinds
    <2>. QED  BY <1>2, <1>4, <2>1 DEF Reconcile, RequestStop
  <1>5. CASE Search
    <2>. DEFINE active == ActiveOps(api.inst, Peers(OpKind(api.kind)))
    <2>1. UNCHANGED <<inst, ops>> /\ api.step = "search"
      BY <1>5 DEF Search, database
    <2>2. \/ api' = NoRequest
          \/ active = {} /\ api' = [api EXCEPT !.step = "write"]
          \/ \E o \in active : Begins /\ api' = [api EXCEPT !.step = "write", !.found = o]
      BY <1>5 DEF Search
    <2>3. CASE active = {} /\ api' = [api EXCEPT !.step = "write"]
      <3>1. /\ api'.step = "write" /\ api'.kind = api.kind /\ api'.inst = api.inst
            /\ api'.policy = api.policy /\ api'.renew = api.renew /\ api'.found = api.found
        BY <1>a, <2>3 DEF Request
      <3>2. api.found = None
        BY <1>a, <2>1 DEF Asking
      <3>3. OpKind(api.kind) \in Peers(OpKind(api.kind))
        BY DEF Peers
      <3>4. ActiveOps(api.inst, {OpKind(api.kind)})' = {}
        BY <2>1, <2>3, <3>1, <3>3 DEF ActiveOps, Active
      <3>. QED  BY <1>a, <2>1, <3>1, <3>2, <3>4 DEF Asking, ActiveOps, Active
    <2>4. ASSUME NEW o \in active, Begins, api' = [api EXCEPT !.step = "write", !.found = o]
          PROVE  Asking'
      <3>1. /\ api'.step = "write" /\ api'.kind = api.kind /\ api'.inst = api.inst
            /\ api'.policy = api.policy /\ api'.renew = api.renew /\ api'.found = o
        BY <1>a, <2>4 DEF Request
      <3>2. OpKind(api.kind) = "provision"
        BY <1>a, <2>1, <2>4 DEF Asking, Begins, OpKind, StopKinds
      <3>3. /\ o \in DOMAIN ops /\ ops[o].inst = api.inst /\ ops[o].kind \in ProvisionKinds
            /\ o # None
        BY <1>a, <2>4, <3>2, LenProperties DEF ActiveOps, Peers, ProvisionKinds, TypeOK, None
      <3>4. Begins'
        BY <2>4, <3>1 DEF Begins
      <3>. QED  BY <1>a, <2>1, <3>1, <3>3, <3>4 DEF Asking
    <2>. QED  BY <1>1, <2>2, <2>3, <2>4
  <1>6. CASE UNCHANGED api /\ api.step # "idle" /\ ~Reads
    <2>1. ~Store /\ ~\E i \in Instances, p \in Policies : Create(i, p)
      <3>1. Store => api'.step = "idle"
        BY DEF Store, NoRequest
      <3>2. api'.step = api.step
        BY <1>6
      <3>3. (\E i \in Instances, p \in Policies : Create(i, p)) => api.step = "idle"
        BY DEF Create
      <3>. QED  BY <1>6, <3>1, <3>2, <3>3
    <2>2. PICK i \in Instances : i = api.inst
      BY <1>6, <1>a DEF Asking
    <2>3. inst[i].state # "absent"
      BY <1>6, <1>a, <2>2 DEF Asking
    <2>4. inst'[i].state # "absent"
      BY <2>3, Born
    <2>5. inst'[i].policy = inst[i].policy
      BY <2>1, RowSteps DEF Created, Asked, Requeued, Delivered, Cleared, GivenUp, Noted, Stays
    <2>6. ASSUME api.found # None
          PROVE  /\ api.found \in DOMAIN ops' /\ ops'[api.found].inst = i
                 /\ ops'[api.found].kind \in ProvisionKinds
      <3>1. /\ api.found \in DOMAIN ops /\ ops[api.found].inst = i
            /\ ops[api.found].kind \in ProvisionKinds
        BY <1>6, <1>a, <2>2, <2>6 DEF Asking
      <3>2. OpKept(api.found)
        BY <3>1, OpsKept
      <3>. QED  BY <3>1, <3>2 DEF OpKept
    <2>7. ASSUME api.step = "write", api.found = None
          PROVE  ActiveOps(i, {OpKind(api.kind)})' = {}
      <3>1. PICK kind \in Kinds \ {"recovery"} : kind = OpKind(api.kind)
        BY <1>6, <1>a, KindIs
      <3>2. ActiveOps(i, {kind}) = {}
        BY <1>6, <1>a, <2>2, <2>7, <3>1 DEF Asking
      <3>3. ~Adds(i, kind)
        BY <2>1 DEF Adds
      <3>4. ActiveOps(i, {kind})' = {}
        BY <3>2, <3>3, NoneAdded
      <3>5. OpKind(api'.kind) = kind
        BY <1>6, <3>1
      <3>. QED  BY <1>6, <3>1, <3>4, <3>5
    <2>8. Begins' = Begins
      BY <1>6 DEF Begins
    <2>9. UNCHANGED api
      BY <1>6
    <2>. QED  BY <1>6, <1>a, <2>2, <2>4, <2>5, <2>6, <2>7, <2>8 DEF Asking
  <1>7. CASE UNCHANGED api /\ api.step = "idle"
    BY <1>7 DEF Asking
  <1>. QED  BY <1>1, <1>3, <1>4, <1>5, <1>6, <1>7, OthersApi DEF Reads

LEMMA WatchingStep ==
    ASSUME IInv, [Next]_vars
    PROVE  Watching'
  <1>a. /\ TypeOK /\ Watching /\ monitor \in Rounds /\ inst \in [Instances -> Row]
        /\ monitor.left \subseteq Instances
    BY DEF IInv, ThreadsAgree, TypeOK, Rounds
  <1>1. ASSUME NEW i \in Instances, inst[i].state # "absent"
        PROVE  inst'[i].state # "absent"
    BY <1>1, Born
  <1>2. ASSUME NEW left \in SUBSET Instances, Continue(left),
               \A i \in left : inst[i].state # "absent"
        PROVE  Watching'
    <2>1. /\ monitor'.left \subseteq left
          /\ monitor'.step \in {"idle", "pick"}
      BY <1>2 DEF Continue, IdleMonitor
    <2>. QED  BY <1>1, <1>2, <2>1 DEF Watching
  <1>3. CASE ListCandidates
    <2>. DEFINE candidates == {i \in Instances : inst[i].state = "ready" /\ inst[i].sandbox # None}
    <2>1. Continue(candidates)
      BY <1>3 DEF ListCandidates
    <2>2. candidates \in SUBSET Instances /\ \A i \in candidates : inst[i].state # "absent"
      OBVIOUS
    <2>. HIDE DEF candidates
    <2>. QED  BY <1>2, <2>1, <2>2
  <1>4. CASE PickCandidate
    <2>1. PICK i \in monitor.left :
            \/ Continue(monitor.left \ {i})
            \/ monitor' = [step |-> "observe", left |-> monitor.left \ {i}, inst |-> i,
                           sandbox |-> inst[i].sandbox, url |-> None]
      BY <1>4 DEF PickCandidate
    <2>2. CASE Continue(monitor.left \ {i})
      BY <1>a, <1>2, <2>2 DEF Watching
    <2>3. CASE monitor' = [step |-> "observe", left |-> monitor.left \ {i}, inst |-> i,
                           sandbox |-> inst[i].sandbox, url |-> None]
      BY <1>a, <1>1, <2>3 DEF Watching
    <2>. QED  BY <2>1, <2>2, <2>3
  <1>5. CASE Observe \/ ConfirmReady \/ ConfirmIdle
    <2>1. /\ monitor.inst \in Instances /\ inst[monitor.inst].state # "absent"
          /\ UNCHANGED ops
      BY <1>a, <1>5 DEF Observe, ConfirmReady, ConfirmIdle, Watching, database
    <2>2. \/ Continue(monitor.left)
          \/ monitor' = [monitor EXCEPT !.step = "confirm"]
          \/ monitor' = [monitor EXCEPT !.step = "search", !.url = inst[monitor.inst].url]
          \/ monitor' = [monitor EXCEPT !.step = "insert"] /\ ActiveOps(monitor.inst, Kinds) = {}
      BY <1>5 DEF Observe, ConfirmReady, ConfirmIdle
    <2>3. CASE Continue(monitor.left)
      BY <1>a, <1>2, <2>3 DEF Watching
    <2>4. CASE ~Continue(monitor.left)
      <3>1. /\ monitor'.left = monitor.left /\ monitor'.inst = monitor.inst
            /\ monitor'.step = "insert" => ActiveOps(monitor.inst, Kinds) = {}
        BY <1>a, <2>2, <2>4 DEF Rounds
      <3>2. monitor'.step = "insert" => ActiveOps(monitor.inst, {"recovery"})' = {}
        BY <2>1, <3>1 DEF ActiveOps, Active, Kinds, ProvisionKinds
      <3>. QED  BY <1>a, <1>1, <2>1, <3>1, <3>2 DEF Watching
    <2>. QED  BY <2>3, <2>4
  <1>6. CASE EnqueueRecovery
    BY <1>a, <1>2, <1>6 DEF EnqueueRecovery, Watching
  <1>7. CASE UNCHANGED monitor /\ ~EnqueueRecovery
    <2>1. ASSUME monitor.step = "insert"
          PROVE  ActiveOps(monitor.inst, {"recovery"})' = {}
      <3>1. PICK i \in Instances : i = monitor.inst
        BY <1>a, <2>1 DEF Watching
      <3>2. ~Adds(i, "recovery")
        <4>1. Store => OpKind(api.kind) # "recovery"
          BY KindIs DEF Store, IInv, ThreadsAgree
        <4>. QED  BY <1>7, <4>1 DEF Adds
      <3>3. ActiveOps(i, {"recovery"}) = {}
        BY <1>a, <2>1, <3>1 DEF Watching
      <3>4. ActiveOps(i, {"recovery"})' = {}
        BY <3>2, <3>3, NoneAdded
      <3>. QED  BY <1>7, <3>1, <3>4
    <2>. QED  BY <1>a, <1>1, <1>7, <2>1 DEF Watching
  <1>8. CASE Crash \/ MonitorDatabaseFails
    BY <1>8 DEF Crash, MonitorDatabaseFails, IdleMonitor, Watching
  <1>9. CASE ~(Watch \/ Crash \/ MonitorDatabaseFails)
    <2>1. UNCHANGED monitor
      BY <1>9
         DEF Next, vars, Create, Ensure, Reconcile, RequestStop, Read, Search, Store, Execute,
             Claim, Load, ClearKey, GenerateKey, ReplaceSandbox, ForgetSandbox, InspectSandbox,
             DiscardSandbox, FindSandbox, CreateSandbox, RecordSandbox, WaitRunning, WaitBridge,
             ReplaceModels, SeeRow, CommitReady, DeleteSandbox, RevokeKey, CommitStopped, Rejected,
             Fail, RetryDue, SandboxStarts, SandboxDies, WorkerDatabaseFails
    <2>. QED  BY <1>7, <1>9, <2>1 DEF Watch
  <1>. QED  BY <1>3, <1>4, <1>5, <1>6, <1>8, <1>9 DEF Watch

LEMMA RootedStep ==
    ASSUME IInv, [Next]_vars
    PROVE  Rooted'
  <1>. SUFFICES ASSUME NEW o \in DOMAIN ops'
                PROVE  inst'[ops'[o].inst].state # "absent"
    BY DEF Rooted
  <1>a. Rooted /\ Asking /\ Watching /\ TypeOK /\ inst \in [Instances -> Row]
    BY DEF IInv, ThreadsAgree, TypeOK
  <1>1. CASE o \in DOMAIN ops
    <2>1. OpKept(o) /\ ops[o].inst \in Instances
      BY <1>1, <1>a, OpsKept, OpAt DEF OpRow
    <2>2. inst'[ops[o].inst].state # "absent"
      BY <1>1, <1>a, <2>1, Born DEF Rooted
    <2>. QED  BY <2>1, <2>2 DEF OpKept
  <1>2. CASE o \notin DOMAIN ops
    <2>1. PICK i \in Instances, kind \in Kinds : i = ops'[o].inst /\ Adds(i, kind)
      BY <1>2, OpsNew DEF Adds
    <2>2. CASE \E p \in Policies : Create(i, p)
      <3>1. PICK p \in Policies : Create(i, p)
        BY <2>2
      <3>2. inst'[i] = [inst[i] EXCEPT !.state = "provisioning", !.policy = p,
                                       !.cred = issued[i] + 1]
        BY <1>a, <3>1 DEF Create
      <3>3. inst'[i].state = "provisioning"
        BY <1>a, <3>2 DEF Row
      <3>. QED  BY <2>1, <3>3
    <2>3. CASE inst[i].state # "absent"
      BY <2>1, <2>3, Born
    <2>4. \/ \E p \in Policies : Create(i, p)
          \/ inst[i].state # "absent"
      BY <1>a, <2>1 DEF Adds, Asking, Watching, Store, EnqueueRecovery
    <2>. QED  BY <2>1, <2>2, <2>3, <2>4
  <1>. QED  BY <1>1, <1>2

------------------------------------------------------------------------------
(* The keys of stopped instances.                                            *)

LEMMA RevokedStep ==
    ASSUME IInv, [Next]_vars
    PROVE  StoppedIsRevoked'
  <1>. SUFFICES ASSUME NEW i \in Instances, inst'[i].state \in {"stopped", "destroyed"},
                       ActiveOps(i, ProvisionKinds)' = {}
                PROVE  key'[i] = NoKey
    BY DEF StoppedIsRevoked
  <1>a. TypeOK /\ Working /\ KeyFollows /\ key \in [Instances -> Key]
    BY DEF IInv, ThreadsAgree, TypeOK
  <1>1. CASE Cleared(i)
    <2>1. exec.step = "close" /\ Subject = i /\ UNCHANGED key
      BY <1>1 DEF Cleared, CommitStopped, upstream
    <2>. QED  BY <1>a, <2>1 DEF KeyFollows
  <1>2. CASE inst[i].state \in {"stopped", "destroyed"} /\ ~Delivered(i) /\ ~GivenUp(i) /\ ~Cleared(i)
    <2>1. ASSUME NEW o \in ActiveOps(i, ProvisionKinds)
          PROVE  FALSE
      <3>1. o \in DOMAIN ops /\ ops[o].inst = i /\ ops[o].kind \in ProvisionKinds
        BY DEF ActiveOps
      <3>2. Succeeds(o) \/ Fails(o)
        BY <2>1, ActiveKept
      <3>3. o = exec.op /\ Subject = i
        BY <3>1, <3>2 DEF Succeeds, Fails, Subject
      <3>4. ~CommitStopped
        BY <1>a, <3>1, <3>3 DEF CommitStopped, Working, StopSteps, StopKinds, ProvisionKinds
      <3>5. CASE CommitReady
        <4>1. inst'[i].state = Updated(exec.seen.state, "ready", inst[i].state)
          BY <1>a, <3>3, <3>5 DEF CommitReady, TypeOK, Row
        <4>2. inst[i].state \in {exec.seen.state, "provisioning", "stopping", "destroying"}
          BY <3>3, <3>5, SeenState DEF CommitReady
        <4>. QED  BY <1>2, <4>1, <4>2 DEF Updated
      <3>6. CASE Fails(o)
        <4>1. inst'[i].state = Updated(exec.seen.state, "failed", inst[i].state)
          BY <3>3, <3>6 DEF Fails
        <4>2. inst[i].state \in {exec.seen.state, "provisioning", "stopping", "destroying"}
          BY <3>3, <3>6, SeenState DEF Fails, Fail
        <4>. QED  BY <1>2, <4>1, <4>2 DEF Updated
      <3>. QED  BY <3>2, <3>4, <3>5, <3>6 DEF Succeeds
    <2>2. key[i] = NoKey
      BY <1>2, <2>1 DEF IInv, StoppedIsRevoked
    <2>3. CASE ClearKey \/ RevokeKey
      BY <1>a, <2>2, <2>3 DEF ClearKey, RevokeKey
    <2>4. CASE GenerateKey
      <3>1. exec.op \in ActiveOps(Subject, ProvisionKinds)
        BY <1>a, <2>4 DEF GenerateKey, Working, ActiveOps, Active, Subject, ProvisionSteps
      <3>2. Subject # i
        BY <2>1, <3>1
      <3>. QED  BY <1>a, <2>2, <2>4, <3>2 DEF GenerateKey
    <2>. QED  BY <2>2, <2>3, <2>4, OthersKey
  <1>. QED  BY <1>1, <1>2, Settles

------------------------------------------------------------------------------
(* The theorems.                                                             *)

LEMMA InitInv == Init => IInv
  <1>. SUFFICES ASSUME Init PROVE IInv
    OBVIOUS
  <1>1. TypeOK
    BY DEF Init, TypeOK, NoKey, NoRow, NoRequest, None, IdleExec, IdleMonitor, Row, States, Locals,
           Key, Steps, Request, Rounds
  <1>2. ThreadsAgree
    BY DEF Init, ThreadsAgree, Working, Loaded, KeyFollows, SeenHolds, Asking, Watching, Rooted,
           NoRequest, IdleExec, IdleMonitor, ProvisionSteps, StopSteps
  <1>3. OneActivePerKind /\ StoppedIsRevoked
    BY DEF Init, OneActivePerKind, StoppedIsRevoked
  <1>. QED  BY <1>1, <1>2, <1>3 DEF IInv

LEMMA NextInv == IInv /\ [Next]_vars => IInv'
  BY TypeStep, WorkingStep, LoadedStep, SeenStep, AskingStep, WatchingStep, RootedStep,
     OneActiveStep, RevokedStep
     DEF IInv, ThreadsAgree

\* The inductive invariant: types, agreement of the handler and the threads with the tables, one
\* active operation per kind, and no key for what is stopped, in every reachable state.
THEOREM Inductive == Spec => []IInv
  BY InitInv, NextInv, PTL DEF Spec

\* Every table, thread and upstream system keeps its type.
THEOREM TypeCorrect == Spec => []TypeOK
  BY Inductive, PTL DEF IInv

\* What the handler, the worker and the monitor have read stays true as far as they rely on it,
\* while each changes the tables between two steps of the others.
THEOREM SnapshotsHold == Spec => []ThreadsAgree
  BY Inductive, PTL DEF IInv

\* ensure, enqueue_instance_operation and the monitor never put a second operation of a kind
\* under way for an instance, although another thread may commit between their search and their
\* insert.
THEOREM Deduplicated == Spec => []OneActivePerKind
  BY Inductive, PTL DEF IInv

\* While an instance is stopped or destroyed and no provision of it is under way, it has no model
\* key.
THEOREM RevokedWhenStopped == Spec => []StoppedIsRevoked
  BY Inductive, PTL DEF IInv


------------------------------------------------------------------------------
(* How an instance comes to be in a transitional state with nothing under way *)
(* that ends it.                                                             *)

LEMMA StoreAdds ==
    ASSUME IInv, Store, api.found = None
    PROVE  Adds(api.inst, OpKind(api.kind))
  <1>1. Asking /\ TypeOK /\ api.step = "write"
    BY DEF IInv, ThreadsAgree, Store
  <1>. QED  BY <1>1, KindIs DEF Adds, Asking, Store

LEMMA NowOwed ==
    ASSUME IInv, [Next]_vars, NEW i, NEW kind, Adds(i, kind)
    PROVE  \A kinds : kind \in kinds => ActiveOps(i, kinds)' # {}
  <1>. DEFINE new == Len(ops) + 1
  <1>1. new \in DOMAIN ops' /\ ops'[new] = NewOp(i, kind)
    BY OpsGrow
  <1>2. ops'[new].inst = i /\ ops'[new].kind = kind /\ ops'[new].status = "pending"
    BY <1>1 DEF NewOp
  <1>. HIDE DEF new
  <1>. QED  BY <1>1, <1>2 DEF ActiveOps, Active

LEMMA AbandonedStep ==
    ASSUME IInv, [Next]_vars, NEW i \in Instances, Owing(i), ~Owing(i)'
    PROVE  inst'[i].state = "provisioning" /\ (LateRequest(i) \/ LateEnd(i))
  <1>a. TypeOK /\ Working /\ SeenHolds /\ Asking
    BY DEF IInv, ThreadsAgree
  <1>1. PICK kinds \in {ProvisionKinds, {"stop"}, {"destroy"}} :
            /\ inst'[i].state \in {"provisioning", "stopping", "destroying"}
            /\ ActiveOps(i, kinds)' = {}
            /\ inst'[i].state = "provisioning" => kinds = ProvisionKinds
            /\ inst'[i].state = "stopping" => kinds = {"stop"}
            /\ inst'[i].state = "destroying" => kinds = {"destroy"}
    BY DEF Owing
  <1>2. CASE inst'[i].state = inst[i].state
    <2>1. PICK o : o \in ActiveOps(i, kinds)
      BY <1>1, <1>2 DEF Owing
    <2>2. Succeeds(o) \/ Fails(o)
      BY <1>1, <2>1, ActiveKept
    <2>3. o \in DOMAIN ops /\ ops[o].kind \in kinds /\ o = exec.op /\ Subject = i
      BY <2>1, <2>2 DEF ActiveOps, Subject, Succeeds, Fails
    <2>4. /\ exec.seen # NoRow /\ exec.seen.state # inst[i].state
          /\ exec.step \in {"commit", "close", "fail"}
      <3>1. CASE CommitReady
        <4>1. inst'[i].state = Updated(exec.seen.state, "ready", inst[i].state)
          BY <1>a, <2>3, <3>1 DEF CommitReady, TypeOK, Row
        <4>. QED  BY <1>1, <1>2, <3>1, <4>1 DEF CommitReady, Updated
      <3>2. CASE CommitStopped
        <4>1. CASE Cleared(i)
          BY <1>1, <1>2, <3>2, <4>1 DEF Cleared, CommitStopped, Updated, StoppedState
        <4>2. exec.step = "close" /\ exec.seen # NoRow
          BY <3>2 DEF CommitStopped
        <4>. DEFINE stopped == StoppedState(ops[exec.op].kind)
        <4>3. inst'[i] = [inst[i] EXCEPT !.state = Updated(exec.seen.state, stopped, @),
                                         !.sandbox = None,
                                         !.url = Updated(exec.seen.url, None, @),
                                         !.cred = None]
          BY <1>a, <2>3, <3>2 DEF CommitStopped, TypeOK
        <4>4. inst'[i].state = Updated(exec.seen.state, stopped, inst[i].state)
          <5>1. inst[i] \in Row
            BY <1>a, RowAt
          <5>. HIDE DEF stopped
          <5>. QED  BY <4>3, <5>1 DEF Row
        <4>. QED  BY <1>1, <1>2, <4>2, <4>4 DEF Updated, StoppedState
      <3>3. CASE Fails(o)
        <4>1. inst'[i].state = Updated(exec.seen.state, "failed", inst[i].state)
          BY <2>3, <3>3 DEF Fails
        <4>. QED  BY <1>1, <1>2, <3>3, <4>1 DEF Fails, Fail, Updated
      <3>. QED  BY <2>2, <3>1, <3>2, <3>3 DEF Succeeds
    <2>5. \/ inst[i].state = "provisioning"
          \/ \E kind \in StopKinds \ {ops[o].kind} : inst[i].state = Begun(kind)
      BY <1>a, <2>3, <2>4 DEF SeenHolds
    <2>6. inst[i].state = "provisioning" /\ kinds = ProvisionKinds
      BY <1>1, <1>2, <2>3, <2>5 DEF Begun, StopKinds
    <2>7. exec.step # "close"
      BY <1>a, <2>3, <2>6 DEF Working, StopSteps, StopKinds, ProvisionKinds
    <2>8. LateEnd(i)
      BY <1>2, <2>3, <2>4, <2>7 DEF LateEnd
    <2>. QED  BY <1>2, <2>6, <2>8
  <1>3. CASE Created(i) /\ inst'[i].state # inst[i].state
    <2>1. PICK p \in Policies : Create(i, p)
      BY <1>3 DEF Created
    <2>2. inst[i].state = "absent" /\ ops' = Append(ops, NewOp(i, "provision"))
      BY <2>1 DEF Create
    <2>3. ActiveOps(i, {"provision"}) = {}
      BY <2>2 DEF IInv, ThreadsAgree, Rooted, ActiveOps
    <2>4. Adds(i, "provision")
      BY <2>1, <2>2, <2>3 DEF Adds, Kinds, ProvisionKinds
    <2>. QED  BY <1>1, <1>3, <2>4, NowOwed DEF Created, ProvisionKinds
  <1>4. CASE Requeued(i) /\ inst'[i].state # inst[i].state
    <2>1. Adds(i, "recovery")
      BY <1>4 DEF Requeued, EnqueueRecovery, Adds, IInv, ThreadsAgree, Watching, Kinds, ProvisionKinds
    <2>. QED  BY <1>1, <1>4, <2>1, NowOwed DEF Requeued, ProvisionKinds
  <1>5. CASE Asked(i) /\ inst'[i].state # inst[i].state
    <2>1. Store /\ i = api.inst /\ api.step = "write"
      BY <1>5 DEF Asked, Store
    <2>2. CASE api.found = None
      <3>1. Adds(i, OpKind(api.kind))
        BY <2>1, <2>2, StoreAdds
      <3>2. OpKind(api.kind) \in kinds
        <4>1. CASE inst'[i].state = "provisioning" /\ Begins
          BY <1>1, <1>a, <2>1, <4>1 DEF Begins, OpKind, Asking, StopKinds, ProvisionKinds
        <4>2. CASE inst'[i].state = Begun(api.kind) /\ api.kind \in StopKinds
          BY <1>1, <4>2 DEF Begun, OpKind, StopKinds
        <4>. QED  BY <1>5, <4>1, <4>2, AskedState
      <3>. QED  BY <1>1, <3>1, <3>2, NowOwed
    <2>3. CASE api.found # None
      <3>1. inst'[i].state = "provisioning" /\ kinds = ProvisionKinds
        BY <1>1, <1>5, <2>3, AskedState
      <3>2. /\ api.found \in DOMAIN ops /\ ops[api.found].inst = i
            /\ ops[api.found].kind \in ProvisionKinds
        BY <1>a, <2>1, <2>3 DEF Asking
      <3>3. api' = NoRequest /\ ops' = ops
        BY <2>1, <2>3 DEF Store
      <3>4. ~Active(api.found)
        BY <1>1, <3>1, <3>2, <3>3 DEF ActiveOps, Active
      <3>. QED  BY <2>1, <2>3, <3>1, <3>3, <3>4 DEF LateRequest
    <2>. QED  BY <2>2, <2>3
  <1>6. ~(Delivered(i) \/ Cleared(i) \/ GivenUp(i) \/ Noted(i)) \/ inst'[i].state = inst[i].state
    BY <1>1 DEF Delivered, Cleared, GivenUp, Noted, Updated, StoppedState
  <1>. QED  BY <1>2, <1>3, <1>4, <1>5, <1>6, RowSteps

\* Stops and destroys never leave an instance with nothing under way that ends its state, nor do
\* failures or crashes; a provision does in two races only, with a request or an end that rests on
\* what it read before.
THEOREM NeverAbandoned == Spec => AbandonedByRacesOnly
  <1>. DEFINE A == \A i \in Instances :
            Owing(i) /\ ~Owing(i)' =>
                inst'[i].state = "provisioning" /\ (LateRequest(i) \/ LateEnd(i))
  <1>1. IInv /\ [Next]_vars => A
    BY AbandonedStep
  <1>2. IInv /\ [Next]_vars => [A]_vars
    BY <1>1
  <1>3. []IInv /\ [][Next]_vars => [][A]_vars
    BY <1>2, PTL
  <1>. QED  BY <1>3, Inductive, PTL DEF Spec, AbandonedByRacesOnly

------------------------------------------------------------------------------
(* What a provision delivers, and what a ready instance therefore has.       *)
(*                                                                           *)
(* A provision may end with a sandbox it did not create: the recorded one,   *)
(* or any that OpenSandbox lists for the instance, left by a provision that  *)
(* crashed.  That it was made for the current policy is then nowhere         *)
(* compared; it follows because a credential generation has one policy       *)
(* (Generations), and the credentials are compared.                          *)

IsOf(s, i) == s \in DOMAIN boxes /\ boxes[s].inst = i

\* The sandbox recorded for an instance is one of its own.
OwnSandboxes ==
    \A i \in Instances : inst[i].sandbox # None => IsOf(inst[i].sandbox, i)

\* The steps of a provision that has chosen its sandbox.
SidSteps == {"record", "wait", "bridge", "models", "commit"}

\* The sandboxes the worker has at hand are its instance's own, and one that took the models
\* holds the credentials of the snapshot.
WorkerBoxes ==
    /\ exec.step \in ProvisionSteps /\ exec.sandbox # None => IsOf(exec.sandbox, Subject)
    /\ exec.step = "inspect" => exec.sandbox # None
    /\ exec.step \in SidSteps => IsOf(exec.sid, Subject)
    /\ exec.step = "commit" => /\ boxes[exec.sid].cred = exec.cred
                               /\ boxes[exec.sid].models = exec.policy

\* The row of the instance, the worker's snapshot of it or one of its sandboxes pairs the
\* generation with the policy.
Bears(i, c, p) ==
    \/ inst[i].cred = c /\ inst[i].policy = p
    \/ exec.step \in ProvisionSteps /\ Subject = i /\ exec.cred = c /\ exec.policy = p
    \/ \E s \in DOMAIN boxes : boxes[s].inst = i /\ boxes[s].cred = c /\ boxes[s].policy = p

\* A generation is paired with one policy wherever it appears, and no later one was drawn.
Generations ==
    \A i \in Instances, c \in Nat \ {None} :
        /\ \A p : Bears(i, c, p) => c <= issued[i]
        /\ \A p, q : Bears(i, c, p) /\ Bears(i, c, q) => p = q

\* ReadyIsConsistent, with the sandbox sessions are sent to among the instance's own.
ReadyHolds ==
    \A i \in Instances :
        inst[i].state = "ready" /\ ActiveOps(i, Kinds) = {} =>
            /\ IsOf(inst[i].url, i)
            /\ key[i] = [cred |-> boxes[inst[i].url].cred, policy |-> boxes[inst[i].url].policy]

DInv == OwnSandboxes /\ WorkerBoxes /\ Generations /\ ReadyHolds

------------------------------------------------------------------------------
(* Sandboxes keep what they were created with.                               *)

Kept(s) ==
    /\ s \in DOMAIN boxes'
    /\ boxes'[s].inst = boxes[s].inst
    /\ boxes'[s].cred = boxes[s].cred
    /\ boxes'[s].policy = boxes[s].policy

LEMMA BoxRewritten ==
    ASSUME TypeOK, NEW k, NEW box,
           boxes' = [boxes EXCEPT ![k] = box],
           k \in DOMAIN boxes => /\ box.inst = boxes[k].inst
                                 /\ box.cred = boxes[k].cred
                                 /\ box.policy = boxes[k].policy
    PROVE  DOMAIN boxes' = DOMAIN boxes /\ \A s \in DOMAIN boxes : Kept(s)
  BY DEF Kept

LEMMA StatusSet ==
    ASSUME TypeOK, NEW k, NEW status,
           boxes' = [boxes EXCEPT ![k].status = status]
    PROVE  /\ DOMAIN boxes' = DOMAIN boxes
           /\ \A s \in DOMAIN boxes : Kept(s) /\ boxes'[s].models = boxes[s].models
  <1>. DEFINE box == [boxes[k] EXCEPT !.status = status]
  <1>1. boxes' = [boxes EXCEPT ![k] = box]
    OBVIOUS
  <1>2. k \in DOMAIN boxes => /\ box.inst = boxes[k].inst /\ box.cred = boxes[k].cred
                              /\ box.policy = boxes[k].policy /\ box.models = boxes[k].models
    BY BoxAt DEF Box
  <1>. HIDE DEF box
  <1>. QED  BY <1>1, <1>2, BoxRewritten

\* Only CreateSandbox adds a sandbox, and only the worker changes the models of one.
LEMMA BoxesKept ==
    ASSUME IInv, [Next]_vars
    PROVE  /\ \A s \in DOMAIN boxes : Kept(s)
           /\ ~CreateSandbox => DOMAIN boxes' = DOMAIN boxes
           /\ ~Execute => \A s \in DOMAIN boxes : boxes'[s].models = boxes[s].models
  <1>a. TypeOK
    BY DEF IInv
  <1>1. CASE UNCHANGED boxes
    BY <1>1 DEF Kept
  <1>2. CASE CreateSandbox
    <2>. DEFINE box == [inst |-> Subject, cred |-> exec.cred, policy |-> exec.policy,
                        models |-> None, status |-> "starting"]
    <2>1. boxes' = Append(boxes, box)
      BY <1>2 DEF CreateSandbox
    <2>2. DOMAIN boxes \subseteq DOMAIN boxes' /\ \A s \in DOMAIN boxes : boxes'[s] = boxes[s]
      <3>. HIDE DEF box
      <3>1. boxes \in Seq(Box)
        BY <1>a DEF TypeOK
      <3>. QED  BY <2>1, <3>1
    <2>. QED  BY <1>2, <2>2 DEF Kept, Execute
  <1>3. CASE ReplaceModels
    <2>. DEFINE box == [boxes[exec.sid] EXCEPT !.models = exec.policy]
    <2>1. UNCHANGED boxes \/ boxes' = [boxes EXCEPT ![exec.sid] = box]
      BY <1>3 DEF ReplaceModels
    <2>2. exec.sid \in DOMAIN boxes => /\ box.inst = boxes[exec.sid].inst
                                       /\ box.cred = boxes[exec.sid].cred
                                       /\ box.policy = boxes[exec.sid].policy
      BY <1>a, BoxAt DEF Box
    <2>. HIDE DEF box
    <2>3. Execute
      BY <1>3 DEF Execute
    <2>. QED  BY <1>a, <1>1, <2>1, <2>2, <2>3, BoxRewritten
  <1>4. ASSUME NEW s, NEW status, boxes' = [boxes EXCEPT ![s].status = status]
        PROVE  /\ DOMAIN boxes' = DOMAIN boxes
               /\ \A k \in DOMAIN boxes : Kept(k) /\ boxes'[k].models = boxes[k].models
    BY <1>a, <1>4, StatusSet
  <1>5. CASE ReplaceSandbox \/ DiscardSandbox \/ DeleteSandbox
    BY <1>1, <1>4, <1>5 DEF ReplaceSandbox, DiscardSandbox, DeleteSandbox, Deleted
  <1>6. ASSUME NEW s \in DOMAIN boxes, SandboxStarts(s) \/ SandboxDies(s)
        PROVE  /\ DOMAIN boxes' = DOMAIN boxes
               /\ \A k \in DOMAIN boxes : Kept(k) /\ boxes'[k].models = boxes[k].models
    BY <1>4, <1>6 DEF SandboxStarts, SandboxDies
  <1>7. CASE Next /\ ~UNCHANGED boxes
    <2>1. \/ CreateSandbox \/ ReplaceModels
          \/ ReplaceSandbox \/ DiscardSandbox \/ DeleteSandbox
          \/ \E s \in DOMAIN boxes : SandboxStarts(s) \/ SandboxDies(s)
      BY <1>7
         DEF Next, Create, Ensure, Reconcile, RequestStop, Read, Search, Store, Execute, Claim, Load,
             ClearKey, GenerateKey, ForgetSandbox, InspectSandbox, FindSandbox, RecordSandbox,
             WaitRunning, WaitBridge, SeeRow, CommitReady, RevokeKey, CommitStopped, Rejected, Fail,
             RetryDue, Watch, ListCandidates, PickCandidate, Observe, ConfirmReady, ConfirmIdle,
             EnqueueRecovery, WorkerDatabaseFails, MonitorDatabaseFails, Crash, upstream
    <2>. QED  BY <1>2, <1>3, <1>5, <1>6, <2>1
  <1>. QED  BY <1>1, <1>7 DEF vars

------------------------------------------------------------------------------
(* The sandbox a provision has at hand.                                      *)

\* Where the sandbox a provision has at hand comes from.
Chosen ==
    \/ exec'.step \notin SidSteps
    \/ exec.step \in SidSteps /\ exec'.sid = exec.sid
    \/ exec.step = "inspect" /\ exec'.sid = exec.sandbox
    \/ IsOf(exec'.sid, Subject)
    \/ CreateSandbox /\ exec'.sid = Len(boxes) + 1

\* A provision goes on with its snapshot.
Goes ==
    /\ exec.step \in ProvisionSteps
    /\ exec'.op = exec.op /\ exec'.sandbox = exec.sandbox
    /\ exec'.cred = exec.cred /\ exec'.policy = exec.policy
    /\ exec'.step = "inspect" => exec.sandbox # None
    /\ exec'.step = "commit" =>
            /\ exec'.sid = exec.sid
            /\ \/ exec.step = "commit" /\ UNCHANGED boxes
               \/ /\ ReplaceModels
                  /\ boxes[exec.sid].cred = exec.cred
                  /\ boxes' = [boxes EXCEPT ![exec.sid].models = exec.policy]
    /\ Chosen

\* A provision takes its snapshot.
Loads ==
    /\ exec.step \notin {"idle", "ended"}
    /\ exec'.step = "clear_key" /\ exec'.op = exec.op
    /\ exec'.sandbox = inst[Subject].sandbox
    /\ exec'.cred = inst[Subject].cred /\ exec'.policy = inst[Subject].policy

LEMMA WorkerSteps ==
    ASSUME IInv, Execute
    PROVE  exec'.step \notin ProvisionSteps \/ Loads \/ Goes
  <1>a. exec \in Locals
    BY DEF IInv, TypeOK
  <1>1. ASSUME NEW retryable, Raise(retryable)
        PROVE  exec'.step \notin ProvisionSteps
    BY <1>a, <1>1 DEF Raise, Locals, ProvisionSteps
  <1>2. ASSUME NEW step, exec' = [exec EXCEPT !.step = step]
        PROVE  /\ exec'.op = exec.op /\ exec'.sandbox = exec.sandbox
               /\ exec'.cred = exec.cred /\ exec'.policy = exec.policy
               /\ exec'.sid = exec.sid /\ exec'.step = step
    BY <1>a, <1>2 DEF Locals
  <1>3. ASSUME NEW step, NEW sid, exec' = [exec EXCEPT !.sid = sid, !.step = step]
        PROVE  /\ exec'.op = exec.op /\ exec'.sandbox = exec.sandbox
               /\ exec'.cred = exec.cred /\ exec'.policy = exec.policy
               /\ exec'.sid = sid /\ exec'.step = step
    BY <1>a, <1>3 DEF Locals
  <1>4. CASE Claim \/ CommitReady \/ CommitStopped \/ Fail \/ Rejected
    <2>1. CASE Claim
      <3>1. exec'.step = "load"
        BY <2>1 DEF Claim, IdleExec
      <3>. QED  BY <3>1 DEF ProvisionSteps
    <2>2. CASE CommitReady \/ CommitStopped \/ Fail
      <3>1. exec'.step = "idle"
        BY <2>2 DEF CommitReady, CommitStopped, Fail, IdleExec
      <3>. QED  BY <3>1 DEF ProvisionSteps
    <2>3. CASE Rejected
      BY <1>1, <2>3 DEF Rejected
    <2>. QED  BY <1>4, <2>1, <2>2, <2>3
  <1>5. CASE Load
    <2>1. CASE Raise(FALSE)
      BY <1>1, <2>1
    <2>2. CASE ~Raise(FALSE)
      <3>. DEFINE row == inst[Subject]
                  step == IF ops[exec.op].kind \in ProvisionKinds THEN "clear_key"
                          ELSE FirstStopStep(row)
      <3>1. exec' = [exec EXCEPT !.sandbox = row.sandbox, !.cred = row.cred,
                                 !.policy = row.policy, !.step = step]
        BY <1>5, <2>2 DEF Load
      <3>2. step = "clear_key" \/ step \notin ProvisionSteps
        BY DEF FirstStopStep, ProvisionSteps
      <3>. HIDE DEF step, row
      <3>3. /\ exec'.op = exec.op /\ exec'.sandbox = row.sandbox /\ exec'.cred = row.cred
            /\ exec'.policy = row.policy /\ exec'.step = step
        BY <1>a, <3>1 DEF Locals
      <3>. QED  BY <1>5, <3>2, <3>3 DEF Load, Loads, row
    <2>. QED  BY <2>1, <2>2
  <1>6. CASE ClearKey \/ GenerateKey
    <2>1. /\ exec.step \in {"clear_key", "generate_key"}
          /\ \/ Raise(TRUE)
             \/ \E step \in {"generate_key", "replace", "create", "inspect", "find"} :
                    /\ exec' = [exec EXCEPT !.step = step]
                    /\ step = "inspect" => exec.sandbox # None
      BY <1>6 DEF ClearKey, GenerateKey, Answered
    <2>2. CASE Raise(TRUE)
      BY <1>1, <2>2
    <2>3. CASE ~Raise(TRUE)
      <3>1. PICK step \in {"generate_key", "replace", "create", "inspect", "find"} :
                    /\ exec' = [exec EXCEPT !.step = step]
                    /\ step = "inspect" => exec.sandbox # None
        BY <2>1, <2>3
      <3>2. exec'.step = step
        BY <1>2, <3>1
      <3>. QED  BY <1>2, <2>1, <3>1, <3>2 DEF Goes, Chosen, SidSteps, ProvisionSteps
    <2>. QED  BY <2>2, <2>3
  <1>7. CASE DeleteSandbox \/ RevokeKey
    BY <1>1, <1>2, <1>7 DEF DeleteSandbox, RevokeKey, Answered, ProvisionSteps
  <1>8. CASE ReplaceSandbox \/ ForgetSandbox \/ DiscardSandbox
    <2>1. /\ exec.step \in {"replace", "forget", "discard"}
          /\ \/ \E retryable : Raise(retryable)
             \/ \E step \in {"forget", "create"} : exec' = [exec EXCEPT !.step = step]
      BY <1>8 DEF ReplaceSandbox, ForgetSandbox, DiscardSandbox, Answered, Goto
    <2>. QED  BY <1>1, <1>2, <2>1 DEF Goes, Chosen, SidSteps, ProvisionSteps
  <1>9. CASE InspectSandbox
    <2>1. exec.step = "inspect"
      BY <1>9 DEF InspectSandbox
    <2>2. ASSUME NEW sid, exec' = [exec EXCEPT !.sid = sid, !.step = "wait"],
                 sid = exec.sandbox
          PROVE  Goes
      <3>1. exec'.sid = sid /\ exec'.step = "wait"
        BY <1>3, <2>2
      <3>2. Chosen
        BY <1>9, <2>1, <2>2, <3>1 DEF Chosen
      <3>. QED  BY <1>3, <2>1, <2>2, <3>1, <3>2 DEF Goes, ProvisionSteps
    <2>3. ASSUME NEW step \in {"create", "discard"}, Goto(step)
          PROVE  Goes
      BY <1>2, <2>1, <2>3 DEF Goto, Goes, Chosen, SidSteps, ProvisionSteps
    <2>. QED  BY <1>1, <1>9, <2>2, <2>3 DEF InspectSandbox
  <1>10. CASE FindSandbox
    <2>1. exec.step = "find"
      BY <1>10 DEF FindSandbox
    <2>2. ASSUME NEW sid, exec' = [exec EXCEPT !.sid = sid, !.step = "wait"],
                 IsOf(sid, Subject)
          PROVE  Goes
      <3>1. exec'.sid = sid /\ exec'.step = "wait"
        BY <1>3, <2>2
      <3>2. Chosen
        BY <1>10, <2>1, <2>2, <3>1 DEF Chosen
      <3>. QED  BY <1>3, <2>1, <2>2, <3>1, <3>2 DEF Goes, ProvisionSteps
    <2>3. ASSUME Goto("create")
          PROVE  Goes
      BY <1>2, <2>1, <2>3 DEF Goto, Goes, Chosen, SidSteps, ProvisionSteps
    <2>. QED  BY <1>1, <1>10, <2>2, <2>3 DEF FindSandbox, IsOf
  <1>11. CASE CreateSandbox
    <2>1. exec.step = "create"
      BY <1>11 DEF CreateSandbox
    <2>2. ASSUME NEW sid, exec' = [exec EXCEPT !.sid = sid, !.step = "record"],
                 sid = Len(boxes) + 1
          PROVE  Goes
      <3>1. exec'.sid = sid /\ exec'.step = "record"
        BY <1>3, <2>2
      <3>2. Chosen
        BY <1>11, <2>1, <2>2, <3>1 DEF Chosen
      <3>. QED  BY <1>3, <2>1, <2>2, <3>1, <3>2 DEF Goes, ProvisionSteps
    <2>3. CASE Raise(TRUE)
      BY <1>1, <2>3
    <2>. QED  BY <1>1, <1>11, <2>2, <2>3 DEF CreateSandbox, Answered
  <1>12. CASE RecordSandbox \/ WaitRunning \/ WaitBridge
    <2>1. /\ exec.step \in {"record", "wait", "bridge"}
          /\ \/ \E retryable : Raise(retryable)
             \/ \E step \in {"wait", "bridge", "models"} : exec' = [exec EXCEPT !.step = step]
      BY <1>12 DEF RecordSandbox, WaitRunning, WaitBridge, Goto
    <2>. QED  BY <1>1, <1>2, <2>1 DEF Goes, Chosen, SidSteps, ProvisionSteps
  <1>13. CASE ReplaceModels
    <2>1. /\ exec.step = "models"
          /\ \/ \E retryable : Raise(retryable)
             \/ /\ exec' = [exec EXCEPT !.step = "commit"]
                /\ boxes[exec.sid].cred = exec.cred
                /\ boxes' = [boxes EXCEPT ![exec.sid].models = exec.policy]
      BY <1>13 DEF ReplaceModels, Answered
    <2>. QED  BY <1>1, <1>2, <1>13, <2>1 DEF Goes, Chosen, SidSteps, ProvisionSteps
  <1>14. CASE SeeRow
    <2>1. CASE exec.step = "commit"
      BY <1>14, <2>1, SeeExec DEF IInv, Goes, Chosen, SidSteps, ProvisionSteps, SeeRow, upstream
    <2>2. CASE exec.step # "commit"
      BY <1>14, <2>2, SeeExec DEF IInv, ProvisionSteps
    <2>. QED  BY <2>1, <2>2
  <1>. QED
    BY <1>4, <1>5, <1>6, <1>7, <1>8, <1>9, <1>10, <1>11, <1>12, <1>13, <1>14 DEF Execute

------------------------------------------------------------------------------
(* The invariant, part by part.                                              *)

LEMMA OwnStep ==
    ASSUME IInv, DInv, [Next]_vars
    PROVE  OwnSandboxes'
  <1>. SUFFICES ASSUME NEW i \in Instances, inst'[i].sandbox # None
                PROVE  inst'[i].sandbox \in DOMAIN boxes' /\ boxes'[inst'[i].sandbox].inst = i
    BY DEF OwnSandboxes, IsOf
  <1>a. \A s \in DOMAIN boxes : Kept(s)
    BY BoxesKept
  <1>1. CASE inst'[i].sandbox = inst[i].sandbox
    <2>1. IsOf(inst[i].sandbox, i)
      BY <1>1 DEF DInv, OwnSandboxes
    <2>. QED  BY <1>a, <1>1, <2>1 DEF IsOf, Kept
  <1>2. CASE RecordSandbox /\ Subject = i /\ inst'[i].sandbox = exec.sid
    <2>1. IsOf(exec.sid, i)
      BY <1>2 DEF RecordSandbox, DInv, WorkerBoxes, SidSteps
    <2>. QED  BY <1>a, <1>2, <2>1 DEF IsOf, Kept
  <1>3. \/ inst'[i].sandbox = inst[i].sandbox
        \/ RecordSandbox /\ Subject = i /\ inst'[i].sandbox = exec.sid
    BY RowSteps DEF Created, Asked, Requeued, Delivered, Cleared, GivenUp, Noted, Stays, Draws
  <1>. QED  BY <1>1, <1>2, <1>3

\* A sandbox that is created is the instance's own.
LEMMA BoxCreated ==
    ASSUME IInv, CreateSandbox
    PROVE  /\ Len(boxes) + 1 \in DOMAIN boxes'
           /\ DOMAIN boxes' = DOMAIN boxes \cup {Len(boxes) + 1}
           /\ boxes'[Len(boxes) + 1].inst = Subject
           /\ boxes'[Len(boxes) + 1].cred = exec.cred
           /\ boxes'[Len(boxes) + 1].policy = exec.policy
  <1>. DEFINE box == [inst |-> Subject, cred |-> exec.cred, policy |-> exec.policy,
                      models |-> None, status |-> "starting"]
  <1>1. boxes' = Append(boxes, box) /\ boxes \in Seq(Box)
    BY DEF CreateSandbox, IInv, TypeOK
  <1>2. box.inst = Subject /\ box.cred = exec.cred /\ box.policy = exec.policy
    OBVIOUS
  <1>. HIDE DEF box
  <1>3. /\ DOMAIN boxes' = DOMAIN boxes \cup {Len(boxes) + 1}
        /\ boxes'[Len(boxes) + 1] = box
    BY <1>1
  <1>. QED  BY <1>2, <1>3

\* No one but the worker moves it on in a provision.
LEMMA OthersLeave ==
    ASSUME IInv, [Next]_vars, ~Execute
    PROVE  UNCHANGED exec \/ exec'.step \notin ProvisionSteps
  BY OthersExec DEF IInv, ProvisionSteps

LEMMA WorkerBoxStep ==
    ASSUME IInv, DInv, [Next]_vars
    PROVE  WorkerBoxes'
  <1>a. OwnSandboxes /\ WorkerBoxes /\ Working
    BY DEF DInv, IInv, ThreadsAgree
  <1>b. \A s \in DOMAIN boxes : Kept(s)
    BY BoxesKept
  <1>1. CASE exec'.step \notin ProvisionSteps
    BY <1>1 DEF WorkerBoxes, SidSteps, ProvisionSteps
  <1>2. CASE Loads
    <2>1. Subject' = Subject /\ Subject \in Instances
      BY <1>2, SubjectKept DEF Loads
    <2>2. exec'.sandbox # None => IsOf(exec'.sandbox, Subject)
      BY <1>a, <1>2, <2>1 DEF Loads, OwnSandboxes
    <2>. QED  BY <1>2, <1>b, <2>1, <2>2 DEF Loads, WorkerBoxes, IsOf, Kept, SidSteps
  <1>3. CASE Goes
    <2>1. Subject' = Subject
      BY <1>3, SubjectKept DEF Goes, ProvisionSteps
    <2>2. exec'.sandbox # None => IsOf(exec'.sandbox, Subject)
      BY <1>a, <1>3 DEF Goes, WorkerBoxes
    <2>3. exec'.step \in SidSteps => exec'.sid \in DOMAIN boxes' /\ boxes'[exec'.sid].inst = Subject
      <3>1. CASE CreateSandbox /\ exec'.sid = Len(boxes) + 1
        BY <3>1, BoxCreated
      <3>2. CASE IsOf(exec'.sid, Subject)
        BY <1>b, <3>2 DEF IsOf, Kept
      <3>3. CASE exec.step \in SidSteps /\ exec'.sid = exec.sid
        BY <1>a, <3>2, <3>3 DEF WorkerBoxes
      <3>4. CASE exec.step = "inspect" /\ exec'.sid = exec.sandbox
        BY <1>a, <3>2, <3>4 DEF WorkerBoxes, ProvisionSteps
      <3>. QED  BY <1>3, <3>1, <3>2, <3>3, <3>4 DEF Goes, Chosen
    <2>4. exec'.step = "commit" => /\ boxes'[exec'.sid].cred = exec'.cred
                                   /\ boxes'[exec'.sid].models = exec'.policy
      <3>. SUFFICES ASSUME exec'.step = "commit"
                    PROVE  /\ boxes'[exec.sid].cred = exec.cred
                           /\ boxes'[exec.sid].models = exec.policy
        BY <1>3 DEF Goes
      <3>0. CASE exec.step = "commit" /\ UNCHANGED boxes
        BY <1>a, <3>0 DEF WorkerBoxes
      <3>. SUFFICES ASSUME ~(exec.step = "commit" /\ UNCHANGED boxes)
                    PROVE  /\ boxes'[exec.sid].cred = exec.cred
                           /\ boxes'[exec.sid].models = exec.policy
        BY <3>0
      <3>1. /\ boxes[exec.sid].cred = exec.cred
            /\ boxes' = [boxes EXCEPT ![exec.sid].models = exec.policy]
            /\ exec.step = "models"
        BY <1>3 DEF Goes, ReplaceModels
      <3>2. exec.sid \in DOMAIN boxes /\ boxes[exec.sid] \in Box
        BY <1>a, <3>1, BoxAt DEF WorkerBoxes, IsOf, SidSteps, IInv
      <3>. QED  BY <3>1, <3>2 DEF Box
    <2>. QED  BY <1>3, <1>b, <2>1, <2>2, <2>3, <2>4 DEF Goes, WorkerBoxes, IsOf, Kept
  <1>4. CASE ~Execute /\ UNCHANGED exec
    <2>1. exec.step \notin {"idle", "ended"} => Subject' = Subject
      BY <1>4, SubjectKept
    <2>2. \A s \in DOMAIN boxes : boxes'[s].models = boxes[s].models
      BY <1>4, BoxesKept
    <2>. QED  BY <1>a, <1>b, <1>4, <2>1, <2>2
              DEF WorkerBoxes, IsOf, Kept, SidSteps, ProvisionSteps
  <1>. QED  BY <1>1, <1>2, <1>3, <1>4, WorkerSteps, OthersLeave

\* Only an ensure pairs a generation with a policy anew, and it draws the generation for it.
LEMMA BearersKept ==
    ASSUME IInv, [Next]_vars, NEW i \in Instances, NEW c \in Nat \ {None}, NEW p,
           Bears(i, c, p)'
    PROVE  \/ Bears(i, c, p)
           \/ Renewed(i) /\ c = issued[i] + 1 /\ p = inst'[i].policy
  <1>a. \A s \in DOMAIN boxes : Kept(s)
    BY BoxesKept
  <1>1. CASE inst'[i].cred = c /\ inst'[i].policy = p
    <2>1. CASE Renewed(i)
      BY <1>1, <2>1 DEF Renewed, Draws
    <2>2. CASE inst'[i].cred = inst[i].cred /\ inst'[i].policy = inst[i].policy
      BY <1>1, <2>2 DEF Bears
    <2>3. ~Cleared(i)
      BY <1>1 DEF Cleared
    <2>. QED  BY <2>1, <2>2, <2>3, RowSteps
              DEF Created, Asked, Renewed, Requeued, Delivered, GivenUp, Noted, Stays
  <1>2. CASE exec'.step \in ProvisionSteps /\ Subject' = i /\ exec'.cred = c /\ exec'.policy = p
    <2>1. CASE Loads
      <3>1. Subject = i
        BY <1>2, <2>1, SubjectKept DEF Loads
      <3>. QED  BY <1>2, <2>1, <3>1 DEF Loads, Bears
    <2>2. CASE Goes
      <3>1. Subject = i
        BY <1>2, <2>2, SubjectKept DEF Goes, ProvisionSteps
      <3>. QED  BY <1>2, <2>2, <3>1 DEF Goes, Bears
    <2>3. CASE UNCHANGED exec
      <3>1. Subject = i
        BY <1>2, <2>3, SubjectKept DEF ProvisionSteps
      <3>. QED  BY <1>2, <2>3, <3>1 DEF Bears
    <2>. QED  BY <1>2, <2>1, <2>2, <2>3, WorkerSteps, OthersLeave
  <1>3. ASSUME NEW s \in DOMAIN boxes', boxes'[s].inst = i, boxes'[s].cred = c,
               boxes'[s].policy = p
        PROVE  Bears(i, c, p)
    <2>1. CASE s \in DOMAIN boxes
      BY <1>a, <1>3, <2>1 DEF Kept, Bears
    <2>2. CASE s \notin DOMAIN boxes
      <3>1. CreateSandbox /\ s = Len(boxes) + 1
        BY <1>3, <2>2, BoxesKept, BoxCreated
      <3>2. exec.step = "create" /\ Subject = i /\ exec.cred = c /\ exec.policy = p
        BY <1>3, <3>1, BoxCreated DEF CreateSandbox
      <3>. QED  BY <3>2 DEF Bears, ProvisionSteps
    <2>. QED  BY <2>1, <2>2
  <1>. QED  BY <1>1, <1>2, <1>3 DEF Bears

LEMMA GenerationStep ==
    ASSUME IInv, DInv, [Next]_vars
    PROVE  Generations'
  <1>. SUFFICES ASSUME NEW i \in Instances, NEW c \in Nat \ {None}
                PROVE  /\ \A p : Bears(i, c, p)' => c <= issued'[i]
                       /\ \A p, q : Bears(i, c, p)' /\ Bears(i, c, q)' => p = q
    BY DEF Generations
  <1>1. /\ \A p : Bears(i, c, p) => c <= issued[i]
        /\ \A p, q : Bears(i, c, p) /\ Bears(i, c, q) => p = q
    BY DEF DInv, Generations
  <1>2. issued[i] \in Nat /\ (issued'[i] = issued[i] \/ Renewed(i))
    BY RowSteps DEF IInv, TypeOK
  <1>3. \A p : Bears(i, c, p)' => \/ Bears(i, c, p)
                                  \/ Renewed(i) /\ c = issued[i] + 1 /\ p = inst'[i].policy
    <2>. TAKE p
    <2>. HAVE Bears(i, c, p)'
    <2>. QED  BY BearersKept
  <1>4. c = issued[i] + 1 => ~ c <= issued[i]
    BY <1>2
  <1>5. \A p : Bears(i, c, p)' => c <= issued'[i]
    BY <1>1, <1>2, <1>3 DEF Renewed, Draws
  <1>6. \A p, q : Bears(i, c, p)' /\ Bears(i, c, q)' => p = q
    BY <1>1, <1>3, <1>4
  <1>. QED  BY <1>5, <1>6

\* The sandbox of a provision that is about to end has the credentials and the policy of its
\* snapshot, and so has the key.
LEMMA CommitDelivers ==
    ASSUME IInv, DInv, CommitReady
    PROVE  /\ exec.op \in DOMAIN ops /\ Subject \in Instances /\ IsOf(exec.sid, Subject)
           /\ boxes[exec.sid].cred = exec.cred /\ boxes[exec.sid].policy = exec.policy
           /\ boxes[exec.sid].models = exec.policy
           /\ key[Subject] = [cred |-> exec.cred, policy |-> exec.policy]
  <1>1. exec.step = "commit" /\ exec.step \in ProvisionSteps /\ exec.step \in SidSteps
    BY DEF CommitReady, ProvisionSteps, SidSteps
  <1>2. exec.op \in DOMAIN ops /\ Subject \in Instances
    BY <1>1, OpAt DEF IInv, ThreadsAgree, Working, Subject, OpRow
  <1>3. /\ IsOf(exec.sid, Subject) /\ boxes[exec.sid].cred = exec.cred
        /\ boxes[exec.sid].models = exec.policy
    BY <1>1 DEF DInv, WorkerBoxes
  <1>4. exec.cred \in Nat \ {None} /\ key[Subject] = [cred |-> exec.cred, policy |-> exec.policy]
    BY <1>1 DEF IInv, ThreadsAgree, Loaded, KeyFollows, TypeOK, Locals
  <1>5. Bears(Subject, exec.cred, exec.policy)
    BY <1>1 DEF Bears
  <1>6. Bears(Subject, exec.cred, boxes[exec.sid].policy)
    BY <1>3 DEF Bears, IsOf
  <1>7. boxes[exec.sid].policy = exec.policy
    BY <1>2, <1>4, <1>5, <1>6 DEF DInv, Generations
  <1>. QED  BY <1>2, <1>3, <1>4, <1>7

\* The key of an instance changes only in an operation that is under way for it.
LEMMA KeyKept ==
    ASSUME IInv, [Next]_vars, NEW i \in Instances, ActiveOps(i, Kinds) = {}
    PROVE  key'[i] = key[i]
  <1>1. CASE ClearKey \/ GenerateKey \/ RevokeKey
    <2>1. exec.op \in DOMAIN ops /\ ops[exec.op] \in OpRow /\ Active(exec.op)
      BY <1>1, OpAt DEF ClearKey, GenerateKey, RevokeKey, IInv, ThreadsAgree, Working, Active
    <2>2. Subject # i
      BY <2>1 DEF ActiveOps, Subject, OpRow
    <2>. QED  BY <1>1, <2>2 DEF ClearKey, GenerateKey, RevokeKey, IInv, TypeOK
  <1>2. CASE ~(ClearKey \/ GenerateKey \/ RevokeKey)
    BY <1>2, OthersKey
  <1>. QED  BY <1>1, <1>2

\* The last provision of an instance that ends leaves the url of its sandbox: only a recovery
\* could have cleared what it has read.
LEMMA CommitUrl ==
    ASSUME IInv, [Next]_vars, NEW i \in Instances, ActiveOps(i, Kinds)' = {},
           CommitReady, Subject = i
    PROVE  inst'[i].url = exec.sid
  <1>a. inst \in [Instances -> Row] /\ inst[i] \in Row
    BY RowAt DEF IInv, TypeOK
  <1>1. inst'[i].url = Updated(exec.seen.url, exec.sid, inst[i].url)
    BY <1>a DEF CommitReady, Row
  <1>2. CASE inst[i].url = exec.seen.url
    BY <1>1, <1>2 DEF Updated
  <1>3. CASE inst[i].url # exec.seen.url
    <2>1. PICK o \in ActiveOps(i, {"recovery"}) : o # exec.op
      BY <1>3 DEF IInv, ThreadsAgree, SeenHolds, CommitReady
    <2>2. o \in ActiveOps(i, Kinds)
      BY DEF ActiveOps, Kinds, ProvisionKinds
    <2>3. ~Succeeds(o) /\ ~Fails(o)
      BY <2>1 DEF Succeeds, Fails
    <2>. QED  BY <2>2, <2>3, ActiveKept
  <1>. QED  BY <1>2, <1>3

LEMMA ReadyStep ==
    ASSUME IInv, DInv, [Next]_vars
    PROVE  ReadyHolds'
  <1>. SUFFICES ASSUME NEW i \in Instances,
                       inst'[i].state = "ready", ActiveOps(i, Kinds)' = {}
                PROVE  /\ inst'[i].url \in DOMAIN boxes' /\ boxes'[inst'[i].url].inst = i
                       /\ key'[i] = [cred |-> boxes'[inst'[i].url].cred,
                                     policy |-> boxes'[inst'[i].url].policy]
    BY DEF ReadyHolds, IsOf
  <1>a. inst \in [Instances -> Row] /\ inst[i] \in Row
    BY RowAt DEF IInv, TypeOK
  <1>1. CASE CommitReady /\ Subject = i
    <2>1. inst'[i].url = exec.sid
      BY <1>1, CommitUrl
    <2>2. UNCHANGED <<boxes, key>>
      BY <1>1 DEF CommitReady, upstream
    <2>. QED  BY <1>1, <2>1, <2>2, CommitDelivers DEF IsOf
  <1>2. CASE ~(CommitReady /\ Subject = i)
    <2>1. inst[i].state = "ready" /\ ~Cleared(i) /\ ~GivenUp(i)
      BY <1>2, Settles DEF Delivered
    <2>a. inst'[i].url = inst[i].url
      BY <1>2, <2>1, RowSteps DEF Created, Asked, Requeued, Delivered, Noted
    <2>2. ASSUME NEW o \in ActiveOps(i, Kinds)
          PROVE  FALSE
      <3>1. Succeeds(o) \/ Fails(o)
        BY <2>2, ActiveKept
      <3>2. Subject = i
        BY <3>1 DEF Succeeds, Fails, Subject, ActiveOps
      <3>3. CASE Fails(o)
        <4>1. inst'[i].state = Updated(exec.seen.state, "failed", inst[i].state)
          BY <3>2, <3>3 DEF Fails
        <4>2. inst[i].state \in {exec.seen.state, "provisioning", "stopping", "destroying"}
          BY <3>2, <3>3, SeenState DEF Fails, Fail
        <4>. QED  BY <2>1, <4>1, <4>2 DEF Updated
      <3>4. CASE CommitStopped
        <4>. DEFINE stopped == StoppedState(ops[exec.op].kind)
        <4>1. inst'[i] = [inst[i] EXCEPT !.state = Updated(exec.seen.state, stopped, @),
                                         !.sandbox = None,
                                         !.url = Updated(exec.seen.url, None, @),
                                         !.cred = None]
          BY <1>a, <3>2, <3>4 DEF CommitStopped
        <4>2. inst'[i].state = Updated(exec.seen.state, stopped, inst[i].state)
          <5>. HIDE DEF stopped
          <5>. QED  BY <1>a, <4>1 DEF Row
        <4>3. inst[i].state \in {exec.seen.state, "provisioning", "stopping", "destroying"}
          BY <3>2, <3>4, SeenState DEF CommitStopped
        <4>. QED  BY <2>1, <4>2, <4>3 DEF Updated, StoppedState
      <3>. QED  BY <1>2, <3>1, <3>2, <3>3, <3>4 DEF Succeeds
    <2>3. ActiveOps(i, Kinds) = {}
      BY <2>2
    <2>4. /\ IsOf(inst[i].url, i)
          /\ key[i] = [cred |-> boxes[inst[i].url].cred, policy |-> boxes[inst[i].url].policy]
      BY <2>1, <2>3 DEF DInv, ReadyHolds
    <2>5. Kept(inst[i].url)
      BY <2>4, BoxesKept DEF IsOf
    <2>6. key'[i] = key[i]
      BY <2>3, KeyKept
    <2>. QED  BY <2>a, <2>4, <2>5, <2>6 DEF IsOf, Kept
  <1>. QED  BY <1>1, <1>2

------------------------------------------------------------------------------
(* The theorems on delivery.                                                 *)

LEMMA InitDelivers == Init => DInv
  <1>1. Init => OwnSandboxes /\ WorkerBoxes /\ ReadyHolds
    BY DEF Init, OwnSandboxes, WorkerBoxes, ReadyHolds, IdleExec, ProvisionSteps, SidSteps
  <1>2. ASSUME Init, NEW i \in Instances, NEW c \in Nat \ {None}, NEW p
        PROVE  ~Bears(i, c, p)
    BY <1>2 DEF Init, Bears, IdleExec, ProvisionSteps
  <1>. QED  BY <1>1, <1>2 DEF DInv, Generations

LEMMA NextDelivers == IInv /\ DInv /\ [Next]_vars => DInv'
  BY OwnStep, WorkerBoxStep, GenerationStep, ReadyStep DEF DInv

\* The sandboxes at hand are the instance's own, and a credential generation has one policy
\* wherever it is stored, through adoptions, lost answers and crashes.
THEOREM DeliveryInvariant == Spec => []DInv
  BY InitDelivers, NextDelivers, Inductive, PTL DEF Spec

\* A provision or recovery succeeds only with a sandbox that has the credentials, the policy and
\* the models of its snapshot, and with the key of that sandbox registered.
THEOREM ProvisionsDeliver == Spec => ProvisionDelivers
  <1>. DEFINE Step ==
        \A o \in DOMAIN ops :
            /\ ops[o].kind \in ProvisionKinds
            /\ ops[o].status # "succeeded" /\ ops'[o].status = "succeeded"
            => LET box == boxes[exec.sid] IN
               /\ box.inst = ops[o].inst
               /\ box.cred = exec.cred
               /\ box.policy = exec.policy
               /\ box.models = exec.policy
               /\ key[ops[o].inst] = [cred |-> exec.cred, policy |-> exec.policy]
  <1>1. IInv /\ DInv /\ [Next]_vars => Step
    <2>. SUFFICES ASSUME IInv, DInv, [Next]_vars, NEW o \in DOMAIN ops,
                         ops[o].kind \in ProvisionKinds,
                         ops[o].status # "succeeded", ops'[o].status = "succeeded"
                  PROVE  /\ boxes[exec.sid].inst = ops[o].inst
                         /\ boxes[exec.sid].cred = exec.cred
                         /\ boxes[exec.sid].policy = exec.policy
                         /\ boxes[exec.sid].models = exec.policy
                         /\ key[ops[o].inst] = [cred |-> exec.cred, policy |-> exec.policy]
      OBVIOUS
    <2>1. Succeeds(o)
      BY OpsKept DEF OpKept
    <2>2. ~CommitStopped
      BY <2>1 DEF Succeeds, CommitStopped, IInv, ThreadsAgree, Working, StopSteps, ProvisionKinds, StopKinds
    <2>. QED  BY <2>1, <2>2, CommitDelivers DEF Succeeds, IsOf, Subject
  <1>2. Spec => [][Step]_vars
    <2>. HIDE DEF Step
    <2>. QED  BY <1>1, Inductive, DeliveryInvariant, PTL DEF Spec
  <1>. QED  BY <1>2 DEF ProvisionDelivers

\* A ready instance with nothing under way has the key its sandbox was created with.
THEOREM ReadyHasItsKey == Spec => []ReadyIsConsistent
  <1>1. DInv => ReadyIsConsistent
    BY DEF DInv, ReadyHolds, ReadyIsConsistent, Idle
  <1>. QED  BY <1>1, DeliveryInvariant, PTL

------------------------------------------------------------------------------
(* Module Operations implements module Lifecycle.  Owed(i) is the set of     *)
(* kinds of i's active operations; as no two of a kind are active, it loses  *)
(* exactly one kind when one operation ends.                                 *)

LEMMA OwedHolds ==
    ASSUME TypeOK, NEW o \in DOMAIN ops, Active(o)
    PROVE  ops[o].kind \in Owed[ops[o].inst]
  BY OpAt DEF Owed, ActiveOps, OpRow

LEMMA OwedRequested ==
    ASSUME IInv, [Next]_vars, NEW i \in Instances, NEW kind \in Kinds, Adds(i, kind)
    PROVE  kind \notin Owed[i] /\ Owed' = [Owed EXCEPT ![i] = @ \cup {kind}]
  <1>. DEFINE next == [Owed EXCEPT ![i] = Owed[i] \cup {kind}]
  <1>0. Owed' = [j \in Instances |-> Owed'[j]] /\ next = [j \in Instances |-> next[j]]
    BY DEF Owed
  <1>1. kind \notin Owed[i]
    BY DEF Owed, Adds, ActiveOps
  <1>2. /\ DOMAIN ops' = DOMAIN ops \cup {Len(ops) + 1}
        /\ Len(ops) + 1 \notin DOMAIN ops
        /\ \A o \in DOMAIN ops : ops'[o] = ops[o]
        /\ ops'[Len(ops) + 1] = NewOp(i, kind)
    BY OpAdded DEF Adds, IInv
  <1>3. \A j \in Instances :
          ActiveOps(j, Kinds)' = IF j = i THEN ActiveOps(j, Kinds) \cup {Len(ops) + 1}
                                 ELSE ActiveOps(j, Kinds)
    BY <1>2 DEF ActiveOps, Active, NewOp
  <1>4. ASSUME NEW j \in Instances
        PROVE  Owed'[j] = next[j]
    <2>1. Owed'[j] = {ops'[o].kind : o \in ActiveOps(j, Kinds)'}
      BY DEF Owed
    <2>2. Owed[j] = {ops[o].kind : o \in ActiveOps(j, Kinds)}
      BY DEF Owed
    <2>3. \A o \in ActiveOps(j, Kinds) : ops'[o] = ops[o]
      BY <1>2 DEF ActiveOps
    <2>4. ops'[Len(ops) + 1].kind = kind
      BY <1>2 DEF NewOp
    <2>5. next[j] = IF j = i THEN Owed[j] \cup {kind} ELSE Owed[j]
      BY DEF Owed
    <2>6. CASE j = i
      BY <1>3, <2>1, <2>2, <2>3, <2>4, <2>5, <2>6
    <2>7. CASE j # i
      BY <1>3, <2>1, <2>2, <2>3, <2>5, <2>7
    <2>. QED  BY <2>6, <2>7
  <1>. QED  BY <1>0, <1>1, <1>4

LEMMA OwedKept ==
    ASSUME TypeOK, DOMAIN ops' = DOMAIN ops,
           \A o \in DOMAIN ops : /\ ops'[o].inst = ops[o].inst
                                 /\ ops'[o].kind = ops[o].kind
                                 /\ Active(o)' = Active(o)
    PROVE  Owed' = Owed
  <1>1. \A j \in Instances : ActiveOps(j, Kinds)' = ActiveOps(j, Kinds)
    BY DEF ActiveOps
  <1>2. \A j \in Instances : \A o \in ActiveOps(j, Kinds) : ops'[o].kind = ops[o].kind
    BY DEF ActiveOps
  <1>. QED  BY <1>1, <1>2 DEF Owed

LEMMA OwedEnded ==
    ASSUME TypeOK, OneActivePerKind, NEW o \in DOMAIN ops, Active(o), ~Active(o)',
           DOMAIN ops' = DOMAIN ops,
           \A other \in DOMAIN ops \ {o} : ops'[other] = ops[other]
    PROVE  Owed' = [Owed EXCEPT ![ops[o].inst] = @ \ {ops[o].kind}]
  <1>. DEFINE i == ops[o].inst
              next == [Owed EXCEPT ![i] = Owed[i] \ {ops[o].kind}]
  <1>0. Owed' = [j \in Instances |-> Owed'[j]] /\ next = [j \in Instances |-> next[j]]
    BY DEF Owed
  <1>1. \A j \in Instances : ActiveOps(j, Kinds)' = ActiveOps(j, Kinds) \ {o}
    BY DEF ActiveOps, Active
  <1>2. ASSUME NEW j \in Instances
        PROVE  Owed'[j] = next[j]
    <2>1. Owed'[j] = {ops'[k].kind : k \in ActiveOps(j, Kinds)'}
      BY DEF Owed
    <2>2. Owed[j] = {ops[k].kind : k \in ActiveOps(j, Kinds)}
      BY DEF Owed
    <2>3. \A k \in ActiveOps(j, Kinds) \ {o} : ops'[k] = ops[k]
      BY DEF ActiveOps
    <2>4. next[j] = IF j = i THEN Owed[j] \ {ops[o].kind} ELSE Owed[j]
      BY DEF Owed
    <2>5. \A k \in ActiveOps(i, Kinds) \ {o} : ops[k].kind # ops[o].kind
      BY DEF ActiveOps, OneActivePerKind
    <2>6. CASE j = i
      BY <1>1, <2>1, <2>2, <2>3, <2>4, <2>5, <2>6
    <2>7. CASE j # i
      <3>1. o \notin ActiveOps(j, Kinds)
        BY <2>7 DEF ActiveOps
      <3>. QED  BY <1>1, <2>1, <2>2, <2>3, <2>4, <2>7, <3>1
    <2>. QED  BY <2>6, <2>7
  <1>. QED  BY <1>0, <1>2

------------------------------------------------------------------------------
(* The steps, mapped.                                                        *)

Stutters == UNCHANGED <<Life, Owed, Granted>>

LEMMA Stuttered ==
    ASSUME UNCHANGED <<ops, key>>, \A i \in Instances : inst'[i].state = inst[i].state
    PROVE  Stutters
  BY DEF Stutters, Life, Owed, Granted, ActiveOps, Active

\* An operation is added, and the state is the one it begins with or stays.
LEMMA Requested ==
    ASSUME IInv, [Next]_vars, NEW i \in Instances, NEW kind \in Kinds, Adds(i, kind),
           UNCHANGED key,
           \A j \in Instances \ {i} : inst'[j] = inst[j],
           inst[i].state = "absent" => kind = "provision" /\ inst'[i].state = "provisioning",
           inst'[i].state \in {inst[i].state, Begun(kind)}
    PROVE  L!Next
  <1>1. kind \notin Owed[i] /\ Owed' = [Owed EXCEPT ![i] = @ \cup {kind}]
    BY OwedRequested
  <1>2. UNCHANGED Granted
    BY DEF Granted
  <1>3. Begun(kind) = L!Begun[kind] /\ kind \in L!Duties
    BY DEF Begun, L!Begun, L!Duties, L!UpDuties, Kinds, ProvisionKinds, StopKinds
  <1>4. Life' = [Life EXCEPT ![i] = inst'[i].state] /\ Life[i] = inst[i].state
    BY DEF Life
  <1>5. CASE inst'[i].state = Begun(kind)
    <2>1. Life' = [Life EXCEPT ![i] = L!Begun[kind]]
      BY <1>3, <1>4, <1>5
    <2>. QED  BY <1>1, <1>2, <1>3, <1>4, <2>1 DEF L!Request, L!Next
  <1>6. CASE inst'[i].state = inst[i].state /\ inst[i].state # "absent"
    <2>1. UNCHANGED Life
      BY <1>4, <1>6 DEF Life
    <2>. QED  BY <1>1, <1>2, <1>3, <1>4, <1>6, <2>1 DEF L!Request, L!Next
  <1>7. inst[i].state = "absent" => inst'[i].state = Begun(kind)
    BY DEF Begun
  <1>. QED  BY <1>5, <1>6, <1>7

LEMMA CreateRefines ==
    ASSUME IInv, [Next]_vars, NEW i \in Instances, NEW p \in Policies, Create(i, p)
    PROVE  L!Next
  <1>1. inst \in [Instances -> Row] /\ inst[i].state = "absent" /\ UNCHANGED key
    BY DEF IInv, TypeOK, Create, upstream
  <1>2. inst'[i] = [inst[i] EXCEPT !.state = "provisioning", !.policy = p, !.cred = issued[i] + 1]
    BY <1>1 DEF Create
  <1>3. inst'[i].state = "provisioning" /\ \A j \in Instances \ {i} : inst'[j] = inst[j]
    BY <1>1, <1>2 DEF Create, Row
  <1>4. "provision" \in Kinds /\ Begun("provision") = "provisioning"
    BY DEF Kinds, ProvisionKinds, Begun
  <1>5. ActiveOps(i, {"provision"}) = {}
    BY <1>1 DEF IInv, ThreadsAgree, Rooted, ActiveOps
  <1>6. Adds(i, "provision")
    BY <1>4, <1>5 DEF Adds, Create
  <1>. QED  BY <1>1, <1>3, <1>4, <1>6, Requested

LEMMA StoreRefines ==
    ASSUME IInv, [Next]_vars, Store
    PROVE  L!Next \/ Stutters
  <1>. DEFINE i == api.inst
  <1>1. /\ api.step # "idle" /\ i \in Instances /\ UNCHANGED key /\ inst[i].state # "absent"
        /\ inst \in [Instances -> Row] /\ OpKind(api.kind) \in Kinds
    BY KindIs DEF IInv, ThreadsAgree, TypeOK, Asking, Store, upstream
  <1>2. PICK k \in Instances : k = i
    BY <1>1
  <1>3. Asked(k)
    <2>1. inst'[k] = [inst[k] EXCEPT
                !.state = IF Begins \/ (api.found = None /\ api.kind \in StopKinds)
                          THEN Updated(api.state, Begun(api.kind), @) ELSE @,
                !.policy = IF api.kind = "ensure" THEN api.policy ELSE @,
                !.cred = IF api.renew THEN issued[k] + 1 ELSE @]
      BY <1>1, <1>2 DEF Store
    <2>2. /\ inst'[k].url = inst[k].url
          /\ inst'[k].state = IF Begins \/ (api.found = None /\ api.kind \in StopKinds)
                              THEN Updated(api.state, Begun(api.kind), inst[k].state)
                              ELSE inst[k].state
          /\ inst'[k].sandbox = inst[k].sandbox
          /\ inst'[k].cred = (IF api.renew THEN issued[k] + 1 ELSE inst[k].cred)
          /\ inst'[k].policy = (IF api.kind = "ensure" THEN api.policy ELSE inst[k].policy)
      BY <1>1, <2>1 DEF Row
    <2>3. issued'[k] = IF api.renew THEN issued[k] + 1 ELSE issued[k]
      BY <1>2 DEF Store, IInv, TypeOK
    <2>4. ~api.renew /\ api.kind = "ensure" => api.policy = inst[k].policy
      BY <1>1, <1>2 DEF IInv, ThreadsAgree, Asking
    <2>. QED  BY <1>2, <2>2, <2>3, <2>4 DEF Asked, Draws, Stays
  <1>4. \A j \in Instances \ {k} : inst'[j] = inst[j]
    BY <1>1, <1>2 DEF Store
  <1>5. Begins => OpKind(api.kind) = "provision" /\ Begun("provision") = "provisioning"
    BY <1>1 DEF IInv, ThreadsAgree, Asking, Begins, OpKind, Begun, StopKinds
  <1>6. api.kind \in StopKinds => Begun(OpKind(api.kind)) = Begun(api.kind)
    BY DEF OpKind
  <1>7. CASE api.found = None
    <2>1. Adds(k, OpKind(api.kind))
      BY <1>2, <1>7, StoreAdds
    <2>2. inst'[k].state \in {inst[k].state, Begun(OpKind(api.kind))}
      BY <1>3, <1>5, <1>6, AskedState
    <2>. QED  BY <1>1, <1>2, <1>4, <2>1, <2>2, Requested
  <1>8. CASE api.found # None
    <2>1. UNCHANGED <<ops, key>>
      BY <1>1, <1>8 DEF Store
    <2>2. CASE inst'[k].state = inst[k].state
      BY <1>4, <2>1, <2>2, Stuttered
    <2>3. CASE inst'[k].state = "provisioning"
      <3>1. Life' = [Life EXCEPT ![k] = L!Begun["provision"]] /\ Life[k] # "absent"
        BY <1>1, <1>2, <1>4, <2>3 DEF Life, L!Begun
      <3>2. UNCHANGED <<Owed, Granted>>
        BY <2>1 DEF Owed, Granted, ActiveOps, Active
      <3>. QED  BY <3>1, <3>2 DEF L!Join, L!Next
    <2>. QED  BY <1>3, <1>8, <2>2, <2>3, AskedState
  <1>. QED  BY <1>7, <1>8

LEMMA RecoveryRefines ==
    ASSUME IInv, [Next]_vars, EnqueueRecovery
    PROVE  L!Next
  <1>1. PICK i \in Instances : i = monitor.inst
    BY DEF IInv, ThreadsAgree, Watching, EnqueueRecovery
  <1>2. inst \in [Instances -> Row] /\ UNCHANGED key /\ inst[i].state # "absent"
    BY <1>1 DEF IInv, ThreadsAgree, TypeOK, Watching, EnqueueRecovery, upstream
  <1>3. inst'[i] = [inst[i] EXCEPT !.state = "provisioning", !.url = Updated(monitor.url, None, @)]
    BY <1>1, <1>2 DEF EnqueueRecovery
  <1>4. inst'[i].state = "provisioning" /\ \A j \in Instances \ {i} : inst'[j] = inst[j]
    BY <1>1, <1>2, <1>3 DEF EnqueueRecovery, Row
  <1>5. "recovery" \in Kinds /\ Begun("recovery") = "provisioning"
    BY DEF Kinds, ProvisionKinds, Begun
  <1>6. Adds(i, "recovery")
    BY <1>1, <1>5 DEF Adds, EnqueueRecovery, IInv, ThreadsAgree, Watching
  <1>. QED  BY <1>2, <1>4, <1>5, <1>6, Requested

LEMMA KeyRefines ==
    ASSUME IInv, ClearKey \/ RevokeKey \/ GenerateKey
    PROVE  L!Next
  <1>1. /\ TypeOK /\ exec.op \in DOMAIN ops /\ Active(exec.op) /\ UNCHANGED <<inst, ops>>
        /\ ops[exec.op].inst = Subject
    BY DEF IInv, ThreadsAgree, Working, Active, Subject, ClearKey, RevokeKey, GenerateKey, database
  <1>2. Subject \in Instances /\ ops[exec.op].kind \in Owed[Subject]
    BY <1>1, OpAt, OwedHolds DEF OpRow
  <1>3. UNCHANGED <<Life, Owed>>
    BY <1>1 DEF Life, Owed, ActiveOps, Active
  <1>4. CASE ClearKey \/ RevokeKey
    <2>1. key' = [key EXCEPT ![Subject] = NoKey]
      BY <1>4 DEF ClearKey, RevokeKey
    <2>2. Granted' = [Granted EXCEPT ![Subject] = FALSE]
      BY <1>1, <1>2, <2>1 DEF Granted, TypeOK
    <2>. QED  BY <1>2, <1>3, <2>2 DEF L!Revoke, L!Next
  <1>5. CASE GenerateKey
    <2>1. key' = [key EXCEPT ![Subject] = [cred |-> exec.cred, policy |-> exec.policy]]
      BY <1>5 DEF GenerateKey
    <2>2. exec.cred # None
      BY <1>5 DEF IInv, ThreadsAgree, Loaded, GenerateKey, ProvisionSteps
    <2>3. ops[exec.op].kind \in L!UpDuties
      BY <1>5 DEF IInv, ThreadsAgree, Working, GenerateKey, ProvisionSteps, ProvisionKinds, L!UpDuties
    <2>4. Granted' = [Granted EXCEPT ![Subject] = TRUE]
      BY <1>1, <1>2, <2>1, <2>2 DEF Granted, TypeOK, NoKey
    <2>. QED  BY <1>2, <1>3, <2>3, <2>4 DEF L!Grant, L!Next
  <1>. QED  BY <1>4, <1>5

\* The end of an operation, mapped: its kind is given back, and the state is the one it ends with
\* unless a request has begun another since the worker read the row.
LEMMA Settled ==
    ASSUME IInv, exec.seen # NoRow, exec.op \in DOMAIN ops, Active(exec.op),
           ops'[exec.op].status \notin {"pending", "running"},
           DOMAIN ops' = DOMAIN ops, \A o \in DOMAIN ops \ {exec.op} : ops'[o] = ops[o],
           UNCHANGED key, NEW state,
           inst'[Subject].state = Updated(exec.seen.state, state, inst[Subject].state),
           \A j \in Instances \ {Subject} : inst'[j] = inst[j]
    PROVE  Subject \in Instances /\ L!End(Subject, ops[exec.op].kind, state)
  <1>1. PICK o \in DOMAIN ops : o = exec.op
    OBVIOUS
  <1>2. TypeOK /\ OneActivePerKind /\ Subject = ops[o].inst /\ Subject \in Instances
    BY <1>1, OpAt DEF IInv, Subject, OpRow
  <1>3. ops[o].kind \in Owed[Subject]
    BY <1>1, <1>2, OwedHolds
  <1>4. Owed' = [Owed EXCEPT ![Subject] = @ \ {ops[o].kind}]
    <2>1. Active(o) /\ ~Active(o)' /\ \A other \in DOMAIN ops \ {o} : ops'[other] = ops[other]
      BY <1>1 DEF Active
    <2>. QED  BY <1>2, <2>1, OwedEnded
  <1>5. UNCHANGED Granted
    BY DEF Granted
  <1>6. Life' = [Life EXCEPT ![Subject] = inst'[Subject].state] /\ Life[Subject] = inst[Subject].state
    BY <1>2 DEF Life
  <1>7. inst[Subject].state \in {exec.seen.state, "provisioning", "stopping", "destroying"}
    BY SeenState
  <1>8. L!Transitional = {"provisioning", "stopping", "destroying"}
    BY DEF L!Transitional, L!Duties, L!UpDuties, L!Begun
  <1>9. \/ Life' = [Life EXCEPT ![Subject] = state]
        \/ Life[Subject] \in L!Transitional /\ UNCHANGED Life
    <2>1. CASE inst'[Subject].state = state
      BY <1>6, <2>1
    <2>2. CASE inst'[Subject].state # state
      <3>1. exec.seen.state = state /\ inst'[Subject].state = inst[Subject].state
        BY <2>2 DEF Updated
      <3>2. inst[Subject].state \in L!Transitional
        BY <1>7, <1>8, <2>2, <3>1
      <3>3. UNCHANGED Life
        BY <1>6, <3>1 DEF Life
      <3>. QED  BY <1>6, <3>2, <3>3
    <2>. QED  BY <2>1, <2>2
  <1>. QED  BY <1>1, <1>2, <1>3, <1>4, <1>5, <1>9 DEF L!End

LEMMA EndRefines ==
    ASSUME IInv, CommitReady \/ CommitStopped \/ Fail
    PROVE  L!Next \/ Stutters
  <1>1. /\ TypeOK /\ OneActivePerKind /\ exec.seen # NoRow
        /\ exec.op \in DOMAIN ops /\ Active(exec.op) /\ ops[exec.op] \in OpRow
    BY OpAt DEF IInv, ThreadsAgree, Working, Active, CommitReady, CommitStopped, Fail
  <1>2. Subject \in Instances
    BY <1>1 DEF OpRow, Subject
  <1>3. inst \in [Instances -> Row] /\ inst[Subject] \in Row /\ UNCHANGED key
    BY <1>1, <1>2, RowAt DEF TypeOK, CommitReady, CommitStopped, Fail, upstream
  <1>4. /\ DOMAIN ops' = DOMAIN ops
        /\ \A o \in DOMAIN ops \ {exec.op} : ops'[o] = ops[o]
    BY <1>1 DEF CommitReady, CommitStopped, Fail, TypeOK
  <1>5. ops[exec.op].kind \in L!Duties
    BY <1>1 DEF OpRow, Kinds, ProvisionKinds, StopKinds, L!Duties, L!UpDuties
  <1>6. CASE CommitReady
    <2>1. ops'[exec.op].status = "succeeded"
      BY <1>1, <1>6 DEF CommitReady, OpRow
    <2>2. /\ inst'[Subject].state = Updated(exec.seen.state, "ready", inst[Subject].state)
          /\ \A j \in Instances \ {Subject} : inst'[j] = inst[j]
      BY <1>2, <1>3, <1>6 DEF CommitReady, Row
    <2>3. L!End(Subject, ops[exec.op].kind, "ready")
      BY <1>1, <1>3, <1>4, <2>1, <2>2, Settled
    <2>4. /\ ops[exec.op].kind \in L!UpDuties /\ L!Ended[ops[exec.op].kind] = "ready"
          /\ exec.cred # None /\ key[Subject].cred = exec.cred
      BY <1>6 DEF IInv, ThreadsAgree, Working, Loaded, KeyFollows, CommitReady, ProvisionSteps,
                  ProvisionKinds, L!UpDuties, L!Ended
    <2>5. Granted[Subject] = TRUE
      <3>1. key[Subject] # NoKey
        BY <2>4 DEF NoKey
      <3>. QED  BY <1>2, <3>1 DEF Granted
    <2>. QED  BY <1>2, <1>5, <2>3, <2>4, <2>5 DEF L!Fulfil, L!Next
  <1>7. CASE CommitStopped
    <2>. DEFINE stopped == StoppedState(ops[exec.op].kind)
    <2>1. ops'[exec.op].status = "succeeded"
      BY <1>1, <1>7 DEF CommitStopped, OpRow
    <2>2. /\ inst'[Subject].state = Updated(exec.seen.state, stopped, inst[Subject].state)
          /\ \A j \in Instances \ {Subject} : inst'[j] = inst[j]
      <3>1. inst'[Subject] = [inst[Subject] EXCEPT !.state = Updated(exec.seen.state, stopped, @),
                                                   !.sandbox = None,
                                                   !.url = Updated(exec.seen.url, None, @),
                                                   !.cred = None]
        BY <1>2, <1>3, <1>7 DEF CommitStopped
      <3>2. \A j \in Instances \ {Subject} : inst'[j] = inst[j]
        BY <1>2, <1>3, <1>7 DEF CommitStopped
      <3>. HIDE DEF stopped
      <3>. QED  BY <1>3, <3>1, <3>2 DEF Row
    <2>3. L!End(Subject, ops[exec.op].kind, stopped)
      <3>. HIDE DEF stopped
      <3>. QED  BY <1>1, <1>3, <1>4, <2>1, <2>2, Settled
    <2>4. ops[exec.op].kind \in StopKinds /\ key[Subject] = NoKey
      BY <1>7 DEF IInv, ThreadsAgree, Working, KeyFollows, CommitStopped, StopSteps
    <2>5. /\ ops[exec.op].kind \notin L!UpDuties
          /\ stopped = L!Ended[ops[exec.op].kind]
      BY <2>4 DEF StoppedState, StopKinds, L!Ended, L!UpDuties
    <2>6. Granted[Subject] = FALSE
      <3>1. Granted[Subject] = (key[Subject] # NoKey)
        BY <1>2 DEF Granted
      <3>2. key[Subject] = NoKey
        BY <2>4
      <3>. QED  BY <3>1, <3>2
    <2>. HIDE DEF stopped
    <2>7. Granted[Subject] = (ops[exec.op].kind \in L!UpDuties)
      <3>1. (ops[exec.op].kind \in L!UpDuties) = FALSE
        BY <2>5
      <3>. QED  BY <2>6, <3>1
    <2>8. L!End(Subject, ops[exec.op].kind, L!Ended[ops[exec.op].kind])
      BY <2>3, <2>5
    <2>. QED  BY <1>2, <1>5, <2>7, <2>8 DEF L!Fulfil, L!Next
  <1>8. CASE Fail
    <2>1. PICK again \in BOOLEAN, waiting \in BOOLEAN :
            /\ ops' = [ops EXCEPT ![exec.op].attempt = Spent(ops[exec.op]) + 1,
                                  ![exec.op].status = IF again THEN "pending" ELSE "failed",
                                  ![exec.op].waiting = waiting]
            /\ IF again THEN UNCHANGED inst
               ELSE inst' = [inst EXCEPT ![Subject].state =
                                    Updated(exec.seen.state, StateAfterFailure(exec.op), @)]
      BY <1>8 DEF Fail
    <2>. DEFINE row == [ops[exec.op] EXCEPT !.attempt = Spent(ops[exec.op]) + 1,
                                            !.status = IF again THEN "pending" ELSE "failed",
                                            !.waiting = waiting]
    <2>2. /\ row.inst = ops[exec.op].inst /\ row.kind = ops[exec.op].kind
          /\ row.status = IF again THEN "pending" ELSE "failed"
      BY <1>1 DEF OpRow
    <2>3. ops'[exec.op] = row
      BY <1>1, <2>1 DEF TypeOK
    <2>. HIDE DEF row
    <2>4. CASE again
      <3>1. Owed' = Owed
        BY <1>1, <1>4, <2>2, <2>3, <2>4, OwedKept DEF Active
      <3>. QED  BY <1>3, <2>1, <2>4, <3>1 DEF Stutters, Life, Granted
    <2>5. CASE ~again
      <3>1. /\ inst'[Subject].state = Updated(exec.seen.state, "failed", inst[Subject].state)
            /\ \A j \in Instances \ {Subject} : inst'[j] = inst[j]
        BY <1>2, <1>3, <2>1, <2>5 DEF StateAfterFailure, Row
      <3>2. L!End(Subject, ops[exec.op].kind, "failed")
        BY <1>1, <1>3, <1>4, <2>2, <2>3, <2>5, <3>1, Settled
      <3>. QED  BY <1>2, <1>5, <3>2 DEF L!GiveUp, L!Next
    <2>. QED  BY <2>4, <2>5
  <1>. QED  BY <1>6, <1>7, <1>8

LEMMA NextRefines ==
    ASSUME IInv, Next
    PROVE  L!Next \/ Stutters
  <1>a. TypeOK
    BY DEF IInv
  <1>1. ASSUME NEW i \in Instances, NEW p \in Policies, Create(i, p)
        PROVE  L!Next
    BY <1>1, CreateRefines
  <1>2. CASE Store
    BY <1>2, StoreRefines
  <1>3. CASE EnqueueRecovery
    BY <1>3, RecoveryRefines
  <1>4. CASE ClearKey \/ RevokeKey \/ GenerateKey
    BY <1>4, KeyRefines
  <1>5. CASE CommitReady \/ CommitStopped \/ Fail
    BY <1>5, EndRefines
  <1>6. CASE Claim
    <2>1. PICK o \in Eligible :
            ops' = [ops EXCEPT ![o].status = "running", ![o].attempt = @ + 1]
      BY <1>6 DEF Claim
    <2>2. o \in DOMAIN ops /\ ops[o].status = "pending" /\ ops[o] \in OpRow
      BY <1>a, OpAt DEF Eligible
    <2>. DEFINE row == [ops[o] EXCEPT !.status = "running", !.attempt = @ + 1]
    <2>3. row.inst = ops[o].inst /\ row.kind = ops[o].kind /\ row.status = "running"
      BY <2>2 DEF OpRow
    <2>4. /\ DOMAIN ops' = DOMAIN ops /\ ops'[o] = row
          /\ \A other \in DOMAIN ops \ {o} : ops'[other] = ops[other]
      BY <1>a, <2>1, <2>2 DEF TypeOK
    <2>. HIDE DEF row
    <2>5. Owed' = Owed
      BY <1>a, <2>2, <2>3, <2>4, OwedKept DEF Active
    <2>. QED  BY <1>6, <2>5 DEF Claim, Stutters, Life, Granted, upstream
  <1>7. ASSUME NEW o \in DOMAIN ops, RetryDue(o)
        PROVE  Stutters
    <2>. DEFINE row == [ops[o] EXCEPT !.waiting = FALSE]
    <2>1. row.inst = ops[o].inst /\ row.kind = ops[o].kind /\ row.status = ops[o].status
      BY <1>a, OpAt DEF OpRow
    <2>2. /\ DOMAIN ops' = DOMAIN ops /\ ops'[o] = row
          /\ \A other \in DOMAIN ops \ {o} : ops'[other] = ops[other]
      BY <1>a, <1>7 DEF RetryDue, TypeOK
    <2>. HIDE DEF row
    <2>3. Owed' = Owed
      BY <1>a, <2>1, <2>2, OwedKept DEF Active
    <2>. QED  BY <1>7, <2>3 DEF RetryDue, Stutters, Life, Granted, upstream
  <1>8. CASE ~(\/ \E i \in Instances, p \in Policies : Create(i, p)
               \/ Store \/ EnqueueRecovery \/ ClearKey \/ RevokeKey \/ GenerateKey
               \/ CommitReady \/ CommitStopped \/ Fail \/ Claim
               \/ \E o \in DOMAIN ops : RetryDue(o))
    <2>1. UNCHANGED <<ops, key>>
      BY <1>8, QuietOps
         DEF Next, Ensure, Reconcile, RequestStop, Read, Search, Execute, QuietSteps, Watch,
             ListCandidates, PickCandidate, Observe, ConfirmReady, ConfirmIdle, SandboxStarts,
             SandboxDies, WorkerDatabaseFails, MonitorDatabaseFails, Crash, database, upstream
    <2>2. \A i \in Instances : inst'[i].state = inst[i].state
      BY <1>8, RowSteps DEF Created, Asked, Requeued, Delivered, Cleared, GivenUp, Noted
    <2>. QED  BY <2>1, <2>2, Stuttered
  <1>. QED  BY <1>1, <1>2, <1>3, <1>4, <1>5, <1>6, <1>7, <1>8

\* The operation queue, the worker and the monitor implement the abstract life cycle: every
\* step is a request, work on a duty, its end, or nothing the consumer can see.
THEOREM Implements == Spec => ImplementsLifecycle
  <1>1. Init => L!Init
    <2>. SUFFICES ASSUME Init
                  PROVE  L!Init
      OBVIOUS
    <2>1. \A i \in Instances : ActiveOps(i, Kinds) = {}
      BY DEF Init, ActiveOps
    <2>2. Owed = [i \in Instances |-> {}]
      BY <2>1 DEF Owed
    <2>3. Life = [i \in Instances |-> "absent"] /\ Granted = [i \in Instances |-> FALSE]
      BY DEF Init, Life, Granted
    <2>. QED  BY <2>2, <2>3 DEF L!Init
  <1>2. IInv /\ [Next]_vars => [L!Next]_L!vars
    <2>1. UNCHANGED vars => Stutters
      BY Stuttered DEF vars
    <2>. QED  BY <2>1, NextRefines DEF L!vars, Stutters
  <1>. QED  BY <1>1, <1>2, Inductive, PTL DEF Spec, ImplementsLifecycle, L!Spec

------------------------------------------------------------------------------
(* The retry budget.  A pending operation has an attempt left and a running  *)
(* one has counted its own; with that, taking the attempt back and counting  *)
(* it again (Fail) leaves it where it was.                                   *)

Counted ==
    \A o \in DOMAIN ops :
        /\ ops[o].status = "pending" => ops[o].attempt < Limit(ops[o])
        /\ ops[o].status = "running" => ops[o].attempt \in 1..Limit(ops[o])
        /\ ops[o].attempt <= Limit(ops[o])
        /\ ops[o].waiting => ops[o].status = "pending"

\* What RetryBudget asks of one operation, and Counted of it afterwards.
Budgeted(o, next) ==
    LET claimed == ops[o].status = "pending" /\ next.status = "running" IN
    /\ next.attempt = ops[o].attempt + (IF claimed THEN 1 ELSE 0)
    /\ next.attempt <= Limit(ops[o])
    /\ ops[o].status \in {"succeeded", "failed"} => next = ops[o]
    /\ Limit(next) = Limit(ops[o])
    /\ next.status = "pending" => next.attempt < Limit(next)
    /\ next.status = "running" => next.attempt \in 1..Limit(next)
    /\ next.waiting => next.status = "pending"

LEMMA LimitIs == ASSUME NEW op PROVE Limit(op) \in Nat \ {0}
  BY AttemptAssumption DEF Limit

LEMMA UnchangedBudgeted ==
    ASSUME TypeOK, Counted, NEW o \in DOMAIN ops
    PROVE  Budgeted(o, ops[o])
  <1>1. ops[o].attempt \in Nat /\ ops[o].status \in Statuses
    BY OpAt DEF OpRow
  <1>. QED  BY <1>1 DEF Budgeted, Counted

\* Creating an instance and queueing a recovery add an operation.
LEMMA AddsNone ==
    ASSUME IInv, \A i, kind : ~Adds(i, kind)
    PROVE  ~EnqueueRecovery /\ ~\E i \in Instances, p \in Policies : Create(i, p)
  <1>1. ASSUME EnqueueRecovery PROVE FALSE
    <2>1. Adds(monitor.inst, "recovery")
      BY <1>1 DEF Adds, EnqueueRecovery, IInv, ThreadsAgree, Watching, Kinds, ProvisionKinds
    <2>. QED  BY <2>1
  <1>2. ASSUME NEW i \in Instances, NEW p \in Policies, Create(i, p) PROVE FALSE
    <2>1. ActiveOps(i, {"provision"}) = {}
      BY <1>2 DEF Create, IInv, ThreadsAgree, Rooted, ActiveOps
    <2>2. Adds(i, "provision")
      BY <1>2, <2>1 DEF Adds, Create, Kinds, ProvisionKinds
    <2>. QED  BY <2>2
  <1>. QED  BY <1>1, <1>2

\* Every step adds a fresh operation, or changes one within its budget.
LEMMA OpsStep ==
    ASSUME IInv, Counted, [Next]_vars
    PROVE  \/ /\ DOMAIN ops' = DOMAIN ops
              /\ \A o \in DOMAIN ops : Budgeted(o, ops'[o])
           \/ \E i, kind :
                /\ DOMAIN ops' = DOMAIN ops \cup {Len(ops) + 1}
                /\ ops'[Len(ops) + 1] = NewOp(i, kind)
                /\ \A o \in DOMAIN ops : ops'[o] = ops[o]
  <1>a. TypeOK /\ OneActivePerKind /\ ThreadsAgree
    BY DEF IInv
  <1>1. ASSUME UNCHANGED ops
        PROVE  DOMAIN ops' = DOMAIN ops /\ \A o \in DOMAIN ops : Budgeted(o, ops'[o])
    BY <1>a, <1>1, UnchangedBudgeted
  <1>2. ASSUME NEW o \in DOMAIN ops, NEW row, ops' = [ops EXCEPT ![o] = row], Budgeted(o, row)
        PROVE  DOMAIN ops' = DOMAIN ops /\ \A k \in DOMAIN ops : Budgeted(k, ops'[k])
    BY <1>a, <1>2, UnchangedBudgeted DEF TypeOK
  <1>3. ASSUME NEW i, NEW kind, Adds(i, kind)
        PROVE  /\ DOMAIN ops' = DOMAIN ops \cup {Len(ops) + 1}
               /\ ops'[Len(ops) + 1] = NewOp(i, kind)
               /\ \A o \in DOMAIN ops : ops'[o] = ops[o]
    BY <1>3, OpAdded DEF Adds, IInv
  <1>4. CASE \E i, kind : Adds(i, kind)
    BY <1>3, <1>4
  <1>6. CASE Claim
    <2>1. PICK o \in Eligible :
            ops' = [ops EXCEPT ![o].status = "running", ![o].attempt = @ + 1]
      BY <1>6 DEF Claim
    <2>2. o \in DOMAIN ops /\ ops[o].status = "pending" /\ ~ops[o].waiting /\ ops[o] \in OpRow
      BY <1>a, OpAt DEF Eligible
    <2>. DEFINE row == [ops[o] EXCEPT !.status = "running", !.attempt = @ + 1]
    <2>3. /\ row.attempt = ops[o].attempt + 1 /\ row.status = "running" /\ row.kind = ops[o].kind
          /\ row.waiting = ops[o].waiting /\ ops[o].attempt \in Nat
      BY <2>2 DEF OpRow
    <2>4. ops' = [ops EXCEPT ![o] = row]
      BY <2>1
    <2>. HIDE DEF row
    <2>5. Limit(row) = Limit(ops[o]) /\ Limit(row) \in Nat
      BY <2>3, LimitIs DEF Limit
    <2>6. Budgeted(o, row)
      BY <2>2, <2>3, <2>5 DEF Budgeted, Counted
    <2>. QED  BY <1>2, <2>2, <2>4, <2>6
  <1>7. CASE CommitReady \/ CommitStopped
    <2>1. PICK o \in DOMAIN ops : o = exec.op
      BY <1>a, <1>7 DEF CommitReady, CommitStopped, ThreadsAgree, Working
    <2>2. ops[o].status = "running" /\ ops[o] \in OpRow
      BY <1>a, <1>7, <2>1, OpAt DEF CommitReady, CommitStopped, ThreadsAgree, Working
    <2>. DEFINE row == [ops[o] EXCEPT !.status = "succeeded"]
    <2>3. /\ row.attempt = ops[o].attempt /\ row.status = "succeeded" /\ row.kind = ops[o].kind
          /\ row.waiting = ops[o].waiting /\ ops[o].attempt \in Nat
      BY <2>2 DEF OpRow
    <2>4. ops' = [ops EXCEPT ![o] = row]
      BY <1>7, <2>1 DEF CommitReady, CommitStopped
    <2>. HIDE DEF row
    <2>5. Limit(row) = Limit(ops[o])
      BY <2>3 DEF Limit
    <2>6. Budgeted(o, row)
      BY <2>2, <2>3, <2>5 DEF Budgeted, Counted
    <2>. QED  BY <1>2, <2>4, <2>6
  <1>8. CASE Fail
    <2>1. PICK o \in DOMAIN ops : o = exec.op
      BY <1>a, <1>8 DEF Fail, ThreadsAgree, Working
    <2>2. ops[o].status = "running" /\ ops[o] \in OpRow
      BY <1>a, <1>8, <2>1, OpAt DEF Fail, ThreadsAgree, Working
    <2>3. PICK again \in BOOLEAN, waiting \in BOOLEAN :
            /\ ops' = [ops EXCEPT ![o].attempt = Spent(ops[o]) + 1,
                                  ![o].status = IF again THEN "pending" ELSE "failed",
                                  ![o].waiting = waiting]
            /\ again => Spent(ops[o]) + 1 < Limit(ops[o])
            /\ waiting => again
      BY <1>8, <2>1 DEF Fail
    <2>4. ops[o].attempt \in 1..Limit(ops[o]) /\ ops[o].attempt \in Nat
      BY <2>2 DEF Counted, OpRow
    <2>5. Spent(ops[o]) + 1 = ops[o].attempt
      BY <2>4 DEF Spent
    <2>. DEFINE row == [ops[o] EXCEPT !.attempt = ops[o].attempt,
                                      !.status = IF again THEN "pending" ELSE "failed",
                                      !.waiting = waiting]
    <2>6. /\ row.attempt = ops[o].attempt /\ row.kind = ops[o].kind
          /\ row.status = (IF again THEN "pending" ELSE "failed") /\ row.waiting = waiting
      BY <2>2 DEF OpRow
    <2>7. ops' = [ops EXCEPT ![o] = row]
      BY <2>3, <2>5
    <2>. HIDE DEF row
    <2>8. Limit(row) = Limit(ops[o]) /\ Limit(row) \in Nat
      BY <2>6, LimitIs DEF Limit
    <2>9. Budgeted(o, row)
      BY <2>2, <2>3, <2>4, <2>5, <2>6, <2>8 DEF Budgeted
    <2>. QED  BY <1>2, <2>7, <2>9
  <1>9. ASSUME NEW o \in DOMAIN ops, RetryDue(o)
        PROVE  DOMAIN ops' = DOMAIN ops /\ \A k \in DOMAIN ops : Budgeted(k, ops'[k])
    <2>1. ops[o].status = "pending" /\ ops[o] \in OpRow
      BY <1>9, <1>a, OpAt DEF RetryDue, Counted
    <2>. DEFINE row == [ops[o] EXCEPT !.waiting = FALSE]
    <2>2. /\ row.attempt = ops[o].attempt /\ row.status = ops[o].status /\ row.kind = ops[o].kind
          /\ ops[o].attempt \in Nat
      BY <2>1 DEF OpRow
    <2>3. ops' = [ops EXCEPT ![o] = row]
      BY <1>9 DEF RetryDue
    <2>. HIDE DEF row
    <2>4. Limit(row) = Limit(ops[o])
      BY <2>2 DEF Limit
    <2>5. Budgeted(o, row)
      BY <2>1, <2>2, <2>4 DEF Budgeted, Counted
    <2>. QED  BY <1>2, <2>3, <2>5
  <1>10. CASE /\ \A i, kind : ~Adds(i, kind)
              /\ ~(Claim \/ CommitReady \/ CommitStopped \/ Fail)
              /\ ~\E o \in DOMAIN ops : RetryDue(o)
    <2>1. UNCHANGED ops
      <3>1. ~EnqueueRecovery /\ ~\E i \in Instances, p \in Policies : Create(i, p)
        BY <1>10, AddsNone
      <3>2. Store => UNCHANGED ops
        BY <1>10, StoreAdds DEF Store
      <3>3. QuietSteps \/ SeeRow => UNCHANGED ops
        BY QuietOps
      <3>. QED  BY <1>10, <3>1, <3>2, <3>3
                DEF Next, vars, Ensure, Reconcile, RequestStop, Read, Search, Execute, QuietSteps,
                    ClearKey, GenerateKey, RevokeKey, Watch, ListCandidates, PickCandidate, Observe,
                    ConfirmReady, ConfirmIdle, SandboxStarts, SandboxDies, WorkerDatabaseFails,
                    MonitorDatabaseFails, Crash, database
    <2>. QED  BY <1>1, <2>1
  <1>. QED  BY <1>4, <1>6, <1>7, <1>8, <1>9, <1>10

LEMMA CountedStep ==
    ASSUME IInv, Counted, [Next]_vars
    PROVE  /\ Counted'
           /\ \A o \in DOMAIN ops : Budgeted(o, ops'[o])
  <1>a. TypeOK
    BY DEF IInv
  <1>1. CASE DOMAIN ops' = DOMAIN ops /\ \A o \in DOMAIN ops : Budgeted(o, ops'[o])
    <2>1. Counted'
      BY <1>1 DEF Counted, Budgeted
    <2>. QED  BY <1>1, <2>1
  <1>2. CASE \E i, kind : /\ DOMAIN ops' = DOMAIN ops \cup {Len(ops) + 1}
                          /\ ops'[Len(ops) + 1] = NewOp(i, kind)
                          /\ \A o \in DOMAIN ops : ops'[o] = ops[o]
    <2>1. PICK i, kind : /\ DOMAIN ops' = DOMAIN ops \cup {Len(ops) + 1}
                         /\ ops'[Len(ops) + 1] = NewOp(i, kind)
                         /\ \A o \in DOMAIN ops : ops'[o] = ops[o]
      BY <1>2
    <2>2. \A o \in DOMAIN ops : Budgeted(o, ops'[o])
      BY <1>a, <2>1, UnchangedBudgeted
    <2>3. /\ NewOp(i, kind).status = "pending" /\ NewOp(i, kind).attempt = 0
          /\ ~NewOp(i, kind).waiting
      BY DEF NewOp
    <2>4. /\ 0 < Limit(NewOp(i, kind)) /\ 0 <= Limit(NewOp(i, kind))
      BY LimitIs
    <2>5. ASSUME NEW o \in DOMAIN ops'
          PROVE  /\ ops'[o].status = "pending" => ops'[o].attempt < Limit(ops'[o])
                 /\ ops'[o].status = "running" => ops'[o].attempt \in 1..Limit(ops'[o])
                 /\ ops'[o].attempt <= Limit(ops'[o])
                 /\ ops'[o].waiting => ops'[o].status = "pending"
      <3>1. CASE o \in DOMAIN ops
        BY <2>1, <3>1 DEF Counted
      <3>2. CASE o = Len(ops) + 1
        BY <2>1, <2>3, <2>4, <3>2
      <3>. QED  BY <2>1, <3>1, <3>2
    <2>6. Counted'
      BY <2>5 DEF Counted, Limit
    <2>. QED  BY <2>2, <2>6
  <1>. QED  BY <1>1, <1>2, OpsStep

\* An operation is executed at most max_attempts times, its attempt moves with a claim only,
\* and nothing touches an operation that has ended.
THEOREM WithinBudget == Spec => RetryBudget
  <1>. DEFINE Charged == \A o \in DOMAIN ops :
            LET claimed == ops[o].status = "pending" /\ ops'[o].status = "running"
            IN  /\ ops'[o].attempt = ops[o].attempt + (IF claimed THEN 1 ELSE 0)
                /\ ops'[o].attempt <= Limit(ops[o])
                /\ ops[o].status \in {"succeeded", "failed"} => ops'[o] = ops[o]
  <1>1. Init => Counted
    BY DEF Init, Counted
  <1>2. IInv /\ Counted /\ [Next]_vars => Counted'
    BY CountedStep
  <1>3. IInv /\ Counted /\ [Next]_vars => Charged
    <2>1. IInv /\ Counted /\ [Next]_vars => \A o \in DOMAIN ops : Budgeted(o, ops'[o])
      BY CountedStep
    <2>2. (\A o \in DOMAIN ops : Budgeted(o, ops'[o])) => Charged
      BY DEF Budgeted
    <2>. QED  BY <2>1, <2>2
  <1>4. RetryBudget <=> [][Charged]_vars
    BY DEF RetryBudget
  <1>. HIDE DEF Charged
  <1>. QED  BY <1>1, <1>2, <1>3, <1>4, Inductive, PTL DEF Spec

------------------------------------------------------------------------------
(* The sandboxes of an instance are accounted for, where no answer is lost,  *)
(* the manager does not crash and the database answers.  A sandbox is        *)
(* created only when the worker has seen to it that the instance has none    *)
(* (Known), and from the moment it is written down until it is deleted the   *)
(* row names it (Recorded).  Otherwise neither holds: a created sandbox is   *)
(* in OpenSandbox and nowhere in the manager.                                *)

Reliable == Faults \cap {"lost", "crash", "database"} = {}

\* The steps at which the worker has seen to it that its instance has no sandbox.
ClearedSteps == {"forget", "create", "revoke_key", "close"}

\* The steps at which the worker's snapshot of the sandbox is what the row says.
SnapshotSteps == {"clear_key", "generate_key", "replace", "inspect", "discard", "find",
                  "delete_sandbox"}

\* A sandbox that exists is the recorded one, or the one the worker is about to record.
Recorded ==
    \A i \in Instances : \A s \in Live(i) :
        \/ s = inst[i].sandbox
        \/ exec.step = "record" /\ Subject = i /\ s = exec.sid

\* What the worker knows of the sandboxes of its instance.
Known ==
    /\ exec.step \in ClearedSteps => Live(Subject) = {}
    /\ exec.step = "record" => Live(Subject) \subseteq {exec.sid}
    /\ exec.step \in SnapshotSteps => exec.sandbox = inst[Subject].sandbox
    /\ exec.step = "find" => exec.sandbox = None
    /\ exec.step \in SidSteps \ {"record"} => exec.sid = inst[Subject].sandbox

AInv == Recorded /\ Known /\ StoppedIsClean /\ ReadyIsWatched

------------------------------------------------------------------------------
(* What a step does to the sandboxes that exist.                             *)

\* A sandbox that is gone stays gone.
LEMMA GoneStays ==
    ASSUME IInv, [Next]_vars, NEW s \in DOMAIN boxes, boxes[s].status = "gone"
    PROVE  boxes'[s].status = "gone"
  <1>a. TypeOK /\ boxes \in Seq(Box) /\ boxes[s] \in Box
    BY BoxAt DEF IInv, TypeOK
  <1>1. CASE UNCHANGED boxes
    BY <1>1
  <1>2. CASE CreateSandbox
    <2>. DEFINE box == [inst |-> Subject, cred |-> exec.cred, policy |-> exec.policy,
                        models |-> None, status |-> "starting"]
    <2>1. boxes' = Append(boxes, box)
      BY <1>2 DEF CreateSandbox
    <2>. HIDE DEF box
    <2>2. boxes'[s] = boxes[s]
      BY <1>a, <2>1
    <2>. QED  BY <2>2
  <1>3. CASE ReplaceModels
    <2>1. UNCHANGED boxes \/ boxes' = [boxes EXCEPT ![exec.sid].models = exec.policy]
      BY <1>3 DEF ReplaceModels
    <2>. QED  BY <1>a, <2>1 DEF Box
  <1>4. CASE ReplaceSandbox \/ DiscardSandbox \/ DeleteSandbox
    <2>1. UNCHANGED boxes \/ boxes' = [boxes EXCEPT ![exec.sandbox].status = "gone"]
      BY <1>4 DEF ReplaceSandbox, DiscardSandbox, DeleteSandbox, Deleted
    <2>. QED  BY <1>a, <2>1 DEF Box
  <1>5. ASSUME NEW k \in DOMAIN boxes, SandboxStarts(k) \/ SandboxDies(k)
        PROVE  boxes'[s].status = "gone"
    <2>1. boxes[k].status # "gone"
      BY <1>5 DEF SandboxStarts, SandboxDies
    <2>2. \E status : boxes' = [boxes EXCEPT ![k].status = status]
      BY <1>5 DEF SandboxStarts, SandboxDies
    <2>. QED  BY <1>a, <2>1, <2>2 DEF Box
  <1>6. CASE Next /\ ~UNCHANGED boxes
    <2>1. \/ CreateSandbox \/ ReplaceModels
          \/ ReplaceSandbox \/ DiscardSandbox \/ DeleteSandbox
          \/ \E k \in DOMAIN boxes : SandboxStarts(k) \/ SandboxDies(k)
      BY <1>6
         DEF Next, Create, Ensure, Reconcile, RequestStop, Read, Search, Store, Execute, Claim, Load,
             ClearKey, GenerateKey, ForgetSandbox, InspectSandbox, FindSandbox, RecordSandbox,
             WaitRunning, WaitBridge, SeeRow, CommitReady, RevokeKey, CommitStopped, Rejected, Fail,
             RetryDue, Watch, ListCandidates, PickCandidate, Observe, ConfirmReady, ConfirmIdle,
             EnqueueRecovery, WorkerDatabaseFails, MonitorDatabaseFails, Crash, upstream
    <2>. QED  BY <1>2, <1>3, <1>4, <1>5, <2>1
  <1>. QED  BY <1>1, <1>6 DEF vars

\* Only CreateSandbox makes a sandbox exist.
LEMMA LiveFrom ==
    ASSUME IInv, [Next]_vars, NEW i \in Instances, NEW s \in Live(i)'
    PROVE  \/ s \in Live(i)
           \/ CreateSandbox /\ Subject = i /\ s = Len(boxes) + 1
  <1>0. s \in DOMAIN boxes' /\ boxes'[s].inst = i /\ boxes'[s].status # "gone"
    BY DEF Live, Gone
  <1>1. CASE s \in DOMAIN boxes
    <2>1. Kept(s) /\ (boxes[s].status = "gone" => boxes'[s].status = "gone")
      BY <1>1, BoxesKept, GoneStays
    <2>. QED  BY <1>0, <1>1, <2>1 DEF Live, Gone, Kept
  <1>2. CASE s \notin DOMAIN boxes
    <2>1. CreateSandbox
      BY <1>0, <1>2, BoxesKept
    <2>. QED  BY <1>0, <1>2, <2>1, BoxCreated
  <1>. QED  BY <1>1, <1>2

\* A sandbox that is deleted does not exist.
LEMMA DeletedIsGone ==
    ASSUME IInv, NEW k, boxes' = Deleted(k)
    PROVE  \A i \in Instances : k \notin Live(i)'
  <1>1. DOMAIN boxes' = DOMAIN boxes
    BY StatusSet DEF IInv, Deleted
  <1>2. k \in DOMAIN boxes => boxes'[k].status = "gone"
    BY BoxAt DEF IInv, Deleted, Box
  <1>. QED  BY <1>1, <1>2 DEF Live, Gone

\* The sandbox of a row is written by three steps of the worker.
LEMMA SandboxStays ==
    ASSUME IInv, [Next]_vars, NEW i \in Instances,
           ~(Subject = i /\ (ForgetSandbox \/ RecordSandbox \/ CommitStopped))
    PROVE  inst'[i].sandbox = inst[i].sandbox
  BY RowSteps DEF Created, Asked, Requeued, Delivered, Cleared, GivenUp, Noted, Draws, Stays

\* Nobody but the worker moves the worker.
LEMMA WorkerAlone ==
    ASSUME Reliable, [Next]_vars, ~Execute
    PROVE  UNCHANGED exec
  <1>1. ~Crash /\ ~WorkerDatabaseFails
    BY DEF Reliable, Crash, WorkerDatabaseFails, Fault
  <1>. QED  BY <1>1
            DEF Next, vars, Create, Ensure, Reconcile, RequestStop, Read, Search, Store, RetryDue,
                Watch, ListCandidates, PickCandidate, Observe, ConfirmReady, ConfirmIdle,
                EnqueueRecovery, MonitorDatabaseFails, SandboxStarts, SandboxDies

\* No answer is lost.
LEMMA NoneLost == ASSUME Reliable, NEW next, Answered(next) PROVE exec' = next
  BY DEF Reliable, Answered, Fault

LEMMA SubjectIn ==
    ASSUME IInv, exec.step \notin {"idle", "ended"}
    PROVE  exec.op \in DOMAIN ops /\ Active(exec.op) /\ Subject \in Instances
  BY OpAt DEF IInv, ThreadsAgree, Working, Active, Subject, OpRow

LEMMA RecordedStep ==
    ASSUME Reliable, IInv, AInv, [Next]_vars
    PROVE  Recorded'
  <1>a. Recorded /\ Known
    BY DEF AInv
  <1>. SUFFICES ASSUME NEW i \in Instances, NEW s \in Live(i)'
                PROVE  \/ s = inst'[i].sandbox
                       \/ exec'.step = "record" /\ Subject' = i /\ s = exec'.sid
    BY DEF Recorded
  <1>1. CASE CreateSandbox /\ Subject = i /\ s = Len(boxes) + 1
    <2>1. exec' = [exec EXCEPT !.sid = Len(boxes) + 1, !.step = "record"] /\ exec.step = "create"
      BY <1>1, NoneLost DEF CreateSandbox
    <2>2. exec'.step = "record" /\ exec'.sid = Len(boxes) + 1 /\ exec'.op = exec.op
      BY <2>1 DEF IInv, TypeOK, Locals
    <2>3. Subject' = Subject
      BY <2>1, <2>2, SubjectKept
    <2>. QED  BY <1>1, <2>2, <2>3
  <1>2. CASE s \in Live(i) /\ s = inst[i].sandbox
    <2>1. CASE inst'[i].sandbox = inst[i].sandbox
      BY <1>2, <2>1
    <2>2. CASE Subject = i /\ (ForgetSandbox \/ CommitStopped)
      BY <1>a, <1>2, <2>2 DEF Known, ClearedSteps, ForgetSandbox, CommitStopped
    <2>3. CASE Subject = i /\ RecordSandbox
      <3>1. s = exec.sid
        BY <1>a, <1>2, <2>3 DEF Known, RecordSandbox
      <3>2. inst'[i].sandbox = exec.sid
        BY <2>3 DEF RecordSandbox, IInv, TypeOK, Row
      <3>. QED  BY <3>1, <3>2
    <2>. QED  BY <2>1, <2>2, <2>3, SandboxStays
  <1>3. CASE s \in Live(i) /\ s # inst[i].sandbox
    <2>1. exec.step = "record" /\ Subject = i /\ s = exec.sid
      BY <1>a, <1>3 DEF Recorded
    <2>2. CASE RecordSandbox
      <3>1. inst'[i].sandbox = exec.sid
        BY <2>1, <2>2 DEF RecordSandbox, IInv, TypeOK, Row
      <3>. QED  BY <2>1, <3>1
    <2>3. CASE ~RecordSandbox
      <3>1. ~Execute
        BY <2>1, <2>3
           DEF Execute, Claim, Load, ClearKey, GenerateKey, ReplaceSandbox, ForgetSandbox,
               InspectSandbox, DiscardSandbox, FindSandbox, CreateSandbox, WaitRunning, WaitBridge,
               ReplaceModels, SeeRow, CommitReady, DeleteSandbox, RevokeKey, CommitStopped,
               Rejected, CallSteps, Fail
      <3>2. UNCHANGED exec
        BY <3>1, WorkerAlone
      <3>3. Subject' = Subject
        BY <2>1, <3>2, SubjectKept
      <3>. QED  BY <2>1, <3>2, <3>3
    <2>. QED  BY <2>2, <2>3
  <1>. QED  BY <1>1, <1>2, <1>3, LiveFrom

\* Known of a step that goes nowhere: there is nothing to know.
LEMMA KnownNothing ==
    ASSUME exec'.step \in {"idle", "ended", "load", "fail"}
    PROVE  Known'
  BY DEF Known, ClearedSteps, SnapshotSteps, SidSteps

LEMMA KnownStep ==
    ASSUME Reliable, IInv, DInv, AInv, [Next]_vars
    PROVE  Known'
  <1>a. Recorded /\ Known /\ exec \in Locals
    BY DEF AInv, IInv, TypeOK
  <1>b. ASSUME exec'.op = exec.op, exec.step \notin {"idle", "ended"}
        PROVE  Subject' = Subject /\ Subject \in Instances
    BY <1>b, SubjectKept
  <1>c. ASSUME NEW i \in Instances, ~CreateSandbox
        PROVE  Live(i)' \subseteq Live(i)
    BY <1>c, LiveFrom
  <1>d. ASSUME NEW step, exec' = [exec EXCEPT !.step = step]
        PROVE  /\ exec'.op = exec.op /\ exec'.sandbox = exec.sandbox
               /\ exec'.sid = exec.sid /\ exec'.step = step
    BY <1>a, <1>d DEF Locals
  <1>e. ASSUME NEW step, NEW sid, exec' = [exec EXCEPT !.sid = sid, !.step = step]
        PROVE  /\ exec'.op = exec.op /\ exec'.sandbox = exec.sandbox
               /\ exec'.sid = sid /\ exec'.step = step
    BY <1>a, <1>e DEF Locals
  <1>f. ASSUME NEW retryable, Raise(retryable)
        PROVE  Known'
    <2>1. exec'.step = "fail"
      BY <1>a, <1>f DEF Raise, Locals
    <2>. QED  BY <2>1, KnownNothing
  <1>1. CASE UNCHANGED exec
    <2>1. CASE exec.step \in {"idle", "ended", "load", "fail"}
      BY <1>1, <2>1, KnownNothing
    <2>2. CASE exec.step \notin {"idle", "ended", "load", "fail"}
      <3>1. Subject' = Subject /\ Subject \in Instances
        BY <1>1, <1>b, <2>2
      <3>2. ~CreateSandbox /\ ~ForgetSandbox /\ ~RecordSandbox /\ ~CommitStopped
        <4>1. CreateSandbox => exec'.step = "record"
          BY <1>e, NoneLost DEF CreateSandbox
        <4>2. ForgetSandbox => exec'.step = "create"
          BY <1>d DEF ForgetSandbox, Goto
        <4>3. RecordSandbox => exec'.step = "wait"
          BY <1>d DEF RecordSandbox, Goto
        <4>4. CommitStopped => exec'.step = "idle"
          BY DEF CommitStopped, IdleExec
        <4>. QED  BY <1>1, <2>2, <4>1, <4>2, <4>3, <4>4
                  DEF CreateSandbox, ForgetSandbox, RecordSandbox
      <3>3. Live(Subject)' \subseteq Live(Subject) /\ inst'[Subject].sandbox = inst[Subject].sandbox
        BY <1>c, <3>1, <3>2, SandboxStays
      <3>. QED  BY <1>1, <1>a, <3>1, <3>3 DEF Known
    <2>. QED  BY <2>1, <2>2
  <1>2. CASE Claim \/ CommitReady \/ CommitStopped \/ Fail
    <2>1. Claim => exec'.step = "load"
      BY DEF Claim, IdleExec
    <2>2. CommitReady \/ CommitStopped \/ Fail => exec'.step = "idle"
      BY DEF CommitReady, CommitStopped, Fail, IdleExec
    <2>. QED  BY <1>2, <2>1, <2>2, KnownNothing
  <1>3. CASE Rejected
    BY <1>3, <1>f DEF Rejected
  <1>13. CASE SeeRow
    <2>1. /\ exec.step \in {"commit", "close", "fail"} /\ UNCHANGED <<boxes, inst>>
          /\ exec' = [exec EXCEPT !.seen = [state |-> inst[Subject].state, url |-> inst[Subject].url]]
      BY <1>13 DEF SeeRow, database, upstream
    <2>2. exec'.op = exec.op /\ exec'.sid = exec.sid /\ exec'.step = exec.step
      BY <1>a, <2>1 DEF Locals
    <2>3. Subject' = Subject /\ Subject \in Instances
      BY <1>b, <2>1, <2>2
    <2>4. Live(Subject)' = Live(Subject)
      BY <2>1, <2>3 DEF Live, Gone
    <2>. QED  BY <1>a, <2>1, <2>2, <2>3, <2>4 DEF Known, ClearedSteps, SnapshotSteps, SidSteps
  <1>g. ASSUME NEW i \in Instances, exec.step # "record"
        PROVE  Live(i) \subseteq {inst[i].sandbox} \ {None}
    <2>1. \A s \in Live(i) : s = inst[i].sandbox
      BY <1>a, <1>g DEF Recorded
    <2>2. None \notin Live(i)
      BY DEF Live, None, IInv, TypeOK
    <2>. QED  BY <2>1, <2>2
  <1>4. CASE Load
    <2>1. exec.step = "load" /\ UNCHANGED <<boxes, inst>>
      BY <1>4 DEF Load, database, upstream
    <2>2. CASE Raise(FALSE)
      BY <1>f, <2>2
    <2>3. CASE ~Raise(FALSE)
      <3>. DEFINE row == inst[Subject]
                  step == IF ops[exec.op].kind \in ProvisionKinds THEN "clear_key"
                          ELSE FirstStopStep(row)
      <3>1. exec' = [exec EXCEPT !.sandbox = row.sandbox, !.cred = row.cred,
                                 !.policy = row.policy, !.step = step]
        BY <1>4, <2>3 DEF Load
      <3>2. /\ step \in {"clear_key", "delete_sandbox", "revoke_key"}
            /\ step = "revoke_key" => row.sandbox = None
        BY DEF FirstStopStep
      <3>. HIDE DEF step, row
      <3>3. exec'.op = exec.op /\ exec'.sandbox = row.sandbox /\ exec'.step = step
        BY <1>a, <3>1 DEF Locals
      <3>4. Subject' = Subject /\ Subject \in Instances
        BY <1>b, <2>1, <3>3
      <3>5. exec'.sandbox = inst'[Subject'].sandbox
        BY <2>1, <3>3, <3>4 DEF row
      <3>6. exec'.step = "revoke_key" => Live(Subject)' = {}
        <4>1. Live(Subject)' = Live(Subject)
          BY <2>1, <3>4 DEF Live, Gone
        <4>. QED  BY <1>g, <2>1, <3>2, <3>3, <3>4, <4>1 DEF row
      <3>. QED  BY <3>2, <3>3, <3>5, <3>6 DEF Known, ClearedSteps, SnapshotSteps, SidSteps
    <2>. QED  BY <2>2, <2>3
  <1>5. CASE ClearKey \/ GenerateKey
    <2>1. PICK step \in {"generate_key", "replace", "create", "inspect", "find"} :
            /\ exec' = [exec EXCEPT !.step = step]
            /\ step \in {"find", "create"} => exec.sandbox = None
      BY <1>5, NoneLost DEF ClearKey, GenerateKey
    <2>2. exec.step \in SnapshotSteps /\ exec.step \notin {"record", "idle", "ended"}
      BY <1>5 DEF ClearKey, GenerateKey, SnapshotSteps
    <2>3. UNCHANGED <<inst, boxes>>
      BY <1>5 DEF ClearKey, GenerateKey, database
    <2>4. Subject' = Subject /\ Subject \in Instances /\ exec'.step = step /\ exec'.sandbox = exec.sandbox
      BY <1>b, <1>d, <2>1, <2>2
    <2>5. exec'.sandbox = inst'[Subject'].sandbox
      BY <1>a, <2>2, <2>3, <2>4 DEF Known
    <2>6. step = "create" => Live(Subject)' = {}
      <3>1. Live(Subject)' = Live(Subject)
        BY <2>3, <2>4 DEF Live, Gone
      <3>. QED  BY <1>g, <2>1, <2>2, <2>3, <2>4, <2>5, <3>1
    <2>. QED  BY <2>1, <2>4, <2>5, <2>6 DEF Known, ClearedSteps, SnapshotSteps, SidSteps
  \* A sandbox is deleted that is the recorded one: none is left.
  <1>6. CASE ReplaceSandbox \/ DiscardSandbox \/ DeleteSandbox
    <2>1. CASE \E retryable : Raise(retryable)
      BY <1>f, <2>1
    <2>2. CASE ~\E retryable : Raise(retryable)
      <3>1. /\ exec.step \in {"replace", "discard", "delete_sandbox"}
            /\ boxes' = Deleted(exec.sandbox)
            /\ \E step \in ClearedSteps : exec' = [exec EXCEPT !.step = step]
        BY <1>6, <2>2, NoneLost DEF ReplaceSandbox, DiscardSandbox, DeleteSandbox, ClearedSteps
      <3>2. PICK step \in ClearedSteps : exec' = [exec EXCEPT !.step = step]
        BY <3>1
      <3>3. Subject' = Subject /\ Subject \in Instances /\ exec'.step = step
        BY <1>b, <1>d, <3>1, <3>2
      <3>4. exec.sandbox = inst[Subject].sandbox
        BY <1>a, <3>1 DEF Known, SnapshotSteps
      <3>5. Live(Subject) \subseteq {exec.sandbox}
        BY <1>g, <3>1, <3>3, <3>4
      <3>6. Live(Subject)' \subseteq Live(Subject)
        BY <1>c, <3>1, <3>3 DEF CreateSandbox
      <3>7. exec.sandbox \notin Live(Subject)'
        BY <3>1, <3>3, DeletedIsGone
      <3>8. Live(Subject)' = {}
        BY <3>5, <3>6, <3>7
      <3>. QED  BY <3>3, <3>8 DEF Known, ClearedSteps, SnapshotSteps, SidSteps
    <2>. QED  BY <2>1, <2>2
  <1>7. CASE ForgetSandbox \/ RevokeKey
    <2>1. /\ exec.step \in ClearedSteps /\ exec.step \notin {"idle", "ended"} /\ UNCHANGED boxes
          /\ \E step \in {"create", "close"} : exec' = [exec EXCEPT !.step = step]
      BY <1>7, NoneLost DEF ForgetSandbox, RevokeKey, Goto, ClearedSteps, upstream
    <2>2. PICK step \in {"create", "close"} : exec' = [exec EXCEPT !.step = step]
      BY <2>1
    <2>3. Subject' = Subject /\ Subject \in Instances /\ exec'.step = step
      BY <1>b, <1>d, <2>1, <2>2
    <2>4. Live(Subject)' = Live(Subject)
      BY <2>1, <2>3 DEF Live, Gone
    <2>. QED  BY <1>a, <2>1, <2>3, <2>4 DEF Known, ClearedSteps, SnapshotSteps, SidSteps
  <1>8. CASE InspectSandbox
    <2>1. exec.step = "inspect" /\ UNCHANGED <<inst, boxes>>
      BY <1>8 DEF InspectSandbox, database, upstream
    <2>2. Subject \in Instances /\ exec.sandbox = inst[Subject].sandbox
      BY <1>a, <2>1, SubjectIn DEF Known, SnapshotSteps
    <2>3. CASE Gone(exec.sandbox) /\ Goto("create")
      <3>1. exec'.step = "create" /\ Subject' = Subject
        BY <1>b, <1>d, <2>1, <2>3 DEF Goto
      <3>2. Live(Subject) = {}
        BY <1>g, <2>1, <2>2, <2>3 DEF Live
      <3>3. Live(Subject)' = Live(Subject)
        BY <2>1, <3>1 DEF Live, Gone
      <3>. QED  BY <3>1, <3>2, <3>3 DEF Known, ClearedSteps, SnapshotSteps, SidSteps
    <2>4. CASE exec' = [exec EXCEPT !.sid = exec.sandbox, !.step = "wait"]
      <3>1. exec'.step = "wait" /\ exec'.sid = exec.sandbox /\ Subject' = Subject
        BY <1>b, <1>e, <2>1, <2>4
      <3>. QED  BY <2>1, <2>2, <3>1 DEF Known, ClearedSteps, SnapshotSteps, SidSteps
    <2>5. CASE Goto("discard")
      <3>1. exec'.step = "discard" /\ exec'.sandbox = exec.sandbox /\ Subject' = Subject
        BY <1>b, <1>d, <2>1, <2>5 DEF Goto
      <3>. QED  BY <2>1, <2>2, <3>1 DEF Known, ClearedSteps, SnapshotSteps, SidSteps
    <2>. QED  BY <1>8, <2>3, <2>4, <2>5 DEF InspectSandbox
  \* There is nothing to adopt.
  <1>9. CASE FindSandbox
    <2>1. exec.step = "find" /\ UNCHANGED <<inst, boxes>>
      BY <1>9 DEF FindSandbox, database, upstream
    <2>2. Subject \in Instances /\ inst[Subject].sandbox = None
      BY <1>a, <2>1, SubjectIn DEF Known, SnapshotSteps
    <2>3. Live(Subject) = {}
      BY <1>g, <2>1, <2>2
    <2>4. Goto("create")
      BY <1>9, <2>3 DEF FindSandbox, Live
    <2>5. exec'.step = "create" /\ Subject' = Subject
      BY <1>b, <1>d, <2>1, <2>4 DEF Goto
    <2>6. Live(Subject)' = Live(Subject)
      BY <2>1, <2>5 DEF Live, Gone
    <2>. QED  BY <2>3, <2>5, <2>6 DEF Known, ClearedSteps, SnapshotSteps, SidSteps
  <1>10. CASE CreateSandbox
    <2>1. exec.step = "create" /\ exec' = [exec EXCEPT !.sid = Len(boxes) + 1, !.step = "record"]
      BY <1>10, NoneLost DEF CreateSandbox
    <2>2. /\ exec'.step = "record" /\ exec'.sid = Len(boxes) + 1
          /\ Subject' = Subject /\ Subject \in Instances
      BY <1>b, <1>e, <2>1
    <2>3. Live(Subject) = {}
      BY <1>a, <2>1 DEF Known, ClearedSteps
    <2>4. Live(Subject)' \subseteq {exec'.sid}
      BY <2>2, <2>3, LiveFrom
    <2>. QED  BY <2>2, <2>4 DEF Known, ClearedSteps, SnapshotSteps, SidSteps
  <1>11. CASE RecordSandbox
    <2>1. exec'.step = "wait" /\ exec'.sid = exec.sid /\ Subject' = Subject /\ Subject \in Instances
      BY <1>b, <1>d, <1>11 DEF RecordSandbox, Goto
    <2>2. inst'[Subject].sandbox = exec.sid
      BY <1>11, <2>1 DEF RecordSandbox, IInv, TypeOK, Row
    <2>. QED  BY <2>1, <2>2 DEF Known, ClearedSteps, SnapshotSteps, SidSteps
  <1>12. CASE WaitRunning \/ WaitBridge \/ ReplaceModels
    <2>1. CASE \E retryable : Raise(retryable)
      BY <1>f, <2>1
    <2>2. CASE ~\E retryable : Raise(retryable)
      <3>1. /\ exec.step \in {"wait", "bridge", "models"} /\ UNCHANGED inst
            /\ \E step \in {"bridge", "models", "commit"} : exec' = [exec EXCEPT !.step = step]
        BY <1>12, <2>2, NoneLost DEF WaitRunning, WaitBridge, ReplaceModels, Goto, database
      <3>2. PICK step \in {"bridge", "models", "commit"} : exec' = [exec EXCEPT !.step = step]
        BY <3>1
      <3>3. exec'.step = step /\ exec'.sid = exec.sid /\ Subject' = Subject
        BY <1>b, <1>d, <3>1, <3>2
      <3>4. exec.sid = inst[Subject].sandbox
        BY <1>a, <3>1 DEF Known, SidSteps
      <3>. QED  BY <3>1, <3>3, <3>4 DEF Known, ClearedSteps, SnapshotSteps, SidSteps
    <2>. QED  BY <2>1, <2>2
  <1>. QED
    BY <1>1, <1>2, <1>3, <1>4, <1>5, <1>6, <1>7, <1>8, <1>9, <1>10, <1>11, <1>12, <1>13, WorkerAlone
       DEF Execute

------------------------------------------------------------------------------
(* What the rows promise of the sandboxes, once nothing is under way.        *)

\* An instance gets idle by the end of its last operation only.  If its row then says ready or
\* stopped, it is this end that says so: a failure writes "failed", or leaves what a later request
\* has begun.
LEMMA LastEnds ==
    ASSUME IInv, [Next]_vars, NEW i \in Instances, ActiveOps(i, Kinds)' = {},
           NEW o \in ActiveOps(i, Kinds), inst'[i].state \in {"ready", "stopped", "destroyed"}
    PROVE  /\ Subject = i /\ (CommitReady \/ CommitStopped)
           /\ CommitReady => inst'[i].state = "ready"
           /\ CommitStopped => inst'[i].state \in {"stopped", "destroyed"}
  <1>a. inst \in [Instances -> Row] /\ inst[i] \in Row
    BY RowAt DEF IInv, TypeOK
  <1>1. Succeeds(o) \/ Fails(o)
    BY ActiveKept
  <1>2. Subject = i
    BY <1>1 DEF Succeeds, Fails, Subject, ActiveOps
  <1>3. inst[i].state \in {exec.seen.state, "provisioning", "stopping", "destroying"}
    BY <1>1, <1>2, SeenState DEF Succeeds, Fails, CommitReady, CommitStopped, Fail
  <1>4. ~Fails(o)
    <2>1. Fails(o) => inst'[i].state = Updated(exec.seen.state, "failed", inst[i].state)
      BY <1>2 DEF Fails
    <2>. QED  BY <1>3, <2>1 DEF Updated
  <1>5. ASSUME CommitReady
        PROVE  inst'[i].state = "ready"
    <2>1. inst'[i].state = Updated(exec.seen.state, "ready", inst[i].state)
      BY <1>a, <1>2, <1>5 DEF CommitReady, Row
    <2>. QED  BY <1>3, <2>1 DEF Updated
  <1>6. ASSUME CommitStopped
        PROVE  inst'[i].state \in {"stopped", "destroyed"}
    <2>. DEFINE stopped == StoppedState(ops[exec.op].kind)
    <2>1. inst'[i] = [inst[i] EXCEPT !.state = Updated(exec.seen.state, stopped, @),
                                     !.sandbox = None,
                                     !.url = Updated(exec.seen.url, None, @),
                                     !.cred = None]
      BY <1>a, <1>2, <1>6 DEF CommitStopped
    <2>2. inst'[i].state = Updated(exec.seen.state, stopped, inst[i].state)
      <3>. HIDE DEF stopped
      <3>. QED  BY <1>a, <2>1 DEF Row
    <2>. QED  BY <1>3, <2>2 DEF Updated, StoppedState
  <1>. QED  BY <1>1, <1>2, <1>4, <1>5, <1>6 DEF Succeeds

\* The worker is not at an instance that has nothing under way.
LEMMA IdleLeftAlone ==
    ASSUME IInv, [Next]_vars, NEW i \in Instances, ActiveOps(i, Kinds) = {},
           exec.step \notin {"idle", "ended"}
    PROVE  Subject # i
  <1>1. exec.op \in DOMAIN ops /\ Active(exec.op) /\ ops[exec.op].kind \in Kinds
    BY SubjectIn, OpAt DEF IInv, OpRow
  <1>. QED  BY <1>1 DEF ActiveOps, Subject

LEMMA CleanStep ==
    ASSUME IInv, AInv, [Next]_vars
    PROVE  StoppedIsClean'
  <1>. SUFFICES ASSUME NEW i \in Instances, inst'[i].state \in {"stopped", "destroyed"},
                       ActiveOps(i, Kinds)' = {}
                PROVE  Live(i)' = {}
    BY DEF StoppedIsClean, Idle
  <1>1. CASE ActiveOps(i, Kinds) = {}
    <2>1. ~CommitReady \/ Subject # i
      BY <1>1, IdleLeftAlone DEF CommitReady
    <2>2. ~CommitStopped \/ Subject # i
      BY <1>1, IdleLeftAlone DEF CommitStopped
    <2>3. ~Fail \/ Subject # i
      BY <1>1, IdleLeftAlone DEF Fail
    <2>4. inst[i].state \in {"stopped", "destroyed"}
      BY <2>1, <2>2, <2>3, RowSteps
         DEF Created, Asked, Requeued, Delivered, Cleared, GivenUp, Noted, Updated, Begun
    <2>5. Live(i) = {}
      BY <1>1, <2>4 DEF AInv, StoppedIsClean, Idle
    <2>6. ~(CreateSandbox /\ Subject = i)
      BY <1>1, IdleLeftAlone DEF CreateSandbox
    <2>. QED  BY <2>5, <2>6, LiveFrom
  <1>2. CASE ActiveOps(i, Kinds) # {}
    <2>1. CommitStopped /\ Subject = i
      BY <1>2, LastEnds
    <2>2. Live(i) = {} /\ ~CreateSandbox
      BY <2>1 DEF CommitStopped, CreateSandbox, AInv, Known, ClearedSteps
    <2>. QED  BY <2>2, LiveFrom
  <1>. QED  BY <1>1, <1>2

LEMMA WatchedStep ==
    ASSUME IInv, DInv, AInv, [Next]_vars
    PROVE  ReadyIsWatched'
  <1>. SUFFICES ASSUME NEW i \in Instances, inst'[i].state = "ready", ActiveOps(i, Kinds)' = {}
                PROVE  inst'[i].sandbox # None /\ inst'[i].url = inst'[i].sandbox
    BY DEF ReadyIsWatched, Idle
  <1>1. CASE ActiveOps(i, Kinds) = {}
    <2>1. ~CommitReady \/ Subject # i
      BY <1>1, IdleLeftAlone DEF CommitReady
    <2>2. ~CommitStopped \/ Subject # i
      BY <1>1, IdleLeftAlone DEF CommitStopped
    <2>3. ~Fail \/ Subject # i
      BY <1>1, IdleLeftAlone DEF Fail
    <2>4. ~Noted(i)
      BY <1>1, IdleLeftAlone DEF Noted, ForgetSandbox, RecordSandbox
    <2>5. /\ inst[i].state = "ready"
          /\ inst'[i].sandbox = inst[i].sandbox /\ inst'[i].url = inst[i].url
      BY <2>1, <2>2, <2>3, <2>4, RowSteps
         DEF Created, Asked, Requeued, Delivered, Cleared, GivenUp, Updated, Begun, Draws, Stays
    <2>. QED  BY <1>1, <2>5 DEF AInv, ReadyIsWatched, Idle
  <1>2. CASE ActiveOps(i, Kinds) # {}
    <2>1. CommitReady /\ Subject = i
      BY <1>2, LastEnds
    <2>2. inst \in [Instances -> Row] /\ inst[i] \in Row /\ exec.step = "commit"
      BY <2>1, RowAt DEF IInv, TypeOK, CommitReady
    <2>3. exec.sid = inst[i].sandbox /\ exec.sid \in DOMAIN boxes
      BY <2>1, <2>2 DEF AInv, Known, DInv, WorkerBoxes, SidSteps, IsOf
    <2>4. exec.sid # None
      BY <2>3 DEF None, IInv, TypeOK
    <2>5. inst'[i].sandbox = inst[i].sandbox
      BY <2>1, <2>2 DEF CommitReady, Row
    <2>6. inst'[i].url = exec.sid
      BY <2>1, CommitUrl
    <2>. QED  BY <2>3, <2>4, <2>5, <2>6
  <1>. QED  BY <1>1, <1>2

------------------------------------------------------------------------------
(* The theorem.                                                              *)

LEMMA InitAccounts == Init => AInv
  BY DEF Init, AInv, Recorded, Known, StoppedIsClean, ReadyIsWatched, Live, IdleExec, ClearedSteps,
         SnapshotSteps, SidSteps

LEMMA NextAccounts ==
    ASSUME Reliable
    PROVE  IInv /\ DInv /\ AInv /\ [Next]_vars => AInv'
  BY RecordedStep, KnownStep, CleanStep, WatchedStep DEF AInv

LEMMA OnlyOne ==
    ASSUME IInv, Recorded, Known
    PROVE  OneSandbox
  <1>. SUFFICES ASSUME NEW i \in Instances
                PROVE  Cardinality(Live(i)) <= 1
    BY DEF OneSandbox
  <1>1. PICK s : Live(i) \subseteq {s}
    <2>1. CASE exec.step = "record" /\ Subject = i
      BY <2>1 DEF Known
    <2>2. CASE ~(exec.step = "record" /\ Subject = i)
      BY <2>2 DEF Recorded
    <2>. QED  BY <2>1, <2>2
  <1>2. Live(i) = {} \/ Live(i) = {s}
    BY <1>1
  <1>3. Cardinality({}) = 0 /\ Cardinality({s}) = 1
    BY FS_EmptySet, FS_Singleton
  <1>. QED  BY <1>2, <1>3

\* Where no answer is lost, the manager does not crash and the database answers, an instance has
\* one sandbox at most; and once nothing is under way, none when it is stopped or destroyed, and
\* when it is ready the one its row names, to which sessions are sent and which the monitor
\* watches; whatever calls are rejected, sandboxes die and requests come in between, and although
\* a recovery may stand beside a provision.
THEOREM SandboxesAreAccountedFor ==
    ASSUME Faults \cap {"lost", "crash", "database"} = {}
    PROVE  Spec => []SandboxesAccounted
  <1>1. Reliable
    BY DEF Reliable
  <1>2. IInv /\ DInv /\ AInv /\ [Next]_vars => AInv'
    BY <1>1, NextAccounts
  <1>3. IInv /\ AInv => SandboxesAccounted
    BY OnlyOne DEF AInv, SandboxesAccounted
  <1>. QED  BY <1>2, <1>3, InitAccounts, Inductive, DeliveryInvariant, PTL DEF Spec
==============================================================================
