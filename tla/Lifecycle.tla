------------------------------ MODULE Lifecycle ------------------------------
(***************************************************************************)
(* What the Runner Manager promises the consumers of its instance API, with *)
(* no operation queue, worker, sandbox or retry in sight.                   *)
(*                                                                         *)
(* An instance has a life-cycle state.  A request leaves the manager owing  *)
(* the instance a duty: bring it up, recover it, stop it, destroy it.  The  *)
(* state settles only when a duty that is owed is fulfilled or given up,    *)
(* and each duty once.  "granted" says whether the instance's LiteLLM key   *)
(* is registered: it changes only while a duty is owed, and agrees with the *)
(* duty that is fulfilled.                                                  *)
(*                                                                         *)
(* Module Operations is shown to implement this module.                     *)
(***************************************************************************)
CONSTANT Instances

VARIABLES
    life,      \* the instance's life-cycle state
    owed,      \* the duties requested and neither fulfilled nor given up
    granted    \* whether the instance's model key is registered

vars == <<life, owed, granted>>

UpDuties == {"provision", "recovery"}
Duties == UpDuties \cup {"stop", "destroy"}

\* The state a request for a duty puts the instance in, and the one its fulfilment does.
Begun == [provision |-> "provisioning", recovery |-> "provisioning",
          stop |-> "stopping", destroy |-> "destroying"]
Ended == [provision |-> "ready", recovery |-> "ready", stop |-> "stopped", destroy |-> "destroyed"]

Transitional == {Begun[d] : d \in Duties}
Settled == {"stopped", "failed", "destroyed"}
States == {"absent", "ready"} \cup Transitional \cup Settled

Init ==
    /\ life = [i \in Instances |-> "absent"]
    /\ owed = [i \in Instances |-> {}]
    /\ granted = [i \in Instances |-> FALSE]

\* A request makes a duty owed that was not.  It may leave the state as it is: the instance was
\* being worked on when the request came, and that work may have ended since.
Request(i, d) ==
    /\ d \notin owed[i]
    /\ owed' = [owed EXCEPT ![i] = @ \cup {d}]
    /\ \/ /\ life[i] = "absent" => d = "provision"
          /\ life' = [life EXCEPT ![i] = Begun[d]]
       \/ life[i] # "absent" /\ UNCHANGED life
    /\ UNCHANGED granted

\* A request to bring the instance up joins a duty that is owed, or was when the request came.
Join(i) ==
    /\ life[i] # "absent"
    /\ life' = [life EXCEPT ![i] = Begun["provision"]]
    /\ UNCHANGED <<owed, granted>>

\* Work towards a duty registers and revokes the key.
Grant(i) ==
    /\ owed[i] \cap UpDuties # {}
    /\ granted' = [granted EXCEPT ![i] = TRUE]
    /\ UNCHANGED <<life, owed>>

Revoke(i) ==
    /\ owed[i] # {}
    /\ granted' = [granted EXCEPT ![i] = FALSE]
    /\ UNCHANGED <<life, owed>>

\* A duty comes to its end in a state, unless a request has begun another meanwhile.
End(i, d, state) ==
    /\ d \in owed[i]
    /\ owed' = [owed EXCEPT ![i] = @ \ {d}]
    /\ \/ life' = [life EXCEPT ![i] = state]
       \/ life[i] \in Transitional /\ UNCHANGED life
    /\ UNCHANGED granted

\* A duty is fulfilled: the instance is up with its key, or down without it.
Fulfil(i, d) == granted[i] = (d \in UpDuties) /\ End(i, d, Ended[d])

GiveUp(i, d) == End(i, d, "failed")

Next ==
    \E i \in Instances :
        \/ Join(i) \/ Grant(i) \/ Revoke(i)
        \/ \E d \in Duties : Request(i, d) \/ Fulfil(i, d) \/ GiveUp(i, d)

Spec == Init /\ [][Next]_vars

==============================================================================
