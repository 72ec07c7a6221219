-------------------------- MODULE Supervisor_proofs --------------------------
(***************************************************************************)
(* Proofs about Supervisor, for any sessions, requests, capacity and        *)
(* faults.                                                                  *)
(*                                                                         *)
(* That a session has one process rests on its lock: who starts a process   *)
(* has the lock from the moment it saw that the session has none (Starts)   *)
(* until the process is registered, over the eviction of another session's  *)
(* process; who stops one has the lock until the process is dead.  So what  *)
(* is proved first is that the queues tell who has a lock (LocksInv,        *)
(* CommandsInv), and that nobody gives up one that is not his.              *)
(*                                                                         *)
(* That locks are never waited for in a circle rests on the order in which  *)
(* evictions begin (EvictionsEnd): a victim is alive when it is chosen, so  *)
(* nobody is at work on a start of its session.                             *)
(***************************************************************************)
EXTENDS Supervisor, SequenceTheorems, TLAPS

------------------------------------------------------------------------------
(* The inductive invariant.                                                  *)

Stops == {"stop", "stopping", "waiting"}

\* What the row of a task says of the locks of a session: it is in the queue, or at its head.
InLock(row, s) ==
    \/ row.step \in {"start", "spawn", "boot", "settle"} /\ row.session = s
    \/ row.step \in Stops /\ row.target = s
    \/ row.step \in Stops /\ row.next = "spawn" /\ row.session = s
HasLock(row, s) ==
    \/ row.step \in {"spawn", "boot", "settle"} /\ row.session = s
    \/ row.step \in {"stopping", "waiting"} /\ row.target = s
    \/ row.step \in Stops /\ row.next = "spawn" /\ row.session = s
Prompts(row) ==
    \/ row.step \in {"command", "start", "spawn", "boot", "settle", "send"}
    \/ row.step \in Stops /\ row.next \in {"start", "spawn"}
InCommand(row, s) == Prompts(row) /\ row.session = s
HasCommand(row, s) == InCommand(row, s) /\ row.step # "command"

\* A queue: nobody is in it twice, just the tasks that wait or have are, and who has the lock is
\* first.
Queue(q, waiting, having) ==
    /\ q \in Seq(Tasks)
    /\ \A i, j \in DOMAIN q : q[i] = q[j] => i = j
    /\ \A i \in DOMAIN q : q[i] \in waiting
    /\ \A t \in waiting : \E i \in DOMAIN q : q[i] = t
    /\ \A t \in having : q # <<>> /\ Head(q) = t

LockWaiting(s) == {t \in Tasks : InLock(task[t], s)}
LockHaving(s) == {t \in Tasks : HasLock(task[t], s)}
CommandWaiting(s) == {t \in Tasks : InCommand(task[t], s)}
CommandHaving(s) == {t \in Tasks : HasCommand(task[t], s)}

LocksInv == \A s \in Sessions : Queue(lock[s], LockWaiting(s), LockHaving(s))
CommandsInv == \A s \in Sessions : Queue(command[s], CommandWaiting(s), CommandHaving(s))

\* What a row refers to.
RowOK(row) ==
    /\ Prompts(row) \/ row.step \in {"record", "erase"} => row.session \in Sessions
    /\ Prompts(row) \/ row.step = "record" => row.key \in Keys
    /\ row.step \in Stops =>
        /\ row.target \in Sessions
        /\ row.next = "spawn" => row.target # row.session
        /\ row.next = "start" => row.target = row.session
        /\ row.next = "erase" => row.session \in Sessions

RowsInv == \A t \in Tasks : RowOK(task[t])

\* Whoever starts a process, or makes room for it, knows that the session has none.
Starts(row) ==
    \/ row.step \in {"spawn", "boot"}
    \/ row.step \in Stops /\ row.next = "spawn"

Works(row, table, known) ==
    /\ row.todo \subseteq DOMAIN table
    /\ row.step \in {"boot", "settle", "send", "stopping", "waiting"} => row.proc \in DOMAIN table
    /\ row.step = "boot" => /\ table[row.proc].session = row.session
                            /\ table[row.proc].generation = None
    /\ row.step \in {"stopping", "waiting"} => known[row.target] \in {row.proc, None}
    /\ Starts(row) => known[row.session] = None \/ ~table[known[row.session]].alive

WorksInv == \A t \in Tasks : Works(task[t], procs, registered)

Finds(table, known) ==
    /\ \A s \in Sessions : known[s] # None =>
        /\ known[s] \in DOMAIN table
        /\ table[known[s]].session = s
        /\ table[known[s]].generation # None
    /\ \A p \in DOMAIN table :
        table[p].alive /\ table[p].generation # None => known[table[p].session] = p

IInv ==
    /\ TypeOK
    /\ LocksInv
    /\ CommandsInv
    /\ RowsInv
    /\ WorksInv
    /\ Finds(procs, registered)
    /\ generation # None

\* One task moves in a queue: it stays or not as before, joins at the end, leaves from the head, or
\* goes from the head to the end.
First(q, t) == q # <<>> /\ Head(q) = t
Moved(q, q2, t, waits, has, waits2, has2) ==
    \/ q2 = q /\ (waits <=> waits2) /\ (has2 => has \/ First(q, t))
    \/ q2 = Append(q, t) /\ ~waits /\ waits2 /\ ~has2
    \/ First(q, t) /\ q2 = Tail(q) /\ ~waits2 /\ ~has2
    \/ First(q, t) /\ q2 = Append(Tail(q), t) /\ waits2 /\ ~has2

LockMoved(t, s) ==
    Moved(lock[s], lock'[s], t, InLock(task[t], s), HasLock(task[t], s),
          InLock(task'[t], s), HasLock(task'[t], s))
CommandMoved(t, s) ==
    Moved(command[s], command'[s], t, InCommand(task[t], s), HasCommand(task[t], s),
          InCommand(task'[t], s), HasCommand(task'[t], s))

\* Processes are added before they are known, and change but for their session and generation;
\* they die, and the dead are forgotten.
Kept(table, known, table2, known2) ==
    /\ DOMAIN table \subseteq DOMAIN table2
    /\ \A p \in DOMAIN table :
        /\ table2[p].session = table[p].session
        /\ table2[p].generation = table[p].generation
        /\ table2[p].alive => table[p].alive
    /\ \A p \in DOMAIN table2 \ DOMAIN table : table2[p].generation = None
    /\ \A s \in Sessions :
        \/ known2[s] = known[s]
        \/ known2[s] = None /\ (known[s] = None \/ ~table2[known[s]].alive)

------------------------------------------------------------------------------
(* Queues.                                                                   *)

LEMMA Appended ==
    ASSUME NEW S, NEW q \in Seq(S), NEW t \in S
    PROVE  /\ Append(q, t) \in Seq(S)
           /\ DOMAIN Append(q, t) = 1 .. Len(q) + 1
           /\ DOMAIN q = 1 .. Len(q) /\ Len(q) \in Nat
           /\ \A i \in 1 .. Len(q) : Append(q, t)[i] = q[i]
           /\ Append(q, t)[Len(q) + 1] = t
           /\ q # <<>> => Append(q, t) # <<>> /\ Head(Append(q, t)) = Head(q)
  OBVIOUS

LEMMA Headless ==
    ASSUME NEW q \in Seq(Tasks), q # <<>>
    PROVE  /\ Tail(q) \in Seq(Tasks)
           /\ DOMAIN q = 1 .. Len(q) /\ Len(q) \in Nat \ {0}
           /\ DOMAIN Tail(q) = 1 .. Len(q) - 1
           /\ \A i \in 1 .. Len(q) - 1 : Tail(q)[i] = q[i + 1]
           /\ Head(q) = q[1]
  BY HeadTailProperties, LenProperties, EmptySeq

LEMMA QueueJoined ==
    ASSUME NEW q, NEW t \in Tasks, NEW W, NEW H, NEW W2, NEW H2,
           Queue(q, W, H), t \notin W, W2 = W \cup {t}, H2 \subseteq H
    PROVE  Queue(Append(q, t), W2, H2)
<1> q \in Seq(Tasks)  BY DEF Queue
<1>1. \A i \in 1 .. Len(q) : q[i] # t  BY Appended DEF Queue
<1>2. ASSUME NEW u \in W2
      PROVE  \E i \in DOMAIN Append(q, t) : Append(q, t)[i] = u
  <2>1. CASE u = t
    <3>1. Len(q) + 1 \in DOMAIN Append(q, t) /\ Append(q, t)[Len(q) + 1] = t  BY Appended
    <3> QED  BY <2>1, <3>1
  <2>2. CASE u \in W
    <3>1. PICK i \in 1 .. Len(q) : q[i] = u  BY <2>2, Appended DEF Queue
    <3>2. i \in DOMAIN Append(q, t) /\ Append(q, t)[i] = u  BY <3>1, Appended
    <3> QED  BY <3>2
  <2> QED  BY <2>1, <2>2
<1> QED  BY <1>1, <1>2, Appended DEF Queue

LEMMA QueueLeft ==
    ASSUME NEW q, NEW t \in Tasks, NEW W, NEW H, Queue(q, W, H), First(q, t)
    PROVE  Queue(Tail(q), W \ {t}, {})
<1> q \in Seq(Tasks) /\ q # <<>>  BY DEF Queue, First
<1>1. \A i \in 2 .. Len(q) : q[i] # t /\ q[i] \in W  BY Headless DEF Queue, First
<1>2. ASSUME NEW u \in W \ {t}
      PROVE  \E i \in DOMAIN Tail(q) : Tail(q)[i] = u
  <2>1. PICK i \in 1 .. Len(q) : q[i] = u  BY Headless DEF Queue
  <2>2. i # 1  BY <2>1, Headless DEF First
  <2>3. i - 1 \in DOMAIN Tail(q) /\ Tail(q)[i - 1] = u  BY <2>1, <2>2, Headless
  <2> QED  BY <2>3
<1> QED  BY <1>1, <1>2, Headless DEF Queue, First

\* A queue stays in order when one task moves.
LEMMA QueueMoves ==
    ASSUME NEW q, NEW q2, NEW t \in Tasks, NEW W, NEW H, NEW W2, NEW H2,
           Queue(q, W, H), W \subseteq Tasks, W2 \subseteq Tasks, H2 \subseteq Tasks,
           \A u \in Tasks \ {t} : (u \in W <=> u \in W2) /\ (u \in H2 => u \in H),
           Moved(q, q2, t, t \in W, t \in H, t \in W2, t \in H2)
    PROVE  Queue(q2, W2, H2)
<1>1. CASE q2 = q /\ (t \in W <=> t \in W2) /\ (t \in H2 => t \in H \/ First(q, t))
  <2>1. W2 = W  BY <1>1
  <2> QED  BY <1>1, <2>1 DEF Queue, First
<1>2. CASE q2 = Append(q, t) /\ t \notin W /\ t \in W2 /\ t \notin H2
  <2>1. W2 = W \cup {t} /\ H2 \subseteq H  BY <1>2
  <2> QED  BY <1>2, <2>1, QueueJoined
<1>3. ASSUME First(q, t), t \notin H2
      PROVE  H2 = {}
  BY <1>3 DEF Queue, First
<1>4. CASE First(q, t) /\ q2 = Tail(q) /\ t \notin W2 /\ t \notin H2
  <2>1. W2 = W \ {t}  BY <1>4
  <2> QED  BY <1>3, <1>4, <2>1, QueueLeft
<1>5. CASE First(q, t) /\ q2 = Append(Tail(q), t) /\ t \in W2 /\ t \notin H2
  <2>1. Queue(Tail(q), W \ {t}, {})  BY <1>5, QueueLeft
  <2>2. W2 = (W \ {t}) \cup {t}  BY <1>5
  <2> QED  BY <1>3, <1>5, <2>1, <2>2, QueueJoined
<1> QED  BY <1>1, <1>2, <1>4, <1>5 DEF Moved

LEMMA LockMoves ==
    ASSUME LocksInv, NEW t \in Tasks, \A u \in Tasks \ {t} : task'[u] = task[u],
           \A s \in Sessions : LockMoved(t, s)
    PROVE  LocksInv'
<1> SUFFICES ASSUME NEW s \in Sessions
             PROVE  Queue(lock'[s], LockWaiting(s)', LockHaving(s)')
  BY DEF LocksInv
<1>1. Queue(lock[s], LockWaiting(s), LockHaving(s))  BY DEF LocksInv
<1>2. \A u \in Tasks \ {t} : /\ u \in LockWaiting(s) <=> u \in LockWaiting(s)'
                             /\ u \in LockHaving(s)' => u \in LockHaving(s)
  BY DEF LockWaiting, LockHaving
<1>3. Moved(lock[s], lock'[s], t, t \in LockWaiting(s), t \in LockHaving(s),
            t \in LockWaiting(s)', t \in LockHaving(s)')
  BY DEF LockMoved, Moved, LockWaiting, LockHaving
<1>4. /\ LockWaiting(s) \subseteq Tasks /\ LockWaiting(s)' \subseteq Tasks
      /\ LockHaving(s)' \subseteq Tasks
  BY DEF LockWaiting, LockHaving
<1> QED  BY <1>1, <1>2, <1>3, <1>4, QueueMoves

LEMMA CommandMoves ==
    ASSUME CommandsInv, NEW t \in Tasks, \A u \in Tasks \ {t} : task'[u] = task[u],
           \A s \in Sessions : CommandMoved(t, s)
    PROVE  CommandsInv'
<1> SUFFICES ASSUME NEW s \in Sessions
             PROVE  Queue(command'[s], CommandWaiting(s)', CommandHaving(s)')
  BY DEF CommandsInv
<1>1. Queue(command[s], CommandWaiting(s), CommandHaving(s))  BY DEF CommandsInv
<1>2. \A u \in Tasks \ {t} : /\ u \in CommandWaiting(s) <=> u \in CommandWaiting(s)'
                             /\ u \in CommandHaving(s)' => u \in CommandHaving(s)
  BY DEF CommandWaiting, CommandHaving
<1>3. Moved(command[s], command'[s], t, t \in CommandWaiting(s), t \in CommandHaving(s),
            t \in CommandWaiting(s)', t \in CommandHaving(s)')
  BY DEF CommandMoved, Moved, CommandWaiting, CommandHaving
<1>4. /\ CommandWaiting(s) \subseteq Tasks /\ CommandWaiting(s)' \subseteq Tasks
      /\ CommandHaving(s)' \subseteq Tasks
  BY DEF CommandWaiting, CommandHaving
<1> QED  BY <1>1, <1>2, <1>3, <1>4, QueueMoves

------------------------------------------------------------------------------
(* The process table.                                                        *)

LEMMA KeptWorks ==
    ASSUME NEW row, NEW table, NEW known, NEW table2, NEW known2,
           Kept(table, known, table2, known2), Finds(table, known),
           RowOK(row), Works(row, table, known)
    PROVE  Works(row, table2, known2)
<1>1. row.todo \subseteq DOMAIN table2  BY DEF Kept, Works
<1>2. row.step \in {"boot", "settle", "send", "stopping", "waiting"} =>
        /\ row.proc \in DOMAIN table2
        /\ table2[row.proc].session = table[row.proc].session
        /\ table2[row.proc].generation = table[row.proc].generation
  BY DEF Kept, Works
<1>3. row.step \in {"stopping", "waiting"} => known2[row.target] \in {row.proc, None}
  BY DEF Kept, Works, RowOK, Stops
<1>4. Starts(row) => row.session \in Sessions  BY DEF Starts, RowOK, Prompts
<1>5. Starts(row) => known2[row.session] = None \/ ~table2[known2[row.session]].alive
  BY <1>4 DEF Kept, Works, Finds
<1> QED  BY <1>1, <1>2, <1>3, <1>5 DEF Works

LEMMA KeptFinds ==
    ASSUME NEW table \in Seq(Process), NEW known, NEW table2 \in Seq(Process), NEW known2,
           Kept(table, known, table2, known2), Finds(table, known)
    PROVE  Finds(table2, known2)
<1>1. \A s \in Sessions : known2[s] # None =>
        /\ known2[s] \in DOMAIN table2
        /\ table2[known2[s]].session = s
        /\ table2[known2[s]].generation # None
  BY DEF Kept, Finds
<1>2. ASSUME NEW p \in DOMAIN table2, table2[p].alive, table2[p].generation # None
      PROVE  known2[table2[p].session] = p
  <2>1. p \in DOMAIN table /\ table[p].alive  BY <1>2 DEF Kept
  <2>2. table[p].session \in Sessions /\ table2[p].session = table[p].session
    <3>1. table[p] \in Process  BY <2>1, ElementOfSeq, LenProperties
    <3> QED  BY <2>1, <3>1 DEF Kept, Process
  <2>3. known[table[p].session] = p  BY <1>2, <2>1 DEF Finds, Kept
  <2>4. p # None  BY <2>1, LenProperties DEF None
  <2> QED  BY <1>2, <2>2, <2>3, <2>4 DEF Kept
<1> QED  BY <1>1, <1>2 DEF Finds

LEMMA KeptAlone ==
    ASSUME TypeOK, UNCHANGED <<procs, registered>>
    PROVE  Kept(procs, registered, procs', registered')
  BY DEF Kept

\* One entry of the process table changes.
LEMMA ProcessChanges ==
    ASSUME TypeOK, NEW p \in DOMAIN procs, NEW row \in Process,
           procs' = [procs EXCEPT ![p] = row]
    PROVE  /\ procs' \in Seq(Process)
           /\ DOMAIN procs' = DOMAIN procs
           /\ procs'[p] = row
           /\ \A q \in DOMAIN procs \ {p} : procs'[q] = procs[q]
  BY ExceptSeq, LenProperties DEF TypeOK

\* A step of a task keeps the invariant, if what it does with its own row is right, and the other
\* rows stay right.
LEMMA AnyTaskStep ==
    ASSUME IInv, TypeOK', NEW t \in Tasks,
           \A u \in Tasks \ {t} : task'[u] = task[u] /\ Works(task[u], procs', registered'),
           \A s \in Sessions : LockMoved(t, s) /\ CommandMoved(t, s),
           RowOK(task'[t]), Works(task'[t], procs', registered'),
           Finds(procs', registered'),
           generation' # None
    PROVE  IInv'
<1>1. LocksInv' /\ CommandsInv'  BY LockMoves, CommandMoves DEF IInv
<1>2. RowsInv'  BY DEF IInv, RowsInv
<1>3. \A u \in Tasks : Works(task'[u], procs', registered')  OBVIOUS
<1> QED  BY <1>1, <1>2, <1>3 DEF IInv, WorksInv

\* Processes that are kept stay right.
LEMMA TaskStep ==
    ASSUME IInv, TypeOK', NEW t \in Tasks,
           \A u \in Tasks \ {t} : task'[u] = task[u],
           \A s \in Sessions : LockMoved(t, s) /\ CommandMoved(t, s),
           RowOK(task'[t]), Works(task'[t], procs', registered'),
           Kept(procs, registered, procs', registered'),
           generation' # None
    PROVE  IInv'
<1>1. ASSUME NEW u \in Tasks
      PROVE  Works(task[u], procs', registered')
  <2>1. RowOK(task[u]) /\ Works(task[u], procs, registered) /\ Finds(procs, registered)
    BY DEF IInv, RowsInv, WorksInv
  <2> QED  BY <2>1, KeptWorks
<1>2. Finds(procs', registered')  BY KeptFinds DEF IInv, TypeOK
<1> QED  BY <1>1, <1>2, AnyTaskStep

------------------------------------------------------------------------------
(* What the steps may rely on.                                               *)

LEMMA OfTask ==
    ASSUME IInv, NEW t \in Tasks
    PROVE  /\ task[t] \in Local
           /\ RowOK(task[t])
           /\ Works(task[t], procs, registered)
  BY DEF IInv, TypeOK, RowsInv, WorksInv

\* Who has the lock of a session is first in its queue, and alone.
LEMMA OfLock ==
    ASSUME IInv, NEW t \in Tasks, NEW s \in Sessions
    PROVE  /\ lock[s] \in Seq(Tasks)
           /\ HasLock(task[t], s) => /\ First(lock[s], t)
                                     /\ Tail(lock[s]) \in Seq(Tasks)
                                     /\ \A u \in Tasks : HasLock(task[u], s) => u = t
           /\ First(lock[s], t) => Tail(lock[s]) \in Seq(Tasks) /\ InLock(task[t], s)
<1>1. Queue(lock[s], LockWaiting(s), LockHaving(s))  BY DEF IInv, LocksInv
<1>2. \A u \in Tasks : HasLock(task[u], s) => First(lock[s], u)
  BY <1>1 DEF Queue, LockHaving, First
<1>3. First(lock[s], t) => Tail(lock[s]) \in Seq(Tasks) /\ t \in LockWaiting(s)
  BY <1>1, Headless DEF Queue, First
<1> QED  BY <1>1, <1>2, <1>3 DEF Queue, First, LockWaiting

LEMMA OfCommand ==
    ASSUME IInv, NEW t \in Tasks, NEW s \in Sessions
    PROVE  /\ command[s] \in Seq(Tasks)
           /\ HasCommand(task[t], s) => First(command[s], t) /\ Tail(command[s]) \in Seq(Tasks)
           /\ First(command[s], t) => Tail(command[s]) \in Seq(Tasks)
<1>1. Queue(command[s], CommandWaiting(s), CommandHaving(s))  BY DEF IInv, CommandsInv
<1>2. HasCommand(task[t], s) => First(command[s], t)
  BY <1>1 DEF Queue, CommandHaving, First
<1>3. First(command[s], t) => Tail(command[s]) \in Seq(Tasks)
  BY <1>1, Headless DEF Queue, First
<1> QED  BY <1>1, <1>2, <1>3 DEF Queue

LEMMA GotoChanges ==
    ASSUME IInv, NEW t \in Tasks, NEW step \in Steps, Goto(t, step)
    PROVE  /\ task' \in [Tasks -> Local]
           /\ \A u \in Tasks \ {t} : task'[u] = task[u]
           /\ task'[t].step = step
           /\ task'[t].session = task[t].session
           /\ task'[t].key = task[t].key
           /\ task'[t].proc = task[t].proc
           /\ task'[t].target = task[t].target
           /\ task'[t].next = task[t].next
           /\ task'[t].todo = task[t].todo
<1>1. task' = [task EXCEPT ![t] = [task[t] EXCEPT !.step = step]]  BY DEF Goto, IInv, TypeOK
<1>2. task[t] \in Local /\ task \in [Tasks -> Local]  BY DEF IInv, TypeOK
<1>3. [task[t] EXCEPT !.step = step] \in Local  BY <1>2 DEF Local
<1> QED  BY <1>1, <1>2, <1>3 DEF Local

LEMMA StoppingChanges ==
    ASSUME IInv, NEW t \in Tasks, NEW target \in Sessions,
           NEW next \in {"start", "spawn", "erase", "loop", "done"}, Stopping(t, target, next)
    PROVE  /\ task' \in [Tasks -> Local]
           /\ \A u \in Tasks \ {t} : task'[u] = task[u]
           /\ task'[t].step = "stop"
           /\ task'[t].session = task[t].session
           /\ task'[t].key = task[t].key
           /\ task'[t].target = target
           /\ task'[t].next = next
           /\ task'[t].todo = task[t].todo
           /\ lock' \in [Sessions -> Seq(Tasks)]
           /\ \A r \in Sessions :
                lock'[r] = IF r = target THEN Append(lock[r], t) ELSE lock[r]
<1> DEFINE row == [task[t] EXCEPT !.step = "stop", !.target = target, !.next = next]
<1>1. task' = [task EXCEPT ![t] = row]  BY DEF Stopping, IInv, TypeOK
<1>2. task[t] \in Local /\ task \in [Tasks -> Local]  BY DEF IInv, TypeOK
<1>3. row \in Local  BY <1>2 DEF Local, Steps
<1>4. lock' = Enqueued(lock, target, t)  BY DEF Stopping
<1>5. lock' \in [Sessions -> Seq(Tasks)]  BY <1>4, OfLock, Appended DEF Enqueued, IInv, TypeOK
<1>6. \A r \in Sessions : lock'[r] = IF r = target THEN Append(lock[r], t) ELSE lock[r]
  BY <1>4 DEF Enqueued, IInv, TypeOK
<1> QED  BY <1>1, <1>2, <1>3, <1>5, <1>6 DEF Local

\* Failing gives up both locks.
LEMMA GivingUp ==
    ASSUME IInv, NEW t \in Tasks, GiveUp(t),
           task[t].step \in {"start", "spawn", "boot", "settle"},
           First(lock[task[t].session], t)
    PROVE  /\ task' \in [Tasks -> Local]
           /\ lock' \in [Sessions -> Seq(Tasks)]
           /\ command' \in [Sessions -> Seq(Tasks)]
           /\ \A u \in Tasks \ {t} : task'[u] = task[u]
           /\ \A r \in Sessions : LockMoved(t, r) /\ CommandMoved(t, r)
           /\ RowOK(task'[t])
           /\ \A table, known : task[t].todo \subseteq DOMAIN table
                => Works(task'[t], table, known)
<1> DEFINE s == task[t].session
<1>1. s \in Sessions  BY OfTask DEF RowOK, Prompts
<1>2. First(command[s], t)  BY <1>1, OfCommand DEF HasCommand, InCommand, Prompts
<1>3. lock' = Released(lock, s) /\ command' = Released(command, s) /\ Goto(t, "done")
  BY DEF GiveUp
<1>4. /\ task' \in [Tasks -> Local]
      /\ \A u \in Tasks \ {t} : task'[u] = task[u]
      /\ task'[t].step = "done" /\ task'[t].todo = task[t].todo
  BY <1>3, GotoChanges DEF Steps
<1>5. lock' \in [Sessions -> Seq(Tasks)] /\ command' \in [Sessions -> Seq(Tasks)]
  BY <1>1, <1>2, <1>3, OfLock, OfCommand DEF Released, IInv, TypeOK
<1>6. \A r \in Sessions : LockMoved(t, r) /\ CommandMoved(t, r)
  BY <1>1, <1>2, <1>3, <1>4 DEF LockMoved, Moved, InLock, HasLock, Stops, Released, IInv, TypeOK,
     CommandMoved, InCommand, HasCommand, Prompts
<1> QED  BY <1>4, <1>5, <1>6 DEF RowOK, Works, Prompts, Starts, Stops

LEMMA RuntimeTyped ==
    ASSUME IInv, NEW s \in Sessions, NEW new \in Statuses, SetRuntime(s, new)
    PROVE  status' \in [Sessions -> Statuses]
  BY DEF SetRuntime, IInv, TypeOK

LEMMA InitHolds == Init => IInv
<1> SUFFICES ASSUME Init PROVE IInv  OBVIOUS
<1>1. TypeOK
  BY DEF Init, TypeOK, NewTask, Local, Steps, Statuses, None, Tasks
<1>2. LocksInv /\ CommandsInv
  BY DEF Init, LocksInv, CommandsInv, Queue, LockWaiting, LockHaving, CommandWaiting,
         CommandHaving, InLock, HasLock, HasCommand, InCommand, Prompts, NewTask, Stops
<1>3. RowsInv
  BY DEF Init, RowsInv, RowOK, Prompts, NewTask, Stops
<1>4. WorksInv
  BY DEF Init, WorksInv, Works, Starts, NewTask, Stops
<1>5. Finds(procs, registered)
  BY DEF Init, Finds
<1> QED  BY <1>1, <1>2, <1>3, <1>4, <1>5 DEF IInv, Init, None

------------------------------------------------------------------------------
(* The steps of a prompt.                                                    *)

LEMMA PromptKeeps ==
    ASSUME IInv, NEW t \in Tasks, NEW s \in Sessions, NEW k \in Keys, Prompt(t, s, k)
    PROVE  IInv'
<1>1. /\ task' \in [Tasks -> Local]
      /\ \A u \in Tasks \ {t} : task'[u] = task[u]
      /\ task'[t].step = "command" /\ task'[t].session = s /\ task'[t].key = k
      /\ task'[t].todo = {}
      /\ task[t].step = "new"
  BY DEF Prompt, New, At, NewTask, IInv, TypeOK, Local, Steps, None
<1>2. TypeOK'
  BY <1>1, OfCommand, Appended DEF IInv, TypeOK, Prompt, Enqueued
<1>3. \A r \in Sessions : LockMoved(t, r)
  BY <1>1 DEF LockMoved, Moved, InLock, HasLock, Stops, Prompt
<1>4. \A r \in Sessions : CommandMoved(t, r)
  BY <1>1 DEF CommandMoved, Moved, InCommand, HasCommand, Prompts, Stops, Prompt, Enqueued,
              IInv, TypeOK
<1>5. RowOK(task'[t]) /\ Works(task'[t], procs', registered')
  BY <1>1 DEF RowOK, Works, Prompts, Starts, Stops
<1> QED
  BY <1>1, <1>2, <1>3, <1>4, <1>5, TaskStep, KeptAlone DEF IInv, Prompt

LEMMA LookupKeeps ==
    ASSUME IInv, NEW t \in Tasks, Lookup(t)
    PROVE  IInv'
<1> DEFINE s == task[t].session
<1>1. /\ task[t].step = "command" /\ s \in Sessions /\ First(command[s], t)
      /\ UNCHANGED <<status, procs, registered, accepted, given, generation, faults>>
  BY OfTask DEF Lookup, At, Holds, First, RowOK, Prompts
<1>2. CASE Goto(t, "done") /\ command' = Released(command, s) /\ lock' = lock
  <2>1. TypeOK'
    BY <1>1, <1>2, GotoChanges, OfCommand DEF IInv, TypeOK, Released, Steps
  <2>2. \A r \in Sessions : LockMoved(t, r) /\ CommandMoved(t, r)
    BY <1>1, <1>2, GotoChanges DEF LockMoved, Moved, InLock, HasLock, Stops, Released, IInv, TypeOK,
       CommandMoved, InCommand, HasCommand, Prompts, Steps
  <2>3. RowOK(task'[t]) /\ Works(task'[t], procs', registered')
    BY <1>1, <1>2, GotoChanges, OfTask DEF RowOK, Works, Prompts, Starts, Stops, Steps
  <2> QED
    BY <1>1, <1>2, <2>1, <2>2, <2>3, GotoChanges, TaskStep, KeptAlone DEF IInv, Steps
<1>3. CASE Stopping(t, s, "start") /\ command' = command
  <2>1. TypeOK'
    BY <1>1, <1>3, StoppingChanges DEF IInv, TypeOK
  <2>2. \A r \in Sessions : LockMoved(t, r) /\ CommandMoved(t, r)
    <3> TAKE r \in Sessions
    <3>1. /\ task'[t].step = "stop" /\ task'[t].next = "start"
          /\ task'[t].session = s /\ task'[t].target = s
          /\ lock'[r] = IF r = s THEN Append(lock[r], t) ELSE lock[r]
      BY <1>1, <1>3, StoppingChanges
    <3>2. LockMoved(t, r)
      BY <1>1, <3>1 DEF LockMoved, Moved, InLock, HasLock, Stops
    <3>3. CommandMoved(t, r)
      BY <1>1, <1>3, <3>1 DEF CommandMoved, Moved, InCommand, HasCommand, Prompts, Stops
    <3> QED  BY <3>2, <3>3
  <2>3. RowOK(task'[t]) /\ Works(task'[t], procs', registered')
    BY <1>1, <1>3, StoppingChanges, OfTask DEF RowOK, Works, Prompts, Starts, Stops
  <2> QED
    BY <1>1, <1>3, <2>1, <2>2, <2>3, StoppingChanges, TaskStep, KeptAlone DEF IInv
<1>4. CASE lock' = Enqueued(lock, s, t) /\ Goto(t, "start") /\ command' = command
  <2>1. TypeOK'
    BY <1>1, <1>4, GotoChanges, OfLock, Appended DEF IInv, TypeOK, Enqueued, Steps
  <2>2. \A r \in Sessions : LockMoved(t, r) /\ CommandMoved(t, r)
    BY <1>1, <1>4, GotoChanges DEF LockMoved, Moved, InLock, HasLock, Stops, Enqueued, IInv,
       TypeOK, CommandMoved, InCommand, HasCommand, Prompts, Steps
  <2>3. RowOK(task'[t]) /\ Works(task'[t], procs', registered')
    BY <1>1, <1>4, GotoChanges, OfTask DEF RowOK, Works, Prompts, Starts, Stops, Steps
  <2> QED
    BY <1>1, <1>4, <2>1, <2>2, <2>3, GotoChanges, TaskStep, KeptAlone DEF IInv, Steps
<1> QED  BY <1>2, <1>3, <1>4 DEF Lookup

LEMMA GetOrStartKeeps ==
    ASSUME IInv, NEW t \in Tasks, GetOrStart(t)
    PROVE  IInv'
<1> DEFINE s == task[t].session
<1>1. /\ task[t].step = "start" /\ s \in Sessions /\ First(lock[s], t)
      /\ UNCHANGED <<status, procs, registered, accepted, given, generation, faults>>
  BY OfTask DEF GetOrStart, At, Holds, First, RowOK, Prompts
<1>2. CASE /\ Active(s)
           /\ task' = [task EXCEPT ![t].step = "send", ![t].proc = registered[s]]
           /\ lock' = Released(lock, s)
           /\ command' = command
  <2> DEFINE row == [task[t] EXCEPT !.step = "send", !.proc = registered[s]]
  <2>1. registered[s] \in DOMAIN procs /\ registered[s] \in Nat
    BY <1>1, <1>2 DEF Active, Finds, IInv, TypeOK
  <2>2. row \in Local  BY <2>1, OfTask DEF Local, Steps
  <2>3. /\ task' \in [Tasks -> Local]
        /\ \A u \in Tasks \ {t} : task'[u] = task[u]
        /\ task'[t] = row
    BY <1>2, <2>2 DEF IInv, TypeOK
  <2>4. /\ row.step = "send" /\ row.session = s /\ row.key = task[t].key
        /\ row.proc = registered[s] /\ row.todo = task[t].todo
    BY OfTask DEF Local
  <2> HIDE DEF row
  <2>5. TypeOK'
    BY <1>1, <1>2, <2>3, OfLock DEF IInv, TypeOK, Released
  <2>6. \A r \in Sessions : LockMoved(t, r) /\ CommandMoved(t, r)
    BY <1>1, <1>2, <2>3, <2>4 DEF LockMoved, Moved, InLock, HasLock, Stops, Released, IInv, TypeOK,
       CommandMoved, InCommand, HasCommand, Prompts
  <2>7. RowOK(task'[t]) /\ Works(task'[t], procs', registered')
    BY <1>1, <2>1, <2>3, <2>4, OfTask DEF RowOK, Works, Prompts, Starts, Stops
  <2> QED
    BY <1>1, <2>3, <2>5, <2>6, <2>7, TaskStep, KeptAlone DEF IInv
<1>3. CASE ~Active(s) /\ Goto(t, "spawn") /\ UNCHANGED <<lock, command>>
  <2>1. TypeOK'
    BY <1>1, <1>3, GotoChanges DEF IInv, TypeOK, Steps
  <2>2. \A r \in Sessions : LockMoved(t, r) /\ CommandMoved(t, r)
    BY <1>1, <1>3, GotoChanges DEF LockMoved, Moved, InLock, HasLock, Stops, IInv, TypeOK,
       CommandMoved, InCommand, HasCommand, Prompts, Steps
  <2>3. RowOK(task'[t]) /\ Works(task'[t], procs', registered')
    BY <1>1, <1>3, GotoChanges, OfTask DEF RowOK, Works, Prompts, Starts, Stops, Steps, Active
  <2> QED
    BY <1>1, <1>3, <2>1, <2>2, <2>3, GotoChanges, TaskStep, KeptAlone DEF IInv, Steps
<1>4. ASSUME ~Active(s), NEW victim \in IdleSessions, Stopping(t, victim, "spawn"),
             command' = command
      PROVE  IInv'
  <2>1. victim \in Sessions /\ victim # s  BY <1>4 DEF IdleSessions, ActiveSessions
  <2>2. TypeOK'
    BY <1>1, <1>4, <2>1, StoppingChanges DEF IInv, TypeOK
  <2>3. \A r \in Sessions : LockMoved(t, r) /\ CommandMoved(t, r)
    <3> TAKE r \in Sessions
    <3>1. /\ task'[t].step = "stop" /\ task'[t].next = "spawn"
          /\ task'[t].session = s /\ task'[t].target = victim
          /\ lock'[r] = IF r = victim THEN Append(lock[r], t) ELSE lock[r]
      BY <1>4, <2>1, StoppingChanges
    <3>2. LockMoved(t, r)
      BY <1>1, <2>1, <3>1 DEF LockMoved, Moved, InLock, HasLock, Stops
    <3>3. CommandMoved(t, r)
      BY <1>1, <1>4, <2>1, StoppingChanges DEF Stops, CommandMoved, Moved, InCommand, HasCommand,
         Prompts
    <3> QED  BY <3>2, <3>3
  <2>4. RowOK(task'[t]) /\ Works(task'[t], procs', registered')
    BY <1>1, <1>4, <2>1, StoppingChanges, OfTask DEF RowOK, Works, Prompts, Starts, Stops, Active
  <2> QED
    BY <1>1, <1>4, <2>1, <2>2, <2>3, <2>4, StoppingChanges, TaskStep, KeptAlone DEF IInv
<1>5. CASE GiveUp(t)
  <2>1. TypeOK'  BY <1>1, <1>5, GivingUp DEF IInv, TypeOK
  <2> QED
    BY <1>1, <1>5, <2>1, GivingUp, OfTask, TaskStep, KeptAlone DEF IInv, Works
<1> QED  BY <1>2, <1>3, <1>4, <1>5 DEF GetOrStart, Reuse

LEMMA SpawnKeeps ==
    ASSUME IInv, NEW t \in Tasks, Spawn(t)
    PROVE  IInv'
<1> DEFINE s == task[t].session
<1>1. /\ task[t].step = "spawn" /\ s \in Sessions /\ First(lock[s], t)
      /\ UNCHANGED <<registered, accepted, given, generation>>
  BY OfTask, OfLock DEF Spawn, At, RowOK, Prompts, HasLock
<1>2. CASE /\ SetRuntime(s, "starting")
           /\ procs' = Append(procs, NewProcess(s))
           /\ task' = [task EXCEPT ![t].step = "boot", ![t].proc = Len(procs) + 1]
           /\ UNCHANGED <<lock, command, faults>>
  <2> DEFINE row == [task[t] EXCEPT !.step = "boot", !.proc = Len(procs) + 1]
             new == NewProcess(s)
  <2>0. procs' = Append(procs, new)  BY <1>2
  <2>1. new \in Process /\ new.session = s /\ new.generation = None
    BY <1>1 DEF NewProcess, Process, IInv, TypeOK, None
  <2> HIDE DEF new
  <2>2. procs \in Seq(Process)  BY DEF IInv, TypeOK
  <2>3. /\ procs' \in Seq(Process)
        /\ DOMAIN procs = 1 .. Len(procs) /\ Len(procs) \in Nat
        /\ DOMAIN procs' = 1 .. Len(procs) + 1
        /\ \A p \in DOMAIN procs : procs'[p] = procs[p]
        /\ procs'[Len(procs) + 1] = new
    BY <2>0, <2>1, <2>2, Appended
  <2>4. row \in Local
    <3>1. task[t] \in Local /\ Len(procs) + 1 \in Nat  BY <2>3, OfTask
    <3> QED  BY <3>1 DEF Local, Steps
  <2>5. /\ task' \in [Tasks -> Local]
        /\ \A u \in Tasks \ {t} : task'[u] = task[u]
        /\ task'[t] = row
    BY <1>2, <2>4 DEF IInv, TypeOK
  <2>6. /\ row.step = "boot" /\ row.session = s /\ row.key = task[t].key
        /\ row.proc = Len(procs) + 1 /\ row.todo = task[t].todo
    BY OfTask DEF Local
  <2> HIDE DEF row
  <2>7. TypeOK'
    BY <1>1, <1>2, <2>3, <2>5, RuntimeTyped DEF IInv, TypeOK, Statuses
  <2>8. \A r \in Sessions : LockMoved(t, r) /\ CommandMoved(t, r)
    BY <1>1, <1>2, <2>5, <2>6 DEF LockMoved, Moved, InLock, HasLock, Stops, IInv, TypeOK,
       CommandMoved, InCommand, HasCommand, Prompts
  <2>9. RowOK(task'[t])
    BY <1>1, <2>5, <2>6, OfTask DEF RowOK, Prompts, Stops
  <2>10. Kept(procs, registered, procs', registered')
    BY <1>1, <2>1, <2>3 DEF Kept
  <2>11. registered[s] = None \/ ~procs'[registered[s]].alive
    BY <1>1, <2>3, OfTask DEF Works, Starts, IInv, Finds
  <2>12. Works(task'[t], procs', registered')
    BY <1>1, <2>1, <2>3, <2>5, <2>6, <2>11, OfTask DEF Works, Starts, Stops
  <2> QED
    BY <1>1, <2>5, <2>7, <2>8, <2>9, <2>10, <2>12, TaskStep DEF IInv
<1>3. CASE Fault("spawn") /\ SetRuntime(s, "failed") /\ GiveUp(t) /\ procs' = procs
  <2>1. faults' \in Nat  BY <1>3 DEF Fault, IInv, TypeOK
  <2>2. TypeOK'
    BY <1>1, <1>3, <2>1, GivingUp, RuntimeTyped DEF IInv, TypeOK, Statuses
  <2> QED
    BY <1>1, <1>3, <2>2, GivingUp, OfTask, TaskStep, KeptAlone DEF IInv, Works
<1> QED  BY <1>2, <1>3 DEF Spawn

LEMMA BootKeeps ==
    ASSUME IInv, NEW t \in Tasks, Boot(t)
    PROVE  IInv'
<1> DEFINE s == task[t].session
           p == task[t].proc
<1>1. /\ task[t].step = "boot" /\ s \in Sessions /\ First(lock[s], t)
      /\ UNCHANGED <<accepted, given, generation>>
  BY OfTask, OfLock DEF Boot, At, RowOK, Prompts, HasLock
<1>2. /\ p \in DOMAIN procs /\ procs[p] \in Process
      /\ procs[p].session = s /\ procs[p].generation = None
      /\ registered[s] = None \/ ~procs[registered[s]].alive
  <2>1. /\ p \in DOMAIN procs
        /\ procs[p].session = s /\ procs[p].generation = None
        /\ registered[s] = None \/ ~procs[registered[s]].alive
    BY <1>1, OfTask DEF Works, Starts
  <2> QED  BY <2>1, LenProperties, ElementOfSeq DEF IInv, TypeOK
<1>3. CASE /\ registered' = [registered EXCEPT ![s] = p]
           /\ procs' = [procs EXCEPT ![p].generation = generation]
           /\ Goto(t, "settle")
           /\ UNCHANGED <<status, lock, command, faults>>
  <2> DEFINE entry == [procs[p] EXCEPT !.generation = generation]
  <2>1. procs' = [procs EXCEPT ![p] = entry]  BY <1>2, <1>3, LenProperties DEF IInv, TypeOK
  <2>2. /\ entry \in Process /\ entry.session = s /\ entry.generation = generation
        /\ generation # None
    BY <1>2 DEF Process, IInv, TypeOK
  <2> HIDE DEF entry
  <2>3. /\ procs' \in Seq(Process) /\ DOMAIN procs' = DOMAIN procs /\ procs'[p] = entry
        /\ \A q \in DOMAIN procs \ {p} : procs'[q] = procs[q]
    BY <1>2, <2>1, <2>2, ProcessChanges DEF IInv
  <2>4. /\ registered' \in [Sessions -> Nat] /\ registered'[s] = p /\ p # None
        /\ \A r \in Sessions \ {s} : registered'[r] = registered[r]
    BY <1>1, <1>2, <1>3, LenProperties DEF IInv, TypeOK, None
  <2>5. TypeOK'
    BY <1>1, <1>3, <2>3, <2>4, GotoChanges DEF IInv, TypeOK, Steps
  <2>6. \A r \in Sessions : LockMoved(t, r) /\ CommandMoved(t, r)
    BY <1>1, <1>3, GotoChanges DEF LockMoved, Moved, InLock, HasLock, Stops, IInv, TypeOK,
       CommandMoved, InCommand, HasCommand, Prompts, Steps
  <2>7. RowOK(task'[t]) /\ Works(task'[t], procs', registered')
    BY <1>1, <1>2, <1>3, <2>3, GotoChanges, OfTask DEF RowOK, Works, Prompts, Starts, Stops, Steps
  <2>8. ASSUME NEW u \in Tasks \ {t}
        PROVE  Works(task[u], procs', registered')
    <3>1. Works(task[u], procs, registered) /\ RowOK(task[u]) /\ Finds(procs, registered)
      BY OfTask DEF IInv
    <3>2. ~HasLock(task[u], s)  BY <1>1, OfLock DEF HasLock
    <3>3. task[u].step = "boot" => /\ procs'[task[u].proc].session = task[u].session
                                   /\ procs'[task[u].proc].generation = None
      BY <1>2, <2>3, <3>1, <3>2 DEF Works, HasLock
    <3>4. task[u].step \in {"stopping", "waiting"} => task[u].target \in Sessions \ {s}
      BY <3>1, <3>2 DEF RowOK, HasLock, Stops
    <3>5. Starts(task[u]) => task[u].session \in Sessions \ {s}
      BY <3>1, <3>2 DEF RowOK, HasLock, Starts, Prompts
    <3>6. \A r \in Sessions \ {s} : registered[r] # None =>
             /\ registered[r] \in DOMAIN procs
             /\ procs'[registered[r]] = procs[registered[r]]
      BY <1>2, <2>3, <3>1 DEF Finds
    <3> QED  BY <2>3, <2>4, <3>1, <3>3, <3>4, <3>5, <3>6 DEF Works
  <2>9. Finds(procs', registered')
    <3>1. Finds(procs, registered)  BY DEF IInv
    <3>2. ASSUME NEW r \in Sessions, registered'[r] # None
          PROVE  /\ registered'[r] \in DOMAIN procs'
                 /\ procs'[registered'[r]].session = r
                 /\ procs'[registered'[r]].generation # None
      BY <1>2, <2>2, <2>3, <2>4, <3>1, <3>2 DEF Finds
    <3>3. ASSUME NEW q \in DOMAIN procs', procs'[q].alive, procs'[q].generation # None
          PROVE  registered'[procs'[q].session] = q
      <4>1. CASE q = p  BY <2>2, <2>3, <2>4, <4>1
      <4>2. CASE q # p
        <5>1. procs'[q] = procs[q] /\ registered[procs[q].session] = q
          BY <2>3, <3>1, <3>3, <4>2 DEF Finds
        <5>2. procs[q] \in Process /\ q # None
          BY <2>3, <3>3, LenProperties, ElementOfSeq DEF IInv, TypeOK, None
        <5>3. procs[q].session \in Sessions  BY <5>2 DEF Process
        <5>4. procs[q].session # s  BY <1>2, <3>3, <5>1, <5>2
        <5> QED  BY <2>4, <5>1, <5>3, <5>4
      <4> QED  BY <4>1, <4>2
    <3> QED  BY <3>2, <3>3 DEF Finds
  <2> QED
    BY <1>1, <1>3, <2>2, <2>5, <2>6, <2>7, <2>8, <2>9, GotoChanges, AnyTaskStep DEF Steps
<1>4. CASE /\ IF procs[p].alive THEN Fault("silent") ELSE UNCHANGED faults
           /\ SetRuntime(s, "failed") /\ GiveUp(t) /\ UNCHANGED <<registered, procs>>
  <2>1. faults' \in Nat  BY <1>4 DEF Fault, IInv, TypeOK
  <2>2. TypeOK'
    BY <1>1, <1>4, <2>1, GivingUp, RuntimeTyped DEF IInv, TypeOK, Statuses
  <2> QED
    BY <1>1, <1>4, <2>2, GivingUp, OfTask, TaskStep, KeptAlone DEF IInv, Works
<1> QED  BY <1>3, <1>4 DEF Boot

LEMMA SettleKeeps ==
    ASSUME IInv, NEW t \in Tasks, Settle(t)
    PROVE  IInv'
<1> DEFINE s == task[t].session
           p == task[t].proc
<1>1. /\ task[t].step = "settle" /\ s \in Sessions /\ First(lock[s], t)
      /\ UNCHANGED <<procs, registered, accepted, given, generation>>
  BY OfTask, OfLock DEF Settle, At, RowOK, Prompts, HasLock
<1>2. status' \in [Sessions -> Statuses] /\ faults' \in Nat
  <2>1. CASE SetRuntime(s, IF procs[p].streaming THEN "running" ELSE "idle") /\ UNCHANGED faults
    BY <1>1, <2>1, RuntimeTyped DEF Statuses, IInv, TypeOK
  <2>2. CASE UNCHANGED status /\ IF procs[p].alive THEN Fault("silent") ELSE UNCHANGED faults
    BY <2>2 DEF Fault, IInv, TypeOK
  <2> QED  BY <2>1, <2>2 DEF Settle
<1>3. CASE Goto(t, "send") /\ lock' = Released(lock, s) /\ UNCHANGED command
  <2>1. TypeOK'
    BY <1>1, <1>2, <1>3, GotoChanges, OfLock DEF IInv, TypeOK, Steps, Released
  <2>2. \A r \in Sessions : LockMoved(t, r) /\ CommandMoved(t, r)
    BY <1>1, <1>3, GotoChanges DEF LockMoved, Moved, InLock, HasLock, Stops, IInv, TypeOK, Released,
       CommandMoved, InCommand, HasCommand, Prompts, Steps
  <2>3. RowOK(task'[t]) /\ Works(task'[t], procs', registered')
    BY <1>1, <1>3, GotoChanges, OfTask DEF RowOK, Works, Prompts, Starts, Stops, Steps
  <2> QED
    BY <1>1, <1>3, <2>1, <2>2, <2>3, GotoChanges, TaskStep, KeptAlone DEF IInv, Steps
<1>4. CASE GiveUp(t)
  <2>1. TypeOK'
    BY <1>1, <1>2, <1>4, GivingUp DEF IInv, TypeOK
  <2> QED
    BY <1>1, <1>4, <2>1, GivingUp, OfTask, TaskStep, KeptAlone DEF IInv, Works
<1> QED  BY <1>3, <1>4 DEF Settle

\* One entry of the process table changes, but for its session and generation.
LEMMA EntryChanges ==
    ASSUME IInv, NEW p \in DOMAIN procs, NEW row \in Process,
           procs' = [procs EXCEPT ![p] = row],
           row.session = procs[p].session, row.generation = procs[p].generation,
           row.alive => procs[p].alive,
           \A s \in Sessions :
              \/ registered'[s] = registered[s]
              \/ /\ registered'[s] = None
                 /\ registered[s] # None => ~procs'[registered[s]].alive
    PROVE  /\ procs' \in Seq(Process)
           /\ DOMAIN procs' = DOMAIN procs
           /\ Kept(procs, registered, procs', registered')
<1>1. /\ procs' \in Seq(Process) /\ DOMAIN procs' = DOMAIN procs /\ procs'[p] = row
      /\ \A q \in DOMAIN procs \ {p} : procs'[q] = procs[q]
  BY ProcessChanges DEF IInv
<1> QED  BY <1>1 DEF Kept

LEMMA SendKeeps ==
    ASSUME IInv, NEW t \in Tasks, Send(t)
    PROVE  IInv'
<1> DEFINE s == task[t].session
           p == task[t].proc
           k == task[t].key
<1>1. /\ task[t].step = "send" /\ s \in Sessions /\ k \in Keys /\ First(command[s], t)
      /\ command' = Released(command, s)
      /\ UNCHANGED <<status, registered, lock, accepted, generation>>
  BY OfTask, OfCommand DEF Send, At, RowOK, Prompts, HasCommand, InCommand
<1>2. p \in DOMAIN procs /\ procs[p] \in Process
  <2>1. p \in DOMAIN procs  BY <1>1, OfTask DEF Works
  <2> QED  BY <2>1, LenProperties, ElementOfSeq DEF IInv, TypeOK
<1>3. PICK step \in {"record", "done"} : Goto(t, step)
  BY DEF Send, Unavailable
<1>4. faults' \in Nat  BY DEF Send, Fault, IInv, TypeOK
<1>5. given' \in [Sessions -> [Keys -> Nat]]
  <2>1. given \in [Sessions -> [Keys -> Nat]]  BY DEF IInv, TypeOK
  <2>2. given' = [given EXCEPT ![s][k] = @ + 1] \/ given' = given  BY DEF Send
  <2>3. [given EXCEPT ![s][k] = @ + 1] = [given EXCEPT ![s] = [given[s] EXCEPT ![k] = @ + 1]]
    BY <2>1
  <2>4. [given[s] EXCEPT ![k] = @ + 1] \in [Keys -> Nat]  BY <1>1, <2>1
  <2> QED  BY <1>1, <2>1, <2>2, <2>3, <2>4
<1>6. /\ procs' \in Seq(Process)
      /\ Kept(procs, registered, procs', registered')
      /\ DOMAIN procs' = DOMAIN procs
  <2>1. CASE procs' = [procs EXCEPT ![p].queue = @ \cup {k}]
    <3> DEFINE row == [procs[p] EXCEPT !.queue = @ \cup {k}]
    <3>1. procs' = [procs EXCEPT ![p] = row]  BY <1>2, <2>1, LenProperties DEF IInv, TypeOK
    <3>2. /\ row \in Process /\ row.session = procs[p].session
          /\ row.generation = procs[p].generation /\ row.alive = procs[p].alive
      BY <1>1, <1>2 DEF Process
    <3> HIDE DEF row
    <3> QED  BY <1>1, <1>2, <3>1, <3>2, EntryChanges
  <2>2. CASE UNCHANGED procs
    BY <1>1, <2>2, KeptAlone DEF IInv, TypeOK
  <2> QED  BY <2>1, <2>2 DEF Send
<1>7. TypeOK'
  BY <1>1, <1>3, <1>4, <1>5, <1>6, GotoChanges, OfCommand DEF IInv, TypeOK, Steps, Released
<1>8. \A r \in Sessions : LockMoved(t, r) /\ CommandMoved(t, r)
  BY <1>1, <1>3, GotoChanges DEF LockMoved, Moved, InLock, HasLock, Stops, IInv, TypeOK, Released,
     CommandMoved, InCommand, HasCommand, Prompts, Steps
<1>9. RowOK(task'[t]) /\ Works(task'[t], procs', registered')
  BY <1>1, <1>3, <1>6, GotoChanges, OfTask DEF RowOK, Works, Prompts, Starts, Stops, Steps
<1> QED
  BY <1>1, <1>3, <1>6, <1>7, <1>8, <1>9, GotoChanges, TaskStep DEF IInv, Steps

LEMMA RecordKeeps ==
    ASSUME IInv, NEW t \in Tasks, Record(t)
    PROVE  IInv'
<1>1. /\ task[t].step = "record" /\ task[t].session \in Sessions /\ task[t].key \in Keys
      /\ Goto(t, "done")
      /\ UNCHANGED <<status, procs, registered, lock, command, given, generation, faults>>
  BY OfTask DEF Record, At, RowOK
<1>2. accepted' \in [Sessions -> SUBSET Keys]
  BY <1>1 DEF Record, IInv, TypeOK
<1>3. TypeOK'
  BY <1>1, <1>2, GotoChanges DEF IInv, TypeOK, Steps
<1>4. \A r \in Sessions : LockMoved(t, r) /\ CommandMoved(t, r)
  BY <1>1, GotoChanges DEF LockMoved, Moved, InLock, HasLock, Stops, IInv, TypeOK,
     CommandMoved, InCommand, HasCommand, Prompts, Steps
<1>5. RowOK(task'[t]) /\ Works(task'[t], procs', registered')
  BY <1>1, GotoChanges, OfTask DEF RowOK, Works, Prompts, Starts, Stops, Steps
<1> QED
  BY <1>1, <1>3, <1>4, <1>5, GotoChanges, TaskStep, KeptAlone DEF IInv, Steps

------------------------------------------------------------------------------
(* The steps of those that stop a process.                                   *)

LEMMA StopKeeps ==
    ASSUME IInv, NEW t \in Tasks, Stop(t)
    PROVE  IInv'
<1> DEFINE s == task[t].target
           next == task[t].next
           freed == Released(lock, s)
<1>1. /\ task[t].step = "stop" /\ s \in Sessions /\ First(lock[s], t)
      /\ UNCHANGED <<procs, registered, command, accepted, given, generation, faults>>
  BY OfTask DEF Stop, At, Holds, First, RowOK, Stops
<1>2. CASE /\ Active(s)
           /\ SetRuntime(s, "stopping")
           /\ task' = [task EXCEPT ![t].step = "stopping", ![t].proc = registered[s]]
           /\ UNCHANGED lock
  <2> DEFINE row == [task[t] EXCEPT !.step = "stopping", !.proc = registered[s]]
  <2>1. registered[s] \in DOMAIN procs /\ registered[s] \in Nat
    BY <1>1, <1>2 DEF Active, Finds, IInv, TypeOK
  <2>2. row \in Local  BY <2>1, OfTask DEF Local, Steps
  <2>3. /\ task' \in [Tasks -> Local]
        /\ \A u \in Tasks \ {t} : task'[u] = task[u]
        /\ task'[t] = row
    BY <1>2, <2>2 DEF IInv, TypeOK
  <2>4. /\ row.step = "stopping" /\ row.session = task[t].session /\ row.key = task[t].key
        /\ row.proc = registered[s] /\ row.target = s /\ row.next = next
        /\ row.todo = task[t].todo
    BY OfTask DEF Local
  <2> HIDE DEF row
  <2>5. TypeOK'
    BY <1>1, <1>2, <2>3, RuntimeTyped DEF IInv, TypeOK, Statuses
  <2>6. \A r \in Sessions : LockMoved(t, r) /\ CommandMoved(t, r)
    BY <1>1, <1>2, <2>3, <2>4 DEF LockMoved, Moved, InLock, HasLock, Stops,
       CommandMoved, InCommand, HasCommand, Prompts
  <2>7. RowOK(task'[t]) /\ Works(task'[t], procs', registered')
    BY <1>1, <2>1, <2>3, <2>4, OfTask DEF RowOK, Works, Prompts, Starts, Stops
  <2> QED
    BY <1>1, <2>3, <2>5, <2>6, <2>7, TaskStep, KeptAlone DEF IInv
<1>3. CASE /\ lock' = IF next = "start" THEN Enqueued(freed, s, t) ELSE freed
           /\ Goto(t, next)
           /\ UNCHANGED status
  <2>0. /\ lock' = IF next = "start" THEN Enqueued(freed, s, t) ELSE freed
        /\ Goto(t, next)
        /\ UNCHANGED status
    BY <1>3
  <2>1. next \in {"start", "spawn", "erase", "loop", "done"} /\ next \in Steps
    BY OfTask DEF Local, Steps
  <2>2. /\ freed \in [Sessions -> Seq(Tasks)]
        /\ freed[s] = Tail(lock[s])
        /\ \A r \in Sessions \ {s} : freed[r] = lock[r]
    BY <1>1, OfLock DEF Released, IInv, TypeOK
  <2> HIDE DEF freed
  <2>3. TypeOK'
    BY <1>1, <2>0, <2>1, <2>2, GotoChanges, Appended DEF IInv, TypeOK, Enqueued
  <2>4. \A r \in Sessions : LockMoved(t, r)
    <3>1. CASE next = "start"
      BY <1>1, <2>0, <2>1, <2>2, <3>1, GotoChanges, OfTask DEF LockMoved, Moved, InLock, HasLock,
         Stops, Enqueued, RowOK
    <3>2. CASE next # "start"
      BY <1>1, <2>0, <2>1, <2>2, <3>2, GotoChanges, OfTask DEF LockMoved, Moved, InLock, HasLock,
         Stops, RowOK
    <3> QED  BY <3>1, <3>2
  <2>5. \A r \in Sessions : CommandMoved(t, r)
    BY <1>1, <2>0, <2>1, GotoChanges DEF Moved, Stops, CommandMoved, InCommand, HasCommand, Prompts
  <2>6. RowOK(task'[t]) /\ Works(task'[t], procs', registered')
    BY <1>1, <2>0, <2>1, GotoChanges, OfTask DEF RowOK, Works, Prompts, Starts, Stops
  <2> QED
    BY <1>1, <2>0, <2>1, <2>3, <2>4, <2>5, <2>6, GotoChanges, TaskStep, KeptAlone DEF IInv
<1> QED  BY <1>2, <1>3 DEF Stop, freed

\* Whoever stops a process has the session's lock, and knows the process.
LEMMA OfStop ==
    ASSUME IInv, NEW t \in Tasks, task[t].step \in {"stopping", "waiting"}
    PROVE  /\ task[t].target \in Sessions
           /\ First(lock[task[t].target], t)
           /\ task[t].proc \in DOMAIN procs
           /\ procs[task[t].proc] \in Process
           /\ registered[task[t].target] \in {task[t].proc, None}
<1>1. task[t].target \in Sessions  BY OfTask DEF RowOK, Stops
<1>2. First(lock[task[t].target], t)  BY <1>1, OfLock DEF HasLock
<1>3. task[t].proc \in DOMAIN procs  BY OfTask DEF Works
<1>4. registered[task[t].target] \in {task[t].proc, None}  BY OfTask DEF Works
<1> QED  BY <1>1, <1>2, <1>3, <1>4, LenProperties, ElementOfSeq DEF IInv, TypeOK

LEMMA AbortFailsKeeps ==
    ASSUME IInv, NEW t \in Tasks, AbortFails(t)
    PROVE  IInv'
<1> DEFINE s == task[t].target
<1>1. /\ task[t].step = "stopping" /\ task[t].next \in {"done", "erase"}
      /\ Goto(t, "done") /\ lock' = Released(lock, s)
      /\ UNCHANGED <<status, procs, registered, command, accepted, given, generation>>
  BY DEF AbortFails, Aborts, At
<1>2. faults' \in Nat  BY DEF AbortFails, Fault, IInv, TypeOK
<1>3. s \in Sessions /\ First(lock[s], t)  BY <1>1, OfStop
<1>4. TypeOK'
  BY <1>1, <1>2, <1>3, GotoChanges, OfLock DEF IInv, TypeOK, Steps, Released
<1>5. \A r \in Sessions : LockMoved(t, r) /\ CommandMoved(t, r)
  BY <1>1, <1>3, GotoChanges DEF LockMoved, Moved, InLock, HasLock, Stops, IInv, TypeOK, Released,
     CommandMoved, InCommand, HasCommand, Prompts, Steps
<1>6. RowOK(task'[t]) /\ Works(task'[t], procs', registered')
  BY <1>1, GotoChanges, OfTask DEF RowOK, Works, Prompts, Starts, Stops, Steps
<1> QED
  BY <1>1, <1>4, <1>5, <1>6, GotoChanges, TaskStep, KeptAlone DEF IInv, Steps

LEMMA TerminateKeeps ==
    ASSUME IInv, NEW t \in Tasks, Terminate(t)
    PROVE  IInv'
<1> DEFINE p == task[t].proc
           row == [procs[p] EXCEPT !.expected = procs[p].alive]
<1>1. /\ task[t].step = "stopping" /\ Goto(t, "waiting")
      /\ procs' = [procs EXCEPT ![p].expected = procs[p].alive]
      /\ UNCHANGED <<status, registered, lock, command, accepted, given, generation, faults>>
  BY DEF Terminate, At
<1>2. p \in DOMAIN procs /\ procs[p] \in Process  BY <1>1, OfStop
<1>3. procs' = [procs EXCEPT ![p] = row]  BY <1>1, <1>2, LenProperties DEF IInv, TypeOK
<1>4. /\ row \in Process /\ row.session = procs[p].session
      /\ row.generation = procs[p].generation /\ (row.alive => procs[p].alive)
  BY <1>2 DEF Process
<1> HIDE DEF row
<1>5. /\ procs' \in Seq(Process) /\ DOMAIN procs' = DOMAIN procs
      /\ Kept(procs, registered, procs', registered')
  <2>1. \A s \in Sessions : registered'[s] = registered[s]  BY <1>1
  <2> QED  BY <1>2, <1>3, <1>4, <2>1, EntryChanges
<1>6. TypeOK'
  BY <1>1, <1>5, GotoChanges DEF IInv, TypeOK, Steps
<1>7. \A r \in Sessions : LockMoved(t, r) /\ CommandMoved(t, r)
  BY <1>1, GotoChanges DEF LockMoved, Moved, InLock, HasLock, Stops, IInv, TypeOK,
     CommandMoved, InCommand, HasCommand, Prompts, Steps
<1>8. RowOK(task'[t])
  BY <1>1, GotoChanges, OfTask DEF RowOK, Prompts, Stops, Steps
<1>9. Works(task[t], procs', registered')
  BY <1>5, OfTask, KeptWorks DEF IInv
<1>10. Works(task'[t], procs', registered')
  BY <1>1, <1>9, GotoChanges DEF Works, Starts, Stops, Steps
<1> QED
  BY <1>1, <1>5, <1>6, <1>7, <1>8, <1>10, GotoChanges, TaskStep DEF IInv, Steps

LEMMA StoppedKeeps ==
    ASSUME IInv, NEW t \in Tasks, Stopped(t)
    PROVE  IInv'
<1> DEFINE s == task[t].target
           p == task[t].proc
           mine == task[t].session
           next == task[t].next
           freed == Released(lock, s)
<1>1. /\ task[t].step = "waiting" /\ Down(p)
      /\ registered' = [registered EXCEPT ![s] = None]
      /\ SetRuntime(s, "stopped")
      /\ UNCHANGED <<procs, accepted, given, generation, faults>>
  BY DEF Stopped, At
<1>2. /\ s \in Sessions /\ First(lock[s], t) /\ p \in DOMAIN procs
      /\ registered[s] \in {p, None} /\ ~procs[p].alive
  BY <1>1, OfStop DEF Down
<1>3. /\ next \in {"start", "spawn", "erase", "loop", "done"}
      /\ next \in {"start", "spawn"} => /\ mine \in Sessions
                                        /\ First(command[mine], t)
      /\ next = "spawn" => mine # s /\ First(lock[mine], t)
      /\ next = "start" => mine = s
      /\ next = "erase" => mine \in Sessions
  <2>1. next \in {"start", "spawn", "erase", "loop", "done"}  BY OfTask DEF Local
  <2>2. next \in {"start", "spawn"} => mine \in Sessions
    BY <1>1, OfTask DEF RowOK, Prompts, Stops
  <2>3. next \in {"start", "spawn"} => First(command[mine], t)
    BY <1>1, <2>2, OfCommand DEF HasCommand, InCommand, Prompts, Stops
  <2>4. next = "spawn" => First(lock[mine], t)
    BY <1>1, <2>2, OfLock DEF HasLock, Stops
  <2> QED  BY <1>1, <2>1, <2>2, <2>3, <2>4, OfTask DEF RowOK, Stops
<1>4. status' \in [Sessions -> Statuses]  BY <1>1, <1>2, RuntimeTyped DEF Statuses
<1>5. /\ registered' \in [Sessions -> Nat] /\ registered'[s] = None
      /\ \A r \in Sessions \ {s} : registered'[r] = registered[r]
  BY <1>1, <1>2 DEF IInv, TypeOK, None
<1>6. Kept(procs, registered, procs', registered')
  BY <1>1, <1>2, <1>5 DEF Kept
<1>7. Works(task[t], procs', registered')
  BY <1>6, OfTask, KeptWorks DEF IInv
<1>8. /\ freed \in [Sessions -> Seq(Tasks)]
      /\ freed[s] = Tail(lock[s])
      /\ \A r \in Sessions \ {s} : freed[r] = lock[r]
  BY <1>2, OfLock DEF Released, IInv, TypeOK
<1> HIDE DEF freed
<1>9. CASE /\ Goto(t, next)
           /\ lock' = IF next = "start" THEN Enqueued(freed, s, t) ELSE freed
           /\ UNCHANGED command
  <2>1. next \in Steps  BY <1>3 DEF Steps
  <2>2. TypeOK'
    BY <1>1, <1>2, <1>4, <1>5, <1>8, <1>9, <2>1, GotoChanges, Appended DEF IInv, TypeOK, Enqueued
  <2>3. \A r \in Sessions : LockMoved(t, r)
    <3>1. CASE next = "start"
      BY <1>1, <1>2, <1>3, <1>8, <1>9, <2>1, <3>1, GotoChanges DEF LockMoved, Moved, InLock,
         HasLock, Stops, Enqueued
    <3>2. CASE next # "start"
      BY <1>1, <1>2, <1>3, <1>8, <1>9, <2>1, <3>2, GotoChanges DEF LockMoved, Moved, InLock,
         HasLock, Stops
    <3> QED  BY <3>1, <3>2
  <2>4. \A r \in Sessions : CommandMoved(t, r)
    BY <1>1, <1>3, <1>9, <2>1, GotoChanges DEF Moved, Stops, CommandMoved, InCommand, HasCommand,
       Prompts
  <2>5. RowOK(task'[t]) /\ Works(task'[t], procs', registered')
    BY <1>1, <1>3, <1>7, <1>9, <2>1, GotoChanges, OfTask DEF RowOK, Works, Prompts, Starts, Stops
  <2> QED
    BY <1>1, <1>6, <1>9, <2>1, <2>2, <2>3, <2>4, <2>5, GotoChanges, TaskStep DEF IInv
<1>10. CASE /\ Goto(t, IF t = Reaper THEN "dead" ELSE "done")
            /\ lock' = IF next = "spawn" THEN Released(freed, mine) ELSE freed
            /\ command' = IF next \in {"start", "spawn"} THEN Released(command, mine) ELSE command
  <2>1. PICK step \in {"dead", "done"} : Goto(t, step)  BY <1>10
  <2>2. step \in Steps  BY <2>1 DEF Steps
  <2>3. /\ lock' \in [Sessions -> Seq(Tasks)]
        /\ command' \in [Sessions -> Seq(Tasks)]
    BY <1>3, <1>8, <1>10, OfLock, OfCommand DEF Released, IInv, TypeOK
  <2>4. TypeOK'
    BY <1>1, <1>4, <1>5, <2>1, <2>2, <2>3, GotoChanges DEF IInv, TypeOK
  <2>5. \A r \in Sessions : LockMoved(t, r)
    <3> TAKE r \in Sessions
    <3>1. ~InLock(task'[t], r) /\ ~HasLock(task'[t], r)
      BY <2>1, <2>2, GotoChanges DEF InLock, HasLock, Stops
    <3>2. CASE r = s \/ (next = "spawn" /\ r = mine)
      <4>1. lock'[r] = Tail(lock[r])  BY <1>3, <1>8, <1>10, <3>2 DEF Released
      <4> QED  BY <1>2, <1>3, <3>1, <3>2, <4>1 DEF LockMoved, Moved
    <3>3. CASE r # s /\ ~(next = "spawn" /\ r = mine)
      <4>1. lock'[r] = lock[r]  BY <1>3, <1>8, <1>10, <3>3 DEF Released
      <4>2. ~InLock(task[t], r)  BY <1>1, <3>3 DEF InLock, Stops
      <4> QED  BY <3>1, <4>1, <4>2 DEF LockMoved, Moved
    <3> QED  BY <3>2, <3>3
  <2>6. \A r \in Sessions : CommandMoved(t, r)
    BY <1>1, <1>3, <1>10, <2>1, <2>2, GotoChanges DEF Moved, Stops, CommandMoved, InCommand,
       HasCommand, Prompts, Released, IInv, TypeOK
  <2>7. RowOK(task'[t]) /\ Works(task'[t], procs', registered')
    BY <1>1, <1>7, <2>1, <2>2, GotoChanges DEF RowOK, Works, Prompts, Starts, Stops
  <2> QED
    BY <1>1, <1>6, <2>1, <2>2, <2>4, <2>5, <2>6, <2>7, GotoChanges, TaskStep DEF IInv
<1> QED  BY <1>9, <1>10 DEF Stopped, freed

LEMMA StopSessionKeeps ==
    ASSUME IInv, NEW t \in Tasks, NEW s \in Sessions, StopSession(t, s)
    PROVE  IInv'
<1>1. /\ task[t].step = "new" /\ Stopping(t, s, "done")
      /\ UNCHANGED <<status, procs, registered, command, accepted, given, generation, faults>>
  BY DEF StopSession, New, At
<1>2. TypeOK'
  BY <1>1, StoppingChanges DEF IInv, TypeOK
<1>3. \A r \in Sessions : LockMoved(t, r) /\ CommandMoved(t, r)
  <2> TAKE r \in Sessions
  <2>1. /\ task'[t].step = "stop" /\ task'[t].next = "done" /\ task'[t].target = s
        /\ lock'[r] = IF r = s THEN Append(lock[r], t) ELSE lock[r]
    BY <1>1, StoppingChanges
  <2>2. LockMoved(t, r)
    BY <1>1, <2>1 DEF LockMoved, Moved, InLock, HasLock, Stops
  <2>3. CommandMoved(t, r)
    BY <1>1, <2>1 DEF CommandMoved, Moved, InCommand, HasCommand, Prompts, Stops
  <2> QED  BY <2>2, <2>3
<1>4. RowOK(task'[t]) /\ Works(task'[t], procs', registered')
  BY <1>1, StoppingChanges, OfTask DEF RowOK, Works, Prompts, Starts, Stops
<1> QED
  BY <1>1, <1>2, <1>3, <1>4, StoppingChanges, TaskStep, KeptAlone DEF IInv

LEMMA DeleteSessionKeeps ==
    ASSUME IInv, NEW t \in Tasks, NEW s \in Sessions, DeleteSession(t, s)
    PROVE  IInv'
<1>1. /\ task[t].step = "new"
      /\ UNCHANGED <<status, procs, registered, command, accepted, given, generation, faults>>
  BY DEF DeleteSession, New, At
<1>2. /\ task' \in [Tasks -> Local]
      /\ \A u \in Tasks \ {t} : task'[u] = task[u]
      /\ task'[t].session = s /\ task'[t].todo = {}
      /\ \/ /\ lock' = Enqueued(lock, s, t)
            /\ task'[t].step = "stop" /\ task'[t].target = s /\ task'[t].next = "erase"
         \/ task'[t].step = "erase" /\ lock' = lock
  <2>1. CASE /\ lock' = Enqueued(lock, s, t)
             /\ task' = [task EXCEPT ![t] = [NewTask EXCEPT !.step = "stop", !.session = s,
                                                            !.target = s, !.next = "erase"]]
    BY <2>1 DEF NewTask, IInv, TypeOK, Local, Steps, None
  <2>2. CASE /\ task' = [task EXCEPT ![t] = [NewTask EXCEPT !.step = "erase", !.session = s]]
             /\ UNCHANGED lock
    BY <2>2 DEF NewTask, IInv, TypeOK, Local, Steps, None
  <2> QED  BY <2>1, <2>2 DEF DeleteSession
<1>3. TypeOK'
  <2>1. Enqueued(lock, s, t) \in [Sessions -> Seq(Tasks)]
    BY OfLock, Appended DEF IInv, TypeOK, Enqueued
  <2> QED  BY <1>1, <1>2, <2>1 DEF IInv, TypeOK
<1>4. \A r \in Sessions : LockMoved(t, r) /\ CommandMoved(t, r)
  <2> TAKE r \in Sessions
  <2>1. lock' = Enqueued(lock, s, t)
        => lock'[r] = IF r = s THEN Append(lock[r], t) ELSE lock[r]
    BY DEF Enqueued, IInv, TypeOK
  <2>2. LockMoved(t, r)
    BY <1>1, <1>2, <2>1 DEF LockMoved, Moved, InLock, HasLock, Stops
  <2>3. CommandMoved(t, r)
    BY <1>1, <1>2 DEF CommandMoved, Moved, InCommand, HasCommand, Prompts, Stops
  <2> QED  BY <2>2, <2>3
<1>5. RowOK(task'[t]) /\ Works(task'[t], procs', registered')
  BY <1>1, <1>2 DEF RowOK, Works, Prompts, Starts, Stops
<1> QED
  BY <1>1, <1>2, <1>3, <1>4, <1>5, TaskStep, KeptAlone DEF IInv

LEMMA EraseKeeps ==
    ASSUME IInv, NEW t \in Tasks, Erase(t)
    PROVE  IInv'
<1> DEFINE s == task[t].session
<1>1. /\ task[t].step = "erase" /\ s \in Sessions /\ Goto(t, "done")
      /\ UNCHANGED <<procs, registered, lock, command, given, generation, faults>>
  BY OfTask DEF Erase, At, RowOK
<1>2. status' \in [Sessions -> Statuses] /\ accepted' \in [Sessions -> SUBSET Keys]
  BY <1>1 DEF Erase, IInv, TypeOK, Statuses
<1>3. TypeOK'
  BY <1>1, <1>2, GotoChanges DEF IInv, TypeOK, Steps
<1>4. \A r \in Sessions : LockMoved(t, r) /\ CommandMoved(t, r)
  BY <1>1, GotoChanges DEF LockMoved, Moved, InLock, HasLock, Stops, IInv, TypeOK,
     CommandMoved, InCommand, HasCommand, Prompts, Steps
<1>5. RowOK(task'[t]) /\ Works(task'[t], procs', registered')
  BY <1>1, GotoChanges, OfTask DEF RowOK, Works, Prompts, Starts, Stops, Steps
<1> QED
  BY <1>1, <1>3, <1>4, <1>5, GotoChanges, TaskStep, KeptAlone DEF IInv, Steps

\* A reload, and the reaper, go through processes that are in the table.
LEMMA RegisteredAreProcesses ==
    ASSUME IInv
    PROVE  Registered \subseteq DOMAIN procs /\ Registered \subseteq Nat
  BY DEF Registered, IInv, Finds, TypeOK

LEMMA LoopStarts ==
    ASSUME IInv, NEW t \in Tasks, NEW todo \in SUBSET Registered, task[t].step = "new",
           task' = [task EXCEPT ![t] = [NewTask EXCEPT !.step = "loop", !.todo = todo]],
           UNCHANGED <<status, procs, registered, lock, command, accepted, given, faults>>,
           generation' \in Nat \ {0}
    PROVE  IInv'
<1>1. /\ task' \in [Tasks -> Local]
      /\ \A u \in Tasks \ {t} : task'[u] = task[u]
      /\ task'[t].step = "loop" /\ task'[t].todo = todo
  BY RegisteredAreProcesses DEF NewTask, IInv, TypeOK, Local, Steps, None
<1>2. TypeOK'
  BY <1>1 DEF IInv, TypeOK
<1>3. \A r \in Sessions : LockMoved(t, r) /\ CommandMoved(t, r)
  BY <1>1 DEF LockMoved, Moved, InLock, HasLock, Stops, CommandMoved, InCommand, HasCommand, Prompts
<1>4. RowOK(task'[t]) /\ Works(task'[t], procs', registered')
  BY <1>1, RegisteredAreProcesses DEF RowOK, Works, Prompts, Starts, Stops
<1> QED
  BY <1>1, <1>2, <1>3, <1>4, TaskStep, KeptAlone DEF IInv, None

LEMMA LoopKeeps ==
    ASSUME IInv, NEW t \in Tasks, Loop(t)
    PROVE  IInv'
<1>1. /\ task[t].step = "loop"
      /\ UNCHANGED <<status, procs, registered, command, accepted, given, generation, faults>>
  BY DEF Loop, At
<1>2. CASE /\ task' = [task EXCEPT ![t] = [NewTask EXCEPT !.step =
                            IF t = Reaper THEN "new" ELSE "done"]]
           /\ UNCHANGED lock
  <2>1. /\ task' \in [Tasks -> Local]
        /\ \A u \in Tasks \ {t} : task'[u] = task[u]
        /\ task'[t].step \in {"new", "done"} /\ task'[t].todo = {}
    BY <1>2 DEF NewTask, IInv, TypeOK, Local, Steps, None
  <2>2. TypeOK'
    BY <1>1, <1>2, <2>1 DEF IInv, TypeOK
  <2>3. \A r \in Sessions : LockMoved(t, r) /\ CommandMoved(t, r)
    BY <1>1, <1>2, <2>1 DEF LockMoved, Moved, InLock, HasLock, Stops, CommandMoved, InCommand,
       HasCommand, Prompts
  <2>4. RowOK(task'[t]) /\ Works(task'[t], procs', registered')
    BY <2>1 DEF RowOK, Works, Prompts, Starts, Stops
  <2> QED
    BY <1>1, <1>2, <2>1, <2>2, <2>3, <2>4, TaskStep, KeptAlone DEF IInv
<1>3. ASSUME NEW p \in task[t].todo,
             lock' = Enqueued(lock, procs[p].session, t),
             task' = [task EXCEPT ![t].step = "stop", ![t].target = procs[p].session,
                                  ![t].next = "loop", ![t].todo = @ \ {p}]
      PROVE  IInv'
  <2> DEFINE s == procs[p].session
             row == [task[t] EXCEPT !.step = "stop", !.target = s, !.next = "loop",
                                    !.todo = @ \ {p}]
  <2>1. s \in Sessions
    <3>1. p \in DOMAIN procs  BY <1>3, OfTask DEF Works
    <3>2. procs[p] \in Process  BY <3>1, LenProperties, ElementOfSeq DEF IInv, TypeOK
    <3> QED  BY <3>2 DEF Process
  <2>2. row \in Local  BY <2>1, OfTask DEF Local, Steps
  <2>3. /\ task' \in [Tasks -> Local]
        /\ \A u \in Tasks \ {t} : task'[u] = task[u]
        /\ task'[t] = row
    BY <1>3, <2>2 DEF IInv, TypeOK
  <2>4. /\ row.step = "stop" /\ row.target = s /\ row.next = "loop"
        /\ row.todo = task[t].todo \ {p}
    BY OfTask DEF Local
  <2> HIDE DEF row
  <2>5. TypeOK'
    BY <1>1, <1>3, <2>1, <2>3, OfLock, Appended DEF IInv, TypeOK, Enqueued
  <2>6. \A r \in Sessions : LockMoved(t, r) /\ CommandMoved(t, r)
    BY <1>1, <1>3, <2>1, <2>3, <2>4 DEF LockMoved, Moved, InLock, HasLock, Stops, Enqueued, IInv,
       TypeOK, CommandMoved, InCommand, HasCommand, Prompts
  <2>7. RowOK(task'[t]) /\ Works(task'[t], procs', registered')
    BY <1>1, <2>1, <2>3, <2>4, OfTask DEF RowOK, Works, Prompts, Starts, Stops
  <2> QED
    BY <1>1, <2>3, <2>5, <2>6, <2>7, TaskStep, KeptAlone DEF IInv
<1>4. ASSUME NEW p \in task[t].todo, task' = [task EXCEPT ![t].todo = @ \ {p}], UNCHANGED lock
      PROVE  IInv'
  <2> DEFINE row == [task[t] EXCEPT !.todo = @ \ {p}]
  <2>1. row \in Local /\ row.step = "loop" /\ row.todo = task[t].todo \ {p}
    BY <1>1, OfTask DEF Local
  <2>2. /\ task' \in [Tasks -> Local]
        /\ \A u \in Tasks \ {t} : task'[u] = task[u]
        /\ task'[t] = row
    BY <1>4, <2>1 DEF IInv, TypeOK
  <2> HIDE DEF row
  <2>3. TypeOK'
    BY <1>1, <1>4, <2>2 DEF IInv, TypeOK
  <2>4. \A r \in Sessions : LockMoved(t, r) /\ CommandMoved(t, r)
    BY <1>1, <1>4, <2>1, <2>2 DEF LockMoved, Moved, InLock, HasLock, Stops, CommandMoved,
       InCommand, HasCommand, Prompts
  <2>5. RowOK(task'[t]) /\ Works(task'[t], procs', registered')
    BY <1>1, <2>1, <2>2, OfTask DEF RowOK, Works, Prompts, Starts, Stops
  <2> QED
    BY <1>1, <2>2, <2>3, <2>4, <2>5, TaskStep, KeptAlone DEF IInv
<1> QED  BY <1>2, <1>3, <1>4 DEF Loop

------------------------------------------------------------------------------
(* The steps of Pi.                                                          *)

\* No task moves, and the processes are kept.
LEMMA PiStep ==
    ASSUME IInv, TypeOK', UNCHANGED <<lock, command, task, generation>>,
           Kept(procs, registered, procs', registered')
    PROVE  IInv'
<1>1. LocksInv' /\ CommandsInv'
  BY DEF IInv, LocksInv, CommandsInv, LockWaiting, LockHaving, CommandWaiting, CommandHaving
<1>2. RowsInv'  BY DEF IInv, RowsInv
<1>3. Finds(procs', registered')  BY KeptFinds DEF IInv, TypeOK
<1>4. ASSUME NEW u \in Tasks
      PROVE  Works(task[u], procs', registered')
  <2>1. RowOK(task[u]) /\ Works(task[u], procs, registered) /\ Finds(procs, registered)
    BY DEF IInv, RowsInv, WorksInv
  <2> QED  BY <2>1, KeptWorks
<1> QED  BY <1>1, <1>2, <1>3, <1>4 DEF IInv, WorksInv

LEMMA OfProcess ==
    ASSUME IInv, NEW p \in DOMAIN procs
    PROVE  /\ procs[p] \in Process /\ procs[p].session \in Sessions
           /\ p \in Nat \ {0}
<1>1. procs[p] \in Process /\ p \in Nat \ {0}
  BY LenProperties, ElementOfSeq DEF IInv, TypeOK
<1> QED  BY <1>1 DEF Process

LEMMA PiStartsKeeps ==
    ASSUME IInv, NEW p \in DOMAIN procs, PiStarts(p)
    PROVE  IInv'
<1> DEFINE gone == ~Exists(procs[p].session)
           row == [procs[p] EXCEPT !.streaming = TRUE, !.deaf = gone]
<1>1. /\ procs' = [procs EXCEPT ![p].streaming = TRUE, ![p].deaf = gone]
      /\ SetRuntime(procs[p].session, "running")
      /\ UNCHANGED <<registered, lock, command, task, accepted, given, generation, faults>>
  BY DEF PiStarts
<1>2. procs' = [procs EXCEPT ![p] = row]  BY <1>1, LenProperties DEF IInv, TypeOK
<1>3. /\ row \in Process /\ row.session = procs[p].session
      /\ row.generation = procs[p].generation /\ (row.alive => procs[p].alive)
  BY OfProcess DEF Process, Exists
<1> HIDE DEF row
<1>4. /\ procs' \in Seq(Process)
      /\ Kept(procs, registered, procs', registered')
  BY <1>1, <1>2, <1>3, EntryChanges
<1>5. TypeOK'
  BY <1>1, <1>4, OfProcess, RuntimeTyped DEF IInv, TypeOK, Statuses
<1> QED  BY <1>1, <1>4, <1>5, PiStep

LEMMA PiEndsKeeps ==
    ASSUME IInv, NEW p \in DOMAIN procs, PiEnds(p)
    PROVE  IInv'
<1> DEFINE gone == ~Exists(procs[p].session)
           row == [procs[p] EXCEPT !.streaming = FALSE, !.queue = {}, !.deaf = gone]
<1>1. /\ procs' = [procs EXCEPT ![p].streaming = FALSE, ![p].queue = {}, ![p].deaf = gone]
      /\ SetRuntime(procs[p].session, "idle")
      /\ UNCHANGED <<registered, lock, command, task, accepted, given, generation, faults>>
  BY DEF PiEnds
<1>2. procs' = [procs EXCEPT ![p] = row]  BY <1>1, LenProperties DEF IInv, TypeOK
<1>3. /\ row \in Process /\ row.session = procs[p].session
      /\ row.generation = procs[p].generation /\ (row.alive => procs[p].alive)
  BY OfProcess DEF Process, Exists
<1> HIDE DEF row
<1>4. /\ procs' \in Seq(Process)
      /\ Kept(procs, registered, procs', registered')
  BY <1>1, <1>2, <1>3, EntryChanges
<1>5. TypeOK'
  BY <1>1, <1>4, OfProcess, RuntimeTyped DEF IInv, TypeOK, Statuses
<1> QED  BY <1>1, <1>4, <1>5, PiStep

LEMMA ExitsKeeps ==
    ASSUME IInv, NEW p \in DOMAIN procs, Exits(p)
    PROVE  IInv'
<1> DEFINE row == [procs[p] EXCEPT !.alive = FALSE]
<1>1. /\ procs' = [procs EXCEPT ![p].alive = FALSE]
      /\ UNCHANGED <<status, registered, lock, command, task, accepted, given, generation>>
  BY DEF Exits
<1>2. faults' \in Nat  BY DEF Exits, Fault, IInv, TypeOK
<1>3. procs' = [procs EXCEPT ![p] = row]  BY <1>1, LenProperties DEF IInv, TypeOK
<1>4. /\ row \in Process /\ row.session = procs[p].session
      /\ row.generation = procs[p].generation /\ ~row.alive
  BY OfProcess DEF Process
<1> HIDE DEF row
<1>5. /\ procs' \in Seq(Process)
      /\ Kept(procs, registered, procs', registered')
  BY <1>1, <1>3, <1>4, EntryChanges
<1>6. TypeOK'
  BY <1>1, <1>2, <1>5 DEF IInv, TypeOK
<1> QED  BY <1>1, <1>5, <1>6, PiStep

LEMMA ExitedKeeps ==
    ASSUME IInv, NEW p \in DOMAIN procs, Exited(p)
    PROVE  IInv'
<1> DEFINE s == procs[p].session
           row == [procs[p] EXCEPT !.reading = FALSE]
<1>1. /\ ~procs[p].alive
      /\ procs' = [procs EXCEPT ![p].reading = FALSE]
      /\ registered' = IF Gone(s) THEN [registered EXCEPT ![s] = None] ELSE registered
      /\ SetRuntime(s, IF procs[p].expected THEN "stopped" ELSE "failed")
      /\ UNCHANGED <<lock, command, task, accepted, given, generation, faults>>
  BY DEF Exited
<1>2. procs' = [procs EXCEPT ![p] = row]  BY <1>1, LenProperties DEF IInv, TypeOK
<1>3. /\ row \in Process /\ row.session = procs[p].session
      /\ row.generation = procs[p].generation /\ ~row.alive
  BY <1>1, OfProcess DEF Process
<1> HIDE DEF row
<1>4. \A q \in DOMAIN procs : ~procs[q].alive => ~procs'[q].alive
  BY <1>2, <1>3, ProcessChanges DEF IInv
<1>5. /\ registered' \in [Sessions -> Nat]
      /\ \A r \in Sessions :
            \/ registered'[r] = registered[r]
            \/ /\ registered'[r] = None
               /\ registered[r] # None => ~procs'[registered[r]].alive
  <2>1. s \in Sessions  BY OfProcess
  <2>2. CASE Gone(s)
    <3>1. registered' = [registered EXCEPT ![s] = None]  BY <1>1, <2>2
    <3>2. registered[s] # None => ~procs'[registered[s]].alive
      BY <1>4, <2>1, <2>2 DEF Gone, Active, IInv, Finds
    <3> QED  BY <2>1, <3>1, <3>2 DEF IInv, TypeOK, None
  <2>3. CASE ~Gone(s)  BY <1>1, <2>3 DEF IInv, TypeOK
  <2> QED  BY <2>2, <2>3
<1>6. /\ procs' \in Seq(Process)
      /\ Kept(procs, registered, procs', registered')
  BY <1>2, <1>3, <1>5, EntryChanges
<1>7. TypeOK'
  BY <1>1, <1>5, <1>6, OfProcess, RuntimeTyped DEF IInv, TypeOK, Statuses
<1> QED  BY <1>1, <1>6, <1>7, PiStep

------------------------------------------------------------------------------
(* The invariant, and what follows from it.                                  *)

LEMMA NextKeeps == IInv /\ [Next]_vars => IInv'
<1> SUFFICES ASSUME IInv, [Next]_vars PROVE IInv'  OBVIOUS
<1>1. ASSUME NEW t \in Tasks, Arrive(t) PROVE IInv'
  <2>1. ASSUME Reload(t) PROVE IInv'
    <3>1. /\ task[t].step = "new" /\ generation' = generation + 1
          /\ task' = [task EXCEPT ![t] = [NewTask EXCEPT !.step = "loop", !.todo = Registered]]
          /\ UNCHANGED <<status, procs, registered, lock, command, accepted, given, faults>>
      BY <2>1 DEF Reload, New, At
    <3>2. generation' \in Nat \ {0}  BY <3>1 DEF IInv, TypeOK
    <3> QED  BY <3>1, <3>2, LoopStarts
  <2> QED
    BY <1>1, <2>1, PromptKeeps, StopSessionKeeps, DeleteSessionKeeps DEF Arrive
<1>2. ASSUME NEW t \in Tasks, Serve(t) PROVE IInv'
  BY <1>2, LookupKeeps, GetOrStartKeeps, SpawnKeeps, BootKeeps, SettleKeeps, SendKeeps, RecordKeeps,
     StopKeeps, AbortFailsKeeps, TerminateKeeps, StoppedKeeps, EraseKeeps, LoopKeeps DEF Serve
<1>3. ASSUME Reap PROVE IInv'
  <2>1. generation' \in Nat \ {0}  BY <1>3 DEF Reap, IInv, TypeOK, None
  <2> QED  BY <1>3, <2>1, LoopStarts DEF Reap, Tasks
<1>4. ASSUME Pi PROVE IInv'
  BY <1>4, PiStartsKeeps, PiEndsKeeps, ExitsKeeps, ExitedKeeps DEF Pi
<1>5. ASSUME UNCHANGED vars PROVE IInv'
  <2>1. UNCHANGED <<status, procs, registered, lock, command, task, accepted, given, generation,
                    faults>>
    BY <1>5 DEF vars
  <2>2. TypeOK'  BY <2>1 DEF IInv, TypeOK
  <2> QED  BY <2>1, <2>2, PiStep, KeptAlone DEF IInv
<1> QED  BY <1>1, <1>2, <1>3, <1>4, <1>5 DEF Next

\* The invariant holds in every behaviour: whoever stops a process has its session's lock, and
\* whoever starts one has the lock of a session without a live process.
THEOREM InvariantHolds == Spec => []IInv
<1>1. Init => IInv  BY InitHolds
<1>2. IInv /\ [Next]_vars => IInv'  BY NextKeeps
<1> QED  BY <1>1, <1>2, PTL DEF Spec

\* The catalog, the process table, the lock queues and the tasks hold values of their types: nobody
\* gives up a lock that nobody has.
THEOREM TypesHold == Spec => []TypeOK
<1>1. IInv => TypeOK  BY DEF IInv
<1> QED  BY <1>1, InvariantHolds, PTL

LEMMA OneKnown == IInv => OneKnownProcess
<1> SUFFICES ASSUME IInv PROVE OneKnownProcess  OBVIOUS
<1>1. StaysRegistered  BY DEF IInv, Finds, StaysRegistered
<1>2. ASSUME NEW p \in DOMAIN procs, NEW q \in DOMAIN procs, procs[p].alive, procs[q].alive,
             procs[p].session = procs[q].session,
             procs[p].generation # None, Started(q)
      PROVE  p = q
  <2>1. registered[procs[q].session] = p  BY <1>1, <1>2 DEF StaysRegistered
  <2>2. CASE procs[q].generation # None  BY <1>1, <1>2, <2>1, <2>2 DEF StaysRegistered
  <2>3. ASSUME NEW t \in Tasks, At(t, "boot"), task[t].proc = q PROVE FALSE
    <3>1. /\ procs[q].session = task[t].session
          /\ registered[task[t].session] = None \/ ~procs[registered[task[t].session]].alive
      BY <2>3, OfTask DEF At, Works, Starts
    <3> QED  BY <1>2, <2>1, <3>1, OfProcess DEF None
  <2> QED  BY <1>2, <2>2, <2>3 DEF Started
<1>3. ASSUME NEW t \in Tasks, NEW u \in Tasks, At(t, "boot"), At(u, "boot"),
             procs[task[t].proc].session = procs[task[u].proc].session
      PROVE  task[t].proc = task[u].proc
  <2>1. task[t].session = task[u].session /\ task[t].session \in Sessions
    BY <1>3, OfTask DEF At, Works, RowOK, Prompts
  <2> QED  BY <1>3, <2>1, OfLock DEF At, HasLock
<1>4. OneProcess  BY <1>2, <1>3 DEF OneProcess, Started
<1> QED  BY <1>1, <1>4 DEF OneKnownProcess

\* Whatever is requested, reaped or reloaded at the same time, and whatever fails, a session never
\* has two processes at work, and a registered process is found until it is dead.
THEOREM OneKnownProcessHolds == Spec => []OneKnownProcess
  BY InvariantHolds, OneKnown, PTL

------------------------------------------------------------------------------
(* Locks are never waited for in a circle.                                   *)

\* Makes room for a session, whose lock it has, and waits for the lock of the session to be stopped.
Evicts(row) == row.step = "stop" /\ row.next = "spawn"

\* No circle of evictions: the last of them to begin chose a session with a live process, and none
\* of the others is starting one for such a session.
EvictionsEnd ==
    \A T \in SUBSET Tasks :
        T # {} /\ (\A t \in T : Evicts(task[t]))
        => \E t \in T : \A u \in T : task[u].session # task[t].target

\* A step of a task that does not begin an eviction.
LEMMA NoEviction ==
    ASSUME EvictionsEnd, NEW t \in Tasks, \A u \in Tasks \ {t} : task'[u] = task[u],
           ~Evicts(task'[t])
    PROVE  EvictionsEnd'
<1> SUFFICES ASSUME NEW T \in SUBSET Tasks, T # {}, \A u \in T : Evicts(task'[u])
             PROVE  \E u \in T : \A v \in T : task'[v].session # task'[u].target
  BY DEF EvictionsEnd
<1>1. \A u \in T : task'[u] = task[u]  OBVIOUS
<1>2. PICK u \in T : \A v \in T : task[v].session # task[u].target
  BY <1>1 DEF EvictionsEnd
<1> QED  BY <1>1, <1>2

LEMMA EvictionBegins ==
    ASSUME IInv, EvictionsEnd, NEW t \in Tasks, task[t].step = "start",
           ~Active(task[t].session), NEW victim \in IdleSessions, Stopping(t, victim, "spawn")
    PROVE  EvictionsEnd'
<1>1. victim \in Sessions /\ Active(victim)  BY DEF IdleSessions, ActiveSessions
<1>2. /\ \A u \in Tasks \ {t} : task'[u] = task[u]
      /\ task'[t].session = task[t].session /\ task'[t].target = victim
  BY <1>1, StoppingChanges
<1>3. \A u \in Tasks : Evicts(task[u]) => task[u].session # victim
  BY <1>1, OfTask DEF Evicts, Works, Starts, Stops, Active
<1> SUFFICES ASSUME NEW T \in SUBSET Tasks, T # {}, \A u \in T : Evicts(task'[u])
             PROVE  \E u \in T : \A v \in T : task'[v].session # task'[u].target
  BY DEF EvictionsEnd
<1>4. CASE t \in T
  <2>1. \A v \in T : task'[v].session # task'[t].target  BY <1>1, <1>2, <1>3
  <2> QED  BY <1>4, <2>1
<1>5. CASE t \notin T
  <2>1. \A u \in T : task'[u] = task[u]  BY <1>2, <1>5
  <2>2. PICK u \in T : \A v \in T : task[v].session # task[u].target
    BY <2>1 DEF EvictionsEnd
  <2> QED  BY <2>1, <2>2
<1> QED  BY <1>4, <1>5

LEMMA GoneElsewhere ==
    ASSUME IInv, EvictionsEnd, NEW t \in Tasks, NEW step \in Steps \ {"stop"}, Goto(t, step)
    PROVE  EvictionsEnd'
  BY GotoChanges, NoEviction DEF Evicts

LEMMA RowSet ==
    ASSUME IInv, EvictionsEnd, NEW t \in Tasks, NEW row, ~Evicts(row),
           task' = [task EXCEPT ![t] = row]
    PROVE  EvictionsEnd'
<1>1. task'[t] = row /\ \A u \in Tasks \ {t} : task'[u] = task[u]  BY DEF IInv, TypeOK
<1> QED  BY <1>1, NoEviction

LEMMA StoppingOther ==
    ASSUME IInv, EvictionsEnd, NEW t \in Tasks, NEW target \in Sessions,
           NEW next \in {"start", "erase", "loop", "done"}, Stopping(t, target, next)
    PROVE  EvictionsEnd'
  BY StoppingChanges, NoEviction DEF Evicts

LEMMA ServedEvictions ==
    ASSUME IInv, EvictionsEnd, NEW t \in Tasks, Serve(t)
    PROVE  EvictionsEnd'
<1>0. task[t] \in Local /\ RowOK(task[t])  BY OfTask
<1>1. ASSUME Lookup(t) PROVE EvictionsEnd'
  <2>1. task[t].session \in Sessions  BY <1>0, <1>1 DEF Lookup, At, RowOK, Prompts
  <2> QED  BY <1>1, <2>1, GoneElsewhere, StoppingOther DEF Lookup, Steps
<1>2. ASSUME GetOrStart(t) PROVE EvictionsEnd'
  <2>1. CASE task' = [task EXCEPT ![t].step = "send", ![t].proc = registered[task[t].session]]
    <3>1. task' = [task EXCEPT ![t] = [task[t] EXCEPT !.step = "send",
                                                      !.proc = registered[task[t].session]]]
      BY <2>1 DEF IInv, TypeOK
    <3>2. ~Evicts([task[t] EXCEPT !.step = "send", !.proc = registered[task[t].session]])
      BY <1>0 DEF Evicts, Local
    <3> QED  BY <3>1, <3>2, RowSet
  <2>2. CASE Goto(t, "spawn")  BY <2>2, GoneElsewhere DEF Steps
  <2>3. ASSUME ~Active(task[t].session),
               \E victim \in IdleSessions : Stopping(t, victim, "spawn")
        PROVE  EvictionsEnd'
    BY <1>2, <2>3, EvictionBegins DEF GetOrStart, At
  <2>4. CASE GiveUp(t)  BY <2>4, GoneElsewhere DEF GiveUp, Steps
  <2> QED  BY <1>2, <2>1, <2>2, <2>3, <2>4 DEF GetOrStart, Reuse
<1>3. ASSUME Spawn(t) PROVE EvictionsEnd'
  <2>1. CASE task' = [task EXCEPT ![t].step = "boot", ![t].proc = Len(procs) + 1]
    <3>1. task' = [task EXCEPT ![t] = [task[t] EXCEPT !.step = "boot", !.proc = Len(procs) + 1]]
      BY <2>1 DEF IInv, TypeOK
    <3>2. ~Evicts([task[t] EXCEPT !.step = "boot", !.proc = Len(procs) + 1])
      BY <1>0 DEF Evicts, Local
    <3> QED  BY <3>1, <3>2, RowSet
  <2> QED  BY <1>3, <2>1, GoneElsewhere DEF Spawn, GiveUp, Steps
<1>4. ASSUME Boot(t) PROVE EvictionsEnd'
  BY <1>4, GoneElsewhere DEF Boot, GiveUp, Steps
<1>5. ASSUME Settle(t) PROVE EvictionsEnd'
  BY <1>5, GoneElsewhere DEF Settle, GiveUp, Steps
<1>6. ASSUME Send(t) \/ Record(t) \/ AbortFails(t) \/ Terminate(t) \/ Erase(t)
      PROVE  EvictionsEnd'
  BY <1>6, GoneElsewhere DEF Send, Unavailable, Record, AbortFails, Terminate, Erase, Steps
<1>7. ASSUME Stop(t) PROVE EvictionsEnd'
  <2>1. CASE task' = [task EXCEPT ![t].step = "stopping",
                                  ![t].proc = registered[task[t].target]]
    <3>1. task' = [task EXCEPT ![t] = [task[t] EXCEPT !.step = "stopping",
                                                      !.proc = registered[task[t].target]]]
      BY <2>1 DEF IInv, TypeOK
    <3>2. ~Evicts([task[t] EXCEPT !.step = "stopping", !.proc = registered[task[t].target]])
      BY <1>0 DEF Evicts, Local
    <3> QED  BY <3>1, <3>2, RowSet
  <2>2. CASE Goto(t, task[t].next)
    <3>1. task[t].next \in Steps \ {"stop"}  BY <1>0 DEF Local, Steps
    <3> QED  BY <2>2, <3>1, GoneElsewhere
  <2> QED  BY <1>7, <2>1, <2>2 DEF Stop
<1>8. ASSUME Stopped(t) PROVE EvictionsEnd'
  <2>1. task[t].next \in Steps \ {"stop"}  BY <1>0 DEF Local, Steps
  <2>2. Goto(t, task[t].next) \/ Goto(t, "dead") \/ Goto(t, "done")  BY <1>8 DEF Stopped
  <2> QED  BY <2>1, <2>2, GoneElsewhere DEF Steps
<1>9. ASSUME Loop(t) PROVE EvictionsEnd'
  <2> USE DEF IInv, TypeOK
  <2>1. CASE task' = [task EXCEPT ![t] = [NewTask EXCEPT !.step =
                                              IF t = Reaper THEN "new" ELSE "done"]]
    <3> DEFINE row == [NewTask EXCEPT !.step = IF t = Reaper THEN "new" ELSE "done"]
    <3>1. ~Evicts(row)  BY DEF Evicts, NewTask
    <3> QED  BY <2>1, <3>1, RowSet
  <2>2. ASSUME NEW p, NEW s,
               task' = [task EXCEPT ![t].step = "stop", ![t].target = s, ![t].next = "loop",
                                    ![t].todo = @ \ {p}]
        PROVE  EvictionsEnd'
    <3>1. task'[t].next = "loop" /\ \A u \in Tasks \ {t} : task'[u] = task[u]
      BY <1>0, <2>2 DEF Local
    <3> QED  BY <3>1, NoEviction DEF Evicts
  <2>3. ASSUME NEW p, task' = [task EXCEPT ![t].todo = @ \ {p}]
        PROVE  EvictionsEnd'
    <3>1. task'[t].step = task[t].step /\ \A u \in Tasks \ {t} : task'[u] = task[u]
      BY <1>0, <2>3 DEF Local
    <3> QED  BY <1>9, <3>1, NoEviction DEF Evicts, Loop, At
  <2> QED  BY <1>9, <2>1, <2>2, <2>3 DEF Loop
<1> QED
  BY <1>1, <1>2, <1>3, <1>4, <1>5, <1>6, <1>7, <1>8, <1>9 DEF Serve

LEMMA NextEvictions == IInv /\ EvictionsEnd /\ [Next]_vars => EvictionsEnd'
<1> SUFFICES ASSUME IInv, EvictionsEnd, [Next]_vars PROVE EvictionsEnd'  OBVIOUS
<1>1. ASSUME NEW t \in Tasks, Arrive(t) PROVE EvictionsEnd'
  <2>1. ASSUME NEW s \in Sessions, NEW k \in Keys, Prompt(t, s, k) PROVE EvictionsEnd'
    BY <2>1, RowSet DEF Prompt, NewTask, Evicts
  <2>2. ASSUME NEW s \in Sessions, StopSession(t, s) PROVE EvictionsEnd'
    BY <2>2, StoppingOther DEF StopSession
  <2>3. ASSUME NEW s \in Sessions, DeleteSession(t, s) PROVE EvictionsEnd'
    BY <2>3, RowSet DEF DeleteSession, NewTask, Evicts
  <2>4. ASSUME Reload(t) PROVE EvictionsEnd'
    BY <2>4, RowSet DEF Reload, NewTask, Evicts
  <2> QED  BY <1>1, <2>1, <2>2, <2>3, <2>4 DEF Arrive
<1>2. ASSUME Reap PROVE EvictionsEnd'
  BY <1>2, RowSet DEF Reap, NewTask, Evicts, Tasks
<1>3. ASSUME UNCHANGED task PROVE EvictionsEnd'
  BY <1>3 DEF EvictionsEnd, Evicts
<1> QED
  BY <1>1, <1>2, <1>3, ServedEvictions DEF Next, Pi, PiStarts, PiEnds, Exits, Exited, vars

\* Who waits for a lock is in its queue, and somebody is first there.
LEMMA Behind ==
    ASSUME NEW q, NEW W, NEW H, Queue(q, W, H), NEW t \in W
    PROVE  q # <<>> /\ Head(q) \in W /\ Head(q) \in Tasks
<1>1. q # <<>> /\ q \in Seq(Tasks)  BY DEF Queue
<1>2. Head(q) = q[1] /\ 1 \in DOMAIN q  BY <1>1, Headless
<1> QED  BY <1>1, <1>2, ElementOfSeq, LenProperties DEF Queue

\* Who waits for the lock of a session: if who is first waits too, he makes room for that session.
LEMMA LockedByEvictor ==
    ASSUME IInv, NEW t \in Tasks, NEW s \in Sessions, InLock(task[t], s), ~Holds(lock, s, t)
    PROVE  \E u \in Tasks :
              /\ WaitsIn(lock, s, t, u)
              /\ Waits(u) => Evicts(task[u]) /\ task[u].session = s
<1>1. Queue(lock[s], LockWaiting(s), LockHaving(s))  BY DEF IInv, LocksInv
<1>2. t \in LockWaiting(s)  BY DEF LockWaiting
<1> DEFINE u == Head(lock[s])
<1>3. u \in Tasks /\ InLock(task[u], s) /\ Holds(lock, s, u)
  BY <1>1, <1>2, Behind DEF LockWaiting, Holds
<1>4. Waits(u) => Evicts(task[u]) /\ task[u].session = s
  BY <1>3 DEF Waits, At, InLock, Stops, Evicts
<1> QED  BY <1>3, <1>4 DEF WaitsIn

\* Who waits for a command lock: who is first waits, if at all, for the lock of a session.
LEMMA CommandedByOther ==
    ASSUME IInv, NEW t \in Tasks, NEW s \in Sessions, InCommand(task[t], s),
           ~Holds(command, s, t)
    PROVE  \E u \in Tasks : WaitsIn(command, s, t, u) /\ (Waits(u) => ~At(u, "command"))
<1>1. Queue(command[s], CommandWaiting(s), CommandHaving(s))  BY DEF IInv, CommandsInv
<1>2. t \in CommandWaiting(s)  BY DEF CommandWaiting
<1> DEFINE u == Head(command[s])
<1>3. u \in Tasks /\ InCommand(task[u], s) /\ Holds(command, s, u)
  BY <1>1, <1>2, Behind DEF CommandWaiting, Holds
<1>4. Waits(u) => ~At(u, "command")
  BY <1>3 DEF Waits, At, InCommand
<1> QED  BY <1>3, <1>4 DEF WaitsIn

\* The session whose lock or command lock is waited for.
Wanted(t) == IF At(t, "stop") THEN task[t].target ELSE task[t].session

LEMMA WaitersAreQueued ==
    ASSUME IInv, NEW t \in Tasks, Waits(t)
    PROVE  /\ Wanted(t) \in Sessions
           /\ At(t, "command") => /\ InCommand(task[t], Wanted(t))
                                  /\ ~Holds(command, Wanted(t), t)
                                  /\ \A u : WaitsIn(command, Wanted(t), t, u) => WaitsFor(t, u)
           /\ ~At(t, "command") => /\ InLock(task[t], Wanted(t))
                                   /\ ~Holds(lock, Wanted(t), t)
                                   /\ \A u : WaitsIn(lock, Wanted(t), t, u) => WaitsFor(t, u)
<1>1. RowOK(task[t])  BY OfTask
<1> QED  BY <1>1 DEF Waits, WaitsFor, At, Wanted, RowOK, Prompts, Stops, InCommand, InLock

LEMMA NoCircle == IInv /\ EvictionsEnd => NoLockCycle
<1> SUFFICES ASSUME IInv, EvictionsEnd,
                    NEW circle \in SUBSET {t \in Tasks : Waits(t)}, circle # {},
                    \A t \in circle, u \in Tasks : WaitsFor(t, u) => u \in circle
             PROVE  FALSE
  BY DEF NoLockCycle
<1> DEFINE evictors == {t \in circle : Evicts(task[t])}
<1>1. \A t \in circle : ~At(t, "command") =>
        \E u \in evictors : task[u].session = Wanted(t)
  <2> SUFFICES ASSUME NEW t \in circle, ~At(t, "command")
               PROVE  \E u \in evictors : task[u].session = Wanted(t)
    OBVIOUS
  <2>1. PICK u \in Tasks : /\ WaitsIn(lock, Wanted(t), t, u)
                           /\ Waits(u) => Evicts(task[u]) /\ task[u].session = Wanted(t)
    BY WaitersAreQueued, LockedByEvictor
  <2>2. u \in circle  BY <2>1, WaitersAreQueued
  <2> QED  BY <2>1, <2>2
<1>2. \E t \in circle : ~At(t, "command")
  <2>1. PICK t \in circle : TRUE  OBVIOUS
  <2>2. CASE At(t, "command")
    <3>1. PICK u \in Tasks : WaitsIn(command, Wanted(t), t, u) /\ (Waits(u) => ~At(u, "command"))
      BY <2>2, WaitersAreQueued, CommandedByOther
    <3>2. u \in circle  BY <2>2, <3>1, WaitersAreQueued
    <3> QED  BY <3>1, <3>2
  <2> QED  BY <2>2
<1>3. evictors # {} /\ evictors \in SUBSET Tasks  BY <1>1, <1>2
<1>4. PICK t \in evictors : \A u \in evictors : task[u].session # task[t].target
  BY <1>3 DEF EvictionsEnd
<1>5. ~At(t, "command") /\ Wanted(t) = task[t].target  BY <1>4 DEF Evicts, At, Wanted
<1> QED  BY <1>1, <1>4, <1>5

\* Whatever is requested, reaped or reloaded at the same time, some task that waits for a lock waits
\* for one that does not, though a prompt that makes room for its session waits for the lock of
\* another session with its own lock and its command lock.
THEOREM NoLockCycleHolds == Spec => []NoLockCycle
<1>1. Init => EvictionsEnd
  BY DEF Init, EvictionsEnd, Evicts, NewTask
<1>2. IInv /\ EvictionsEnd /\ [Next]_vars => EvictionsEnd'  BY NextEvictions
<1> QED  BY <1>1, <1>2, NoCircle, InvariantHolds, PTL DEF Spec
==============================================================================
