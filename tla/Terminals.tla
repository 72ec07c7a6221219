------------------------------ MODULE Terminals ------------------------------
(***************************************************************************)
(* Web terminals of one instance: the Manager's rows, its one-time tickets, *)
(* the WebSocket connections it relays, and the PTYs behind them.           *)
(*                                                                         *)
(*   terminal_routes/crud.py         Create, Read, Delete                   *)
(*   terminal_routes/tickets.py      IssueTicket, Connect                   *)
(*   terminal_routes/connection.py   Attach .. Finish: the relay, its end    *)
(*   terminal_routes/lifecycle.py    Sweep (the cleanup loop), Restart      *)
(*                                                                         *)
(* Handlers are coroutines of one event loop.  They give up control while   *)
(* the Bridge is asked: an atomic first part, the effect at the Bridge, and *)
(* an atomic last part that writes what the first part read.                *)
(*                                                                         *)
(* Abstracted: the bytes and offsets of the relay, origins and secrets (a   *)
(* ticket is its number), and clocks: a lifetime, a ticket or the retention *)
(* of an idle terminal may end at any time.  The PTY daemon, the sandbox    *)
(* and the instance's state are seen as the Manager sees them.              *)
(***************************************************************************)
EXTENDS Integers, FiniteSets

CONSTANTS
    Terminals,      \* terminals that can be created; a row and its PTY share the id
    Requests,       \* API requests served at the same time
    Conns,          \* browser connections at the same time
    MaxTerminals,   \* max_terminals_per_instance
    MaxTickets,     \* bound: tickets issued in one behaviour
    Faults,         \* which of FaultKinds the environment may cause
    MaxFaults       \* bound: faults in one behaviour

FaultKinds == {"refuse", "lost", "handshake", "down", "crash"}
None == 0

ASSUME NoneAssumption == None \notin Terminals
ASSUME FaultAssumption == Faults \subseteq FaultKinds
ASSUME BoundAssumption == MaxTerminals \in Nat /\ MaxTickets \in Nat /\ MaxFaults \in Nat

VARIABLES
    row,        \* manager_terminal_bindings: the state of each terminal's row
    expired,    \* rows whose expires_at has passed
    tickets,    \* every ticket ever issued; uses counts the connections it opened
    call,       \* the requests under way, with what they read
    conn,       \* the WebSocket handlers
    sweep,      \* the cleanup loop: what it still has to close, and whom it asks the Bridge for
    pty,        \* the PTY of a terminal in the sandbox
    sandbox,    \* "ready": the instance is ready; "kept", "lost": it is not, and so is its sandbox
    deleted,    \* history: terminals whose deletion was answered with success
    faults      \* faults so far

vars == <<row, expired, tickets, call, conn, sweep, pty, sandbox, deleted, faults>>

------------------------------------------------------------------------------
States == {"created", "connected", "detached", "exited", "closed", "unavailable"}
Final == {"closed", "unavailable"}
IdleStates == {"created", "detached", "exited", "unavailable"}

NoCall == [step |-> "idle", t |-> None, seen |-> "none"]
NoConn == [step |-> "idle", t |-> None, result |-> "none"]
NoSweep == [todo |-> {}, asked |-> None]

Init ==
    /\ row = [t \in Terminals |-> "none"]
    /\ expired = {}
    /\ tickets = [k \in 1..MaxTickets |-> [t |-> None, live |-> FALSE, uses |-> 0]]
    /\ call = [r \in Requests |-> NoCall]
    /\ conn = [c \in Conns |-> NoConn]
    /\ sweep = NoSweep
    /\ pty = [t \in Terminals |-> "none"]
    /\ sandbox = "ready"
    /\ deleted = {}
    /\ faults = 0

Fault(kind) == kind \in Faults /\ faults < MaxFaults /\ faults' = faults + 1

Open == {t \in Terminals : row[t] \notin {"none", "closed"}}
SetRow(t, state) == row' = [row EXCEPT ![t] = state]

At(r, step) == call[r].step = step
Goto(r, step) == call' = [call EXCEPT ![r].step = step]
End(r) == call' = [call EXCEPT ![r] = NoCall]

Attached(t) == {c \in Conns : conn[c].step = "relaying" /\ conn[c].t = t}

\* The upstream side of these connections is closed: their relays end with the result they have.
Cut(gone) == [c \in Conns |-> IF c \in gone THEN [conn[c] EXCEPT !.step = "ended"] ELSE conn[c]]

\* Every ticket of a terminal is removed.
WithoutTickets(t) ==
    [k \in DOMAIN tickets |-> IF tickets[k].t = t THEN [tickets[k] EXCEPT !.live = FALSE]
                                                  ELSE tickets[k]]

\* The Bridge removes a PTY: whoever is attached to it is cut off.
RemovePty(t) ==
    /\ pty' = [pty EXCEPT ![t] = "gone"]
    /\ conn' = Cut(Attached(t))

\* _mark_terminal_closed: the row is closed and its tickets are revoked.  The mutant forgets them.
CloseRowOnly(t) == SetRow(t, "closed") /\ UNCHANGED tickets
Close(t) ==
    /\ SetRow(t, "closed")
    /\ tickets' = WithoutTickets(t)

------------------------------------------------------------------------------
(* POST terminals: the limit is checked, the Bridge creates, the row is stored. *)

Create(r, t) ==
    /\ At(r, "idle") /\ sandbox = "ready"
    /\ Cardinality(Open) < MaxTerminals
    /\ row[t] = "none" /\ pty[t] = "none" /\ \A other \in Requests : call[other].t # t
    /\ call' = [call EXCEPT ![r] = [NoCall EXCEPT !.step = "creating", !.t = t]]
    /\ UNCHANGED <<row, expired, tickets, conn, sweep, pty, sandbox, deleted, faults>>

BridgeCreates(r) ==
    /\ At(r, "creating") /\ sandbox # "lost"
    /\ pty' = [pty EXCEPT ![call[r].t] = "live"]
    /\ \/ Goto(r, "created") /\ UNCHANGED faults
       \/ Fault("lost") /\ End(r)
    /\ UNCHANGED <<row, expired, tickets, conn, sweep, sandbox, deleted>>

StoreTerminal(r) ==
    /\ At(r, "created")
    /\ SetRow(call[r].t, "created")
    /\ End(r)
    /\ UNCHANGED <<expired, tickets, conn, sweep, pty, sandbox, deleted, faults>>

------------------------------------------------------------------------------
(* GET terminal: what the row says is read, corrected by the PTY's status, and *)
(* stored over whatever the row says by then.                                  *)

Read(r, t) ==
    /\ At(r, "idle") /\ sandbox = "ready"
    /\ row[t] \notin Final \cup {"none"}
    /\ call' = [call EXCEPT ![r] = [step |-> "reading", t |-> t, seen |-> row[t]]]
    /\ UNCHANGED <<row, expired, tickets, conn, sweep, pty, sandbox, deleted, faults>>

\* Mutant of Refreshed: the PTY's own status is stored.
RefreshedVerbatim(t, seen) == pty[t]

\* The state GET reports for a terminal seen as "seen".
Refreshed(t, seen) ==
    IF pty[t] = "gone" THEN "unavailable"
    ELSE IF pty[t] = "over" /\ seen = "connected" THEN "exited" ELSE seen

BridgeReads(r) ==
    /\ At(r, "reading") /\ sandbox # "lost"
    /\ call' = [call EXCEPT ![r].step = "read", ![r].seen = Refreshed(call[r].t, call[r].seen)]
    /\ UNCHANGED <<row, expired, tickets, conn, sweep, pty, sandbox, deleted, faults>>

StoreStatus(r) ==
    /\ At(r, "read")
    /\ SetRow(call[r].t, call[r].seen)
    /\ End(r)
    /\ UNCHANGED <<expired, tickets, conn, sweep, pty, sandbox, deleted, faults>>

------------------------------------------------------------------------------
(* DELETE terminal: a closed one is done; of the others the PTY goes first.   *)

Delete(r, t) ==
    /\ At(r, "idle") /\ sandbox = "ready" /\ row[t] # "none"
    /\ IF row[t] # "closed"
       THEN /\ call' = [call EXCEPT ![r] = [NoCall EXCEPT !.step = "deleting", !.t = t]]
            /\ UNCHANGED <<row, tickets, deleted>>
       ELSE Close(t) /\ deleted' = deleted \cup {t} /\ UNCHANGED call
    /\ UNCHANGED <<expired, conn, sweep, pty, sandbox, faults>>

BridgeDeletes(r) ==
    /\ At(r, "deleting") /\ sandbox # "lost"
    /\ RemovePty(call[r].t)
    /\ \/ Goto(r, "deleted") /\ UNCHANGED faults
       \/ Fault("lost") /\ End(r)
    /\ UNCHANGED <<row, expired, tickets, sweep, sandbox, deleted>>

FinishDelete(r) ==
    /\ At(r, "deleted")
    /\ Close(call[r].t)
    /\ deleted' = deleted \cup {call[r].t}
    /\ End(r)
    /\ UNCHANGED <<expired, conn, sweep, pty, sandbox, faults>>

\* The Bridge cannot be reached, or refuses: the request ends and changes nothing.
BridgeRefuses(r) ==
    /\ call[r].step \in {"creating", "reading", "deleting"}
    /\ \/ sandbox = "lost" /\ UNCHANGED faults
       \/ sandbox # "lost" /\ Fault("refuse")
    /\ End(r)
    /\ UNCHANGED <<row, expired, tickets, conn, sweep, pty, sandbox, deleted>>

------------------------------------------------------------------------------
(* Tickets and connections.                                                   *)

\* A new ticket replaces the ones its terminal had.
IssueTicket(k, t) ==
    /\ sandbox = "ready" /\ row[t] \notin Final \cup {"none"} /\ t \notin expired
    /\ tickets[k].t = None /\ \A j \in 1..(k - 1) : tickets[j].t # None
    /\ tickets' = [WithoutTickets(t) EXCEPT ![k] = [t |-> t, live |-> TRUE, uses |-> 0]]
    /\ UNCHANGED <<row, expired, call, conn, sweep, pty, sandbox, deleted, faults>>

ExpireTicket(k) ==
    /\ tickets[k].live
    /\ tickets' = [tickets EXCEPT ![k].live = FALSE]
    /\ UNCHANGED <<row, expired, call, conn, sweep, pty, sandbox, deleted, faults>>

Connectable(t) == sandbox = "ready" /\ row[t] \notin Final /\ t \notin expired

\* A ticket is removed by the statement that looks it up, whether or not it opens a connection.
\* The mutant looks it up and leaves it to the cleanup.
Kept(ticket, opens) == [ticket EXCEPT !.uses = @ + (IF opens THEN 1 ELSE 0)]
Consumed(ticket, opens) ==
    [ticket EXCEPT !.live = FALSE, !.uses = @ + (IF opens THEN 1 ELSE 0)]

Connect(c, k) ==
    LET t == tickets[k].t IN
    /\ conn[c].step = "idle" /\ tickets[k].live
    /\ tickets' = [tickets EXCEPT ![k] = Consumed(tickets[k], Connectable(t))]
    /\ IF Connectable(t)
       THEN /\ SetRow(t, "connected")
            /\ conn' = [conn EXCEPT ![c] = [step |-> "dialing", t |-> t, result |-> "detached"]]
       ELSE UNCHANGED <<row, conn>>
    /\ UNCHANGED <<expired, call, sweep, pty, sandbox, deleted, faults>>

\* The Bridge accepts; a connection that is attached already is taken over.
Attach(c) ==
    LET t == conn[c].t IN
    /\ conn[c].step = "dialing" /\ sandbox # "lost" /\ pty[t] = "live"
    /\ conn' = [Cut(Attached(t)) EXCEPT ![c].step = "relaying"]
    /\ UNCHANGED <<row, expired, tickets, call, sweep, pty, sandbox, deleted, faults>>

\* There is no PTY, it serves another connection, or nothing answers: whatever the row says, the
\* terminal counts as detached.
Reject(c) ==
    LET t == conn[c].t IN
    /\ conn[c].step = "dialing"
    /\ sandbox = "lost" \/ pty[t] # "live" \/ Attached(t) # {}
    /\ SetRow(t, "detached")
    /\ conn' = [conn EXCEPT ![c] = NoConn]
    /\ UNCHANGED <<expired, tickets, call, sweep, pty, sandbox, deleted, faults>>

\* The handshake fails with an exception the handler does not expect.
BreakHandshake(c) ==
    /\ conn[c].step = "dialing" /\ Fault("handshake")
    /\ conn' = [conn EXCEPT ![c] = NoConn]
    /\ UNCHANGED <<row, expired, tickets, call, sweep, pty, sandbox, deleted>>

\* The browser leaves, or sends a frame that is too large.
Leave(c) ==
    /\ conn[c].step = "relaying"
    /\ conn' = Cut({c})
    /\ UNCHANGED <<row, expired, tickets, call, sweep, pty, sandbox, deleted, faults>>

\* The lifetime of the terminal ends under a connection.  The mutant looks at the row first.
OutlivesOpenRow(c) == conn[c].t \in expired /\ row[conn[c].t] # "closed"
Outlives(c) == conn[c].t \in expired

TimeOut(c) ==
    /\ conn[c].step = "relaying" /\ Outlives(c)
    /\ conn' = [conn EXCEPT ![c].step = "ended", ![c].result = "closed"]
    /\ UNCHANGED <<row, expired, tickets, call, sweep, pty, sandbox, deleted, faults>>

\* The handler stores how the relay ended.
Finish(c) ==
    /\ conn[c].step = "ended"
    /\ SetRow(conn[c].t, conn[c].result)
    /\ conn' = [conn EXCEPT ![c] = NoConn]
    /\ UNCHANGED <<expired, tickets, call, sweep, pty, sandbox, deleted, faults>>

------------------------------------------------------------------------------
(* The cleanup loop.                                                          *)

\* Mutant of Overdue: a terminal that counts as connected is left to its connection.
OverdueUnlessConnected(t) == t \in expired /\ row[t] # "connected"

\* What must be closed now: the lifetime is over, or the instance is not ready.
Overdue(t) == t \in expired \/ sandbox # "ready"

\* One round reads its list; idle is the set of terminals whose retention has ended by now.
Sweep ==
    /\ sweep = NoSweep
    /\ \E idle \in SUBSET {t \in Open : row[t] \in IdleStates} :
         sweep' = [NoSweep EXCEPT !.todo =
             {<<t, sandbox = "ready">> : t \in idle \cup {u \in Open : Overdue(u)}}]
    /\ sweep'.todo # {}
    /\ UNCHANGED <<row, expired, tickets, call, conn, pty, sandbox, deleted, faults>>

\* One terminal after the other: the Bridge is asked to delete the PTY if the instance was ready.
SweepDelete(t) ==
    /\ sweep.asked = None /\ <<t, TRUE>> \in sweep.todo
    /\ sweep' = [sweep EXCEPT !.asked = t]
    /\ \/ sandbox # "lost" /\ RemovePty(t) /\ UNCHANGED faults
       \/ sandbox = "lost" /\ UNCHANGED <<pty, conn, faults>>
       \/ Fault("refuse") /\ UNCHANGED <<pty, conn>>
    /\ UNCHANGED <<row, expired, tickets, call, sandbox, deleted>>

\* Then the row is closed, whatever the Bridge said.
SweepClose(t) ==
    /\ \/ sweep.asked = t
       \/ sweep.asked = None /\ <<t, FALSE>> \in sweep.todo
    /\ sweep' = [todo |-> {e \in sweep.todo : e[1] # t}, asked |-> None]
    /\ Close(t)
    /\ UNCHANGED <<expired, call, conn, pty, sandbox, deleted, faults>>

------------------------------------------------------------------------------
(* Time, the shell, the instance and the Manager process.                     *)

Expire(t) ==
    /\ row[t] # "none" /\ t \notin expired
    /\ expired' = expired \cup {t}
    /\ UNCHANGED <<row, tickets, call, conn, sweep, pty, sandbox, deleted, faults>>

\* The shell ends; an attached connection sees its exit frame.
ShellExits(t) ==
    /\ pty[t] = "live" /\ Attached(t) # {}
    /\ pty' = [pty EXCEPT ![t] = "over"]
    /\ conn' = [c \in Conns |->
                  IF c \in Attached(t) THEN [conn[c] EXCEPT !.result = "exited"] ELSE conn[c]]
    /\ UNCHANGED <<row, expired, tickets, call, sweep, sandbox, deleted, faults>>

\* The instance is reconciled, recovered or stopped, and is ready again later; its sandbox, with
\* the PTYs in it, may survive that.
GoDown ==
    /\ sandbox = "ready" /\ Fault("down")
    /\ \/ sandbox' = "kept" /\ UNCHANGED <<pty, conn>>
       \/ /\ sandbox' = "lost"
          /\ pty' = [t \in Terminals |-> IF pty[t] = "none" THEN "none" ELSE "gone"]
          /\ conn' = Cut({c \in Conns : conn[c].step = "relaying"})
    /\ UNCHANGED <<row, expired, tickets, call, sweep, deleted>>

ComeUp ==
    /\ sandbox # "ready"
    /\ sandbox' = "ready"
    /\ UNCHANGED <<row, expired, tickets, call, conn, sweep, pty, deleted, faults>>

\* What startup does to the rows that counted as connected.
Restarted(state) == IF state = "connected" THEN "detached" ELSE state

\* The Manager dies: its requests, connections and cleanup round are gone when it is up again.
Restart ==
    /\ Fault("crash")
    /\ row' = [t \in Terminals |-> Restarted(row[t])]
    /\ call' = [r \in Requests |-> NoCall]
    /\ conn' = [c \in Conns |-> NoConn]
    /\ sweep' = NoSweep
    /\ UNCHANGED <<expired, tickets, pty, sandbox, deleted>>

------------------------------------------------------------------------------
Begin(r) == \E t \in Terminals : Create(r, t) \/ Read(r, t) \/ Delete(r, t)
Upstream(r) == BridgeCreates(r) \/ BridgeReads(r) \/ BridgeDeletes(r) \/ BridgeRefuses(r)
Store(r) == StoreTerminal(r) \/ StoreStatus(r) \/ FinishDelete(r)
Browser(c) == Leave(c) \/ \E k \in 1..MaxTickets : Connect(c, k)
Handler(c) == Attach(c) \/ Reject(c) \/ TimeOut(c) \/ Finish(c)
Cleanup == Sweep \/ \E t \in Terminals : SweepDelete(t) \/ SweepClose(t)

Next ==
    \/ \E r \in Requests : Begin(r) \/ Upstream(r) \/ Store(r)
    \/ \E k \in 1..MaxTickets : ExpireTicket(k) \/ \E t \in Terminals : IssueTicket(k, t)
    \/ \E c \in Conns : Browser(c) \/ Handler(c) \/ BreakHandshake(c)
    \/ Cleanup
    \/ \E t \in Terminals : Expire(t) \/ ShellExits(t)
    \/ GoDown \/ ComeUp \/ Restart

Spec == Init /\ [][Next]_vars

\* Lifetimes end, the cleanup loop runs on, and a handler that holds an answer stores it.
FairSpec ==
    /\ Spec
    /\ WF_vars(Cleanup)
    /\ \A t \in Terminals : WF_vars(Expire(t))
    /\ \A c \in Conns : WF_vars(Handler(c))
    /\ \A r \in Requests : WF_vars(Upstream(r)) /\ WF_vars(Store(r))

------------------------------------------------------------------------------
\* A ticket opens one connection at most, however many browsers present it and whatever is closed,
\* reopened or restarted meanwhile (_consume_ticket, docs/api/web-terminal.md).
TypeOK ==
    /\ row \in [Terminals -> States \cup {"none"}]
    /\ expired \subseteq Terminals /\ deleted \subseteq Terminals
    /\ tickets \in [1..MaxTickets ->
           [t : Terminals \cup {None}, live : BOOLEAN, uses : 0..1]]
    /\ call \in [Requests ->
           [step : {"idle", "creating", "created", "reading", "read", "deleting", "deleted"},
            t : Terminals \cup {None}, seen : States \cup {"none"}]]
    /\ conn \in [Conns ->
           [step : {"idle", "dialing", "relaying", "ended"},
            t : Terminals \cup {None}, result : {"none", "detached", "exited", "closed"}]]
    /\ sweep \in [todo : SUBSET (Terminals \X BOOLEAN), asked : Terminals \cup {None}]
    /\ pty \in [Terminals -> {"none", "live", "over", "gone"}]
    /\ sandbox \in {"ready", "kept", "lost"}
    /\ faults \in 0..MaxFaults

\* When a deletion succeeds, no ticket issued before it opens a connection any more, whatever
\* other requests and the cleanup did to the row meanwhile (delete_terminal).
TicketsRevoked ==
    [][\A t \in deleted' \ deleted, k \in 1..MaxTickets :
         tickets[k].t = t => ~tickets'[k].live]_vars

\* A terminal whose lifetime has ended is closed, whatever state its row is left in: also one that
\* counts as connected though no handler serves it, after an unexpected exception or a stale status
\* (cleanup_terminals).
ExpiredIsClosed == \A t \in Terminals : (t \in expired /\ t \in Open) ~> row[t] = "closed"

\* A lifetime is a hard bound: after it the browsers leave, and none ever works in the terminal
\* again, though a stale status or a late disconnect may reopen its row (absolute_timeout).
LifetimeIsHard == \A t \in Terminals : t \in expired ~> [](Attached(t) = {})

------------------------------------------------------------------------------
(* Promises the code does not keep: see the README on known disagreements.    *)

\* An instance never has more open terminals than its limit (create_terminal).
LimitRespected == Cardinality(Open) <= MaxTerminals

\* A closed terminal stays closed (delete_terminal).
ClosedIsFinal == [][\A t \in Terminals : row[t] = "closed" => row'[t] = "closed"]_vars

\* A deletion that succeeds has ended the PTY (delete_terminal).
DeletedIsGone == \A t \in deleted : pty[t] = "gone"

\* The cleanup takes a terminal from the browser that works in it only when its lifetime is over
\* or its instance is not ready (cleanup_terminals).
CleanupSparesBrowsers ==
    [][\A t \in Terminals :
         Attached(t) # {} /\ sweep'.asked = t /\ sweep.asked # t =>
            t \in expired \/ sandbox # "ready"]_vars
==============================================================================
