--------------------------- MODULE Terminals_proofs ---------------------------
(***************************************************************************)
(* That a ticket opens one connection at most, and none once its terminal    *)
(* was deleted, for any number of terminals, requests, browsers, tickets and *)
(* faults.                                                                   *)
(***************************************************************************)
EXTENDS Terminals, TLAPS

Ticket == [t : Terminals \cup {None}, live : BOOLEAN, uses : 0..1]
Call == [step : {"idle", "creating", "created", "reading", "read", "deleting", "deleted"},
         t : Terminals \cup {None}, seen : States \cup {"none"}]
Conn == [step : {"idle", "dialing", "relaying", "ended"},
         t : Terminals \cup {None}, result : {"none", "detached", "exited", "closed"}]
Round == [todo : SUBSET (Terminals \X BOOLEAN), asked : Terminals \cup {None}]

Tables ==
    /\ row \in [Terminals -> States \cup {"none"}]
    /\ expired \subseteq Terminals /\ deleted \subseteq Terminals
    /\ sweep \in Round
    /\ pty \in [Terminals -> {"none", "live", "over", "gone"}]
    /\ sandbox \in {"ready", "kept", "lost"}
    /\ faults \in 0..MaxFaults
Ticketed == tickets \in [1..MaxTickets -> Ticket]
Called == call \in [Requests -> Call]
Connected == conn \in [Conns -> Conn]

\* A ticket that is live was never used, and whatever is at work works for a terminal.
Unused == \A k \in 1..MaxTickets : tickets[k].live => tickets[k].t \in Terminals /\ tickets[k].uses = 0
Calling == \A r \in Requests : call[r].step # "idle" => call[r].t \in Terminals
Connecting == \A c \in Conns : conn[c].step # "idle" => conn[c].t \in Terminals

TicketInv == Ticketed /\ Unused
CallInv == Called /\ Calling
ConnInv == Connected /\ Connecting
IInv == Tables /\ TicketInv /\ CallInv /\ ConnInv

LEMMA IInvTypes == IInv => TypeOK
  BY DEF IInv, TypeOK, Tables, TicketInv, Ticketed, CallInv, Called, ConnInv, Connected,
         Ticket, Call, Conn, Round

LEMMA InitIInv == Init => IInv
<1> SUFFICES ASSUME Init PROVE IInv
  OBVIOUS
<1>1. Tables
  BY BoundAssumption DEF Init, Tables, NoSweep, Round
<1>2. TicketInv
  BY DEF Init, TicketInv, Ticketed, Unused, Ticket
<1>3. CallInv
  BY DEF Init, CallInv, Called, Calling, NoCall, Call
<1>4. ConnInv
  BY DEF Init, ConnInv, Connected, Connecting, NoConn, Conn
<1> QED BY <1>1, <1>2, <1>3, <1>4 DEF IInv

------------------------------------------------------------------------------
(* What the operations the steps are made of do to each part.                 *)

LEMMA FaultBound ==
  ASSUME Tables, NEW kind, Fault(kind)
  PROVE  faults' \in 0..MaxFaults
  BY BoundAssumption DEF Tables, Fault

LEMMA SetRowTyped ==
  ASSUME Tables, NEW t \in Terminals, NEW state \in States \cup {"none"}, SetRow(t, state)
  PROVE  row' \in [Terminals -> States \cup {"none"}]
  BY DEF Tables, SetRow

\* The tickets of a terminal are revoked, the others stay.
LEMMA WithoutTicketsTyped ==
  ASSUME TicketInv, NEW t \in Terminals, tickets' = WithoutTickets(t)
  PROVE  TicketInv' /\ \A k \in 1..MaxTickets : tickets[k].t = t => ~tickets'[k].live
<1>1. \A k \in 1..MaxTickets :
        /\ tickets[k] \in Ticket
        /\ tickets'[k] = IF tickets[k].t = t THEN [tickets[k] EXCEPT !.live = FALSE] ELSE tickets[k]
  BY DEF TicketInv, Ticketed, WithoutTickets
<1>2. \A k \in 1..MaxTickets :
        /\ tickets'[k] \in Ticket
        /\ tickets'[k].live => tickets'[k] = tickets[k]
        /\ tickets[k].t = t => ~tickets'[k].live
  BY <1>1 DEF Ticket
<1>3. tickets' \in [1..MaxTickets -> Ticket]
  BY <1>2 DEF WithoutTickets, TicketInv, Ticketed
<1> QED BY <1>2, <1>3 DEF TicketInv, Ticketed, Unused

LEMMA CloseDoes ==
  ASSUME Tables, TicketInv, NEW t \in Terminals, Close(t)
  PROVE  /\ row' \in [Terminals -> States \cup {"none"}]
         /\ TicketInv'
         /\ \A k \in 1..MaxTickets : tickets[k].t = t => ~tickets'[k].live
  BY WithoutTicketsTyped DEF Close, Tables, SetRow, States

\* A request moves to a step of a call about a terminal, or ends.
LEMMA CallMoves ==
  ASSUME CallInv, NEW r \in Requests, NEW new \in Call, call' = [call EXCEPT ![r] = new],
         new.step # "idle" => new.t \in Terminals
  PROVE  CallInv'
<1>1. call' \in [Requests -> Call]
  BY DEF CallInv, Called
<1>2. \A q \in Requests : call'[q] = IF q = r THEN new ELSE call[q]
  BY DEF CallInv, Called
<1> QED BY <1>1, <1>2 DEF CallInv, Called, Calling

LEMMA CallEnds ==
  ASSUME CallInv, NEW r \in Requests, End(r)
  PROVE  CallInv'
  BY CallMoves DEF End, NoCall, Call

LEMMA CallGoes ==
  ASSUME CallInv, NEW r \in Requests, ~At(r, "idle"),
         NEW step \in {"creating", "created", "reading", "read", "deleting", "deleted"},
         Goto(r, step)
  PROVE  CallInv'
<1> DEFINE new == [call[r] EXCEPT !.step = step]
<1>1. call[r] \in Call /\ call[r].t \in Terminals
  BY DEF CallInv, Called, Calling, At
<1>2. new \in Call /\ new.t \in Terminals
  BY <1>1 DEF Call
<1>3. call' = [call EXCEPT ![r] = new]
  BY DEF Goto
<1> HIDE DEF new
<1> QED BY <1>2, <1>3, CallMoves

\* A handler gets a new record about a terminal, or none.
LEMMA ConnMoves ==
  ASSUME ConnInv, NEW c \in Conns, NEW new \in Conn, conn' = [conn EXCEPT ![c] = new],
         new.step # "idle" => new.t \in Terminals
  PROVE  ConnInv'
<1>1. conn' \in [Conns -> Conn]
  BY DEF ConnInv, Connected
<1>2. \A d \in Conns : conn'[d] = IF d = c THEN new ELSE conn[d]
  BY DEF ConnInv, Connected
<1> QED BY <1>1, <1>2 DEF ConnInv, Connected, Connecting

LEMMA ConnEnds ==
  ASSUME ConnInv, NEW c \in Conns, conn' = [conn EXCEPT ![c] = NoConn]
  PROVE  ConnInv'
  BY ConnMoves DEF NoConn, Conn

\* Relays are cut.
LEMMA CutKeeps ==
  ASSUME ConnInv, NEW gone \in SUBSET {c \in Conns : conn[c].step # "idle"}, conn' = Cut(gone)
  PROVE  ConnInv'
<1>1. \A c \in Conns : conn[c] \in Conn
  BY DEF ConnInv, Connected
<1>2. \A c \in Conns :
        /\ conn'[c] \in Conn /\ conn'[c].t = conn[c].t
        /\ conn[c].step = "idle" => conn'[c].step = "idle"
  BY <1>1 DEF Cut, Conn
<1>3. conn' \in [Conns -> Conn]
  BY <1>2 DEF Cut
<1> QED BY <1>2, <1>3 DEF ConnInv, Connected, Connecting

LEMMA RemovePtyKeeps ==
  ASSUME Tables, ConnInv, NEW t \in Terminals, RemovePty(t)
  PROVE  ConnInv' /\ pty' \in [Terminals -> {"none", "live", "over", "gone"}]
<1>1. Attached(t) \in SUBSET {c \in Conns : conn[c].step # "idle"}
  BY DEF Attached
<1> QED BY <1>1, CutKeeps DEF RemovePty, Tables

LEMMA TicketsKept ==
  ASSUME TicketInv, tickets' = tickets
  PROVE  TicketInv'
  BY DEF TicketInv, Ticketed, Unused

LEMMA CallKept ==
  ASSUME CallInv, call' = call
  PROVE  CallInv'
  BY DEF CallInv, Called, Calling

LEMMA ConnKept ==
  ASSUME ConnInv, conn' = conn
  PROVE  ConnInv'
  BY DEF ConnInv, Connected, Connecting

------------------------------------------------------------------------------
(* The steps.                                                                  *)

\* Requests begin.
LEMMA CreateStep ==
  ASSUME IInv, NEW r \in Requests, NEW t \in Terminals, Create(r, t)
  PROVE  IInv'
<1>0. Tables /\ TicketInv /\ CallInv /\ ConnInv
  BY DEF IInv
<1>1. Tables'
  BY <1>0 DEF Tables, Create
<1>2. TicketInv'
  BY <1>0, TicketsKept DEF Create
<1>3. CallInv'
  <2> DEFINE new == [NoCall EXCEPT !.step = "creating", !.t = t]
  <2>1. new \in Call /\ new.t = t
    BY <1>0 DEF Call, NoCall, Tables, Create
  <2>2. call' = [call EXCEPT ![r] = new]
    BY DEF Create
  <2> HIDE DEF new
  <2> QED BY <1>0, <2>1, <2>2, CallMoves
<1>4. ConnInv'
  BY <1>0, ConnKept DEF Create
<1> QED BY <1>1, <1>2, <1>3, <1>4 DEF IInv

LEMMA ReadStep ==
  ASSUME IInv, NEW r \in Requests, NEW t \in Terminals, Read(r, t)
  PROVE  IInv'
<1>0. Tables /\ TicketInv /\ CallInv /\ ConnInv
  BY DEF IInv
<1>1. Tables'
  BY <1>0 DEF Tables, Read
<1>2. TicketInv'
  BY <1>0, TicketsKept DEF Read
<1>3. CallInv'
  <2> DEFINE new == [step |-> "reading", t |-> t, seen |-> row[t]]
  <2>1. new \in Call /\ new.t = t
    BY <1>0 DEF Call, NoCall, Tables, Read
  <2>2. call' = [call EXCEPT ![r] = new]
    BY DEF Read
  <2> HIDE DEF new
  <2> QED BY <1>0, <2>1, <2>2, CallMoves
<1>4. ConnInv'
  BY <1>0, ConnKept DEF Read
<1> QED BY <1>1, <1>2, <1>3, <1>4 DEF IInv

LEMMA DeleteStep ==
  ASSUME IInv, NEW r \in Requests, NEW t \in Terminals, Delete(r, t)
  PROVE  IInv'
<1>0. Tables /\ TicketInv /\ CallInv /\ ConnInv
  BY DEF IInv
<1>1. Tables'
  <2>1. row' \in [Terminals -> States \cup {"none"}] /\ deleted' \subseteq Terminals
    BY <1>0, CloseDoes DEF Delete, Tables
  <2> QED BY <1>0, <2>1 DEF Tables, Delete
<1>2. TicketInv'
  BY <1>0, TicketsKept, CloseDoes DEF Delete
<1>3. CallInv'
  <2>1. CASE call' = call
    BY <1>0, <2>1, CallKept
  <2>2. CASE call' = [call EXCEPT ![r] = [NoCall EXCEPT !.step = "deleting", !.t = t]]
    <3> DEFINE new == [NoCall EXCEPT !.step = "deleting", !.t = t]
    <3>1. new \in Call /\ new.t = t
      BY DEF Call, NoCall
    <3>2. call' = [call EXCEPT ![r] = new]
      BY <2>2
    <3> HIDE DEF new
    <3> QED BY <1>0, <3>1, <3>2, CallMoves
  <2> QED BY <2>1, <2>2 DEF Delete
<1>4. ConnInv'
  BY <1>0, ConnKept DEF Delete
<1> QED BY <1>1, <1>2, <1>3, <1>4 DEF IInv

\* The Bridge does its part.
LEMMA BridgeCreatesStep ==
  ASSUME IInv, NEW r \in Requests, BridgeCreates(r)
  PROVE  IInv'
<1>0. Tables /\ TicketInv /\ CallInv /\ ConnInv
  BY DEF IInv
<1>1. Tables'
  <2>1. faults' \in 0..MaxFaults
    BY <1>0, FaultBound DEF BridgeCreates, Tables
  <2> QED BY <1>0, <2>1 DEF Tables, BridgeCreates
<1>2. TicketInv'
  BY <1>0, TicketsKept DEF BridgeCreates
<1>3. CallInv'
  BY <1>0, CallGoes, CallEnds DEF BridgeCreates, At
<1>4. ConnInv'
  BY <1>0, ConnKept DEF BridgeCreates
<1> QED BY <1>1, <1>2, <1>3, <1>4 DEF IInv

LEMMA BridgeReadsStep ==
  ASSUME IInv, NEW r \in Requests, BridgeReads(r)
  PROVE  IInv'
<1>0. Tables /\ TicketInv /\ CallInv /\ ConnInv
  BY DEF IInv
<1>1. Tables'
  BY <1>0 DEF Tables, BridgeReads
<1>2. TicketInv'
  BY <1>0, TicketsKept DEF BridgeReads
<1>3. CallInv'
  <2> DEFINE seen == Refreshed(call[r].t, call[r].seen)
             new == [call[r] EXCEPT !.step = "read", !.seen = seen]
  <2>1. call[r] \in Call /\ call[r].t \in Terminals
    BY <1>0 DEF CallInv, Called, Calling, BridgeReads, At
  <2>2. seen \in States \cup {"none"}
    BY <2>1 DEF Refreshed, States, Call
  <2> HIDE DEF seen
  <2>3. new \in Call /\ new.t = call[r].t
    BY <2>1, <2>2 DEF Call
  <2>4. call' = [call EXCEPT ![r] = new]
    BY DEF BridgeReads, seen
  <2> HIDE DEF new
  <2> QED BY <1>0, <2>1, <2>3, <2>4, CallMoves
<1>4. ConnInv'
  BY <1>0, ConnKept DEF BridgeReads
<1> QED BY <1>1, <1>2, <1>3, <1>4 DEF IInv

LEMMA BridgeDeletesStep ==
  ASSUME IInv, NEW r \in Requests, BridgeDeletes(r)
  PROVE  IInv'
<1>0. Tables /\ TicketInv /\ CallInv /\ ConnInv
  BY DEF IInv
<1>a. call[r].t \in Terminals
  BY <1>0 DEF CallInv, Calling, BridgeDeletes, At
<1>1. Tables'
  <2>1. faults' \in 0..MaxFaults
    BY <1>0, FaultBound DEF BridgeDeletes, Tables
  <2> QED BY <1>0, <1>a, <2>1, RemovePtyKeeps DEF Tables, BridgeDeletes
<1>2. TicketInv'
  BY <1>0, TicketsKept DEF BridgeDeletes
<1>3. CallInv'
  BY <1>0, CallGoes, CallEnds DEF BridgeDeletes, At
<1>4. ConnInv'
  BY <1>0, <1>a, RemovePtyKeeps DEF BridgeDeletes
<1> QED BY <1>1, <1>2, <1>3, <1>4 DEF IInv

LEMMA BridgeRefusesStep ==
  ASSUME IInv, NEW r \in Requests, BridgeRefuses(r)
  PROVE  IInv'
<1>0. Tables /\ TicketInv /\ CallInv /\ ConnInv
  BY DEF IInv
<1>1. Tables'
  <2>1. faults' \in 0..MaxFaults
    BY <1>0, FaultBound DEF BridgeRefuses, Tables
  <2> QED BY <1>0, <2>1 DEF Tables, BridgeRefuses
<1>2. TicketInv'
  BY <1>0, TicketsKept DEF BridgeRefuses
<1>3. CallInv'
  BY <1>0, CallEnds DEF BridgeRefuses
<1>4. ConnInv'
  BY <1>0, ConnKept DEF BridgeRefuses
<1> QED BY <1>1, <1>2, <1>3, <1>4 DEF IInv

\* The Manager stores what came of it.
LEMMA StoreTerminalStep ==
  ASSUME IInv, NEW r \in Requests, StoreTerminal(r)
  PROVE  IInv'
<1>0. Tables /\ TicketInv /\ CallInv /\ ConnInv
  BY DEF IInv
<1>a. call[r].t \in Terminals /\ call[r] \in Call
  BY <1>0 DEF CallInv, Called, Calling, StoreTerminal, At
<1>1. Tables'
  BY <1>0, <1>a, SetRowTyped DEF Tables, StoreTerminal, States
<1>2. TicketInv'
  BY <1>0, TicketsKept DEF StoreTerminal
<1>3. CallInv'
  BY <1>0, CallEnds DEF StoreTerminal
<1>4. ConnInv'
  BY <1>0, ConnKept DEF StoreTerminal
<1> QED BY <1>1, <1>2, <1>3, <1>4 DEF IInv

LEMMA StoreStatusStep ==
  ASSUME IInv, NEW r \in Requests, StoreStatus(r)
  PROVE  IInv'
<1>0. Tables /\ TicketInv /\ CallInv /\ ConnInv
  BY DEF IInv
<1>a. call[r].t \in Terminals /\ call[r] \in Call
  BY <1>0 DEF CallInv, Called, Calling, StoreStatus, At
<1>1. Tables'
  BY <1>0, <1>a, SetRowTyped DEF Tables, StoreStatus, Call
<1>2. TicketInv'
  BY <1>0, TicketsKept DEF StoreStatus
<1>3. CallInv'
  BY <1>0, CallEnds DEF StoreStatus
<1>4. ConnInv'
  BY <1>0, ConnKept DEF StoreStatus
<1> QED BY <1>1, <1>2, <1>3, <1>4 DEF IInv

LEMMA FinishDeleteStep ==
  ASSUME IInv, NEW r \in Requests, FinishDelete(r)
  PROVE  IInv'
<1>0. Tables /\ TicketInv /\ CallInv /\ ConnInv
  BY DEF IInv
<1>a. call[r].t \in Terminals /\ call[r] \in Call
  BY <1>0 DEF CallInv, Called, Calling, FinishDelete, At
<1>1. Tables'
  BY <1>0, <1>a, CloseDoes DEF Tables, FinishDelete
<1>2. TicketInv'
  BY <1>0, <1>a, CloseDoes DEF FinishDelete
<1>3. CallInv'
  BY <1>0, CallEnds DEF FinishDelete
<1>4. ConnInv'
  BY <1>0, ConnKept DEF FinishDelete
<1> QED BY <1>1, <1>2, <1>3, <1>4 DEF IInv

\* Tickets and connections.
LEMMA IssueTicketStep ==
  ASSUME IInv, NEW k \in 1..MaxTickets, NEW t \in Terminals, IssueTicket(k, t)
  PROVE  IInv'
<1>0. Tables /\ TicketInv /\ CallInv /\ ConnInv
  BY DEF IInv
<1>1. Tables'
  BY <1>0 DEF Tables, IssueTicket
<1>2. TicketInv'
  <2> DEFINE new == [t |-> t, live |-> TRUE, uses |-> 0]
  <2>1. new \in Ticket
    BY DEF Ticket
  <2>2. \A j \in 1..MaxTickets :
          WithoutTickets(t)[j] = IF tickets[j].t = t THEN [tickets[j] EXCEPT !.live = FALSE] ELSE tickets[j]
    BY <1>0 DEF WithoutTickets, TicketInv, Ticketed
  <2>3. \A j \in 1..MaxTickets : tickets[j] \in Ticket
    BY <1>0 DEF TicketInv, Ticketed
  <2>4. \A j \in 1..MaxTickets :
          /\ WithoutTickets(t)[j] \in Ticket
          /\ WithoutTickets(t)[j].live => WithoutTickets(t)[j] = tickets[j]
    BY <2>2, <2>3 DEF Ticket
  <2>5. WithoutTickets(t) \in [1..MaxTickets -> Ticket]
    BY <1>0, <2>4 DEF WithoutTickets, TicketInv, Ticketed
  <2>6. tickets' = [WithoutTickets(t) EXCEPT ![k] = new]
    BY DEF IssueTicket
  <2>7. tickets' \in [1..MaxTickets -> Ticket]
    BY <2>1, <2>5, <2>6
  <2>8. \A j \in 1..MaxTickets : tickets'[j] = IF j = k THEN new ELSE WithoutTickets(t)[j]
    BY <2>5, <2>6
  <2>9. new.live /\ new.t = t /\ new.uses = 0
    OBVIOUS
  <2> HIDE DEF new
  <2> QED BY <1>0, <2>4, <2>7, <2>8, <2>9 DEF TicketInv, Ticketed, Unused
<1>3. CallInv'
  BY <1>0, CallKept DEF IssueTicket
<1>4. ConnInv'
  BY <1>0, ConnKept DEF IssueTicket
<1> QED BY <1>1, <1>2, <1>3, <1>4 DEF IInv

LEMMA ExpireTicketStep ==
  ASSUME IInv, NEW k \in 1..MaxTickets, ExpireTicket(k)
  PROVE  IInv'
<1>0. Tables /\ TicketInv /\ CallInv /\ ConnInv
  BY DEF IInv
<1>1. Tables'
  BY <1>0 DEF Tables, ExpireTicket
<1>2. TicketInv'
  <2> DEFINE new == [tickets[k] EXCEPT !.live = FALSE]
  <2>1. new \in Ticket /\ ~new.live
    BY <1>0 DEF TicketInv, Ticketed, Ticket
  <2>2. tickets' = [tickets EXCEPT ![k] = new]
    BY DEF ExpireTicket
  <2> HIDE DEF new
  <2> QED BY <1>0, <2>1, <2>2 DEF TicketInv, Ticketed, Unused
<1>3. CallInv'
  BY <1>0, CallKept DEF ExpireTicket
<1>4. ConnInv'
  BY <1>0, ConnKept DEF ExpireTicket
<1> QED BY <1>1, <1>2, <1>3, <1>4 DEF IInv

LEMMA ConnectStep ==
  ASSUME IInv, NEW c \in Conns, NEW k \in 1..MaxTickets, Connect(c, k)
  PROVE  IInv'
<1>0. Tables /\ TicketInv /\ CallInv /\ ConnInv
  BY DEF IInv
<1>a. tickets[k] \in Ticket /\ tickets[k].t \in Terminals /\ tickets[k].uses = 0
  BY <1>0 DEF TicketInv, Ticketed, Unused, Connect
<1>1. Tables'
  <2>1. row' \in [Terminals -> States \cup {"none"}]
    BY <1>0, <1>a, SetRowTyped DEF Connect, Tables, States
  <2> QED BY <1>0, <2>1 DEF Tables, Connect
<1>2. TicketInv'
  <2> DEFINE opens == Connectable(tickets[k].t)
             new == Consumed(tickets[k], opens)
  <2>1. new.live = FALSE /\ new \in Ticket
    <3> DEFINE uses == tickets[k].uses + (IF opens THEN 1 ELSE 0)
    <3>1. uses \in 0..1
      BY <1>a
    <3>2. new = [tickets[k] EXCEPT !.live = FALSE, !.uses = uses]
      BY DEF Consumed
    <3> HIDE DEF uses, new
    <3> QED BY <1>a, <3>1, <3>2 DEF Ticket
  <2>2. tickets' = [tickets EXCEPT ![k] = new]
    BY DEF Connect
  <2> HIDE DEF new
  <2> QED BY <1>0, <2>1, <2>2 DEF TicketInv, Ticketed, Unused
<1>3. CallInv'
  BY <1>0, CallKept DEF Connect
<1>4. ConnInv'
  <2> DEFINE new == [step |-> "dialing", t |-> tickets[k].t, result |-> "detached"]
  <2>1. new \in Conn /\ new.t \in Terminals
    BY <1>a DEF Conn
  <2>2. conn' = conn \/ conn' = [conn EXCEPT ![c] = new]
    BY DEF Connect
  <2> HIDE DEF new
  <2> QED BY <1>0, <2>1, <2>2, ConnKept, ConnMoves
<1> QED BY <1>1, <1>2, <1>3, <1>4 DEF IInv

LEMMA AttachStep ==
  ASSUME IInv, NEW c \in Conns, Attach(c)
  PROVE  IInv'
<1>0. Tables /\ TicketInv /\ CallInv /\ ConnInv
  BY DEF IInv
<1>1. Tables'
  BY <1>0 DEF Tables, Attach
<1>2. TicketInv'
  BY <1>0, TicketsKept DEF Attach
<1>3. CallInv'
  BY <1>0, CallKept DEF Attach
<1>4. ConnInv'
  <2> DEFINE gone == Attached(conn[c].t)
             new == [Cut(gone)[c] EXCEPT !.step = "relaying"]
  <2>1. \A d \in Conns : conn[d] \in Conn
    BY <1>0 DEF ConnInv, Connected
  <2>2. \A d \in Conns :
          /\ Cut(gone)[d] \in Conn /\ Cut(gone)[d].t = conn[d].t
          /\ conn[d].step = "idle" => Cut(gone)[d].step = "idle"
    BY <2>1 DEF Cut, Conn, Attached
  <2>3. Cut(gone) \in [Conns -> Conn]
    BY <2>2 DEF Cut
  <2>4. new \in Conn /\ new.t = conn[c].t /\ new.t \in Terminals
    BY <1>0, <2>2 DEF Conn, Attach, ConnInv, Connecting
  <2>5. conn' = [Cut(gone) EXCEPT ![c] = new]
    BY DEF Attach
  <2> HIDE DEF new
  <2>6. \A d \in Conns : conn'[d] = IF d = c THEN new ELSE Cut(gone)[d]
    BY <2>3, <2>5
  <2>7. conn' \in [Conns -> Conn]
    BY <2>3, <2>4, <2>5
  <2> QED BY <1>0, <2>2, <2>4, <2>6, <2>7 DEF ConnInv, Connected, Connecting
<1> QED BY <1>1, <1>2, <1>3, <1>4 DEF IInv

LEMMA RejectStep ==
  ASSUME IInv, NEW c \in Conns, Reject(c)
  PROVE  IInv'
<1>0. Tables /\ TicketInv /\ CallInv /\ ConnInv
  BY DEF IInv
<1>a. conn[c].t \in Terminals /\ conn[c] \in Conn
  BY <1>0 DEF ConnInv, Connected, Connecting, Reject
<1>1. Tables'
  BY <1>0, <1>a, SetRowTyped DEF Tables, Reject, States
<1>2. TicketInv'
  BY <1>0, TicketsKept DEF Reject
<1>3. CallInv'
  BY <1>0, CallKept DEF Reject
<1>4. ConnInv'
  BY <1>0, ConnEnds DEF Reject
<1> QED BY <1>1, <1>2, <1>3, <1>4 DEF IInv

LEMMA BreakHandshakeStep ==
  ASSUME IInv, NEW c \in Conns, BreakHandshake(c)
  PROVE  IInv'
<1>0. Tables /\ TicketInv /\ CallInv /\ ConnInv
  BY DEF IInv
<1>1. Tables'
  BY <1>0, FaultBound DEF Tables, BreakHandshake
<1>2. TicketInv'
  BY <1>0, TicketsKept DEF BreakHandshake
<1>3. CallInv'
  BY <1>0, CallKept DEF BreakHandshake
<1>4. ConnInv'
  BY <1>0, ConnEnds DEF BreakHandshake
<1> QED BY <1>1, <1>2, <1>3, <1>4 DEF IInv

LEMMA LeaveStep ==
  ASSUME IInv, NEW c \in Conns, Leave(c)
  PROVE  IInv'
<1>0. Tables /\ TicketInv /\ CallInv /\ ConnInv
  BY DEF IInv
<1>1. Tables'
  BY <1>0 DEF Tables, Leave
<1>2. TicketInv'
  BY <1>0, TicketsKept DEF Leave
<1>3. CallInv'
  BY <1>0, CallKept DEF Leave
<1>4. ConnInv'
  <2>1. {c} \in SUBSET {d \in Conns : conn[d].step # "idle"}
    BY DEF Leave
  <2> QED BY <1>0, <2>1, CutKeeps DEF Leave
<1> QED BY <1>1, <1>2, <1>3, <1>4 DEF IInv

LEMMA TimeOutStep ==
  ASSUME IInv, NEW c \in Conns, TimeOut(c)
  PROVE  IInv'
<1>0. Tables /\ TicketInv /\ CallInv /\ ConnInv
  BY DEF IInv
<1>a. conn[c].t \in Terminals /\ conn[c] \in Conn
  BY <1>0 DEF ConnInv, Connected, Connecting, TimeOut
<1>1. Tables'
  BY <1>0 DEF Tables, TimeOut
<1>2. TicketInv'
  BY <1>0, TicketsKept DEF TimeOut
<1>3. CallInv'
  BY <1>0, CallKept DEF TimeOut
<1>4. ConnInv'
  <2> DEFINE new == [conn[c] EXCEPT !.step = "ended", !.result = "closed"]
  <2>1. new \in Conn /\ new.t = conn[c].t
    BY <1>a DEF Conn
  <2>2. conn' = [conn EXCEPT ![c] = new]
    BY <1>0 DEF TimeOut, ConnInv, Connected
  <2> HIDE DEF new
  <2> QED BY <1>0, <1>a, <2>1, <2>2, ConnMoves
<1> QED BY <1>1, <1>2, <1>3, <1>4 DEF IInv

LEMMA FinishStep ==
  ASSUME IInv, NEW c \in Conns, Finish(c)
  PROVE  IInv'
<1>0. Tables /\ TicketInv /\ CallInv /\ ConnInv
  BY DEF IInv
<1>a. conn[c].t \in Terminals /\ conn[c] \in Conn
  BY <1>0 DEF ConnInv, Connected, Connecting, Finish
<1>1. Tables'
  BY <1>0, <1>a, SetRowTyped DEF Tables, Finish, States, Conn
<1>2. TicketInv'
  BY <1>0, TicketsKept DEF Finish
<1>3. CallInv'
  BY <1>0, CallKept DEF Finish
<1>4. ConnInv'
  BY <1>0, ConnEnds DEF Finish
<1> QED BY <1>1, <1>2, <1>3, <1>4 DEF IInv

\* The cleanup.
LEMMA SweepStep ==
  ASSUME IInv, Sweep
  PROVE  IInv'
<1>0. Tables /\ TicketInv /\ CallInv /\ ConnInv
  BY DEF IInv
<1>1. Tables'
  <2>1. PICK idle \in SUBSET {t \in Open : row[t] \in IdleStates} :
           sweep' = [NoSweep EXCEPT !.todo =
             {<<t, sandbox = "ready">> : t \in idle \cup {u \in Open : Overdue(u)}}]
    BY DEF Sweep
  <2> DEFINE todo == {<<t, sandbox = "ready">> : t \in idle \cup {u \in Open : Overdue(u)}}
  <2>2. todo \in SUBSET (Terminals \X BOOLEAN)
    <3>1. \A t \in idle \cup {u \in Open : Overdue(u)} : t \in Terminals
      BY DEF Open
    <3>2. (sandbox = "ready") \in BOOLEAN
      OBVIOUS
    <3>3. ASSUME NEW e \in todo
          PROVE  e \in Terminals \X BOOLEAN
      <4>1. PICK t \in idle \cup {u \in Open : Overdue(u)} : e = <<t, sandbox = "ready">>
        BY <3>3
      <4> DEFINE ready == sandbox = "ready"
      <4>2. e = <<t, ready>> /\ ready \in BOOLEAN /\ t \in Terminals
        BY <4>1, <3>1, <3>2
      <4> HIDE DEF ready
      <4> QED BY <4>2
    <3> HIDE DEF todo
    <3> QED BY <3>3
  <2>3. sweep' = [NoSweep EXCEPT !.todo = todo]
    BY <2>1
  <2> HIDE DEF todo
  <2>4. sweep' \in Round
    BY <2>2, <2>3 DEF Round, NoSweep
  <2> QED BY <1>0, <2>4 DEF Tables, Sweep
<1>2. TicketInv'
  BY <1>0, TicketsKept DEF Sweep
<1>3. CallInv'
  BY <1>0, CallKept DEF Sweep
<1>4. ConnInv'
  BY <1>0, ConnKept DEF Sweep
<1> QED BY <1>1, <1>2, <1>3, <1>4 DEF IInv

LEMMA SweepDeleteStep ==
  ASSUME IInv, NEW t \in Terminals, SweepDelete(t)
  PROVE  IInv'
<1>0. Tables /\ TicketInv /\ CallInv /\ ConnInv
  BY DEF IInv
<1>1. Tables'
  <2>1. faults' \in 0..MaxFaults
    BY <1>0, FaultBound DEF SweepDelete, Tables
  <2>2. pty' \in [Terminals -> {"none", "live", "over", "gone"}]
    BY <1>0, RemovePtyKeeps DEF SweepDelete, Tables
  <2>3. sweep' \in Round
    BY <1>0 DEF Tables, SweepDelete, Round
  <2> QED BY <1>0, <2>1, <2>2, <2>3 DEF Tables, SweepDelete
<1>2. TicketInv'
  BY <1>0, TicketsKept DEF SweepDelete
<1>3. CallInv'
  BY <1>0, CallKept DEF SweepDelete
<1>4. ConnInv'
  BY <1>0, ConnKept, RemovePtyKeeps DEF SweepDelete
<1> QED BY <1>1, <1>2, <1>3, <1>4 DEF IInv

LEMMA SweepCloseStep ==
  ASSUME IInv, NEW t \in Terminals, SweepClose(t)
  PROVE  IInv'
<1>0. Tables /\ TicketInv /\ CallInv /\ ConnInv
  BY DEF IInv
<1>1. Tables'
  <2>1. sweep' \in Round
    BY <1>0 DEF Tables, SweepClose, Round
  <2> QED BY <1>0, <2>1, CloseDoes DEF Tables, SweepClose
<1>2. TicketInv'
  BY <1>0, CloseDoes DEF SweepClose
<1>3. CallInv'
  BY <1>0, CallKept DEF SweepClose
<1>4. ConnInv'
  BY <1>0, ConnKept DEF SweepClose
<1> QED BY <1>1, <1>2, <1>3, <1>4 DEF IInv

\* Time, the shell, the instance and the Manager.
LEMMA ExpireStep ==
  ASSUME IInv, NEW t \in Terminals, Expire(t)
  PROVE  IInv'
<1>0. Tables /\ TicketInv /\ CallInv /\ ConnInv
  BY DEF IInv
<1>1. Tables'
  BY <1>0 DEF Tables, Expire
<1>2. TicketInv'
  BY <1>0, TicketsKept DEF Expire
<1>3. CallInv'
  BY <1>0, CallKept DEF Expire
<1>4. ConnInv'
  BY <1>0, ConnKept DEF Expire
<1> QED BY <1>1, <1>2, <1>3, <1>4 DEF IInv

LEMMA ShellExitsStep ==
  ASSUME IInv, NEW t \in Terminals, ShellExits(t)
  PROVE  IInv'
<1>0. Tables /\ TicketInv /\ CallInv /\ ConnInv
  BY DEF IInv
<1>1. Tables'
  BY <1>0 DEF Tables, ShellExits
<1>2. TicketInv'
  BY <1>0, TicketsKept DEF ShellExits
<1>3. CallInv'
  BY <1>0, CallKept DEF ShellExits
<1>4. ConnInv'
  <2>1. \A c \in Conns : conn[c] \in Conn
    BY <1>0 DEF ConnInv, Connected
  <2>2. \A c \in Conns :
          conn'[c] \in Conn /\ conn'[c].t = conn[c].t /\ conn'[c].step = conn[c].step
    BY <2>1 DEF ShellExits, Conn
  <2>3. conn' \in [Conns -> Conn]
    BY <2>2 DEF ShellExits
  <2> QED BY <1>0, <2>2, <2>3 DEF ConnInv, Connected, Connecting
<1> QED BY <1>1, <1>2, <1>3, <1>4 DEF IInv

LEMMA GoDownStep ==
  ASSUME IInv, GoDown
  PROVE  IInv'
<1>0. Tables /\ TicketInv /\ CallInv /\ ConnInv
  BY DEF IInv
<1>1. Tables'
  <2>1. faults' \in 0..MaxFaults
    BY <1>0, FaultBound DEF GoDown, Tables
  <2>2. pty' \in [Terminals -> {"none", "live", "over", "gone"}]
    BY <1>0 DEF GoDown, Tables
  <2> QED BY <1>0, <2>1, <2>2 DEF Tables, GoDown
<1>2. TicketInv'
  BY <1>0, TicketsKept DEF GoDown
<1>3. CallInv'
  BY <1>0, CallKept DEF GoDown
<1>4. ConnInv'
  <2>1. {c \in Conns : conn[c].step = "relaying"} \in SUBSET {c \in Conns : conn[c].step # "idle"}
    OBVIOUS
  <2> QED BY <1>0, <2>1, ConnKept, CutKeeps DEF GoDown
<1> QED BY <1>1, <1>2, <1>3, <1>4 DEF IInv

LEMMA ComeUpStep ==
  ASSUME IInv, ComeUp
  PROVE  IInv'
<1>0. Tables /\ TicketInv /\ CallInv /\ ConnInv
  BY DEF IInv
<1>1. Tables'
  BY <1>0 DEF Tables, ComeUp
<1>2. TicketInv'
  BY <1>0, TicketsKept DEF ComeUp
<1>3. CallInv'
  BY <1>0, CallKept DEF ComeUp
<1>4. ConnInv'
  BY <1>0, ConnKept DEF ComeUp
<1> QED BY <1>1, <1>2, <1>3, <1>4 DEF IInv

LEMMA RestartStep ==
  ASSUME IInv, Restart
  PROVE  IInv'
<1>0. Tables /\ TicketInv /\ CallInv /\ ConnInv
  BY DEF IInv
<1>1. Tables'
  <2>1. faults' \in 0..MaxFaults
    BY <1>0, FaultBound DEF Restart, Tables
  <2>2. row' \in [Terminals -> States \cup {"none"}]
    BY <1>0 DEF Restart, Restarted, Tables, States
  <2>3. sweep' \in Round
    BY DEF Restart, NoSweep, Round
  <2> QED BY <1>0, <2>1, <2>2, <2>3 DEF Tables, Restart
<1>2. TicketInv'
  BY <1>0, TicketsKept DEF Restart
<1>3. CallInv'
  BY <1>0 DEF Restart, CallInv, Called, Calling, NoCall, Call
<1>4. ConnInv'
  BY <1>0 DEF Restart, ConnInv, Connected, Connecting, NoConn, Conn
<1> QED BY <1>1, <1>2, <1>3, <1>4 DEF IInv

LEMMA StutterStep ==
  ASSUME IInv, UNCHANGED vars
  PROVE  IInv'
<1>1. Tables /\ TicketInv /\ CallInv /\ ConnInv
  BY DEF IInv
<1>2. Tables'
  BY <1>1 DEF Tables, vars
<1> QED BY <1>1, <1>2, TicketsKept, CallKept, ConnKept DEF IInv, vars

LEMMA Inductive == IInv /\ [Next]_vars => IInv'
<1> SUFFICES ASSUME IInv, [Next]_vars PROVE IInv'
  OBVIOUS
<1>1. ASSUME NEW r \in Requests, Begin(r) \/ Upstream(r) \/ Store(r)
      PROVE  IInv'
  BY <1>1, CreateStep, ReadStep, DeleteStep, BridgeCreatesStep, BridgeReadsStep, BridgeDeletesStep,
     BridgeRefusesStep, StoreTerminalStep, StoreStatusStep, FinishDeleteStep
     DEF Begin, Upstream, Store
<1>2. ASSUME NEW k \in 1..MaxTickets, ExpireTicket(k) \/ \E t \in Terminals : IssueTicket(k, t)
      PROVE  IInv'
  BY <1>2, ExpireTicketStep, IssueTicketStep
<1>3. ASSUME NEW c \in Conns, Browser(c) \/ Handler(c) \/ BreakHandshake(c)
      PROVE  IInv'
  BY <1>3, LeaveStep, ConnectStep, AttachStep, RejectStep, TimeOutStep, FinishStep,
     BreakHandshakeStep DEF Browser, Handler
<1>4. ASSUME Cleanup
      PROVE  IInv'
  BY <1>4, SweepStep, SweepDeleteStep, SweepCloseStep DEF Cleanup
<1>5. ASSUME NEW t \in Terminals, Expire(t) \/ ShellExits(t)
      PROVE  IInv'
  BY <1>5, ExpireStep, ShellExitsStep
<1> QED BY <1>1, <1>2, <1>3, <1>4, <1>5, GoDownStep, ComeUpStep, RestartStep, StutterStep DEF Next

LEMMA IInvHolds == Spec => []IInv
<1>1. Init => IInv
  BY InitIInv
<1>2. IInv /\ [Next]_vars => IInv'
  BY Inductive
<1> QED BY <1>1, <1>2, PTL DEF Spec

------------------------------------------------------------------------------
\* Types; and a ticket opens one connection at most, however many browsers present it
\* (_consume_ticket).
THEOREM TypeCorrect == Spec => []TypeOK
  BY IInvHolds, IInvTypes, PTL

\* A deletion that succeeds has revoked the tickets of its terminal, whatever state the races of
\* other requests and of the cleanup have left the row in (delete_terminal).
THEOREM TicketsRevokedHolds == Spec => TicketsRevoked
<1> DEFINE Revokes ==
      \A t \in deleted' \ deleted, k \in 1..MaxTickets :
         tickets[k].t = t => ~tickets'[k].live
<1>1. ASSUME IInv, [Next]_vars, deleted' # deleted
      PROVE  Revokes
  <2>0. Tables /\ TicketInv /\ CallInv
    BY <1>1 DEF IInv
  <2>1. ASSUME NEW r \in Requests, NEW t \in Terminals, Delete(r, t)
        PROVE  Revokes
    BY <1>1, <2>0, <2>1, CloseDoes DEF Delete
  <2>2. ASSUME NEW r \in Requests, FinishDelete(r)
        PROVE  Revokes
    <3>1. call[r].t \in Terminals
      BY <2>0, <2>2 DEF CallInv, Calling, FinishDelete, At
    <3> QED BY <2>0, <2>2, <3>1, CloseDoes DEF FinishDelete
  <2>3. \/ \E r \in Requests, t \in Terminals : Delete(r, t)
        \/ \E r \in Requests : FinishDelete(r)
    BY <1>1 DEF Next, Begin, Upstream, Store, Create, Read, BridgeCreates, BridgeReads,
       BridgeDeletes, BridgeRefuses, StoreTerminal, StoreStatus, ExpireTicket, IssueTicket, Browser,
       Leave, Connect, Handler, Attach, Reject, TimeOut, Finish, BreakHandshake, Cleanup, Sweep,
       SweepDelete, SweepClose, Expire, ShellExits, GoDown, ComeUp, Restart, vars
  <2> QED BY <2>1, <2>2, <2>3
<1>2. IInv /\ [Next]_vars => [Revokes]_vars
  BY <1>1
<1> QED BY <1>2, IInvHolds, PTL DEF Spec, TicketsRevoked
==============================================================================
