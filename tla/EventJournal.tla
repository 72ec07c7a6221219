---------------------------- MODULE EventJournal ----------------------------
(***************************************************************************)
(* The event journal of one Bridge session: numbered events in segment      *)
(* files, their rotation, the streams that read them by cursor, and the     *)
(* deletion of the session under both.                                      *)
(*                                                                         *)
(*   journal.py                     Acquire .. Write, Expired, After        *)
(*   catalog/store.py               Number, DeleteRow, Restart              *)
(*   app/session_routes.py          the order of a deletion                 *)
(*   app/session_runtime_routes.py  Open, Read, Wait, TimeOut               *)
(*                                                                         *)
(* An appender numbers its event in the database, which suspends it, and    *)
(* writes the file in one stretch of the event loop, under the session's    *)
(* lock.  A stream reads in one stretch, and is suspended where it yields.  *)
(* A client that reads in batches, as the Manager does (events, which calls *)
(* event_batch), opens a stream and leaves it after some of its items or at *)
(* the first heartbeat.                                                     *)
(*                                                                         *)
(* Abstracted: what an event says (it is the number it was made with), and  *)
(* sizes: a line is one unit.  A write that fails half way leaves a line    *)
(* without end, which makes the line written after it unreadable too.       *)
(***************************************************************************)
EXTENDS Integers, Sequences, FiniteSets

CONSTANTS
    Appenders,      \* tasks that append at the same time
    Streams,        \* clients of the event stream
    SegmentSize,    \* event_segment_bytes, in lines
    SegmentCount,   \* event_segment_count
    MaxEvents,      \* bound: events made in one behaviour
    Faults,         \* which of FaultKinds the environment may cause
    MaxFaults       \* bound: faults in one behaviour

\* "halfway" is a crash that leaves Pi's file of a deleted session, "crash" any other; "unlink" is a
\* file that cannot be removed.
FaultKinds == {"crash", "halfway", "torn", "disconnect", "unlink"}
None == 0

ASSUME FaultAssumption == Faults \subseteq FaultKinds
ASSUME SegmentAssumption == SegmentSize \in Nat \ {0} /\ SegmentCount \in Nat \ {0}
ASSUME BoundAssumption == MaxEvents \in Nat /\ MaxFaults \in Nat
ASSUME AppenderAssumption == None \notin Appenders

VARIABLES
    seq,        \* sessions.event_seq, or -1 without a row
    file,       \* Pi's own file of the session is there
    segments,   \* the segment files: name -> lines
    torn,       \* the segments whose last line has no end
    lock,       \* who holds the session's journal lock
    append,     \* the appenders and the numbers they hold
    delete,     \* the request that deletes the session
    stream,     \* the streams: where they stand, and what their clients received
    made,       \* events made so far
    stored,     \* history: the events that were stored in full, with their numbers
    faults      \* faults so far

vars == <<seq, file, segments, torn, lock, append, delete, stream, made, stored, faults>>

------------------------------------------------------------------------------
Idle == [step |-> "idle", seq |-> None]
Closed == [step |-> "closed", start |-> 0, cursor |-> 0,
           got |-> [id \in 1..MaxEvents |-> 0]]

Init ==
    /\ seq = 0
    /\ file = TRUE
    /\ segments = << >>
    /\ torn = {}
    /\ lock = None
    /\ append = [a \in Appenders |-> Idle]
    /\ delete = "idle"
    /\ stream = [s \in Streams |-> Closed]
    /\ made = 0
    /\ stored = {}
    /\ faults = 0

Fault(kind) == kind \in Faults /\ faults < MaxFaults /\ faults' = faults + 1

Exists == seq >= 0
Names == DOMAIN segments
Oldest == CHOOSE n \in Names : \A m \in Names : n <= m
Newest == CHOOSE n \in Names : \A m \in Names : n >= m

\* The places of the lines: a segment and a position in it.  They are read in this order.
Places == UNION {{n} \X DOMAIN segments[n] : n \in Names}
Line(place) == segments[place[1]][place[2]]
Before(p, q) == p[1] < q[1] \/ (p[1] = q[1] /\ p[2] < q[2])

\* Mutants of the operators below: nobody waits for the lock; the check of a cursor is off by one;
\* the newest segment goes first.
Ignored(task) == TRUE
ExpiredTooLate(cursor) == Names # {} /\ cursor < Oldest - 2
NewestFirst(names) == {n \in names : Cardinality({m \in names : m < n}) >= SegmentCount}

\* The lock can be taken; the cursor points before what is retained; the readable lines after a
\* cursor; the segments rotation removes.
Takes(task) == lock = None
Expired(cursor) == Names # {} /\ cursor < Oldest - 1
After(cursor) == {p \in Places : Line(p).ok /\ Line(p).seq > cursor}
Removed(names) == {n \in names : Cardinality({m \in names : m > n}) >= SegmentCount}

------------------------------------------------------------------------------
(* append                                                                     *)

Acquire(a) ==
    /\ append[a].step = "idle" /\ Takes(a) /\ made < MaxEvents
    /\ lock' = a
    /\ append' = [append EXCEPT ![a].step = "locked"]
    /\ UNCHANGED <<seq, file, segments, torn, delete, stream, made, stored, faults>>

Release(a) == lock' = None /\ append' = [append EXCEPT ![a] = Idle]

\* next_event_seq commits the number; without a row the append fails.
Number(a) ==
    /\ append[a].step = "locked"
    /\ IF Exists
       THEN /\ seq' = seq + 1
            /\ append' = [append EXCEPT ![a] = [step |-> "numbered", seq |-> seq + 1]]
            /\ UNCHANGED lock
       ELSE Release(a) /\ UNCHANGED seq
    /\ UNCHANGED <<file, segments, torn, delete, stream, made, stored, faults>>

\* The file a line with this number goes to.
Target(n) ==
    IF Names = {} THEN n
    ELSE IF Len(segments[Newest]) + 1 > SegmentSize THEN n ELSE Newest

Written(n, ok) ==
    LET target == Target(n)
        line == [id |-> made + 1, seq |-> n, ok |-> ok /\ target \notin torn]
    IN [name \in Names \cup {target} |->
          IF name # target THEN segments[name]
          ELSE IF name \in Names THEN Append(segments[name], line) ELSE <<line>>]

\* The file has a new line, old segments are removed, and the streams that wait are woken.
Write(a) ==
    LET n == append[a].seq
        all == Written(n, TRUE)
        kept == DOMAIN all \ Removed(DOMAIN all)
    IN
    /\ append[a].step = "numbered"
    /\ segments' = [name \in kept |-> all[name]]
    /\ torn' = torn \ ({Target(n)} \cup Removed(DOMAIN all))
    /\ stored' = IF Target(n) \in torn THEN stored ELSE stored \cup {[id |-> made + 1, seq |-> n]}
    /\ made' = made + 1
    /\ Release(a)
    /\ stream' = [s \in Streams |->
                    IF stream[s].step = "waiting" THEN [stream[s] EXCEPT !.step = "reading"]
                                                  ELSE stream[s]]
    /\ UNCHANGED <<seq, file, delete, faults>>

\* The disk is full: part of the line is written and append raises.
Tear(a) ==
    /\ append[a].step = "numbered" /\ Fault("torn")
    /\ segments' = Written(append[a].seq, FALSE)
    /\ torn' = torn \cup {Target(append[a].seq)}
    /\ made' = made + 1
    /\ Release(a)
    /\ UNCHANGED <<seq, file, delete, stream, stored>>

------------------------------------------------------------------------------
(* The event stream.                                                          *)

\* A cursor that has expired is refused with oldest_cursor, the number of the first event kept; the
\* client restarts at that cursor, after which the event with this number is not sent.
Open(s) ==
    /\ stream[s].step = "closed" /\ Exists
    /\ stream' = [stream EXCEPT ![s] =
          IF Expired(stream[s].cursor)
          THEN [stream[s] EXCEPT !.start = Oldest, !.cursor = Oldest]
          ELSE [stream[s] EXCEPT !.step = "reading"]]
    /\ UNCHANGED <<seq, file, segments, torn, lock, append, delete, made, stored, faults>>

\* read_after: what is there is sent.  The client may leave after any of it; if the cursor has
\* expired meanwhile the stream breaks off.
Read(s) ==
    LET items == After(stream[s].cursor) IN
    /\ stream[s].step = "reading"
    /\ \/ /\ Expired(stream[s].cursor)
          /\ stream' = [stream EXCEPT ![s].step = "closed"]
       \/ /\ ~Expired(stream[s].cursor) /\ items = {}
          /\ stream' = [stream EXCEPT ![s].step = "heartbeat"]
       \/ /\ ~Expired(stream[s].cursor)
          /\ \E last \in items :
               LET sent == {Line(p).id : p \in {q \in items : ~Before(last, q)}} IN
               stream' = [stream EXCEPT
                   ![s].step = IF \E p \in items : Before(last, p) THEN "closed" ELSE "reading",
                   ![s].cursor = Line(last).seq,
                   ![s].got = [id \in 1..MaxEvents |-> @[id] + (IF id \in sent THEN 1 ELSE 0)]]
    /\ UNCHANGED <<seq, file, segments, torn, lock, append, delete, made, stored, faults>>

\* The heartbeat is sent, and only then the stream waits: it is not told of what was appended
\* in between.
Wait(s) ==
    /\ stream[s].step = "heartbeat"
    /\ stream' = [stream EXCEPT ![s].step = "waiting"]
    /\ UNCHANGED <<seq, file, segments, torn, lock, append, delete, made, stored, faults>>

\* Mutant of WaitEnds: a stream waits until it is woken.
WaitEndsNever(s) == FALSE
WaitEnds(s) == stream[s].step = "waiting"

TimeOut(s) ==
    /\ WaitEnds(s)
    /\ stream' = [stream EXCEPT ![s].step = "reading"]
    /\ UNCHANGED <<seq, file, segments, torn, lock, append, delete, made, stored, faults>>

Disconnect(s) ==
    /\ stream[s].step # "closed" /\ Fault("disconnect")
    /\ stream' = [stream EXCEPT ![s].step = "closed"]
    /\ UNCHANGED <<seq, file, segments, torn, lock, append, delete, made, stored>>

------------------------------------------------------------------------------
(* DELETE session: the row, Pi's file, the journal.                           *)

DeleteRow ==
    /\ delete = "idle" /\ Exists
    /\ seq' = -1
    /\ delete' = "row"
    /\ UNCHANGED <<file, segments, torn, lock, append, stream, made, stored, faults>>

\* When the file cannot be removed the request fails, with the journal left.
Unlink ==
    /\ delete = "row"
    /\ \/ file' = FALSE /\ delete' = "file" /\ UNCHANGED faults
       \/ Fault("unlink") /\ delete' = "idle" /\ UNCHANGED file
    /\ UNCHANGED <<seq, segments, torn, lock, append, stream, made, stored>>

\* Mutant of Clears: the directory is removed under the hands of an appender.
ClearsAtOnce == TRUE
Clears == lock = None

DeleteJournal ==
    /\ delete = "file" /\ Clears
    /\ segments' = << >> /\ torn' = {}
    /\ delete' = "done"
    /\ UNCHANGED <<seq, file, lock, append, stream, made, stored, faults>>

\* The Bridge dies and comes up: reconcile_files gives a session whose file is there, but not its
\* row, a new row, with no events yet.
Restart ==
    /\ Fault(IF ~Exists /\ file THEN "halfway" ELSE "crash")
    /\ seq' = IF ~Exists /\ file THEN 0 ELSE seq
    /\ lock' = None
    /\ append' = [a \in Appenders |-> Idle]
    /\ delete' = IF delete = "done" THEN "done" ELSE "idle"
    /\ stream' = [s \in Streams |-> [stream[s] EXCEPT !.step = "closed"]]
    /\ UNCHANGED <<file, segments, torn, made, stored>>

------------------------------------------------------------------------------
Appending(a) == Number(a) \/ Write(a)
Streaming(s) == Open(s) \/ Read(s) \/ Wait(s) \/ TimeOut(s)

Next ==
    \/ \E a \in Appenders : Acquire(a) \/ Appending(a) \/ Tear(a)
    \/ \E s \in Streams : Streaming(s) \/ Disconnect(s)
    \/ DeleteRow \/ Unlink \/ DeleteJournal
    \/ Restart

Spec == Init /\ [][Next]_vars

\* Tasks of the event loop go on; a wait ends after 15 seconds; clients reconnect.
FairSpec ==
    /\ Spec
    /\ \A a \in Appenders : WF_vars(Appending(a))
    /\ \A s \in Streams : WF_vars(Streaming(s))
    /\ WF_vars(Unlink \/ DeleteJournal)

------------------------------------------------------------------------------
\* A crash loses the numbers that were given and not written.
Numbers == 0..(MaxEvents + MaxFaults)
Lines == [id : 1..MaxEvents, seq : Numbers, ok : BOOLEAN]

TypeOK ==
    /\ seq \in Numbers \cup {-1}
    /\ file \in BOOLEAN
    /\ Names \subseteq Numbers /\ \A n \in Names : segments[n] \in Seq(Lines)
    /\ torn \subseteq Names
    /\ lock \in Appenders \cup {None}
    /\ append \in [Appenders ->
           [step : {"idle", "locked", "numbered"}, seq : Numbers]]
    /\ \A a \in Appenders : (append[a].step # "idle") = (lock = a)
    /\ delete \in {"idle", "row", "file", "done"}
    /\ stream \in [Streams ->
           [step : {"closed", "reading", "heartbeat", "waiting"},
            start : Numbers, cursor : Numbers, got : [1..MaxEvents -> Nat]]]
    /\ made \in 0..MaxEvents
    /\ stored \subseteq [id : 1..MaxEvents, seq : Numbers]
    /\ faults \in 0..MaxFaults

Received(s) == {id \in 1..MaxEvents : stream[s].got[id] > 0}

\* A client that follows its cursor receives every event once: what was stored in full and is
\* numbered between where it started and where it stands has been received, though segments are
\* removed while it reads, and nothing twice, however often it reconnects (append, ensure_cursor,
\* read_after).
ReceivedOnce ==
    \A s \in Streams :
        /\ \A e \in stored :
              stream[s].start < e.seq /\ e.seq <= stream[s].cursor => e.id \in Received(s)
        /\ \A id \in 1..MaxEvents : stream[s].got[id] <= 1

\* Rotation keeps the end of the journal: while the session exists, the line written last is there,
\* and every event stored since the oldest segment began can be read (append).
EndIsRetained ==
    Exists /\ made > 0 =>
        /\ \E p \in Places : Line(p).id = made
        /\ \A e \in stored : e.seq >= Oldest => \E p \in Places : Line(p).ok /\ Line(p).id = e.id

\* When a deletion is done no segment is left, and no appender that was under way writes one
\* afterwards (delete).
DeletedIsEmpty == delete = "done" => Names = {}

\* An event that is stored is received by every client, or was removed before the client came to it,
\* or has the very number that a client with an expired cursor was told to restart at (see
\* RetainedIsReceived); also when it is appended between the read of a stream and its wait
\* (wait_for_change, ensure_cursor).
RemovedBefore(s, e) == e.seq < stream[s].start
RestartedAt(s, e) == e.seq = stream[s].start
StoredIsReceived ==
    \A s \in Streams, id \in 1..MaxEvents :
        (\E e \in stored : e.id = id) ~>
            \/ id \in Received(s)
            \/ \E e \in stored : e.id = id /\ (RemovedBefore(s, e) \/ RestartedAt(s, e))
            \/ ~Exists

\* What is on the disk is what the session's life asks for: its end while it exists, nothing when it
\* has been deleted.
RetentionHolds == EndIsRetained /\ DeletedIsEmpty

------------------------------------------------------------------------------
(* Promises the code does not keep: see the README on known disagreements.    *)

\* What a client has passed and the journal still has it has received: none is skipped at a restart
\* with oldest_cursor (ensure_cursor, events).
RetainedIsReceived ==
    \A s \in Streams, p \in Places :
        Line(p).ok /\ Line(p).seq <= stream[s].cursor => Line(p).id \in Received(s)

\* What append has returned can be read (append).
AppendedIsReadable ==
    [][\A a \in Appenders :
         append[a].step = "numbered" /\ append'[a].step = "idle" /\ UNCHANGED faults =>
            \E p \in Places' : Line(p)'.ok /\ Line(p)'.id = made']_vars
==============================================================================
