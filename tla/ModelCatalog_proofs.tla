------------------------- MODULE ModelCatalog_proofs -------------------------
(***************************************************************************)
(* That a prompt reaches Pi with the model it asks for, under the session's  *)
(* system prompt, and with a catalog in place since it came that Pi has read *)
(* - unless the file was replaced between Pi's reading of it and that of the *)
(* fingerprint -, and that a conditional replacement replaces what it names, *)
(* for any number of sessions, requests, models, replacements and faults.    *)
(***************************************************************************)
EXTENDS ModelCatalog, TLAPS

Forms == [step : Steps, session : Sessions \cup {None}, asked : Models \cup {None},
          match : SUBSET Models, content : SUBSET Models, record : Rows,
          seen : SUBSET Catalogs]
Processes == [step : {"down", "boot", "up"}, print : SUBSET Models, loaded : SUBSET Models,
              model : Models \cup {None}, prompt : SystemPrompts, streaming : BOOLEAN,
              overtaken : BOOLEAN]

Typed ==
    /\ file \in Catalogs
    /\ lock \in Requests \cup {None}
    /\ command \in [Sessions -> Requests \cup {None}]
    /\ row \in [Sessions -> Rows]
    /\ proc \in [Sessions -> Processes]
    /\ saved \in [Sessions -> Models \cup {None}]
    /\ req \in [Requests -> Forms]
    /\ replaces \in 0..MaxReplaces /\ faults \in 0..MaxFaults

\* Who is where, by the locks.
Replacing == {"compare", "write"}
Commanding == {"store", "read", "update", "stop", "start", "exec", "boot", "set", "give"}
Locked == \A r \in Requests : (req[r].step \in Replacing) = (lock = r)
Commanded ==
    \A r \in Requests, s \in Sessions :
        (command[s] = r) = (req[r].step \in Commanding /\ req[r].session = s)

\* Only one request creates a session.
CreatedOnce ==
    \A q, r \in Requests :
        At(q, "create") /\ At(r, "create") /\ req[q].session = req[r].session => q = r

\* What a request knows at its step: of a replacement, of a creation, and of a prompt.
Replaces(r) ==
    /\ req[r].step \in {"lock", "compare", "write", "migrate"} => req[r].content \in Catalogs
    /\ At(r, "write") => req[r].match \in {{}, file}
Creates(r) ==
    At(r, "create") =>
        /\ req[r].session \in Sessions /\ req[r].asked \in Models
        /\ row[req[r].session].model = None
Commands(r) ==
    req[r].step \in Commanding =>
        /\ req[r].session \in Sessions
        /\ row[req[r].session].model # None
        /\ At(r, "update") => req[r].asked \in Models
        /\ ~At(r, "store") => file \in req[r].seen
        /\ req[r].step \in {"stop", "start"} =>
              req[r].record.prompt = row[req[r].session].prompt
        /\ req[r].step \in {"start", "boot", "set", "give"} /\ Alive(req[r].session) =>
              proc[req[r].session].print \in req[r].seen
        /\ req[r].step \in {"start", "exec", "boot", "set", "give"} /\ Alive(req[r].session) =>
              proc[req[r].session].prompt = row[req[r].session].prompt
        /\ At(r, "exec") /\ Alive(req[r].session) => proc[req[r].session].print = {}
        /\ req[r].step \in {"set", "give"} => proc[req[r].session].step # "boot"
        /\ At(r, "give") /\ req[r].asked # None /\ Alive(req[r].session) =>
              proc[req[r].session].model = req[r].asked

Fine(r) == Replaces(r) /\ Creates(r) /\ Commands(r)

\* What the fingerprint of a process says of the catalog Pi has read, by which of the two readings
\* there were, when no replacement came between them.
Told(p) ==
    ~p.overtaken =>
        /\ p.step = "up" /\ p.print # {} => p.loaded = p.print
        /\ p.step = "up" /\ p.print = {} => p.loaded = file
        /\ p.step = "boot" /\ p.print # {} => p.print = file
AllTold == \A s \in Sessions : Told(proc[s])

IInv == Typed /\ Locked /\ Commanded /\ CreatedOnce /\ AllTold /\ \A r \in Requests : Fine(r)

LEMMA TypeOKIs == TypeOK <=> Typed /\ Locked
  BY DEF TypeOK, Typed, Locked, Forms, Processes, Replacing

LEMMA InitIInv == Init => IInv
<1> SUFFICES ASSUME Init PROVE IInv
  OBVIOUS
<1>1. Idle \in Forms /\ Idle.step = "idle"
  BY PromptAssumption DEF Idle, Forms, Steps, Rows
<1>2. Down \in Processes
  BY PromptAssumption DEF Down, Processes
<1>3. \A r \in Requests : req[r] = Idle
  BY DEF Init
<1>4. Typed
  BY <1>1, <1>2, PromptAssumption, BoundAssumption DEF Init, Typed, Rows
<1>5. Locked /\ Commanded /\ CreatedOnce
  BY <1>1, <1>3, RequestAssumption
     DEF Init, Locked, Commanded, CreatedOnce, Replacing, Commanding, At
<1>6. \A r \in Requests : Fine(r)
  BY <1>1, <1>3 DEF Fine, Replaces, Creates, Commands, Commanding, At
<1>7. AllTold
  BY DEF Init, AllTold, Told, Down
<1> QED BY <1>4, <1>5, <1>6, <1>7 DEF IInv

------------------------------------------------------------------------------
(* What a step of one request leaves to the others.                           *)

Moves(r, form) == form \in Forms /\ req' = [req EXCEPT ![r] = form]

LEMMA MovesFacts ==
  ASSUME Typed, NEW r \in Requests, NEW form, Moves(r, form)
  PROVE  /\ req' \in [Requests -> Forms]
         /\ req'[r] = form
         /\ \A q \in Requests : q # r => req'[q] = req[q]
  BY DEF Typed, Moves

\* A request comes to hold the command lock of a session.
LEMMA Enters ==
  ASSUME Typed, Commanded, NEW r \in Requests, NEW form, Moves(r, form),
         NEW s \in Sessions, command[s] = None, command' = [command EXCEPT ![s] = r],
         req[r].step \notin Commanding, form.step \in Commanding, form.session = s
  PROVE  Commanded'
<1>1. \A q \in Requests, t \in Sessions :
        (command'[t] = q) = (req'[q].step \in Commanding /\ req'[q].session = t)
  <2> SUFFICES ASSUME NEW q \in Requests, NEW t \in Sessions
               PROVE  (command'[t] = q) = (req'[q].step \in Commanding /\ req'[q].session = t)
    OBVIOUS
  <2>1. CASE q = r
    BY <2>1, MovesFacts, RequestAssumption DEF Commanded, Typed
  <2>2. CASE q # r
    BY <2>2, MovesFacts, RequestAssumption DEF Commanded, Typed
  <2> QED BY <2>1, <2>2
<1> QED BY <1>1 DEF Commanded

\* It lets go of it.
LEMMA Leaves ==
  ASSUME Typed, Commanded, NEW r \in Requests, NEW form, Moves(r, form),
         req[r].step \in Commanding, req[r].session \in Sessions,
         command' = [command EXCEPT ![req[r].session] = None], form.step \notin Commanding
  PROVE  Commanded'
<1>1. \A q \in Requests, t \in Sessions :
        (command'[t] = q) = (req'[q].step \in Commanding /\ req'[q].session = t)
  <2> SUFFICES ASSUME NEW q \in Requests, NEW t \in Sessions
               PROVE  (command'[t] = q) = (req'[q].step \in Commanding /\ req'[q].session = t)
    OBVIOUS
  <2>1. CASE q = r
    BY <2>1, MovesFacts, RequestAssumption DEF Commanded, Typed
  <2>2. CASE q # r
    BY <2>2, MovesFacts, RequestAssumption DEF Commanded, Typed
  <2> QED BY <2>1, <2>2
<1> QED BY <1>1 DEF Commanded

\* It keeps what it has.
LEMMA Keeps ==
  ASSUME Typed, Commanded, NEW r \in Requests, NEW form, Moves(r, form), command' = command,
         (form.step \in Commanding) = (req[r].step \in Commanding),
         form.step \in Commanding => form.session = req[r].session
  PROVE  Commanded'
<1>1. \A q \in Requests, t \in Sessions :
        (command'[t] = q) = (req'[q].step \in Commanding /\ req'[q].session = t)
  BY MovesFacts DEF Commanded
<1> QED BY <1>1 DEF Commanded

\* The lock of the catalog, of a request that has nothing to do with it before or after.
LEMMA OffLock ==
  ASSUME Typed, Locked, NEW r \in Requests, NEW form, Moves(r, form), lock' = lock,
         (form.step \in Replacing) = (req[r].step \in Replacing)
  PROVE  Locked'
  BY MovesFacts DEF Locked

\* No request that creates a session is added to those there are.
LEMMA NoNewCreation ==
  ASSUME Typed, CreatedOnce, NEW r \in Requests, NEW form, Moves(r, form), form.step # "create"
  PROVE  CreatedOnce'
  BY MovesFacts DEF CreatedOnce, At

\* A request that rests keeps what it knows, when the session it serves keeps its prompt, has a
\* model or has none as before, and a process that is the same, generates or not, or is gone.
Undisturbed(s) ==
    /\ row'[s].prompt = row[s].prompt
    /\ (row'[s].model = None) = (row[s].model = None)
    /\ \/ proc'[s].step = "down"
       \/ /\ proc'[s].step = proc[s].step /\ proc'[s].print = proc[s].print
          /\ proc'[s].prompt = proc[s].prompt /\ proc'[s].model = proc[s].model

LEMMA Rests ==
  ASSUME NEW q \in Requests, Fine(q), file' = file, req'[q] = req[q],
         req[q].step \in Commanding \cup {"create"} => Undisturbed(req[q].session)
  PROVE  Fine(q)'
<1>1. Replaces(q)'
  BY DEF Fine, Replaces, At
<1>2. Creates(q)'
  BY DEF Fine, Creates, At, Undisturbed
<1>3. Commands(q)'
  BY DEF Fine, Commands, At, Undisturbed, Alive
<1> QED BY <1>1, <1>2, <1>3 DEF Fine

\* A fingerprint says what it said.
LEMMA SameTold ==
  ASSUME AllTold, file' = file, proc' = proc
  PROVE  AllTold'
  BY DEF AllTold, Told

LEMMA DownTold == Told(Down)
  BY DEF Told, Down

\* Requests that serve a session by its command lock are alone with it.
LEMMA Apart ==
  ASSUME IInv, NEW r \in Requests, NEW q \in Requests, q # r,
         req[r].step \in Commanding, req[q].step \in Commanding \cup {"create"}
  PROVE  req[q].session # req[r].session
<1>1. CASE req[q].step \in Commanding
  BY <1>1 DEF IInv, Commanded, Fine, Commands
<1>2. CASE At(q, "create")
  BY <1>2 DEF IInv, Fine, Commands, Creates
<1> QED BY <1>1, <1>2 DEF At

\* What a step on behalf of a session changes: its row, its process and its file, and those of no
\* other session.
Changes(s) ==
    /\ UNCHANGED <<file, lock, replaces>>
    /\ row' \in [Sessions -> Rows]
    /\ proc' \in [Sessions -> Processes]
    /\ saved' \in [Sessions -> Models \cup {None}]
    /\ faults' \in 0..MaxFaults
    /\ \A t \in Sessions : t # s => row'[t] = row[t] /\ proc'[t] = proc[t]

\* So the other requests rest.
LEMMA OthersRest ==
  ASSUME IInv, NEW r \in Requests, NEW form, Moves(r, form), req[r].step \in Commanding,
         Changes(req[r].session), NEW q \in Requests, q # r
  PROVE  Fine(q)'
<1>1. Fine(q) /\ req'[q] = req[q] /\ file' = file
  BY MovesFacts DEF IInv, Changes
<1>2. ASSUME req[q].step \in Commanding \cup {"create"}
      PROVE  Undisturbed(req[q].session)
  <2>1. req[q].session # req[r].session
    BY <1>2, Apart
  <2>2. req[q].session \in Sessions
    BY <1>1, <1>2 DEF Fine, Commands, Creates, At
  <2> QED BY <2>1, <2>2 DEF Changes, Undisturbed
<1> QED BY <1>1, <1>2, Rests

\* A request is answered and frees its session.
LEMMA Ends ==
  ASSUME IInv, NEW r \in Requests, req[r].step \in Commanding, Fails(r),
         Changes(req[r].session), AllTold'
  PROVE  IInv'
<1>0. Typed /\ Locked /\ Commanded /\ CreatedOnce /\ Fine(r)
  BY DEF IInv
<1>1. Idle \in Forms /\ Idle.step = "idle"
  BY PromptAssumption DEF Idle, Forms, Steps, Rows
<1>2. Moves(r, Idle) /\ command' = [command EXCEPT ![req[r].session] = None]
  BY <1>1 DEF Moves, Fails, Done, FreeCommand
<1>3. req' \in [Requests -> Forms] /\ req'[r] = Idle
  BY <1>0, <1>2, MovesFacts
<1>4. Typed'
  BY <1>0, <1>2, <1>3 DEF Typed, Changes
<1>5. Locked'
  BY <1>0, <1>1, <1>2, OffLock DEF Changes, Replacing, Commanding
<1>6. Commanded'
  <2>1. req[r].session \in Sessions
    BY <1>0 DEF Fine, Commands
  <2> QED BY <1>0, <1>1, <1>2, <2>1, Leaves DEF Commanding
<1>7. CreatedOnce'
  BY <1>0, <1>1, <1>2, NoNewCreation
<1>8. Fine(r)'
  BY <1>1, <1>3 DEF Fine, Replaces, Creates, Commands, Commanding, At
<1>9. \A q \in Requests : q # r => Fine(q)'
  BY <1>2, OthersRest
<1> QED BY <1>4, <1>5, <1>6, <1>7, <1>8, <1>9 DEF IInv

\* A request goes on with its session.
LEMMA GoesOn ==
  ASSUME IInv, NEW r \in Requests, NEW form, Moves(r, form), Changes(req[r].session), AllTold',
         req[r].step \in Commanding, form.step \in Commanding, form.session = req[r].session,
         command' = command, Commands(r)'
  PROVE  IInv'
<1>0. Typed /\ Locked /\ Commanded /\ CreatedOnce
  BY DEF IInv
<1>1. req' \in [Requests -> Forms] /\ req'[r] = form
  BY <1>0, MovesFacts
<1>2. Typed'
  BY <1>0, <1>1 DEF Typed, Changes
<1>3. Locked'
  BY <1>0, OffLock DEF Changes, Replacing, Commanding
<1>4. Commanded'
  BY <1>0, Keeps
<1>5. CreatedOnce'
  BY <1>0, NoNewCreation DEF Commanding
<1>6. Fine(r)'
  BY <1>1 DEF Fine, Replaces, Creates, Commanding, At
<1>7. \A q \in Requests : q # r => Fine(q)'
  BY OthersRest
<1> QED BY <1>2, <1>3, <1>4, <1>5, <1>6, <1>7 DEF IInv

------------------------------------------------------------------------------
(* The steps.  Where a request goes is its form; then follows what that does  *)
(* to the types, to the locks, and to what every request knows.               *)

\* A replacement comes.
LEMMA ReplaceStep ==
  ASSUME IInv, NEW r \in Requests, NEW content \in Catalogs, NEW match \in Catalogs \cup {{}},
         Replace(r, content, match)
  PROVE  IInv'
<1> DEFINE form == [Idle EXCEPT !.step = "lock", !.content = content, !.match = match]
<1>0. Typed /\ Locked /\ Commanded /\ CreatedOnce /\ \A q \in Requests : Fine(q)
  BY DEF IInv
<1>1. form \in Forms /\ form.step = "lock" /\ form.content = content
  BY PromptAssumption DEF Idle, Forms, Steps, Rows, Catalogs
<1>2. Moves(r, form)
  BY <1>1 DEF Moves, Replace
<1> HIDE DEF form
<1>3. /\ req' \in [Requests -> Forms] /\ req'[r] = form
      /\ \A q \in Requests : q # r => req'[q] = req[q]
  BY <1>0, <1>2, MovesFacts
<1>4. Typed'
  BY <1>0, <1>3, BoundAssumption DEF Replace, Typed
<1>5. Locked'
  BY <1>0, <1>1, <1>2, OffLock DEF Replace, At, Replacing
<1>6. Commanded'
  BY <1>0, <1>1, <1>2, Keeps DEF Replace, At, Commanding
<1>7. CreatedOnce'
  BY <1>0, <1>1, <1>2, NoNewCreation
<1>8. ASSUME NEW q \in Requests, q # r
      PROVE  Fine(q)'
  BY <1>0, <1>3, <1>8, Rests DEF Replace, Undisturbed
<1>9. Fine(r)'
  BY <1>1, <1>3 DEF Fine, Replaces, Creates, Commands, Commanding, At
<1>b. AllTold'
  BY SameTold DEF IInv, Replace
<1> QED BY <1>4, <1>5, <1>6, <1>7, <1>8, <1>9, <1>b DEF IInv

\* It takes the lock of the catalog.
LEMMA LockStep ==
  ASSUME IInv, NEW r \in Requests, Lock(r)
  PROVE  IInv'
<1> DEFINE form == [req[r] EXCEPT !.step = "compare"]
<1>0. Typed /\ Locked /\ Commanded /\ CreatedOnce /\ (\A q \in Requests : Fine(q))
      /\ req[r] \in Forms /\ req[r].step = "lock" /\ lock = None
  BY DEF IInv, Typed, Lock, LockFree, At
<1>1. form \in Forms /\ form.step = "compare" /\ form.content = req[r].content
  BY <1>0 DEF Forms, Steps
<1>2. Moves(r, form)
  BY <1>1 DEF Moves, Lock, Goto
<1> HIDE DEF form
<1>3. /\ req' \in [Requests -> Forms] /\ req'[r] = form
      /\ \A q \in Requests : q # r => req'[q] = req[q]
  BY <1>0, <1>2, MovesFacts
<1>4. Typed'
  BY <1>0, <1>3 DEF Lock, Typed
<1>5. Locked'
  BY <1>0, <1>1, <1>3, RequestAssumption DEF Lock, Locked, Replacing
<1>6. Commanded'
  BY <1>0, <1>1, <1>2, Keeps DEF Lock, Commanding
<1>7. CreatedOnce'
  BY <1>0, <1>1, <1>2, NoNewCreation
<1>8. ASSUME NEW q \in Requests, q # r
      PROVE  Fine(q)'
  BY <1>0, <1>3, <1>8, Rests DEF Lock, Undisturbed
<1>9. Fine(r)'
  BY <1>0, <1>1, <1>3 DEF Fine, Replaces, Creates, Commands, Commanding, At
<1>b. AllTold'
  BY SameTold DEF IInv, Lock
<1> QED BY <1>4, <1>5, <1>6, <1>7, <1>8, <1>9, <1>b DEF IInv

\* The condition is compared: the request goes on with the lock, or is answered without it.
LEMMA CompareStep ==
  ASSUME IInv, NEW r \in Requests, Compare(r)
  PROVE  IInv'
<1> DEFINE form == IF Matches(r) THEN [req[r] EXCEPT !.step = "write"] ELSE Idle
<1>0. Typed /\ Locked /\ Commanded /\ CreatedOnce /\ (\A q \in Requests : Fine(q))
      /\ req[r] \in Forms /\ req[r].step = "compare" /\ lock = r
  BY DEF IInv, Typed, Compare, At, Locked, Replacing
<1>1. /\ form \in Forms /\ form.step \in {"write", "idle"}
      /\ form.step = "write" => form.content = req[r].content /\ form.match \in {{}, file}
      /\ (form.step = "write") = Matches(r)
  BY <1>0, PromptAssumption DEF Forms, Steps, Idle, Rows, Matches
<1>2. Moves(r, form)
  BY <1>1 DEF Moves, Compare, Goto, Done
<1> HIDE DEF form
<1>3. /\ req' \in [Requests -> Forms] /\ req'[r] = form
      /\ \A q \in Requests : q # r => req'[q] = req[q]
  BY <1>0, <1>2, MovesFacts
<1>4. Typed'
  BY <1>0, <1>3 DEF Compare, Typed
<1>5. Locked'
  <2>1. lock' = IF form.step = "write" THEN r ELSE None
    BY <1>0, <1>1 DEF Compare
  <2> QED BY <1>0, <1>1, <1>3, <2>1, RequestAssumption DEF Locked, Replacing
<1>6. Commanded'
  BY <1>0, <1>1, <1>2, Keeps DEF Compare, Commanding
<1>7. CreatedOnce'
  BY <1>0, <1>1, <1>2, NoNewCreation
<1>8. ASSUME NEW q \in Requests, q # r
      PROVE  Fine(q)'
  BY <1>0, <1>3, <1>8, Rests DEF Compare, Undisturbed
<1>9. Fine(r)'
  <2>1. file' = file
    BY DEF Compare
  <2> QED BY <1>0, <1>1, <1>3, <2>1 DEF Fine, Replaces, Creates, Commands, Commanding, At
<1>b. AllTold'
  BY SameTold DEF IInv, Compare
<1> QED BY <1>4, <1>5, <1>6, <1>7, <1>8, <1>9, <1>b DEF IInv

\* LiteLLM refuses: the file stays.
LEMMA RefusedStep ==
  ASSUME IInv, NEW r \in Requests, At(r, "write"), lock' = None, Fault("refuse"), Done(r),
         UNCHANGED <<file, command, row, proc, saved, replaces>>
  PROVE  IInv'
<1>0. Typed /\ Locked /\ Commanded /\ CreatedOnce /\ (\A q \in Requests : Fine(q))
      /\ req[r].step = "write" /\ lock = r
  BY DEF IInv, At, Locked, Replacing
<1>1. Idle \in Forms /\ Idle.step = "idle"
  BY PromptAssumption DEF Idle, Forms, Steps, Rows
<1>2. Moves(r, Idle)
  BY <1>1 DEF Moves, Done
<1>3. /\ req' \in [Requests -> Forms] /\ req'[r] = Idle
      /\ \A q \in Requests : q # r => req'[q] = req[q]
  BY <1>0, <1>2, MovesFacts
<1>4. Typed'
  BY <1>0, <1>3, BoundAssumption DEF Typed, Fault
<1>5. Locked'
  BY <1>0, <1>1, <1>3, RequestAssumption DEF Locked, Replacing
<1>6. Commanded'
  BY <1>0, <1>1, <1>2, Keeps DEF Commanding
<1>7. CreatedOnce'
  BY <1>0, <1>1, <1>2, NoNewCreation
<1>8. ASSUME NEW q \in Requests, q # r
      PROVE  Fine(q)'
  BY <1>0, <1>3, <1>8, Rests DEF Undisturbed
<1>9. Fine(r)'
  BY <1>1, <1>3 DEF Fine, Replaces, Creates, Commands, Commanding, At
<1>b. AllTold'
  BY SameTold DEF IInv
<1> QED BY <1>4, <1>5, <1>6, <1>7, <1>8, <1>9, <1>b DEF IInv

\* The file is replaced, and every prompt under way has seen it; the request goes on or ends.
LEMMA WrittenStep ==
  ASSUME IInv, NEW r \in Requests, At(r, "write"), lock' = None,
         NEW form \in {[req[r] EXCEPT !.step = "migrate"], Idle}, Rename(r, form),
         faults' \in 0..MaxFaults, UNCHANGED <<command, row, saved, replaces>>
  PROVE  IInv'
<1>0. Typed /\ Locked /\ Commanded /\ CreatedOnce /\ (\A q \in Requests : Fine(q)) /\ AllTold
      /\ req[r] \in Forms /\ req[r].step = "write" /\ lock = r /\ req[r].content \in Catalogs
  BY DEF IInv, Typed, At, Locked, Replacing, Fine, Replaces
<1>a. file' = req[r].content /\ req'[r] = form
      /\ \A s \in Sessions :
           proc'[s] = [proc[s] EXCEPT !.overtaken = @ \/ Halfway(proc[s])]
  BY DEF Rename
<1>1. /\ req'[r] \in Forms /\ req'[r].step \in {"migrate", "idle"}
      /\ req'[r].step = "migrate" => req'[r].content = req[r].content
  <2>1. CASE form = Idle
    BY <2>1, <1>a, PromptAssumption DEF Idle, Forms, Steps, Rows
  <2>2. CASE form = [req[r] EXCEPT !.step = "migrate"]
    BY <2>2, <1>0, <1>a DEF Forms, Steps
  <2> QED BY <2>1, <2>2
<1>2. ASSUME NEW q \in Requests, q # r
      PROVE  /\ req'[q] \in Forms
             /\ req'[q].step = req[q].step /\ req'[q].session = req[q].session
             /\ req'[q].asked = req[q].asked /\ req'[q].match = req[q].match
             /\ req'[q].content = req[q].content /\ req'[q].record = req[q].record
             /\ req'[q].seen = req[q].seen \cup {file'}
  <2>1. req[q] \in Forms /\ req'[q] = [req[q] EXCEPT !.seen = @ \cup {req[r].content}]
    BY <1>0, <1>2 DEF Typed, Rename
  <2> QED BY <1>0, <1>a, <2>1 DEF Forms
<1>3. ASSUME NEW s \in Sessions
      PROVE  /\ proc'[s] \in Processes
             /\ proc'[s].step = proc[s].step /\ proc'[s].print = proc[s].print
             /\ proc'[s].loaded = proc[s].loaded /\ proc'[s].prompt = proc[s].prompt
             /\ proc'[s].model = proc[s].model
             /\ proc'[s].overtaken = (proc[s].overtaken \/ Halfway(proc[s]))
  <2> DEFINE late == proc[s].overtaken \/ Halfway(proc[s])
  <2>1. proc[s] \in Processes /\ late \in BOOLEAN
    BY <1>0 DEF Typed, Processes, Halfway
  <2>2. proc'[s] = [proc[s] EXCEPT !.overtaken = late]
    BY <1>a
  <2> HIDE DEF late
  <2>3. /\ proc'[s] \in Processes
        /\ proc'[s].step = proc[s].step /\ proc'[s].print = proc[s].print
        /\ proc'[s].loaded = proc[s].loaded /\ proc'[s].prompt = proc[s].prompt
        /\ proc'[s].model = proc[s].model /\ proc'[s].overtaken = late
    BY <2>1, <2>2 DEF Processes
  <2> QED BY <2>3 DEF late
<1>4. Typed'
  <2>1. req' \in [Requests -> Forms]
    BY <1>1, <1>2 DEF Rename
  <2>2. proc' \in [Sessions -> Processes]
    BY <1>3 DEF Rename
  <2> QED BY <1>0, <1>a, <2>1, <2>2 DEF Typed
<1>5. Locked'
  BY <1>0, <1>1, <1>2, RequestAssumption DEF Locked, Replacing
<1>6. Commanded'
  BY <1>0, <1>1, <1>2 DEF Commanded, Commanding
<1>7. CreatedOnce'
  BY <1>0, <1>1, <1>2 DEF CreatedOnce, At
<1>b. AllTold'
  BY <1>0, <1>3 DEF AllTold, Told, Halfway
<1>8. ASSUME NEW q \in Requests, q # r
      PROVE  Fine(q)'
  <2>1. Fine(q) /\ ~At(q, "write")
    BY <1>0, <1>8 DEF Locked, Replacing, At
  <2>2. Replaces(q)'
    BY <1>2, <1>8, <2>1 DEF Fine, Replaces, At
  <2>3. Creates(q)'
    BY <1>2, <1>8, <2>1 DEF Fine, Creates, At
  <2>4. Commands(q)'
    <3>1. CASE req[q].step \notin Commanding
      BY <1>2, <1>8, <3>1 DEF Commands
    <3>2. CASE req[q].step \in Commanding
      <4>1. req[q].session \in Sessions
        BY <2>1, <3>2 DEF Fine, Commands
      <4> QED BY <1>2, <1>3, <1>8, <2>1, <4>1 DEF Fine, Commands, At, Alive
    <3> QED BY <3>1, <3>2
  <2> QED BY <2>2, <2>3, <2>4 DEF Fine
<1>9. Fine(r)'
  BY <1>0, <1>a, <1>1 DEF Fine, Replaces, Creates, Commands, Commanding, At
<1> QED BY <1>4, <1>5, <1>6, <1>7, <1>8, <1>9, <1>b DEF IInv

\* The sessions are migrated: models change, prompts do not.
LEMMA MigrateStep ==
  ASSUME IInv, NEW r \in Requests, Migrate(r)
  PROVE  IInv'
<1>0. Typed /\ Locked /\ Commanded /\ CreatedOnce /\ (\A q \in Requests : Fine(q))
      /\ req[r].step = "migrate" /\ req[r].content \in Catalogs
  BY DEF IInv, At, Migrate, Fine, Replaces
<1>1. Idle \in Forms /\ Idle.step = "idle"
  BY PromptAssumption DEF Idle, Forms, Steps, Rows
<1>2. Moves(r, Idle)
  BY <1>1 DEF Moves, Done, Migrate
<1>3. /\ req' \in [Requests -> Forms] /\ req'[r] = Idle
      /\ \A q \in Requests : q # r => req'[q] = req[q]
  BY <1>0, <1>2, MovesFacts
<1>a. \A s \in Sessions :
        /\ row'[s] \in Rows /\ row'[s].prompt = row[s].prompt
        /\ (row'[s].model = None) = (row[s].model = None)
  <2> TAKE s \in Sessions
  <2>1. row[s] \in Rows
    BY <1>0 DEF Typed
  <2>2. row'[s] = IF row[s].model \in req[r].content \cup {None} THEN row[s]
                  ELSE [row[s] EXCEPT !.model = Default]
    BY DEF Migrate
  <2> QED BY <2>1, <2>2, ModelAssumption DEF Rows
<1>4. Typed'
  <2>1. row' \in [Sessions -> Rows]
    BY <1>a DEF Migrate
  <2> QED BY <1>0, <1>3, <2>1 DEF Typed, Migrate
<1>5. Locked'
  BY <1>0, <1>1, <1>2, OffLock DEF Migrate, Replacing
<1>6. Commanded'
  BY <1>0, <1>1, <1>2, Keeps DEF Migrate, Commanding
<1>7. CreatedOnce'
  BY <1>0, <1>1, <1>2, NoNewCreation
<1>8. ASSUME NEW q \in Requests, q # r
      PROVE  Fine(q)'
  <2>1. ASSUME req[q].step \in Commanding \cup {"create"}
        PROVE  Undisturbed(req[q].session)
    <3>1. req[q].session \in Sessions
      BY <1>0, <2>1 DEF Fine, Creates, Commands, At
    <3> QED BY <1>a, <3>1 DEF Undisturbed, Migrate
  <2> QED BY <1>0, <1>3, <1>8, <2>1, Rests DEF Migrate
<1>9. Fine(r)'
  BY <1>1, <1>3 DEF Fine, Replaces, Creates, Commands, Commanding, At
<1>b. AllTold'
  BY SameTold DEF IInv, Migrate
<1> QED BY <1>4, <1>5, <1>6, <1>7, <1>8, <1>9, <1>b DEF IInv

\* A session is about to be created.
LEMMA CreateStep ==
  ASSUME IInv, NEW r \in Requests, NEW s \in Sessions, NEW model \in Models, Create(r, s, model)
  PROVE  IInv'
<1> DEFINE form == [Idle EXCEPT !.step = "create", !.session = s, !.asked = model]
<1>0. Typed /\ Locked /\ Commanded /\ CreatedOnce /\ (\A q \in Requests : Fine(q))
      /\ req[r].step = "idle"
  BY DEF IInv, Create, At
<1>1. form \in Forms /\ form.step = "create" /\ form.session = s /\ form.asked = model
  BY PromptAssumption DEF Idle, Forms, Steps, Rows
<1>2. Moves(r, form)
  BY <1>1 DEF Moves, Create
<1> HIDE DEF form
<1>3. /\ req' \in [Requests -> Forms] /\ req'[r] = form
      /\ \A q \in Requests : q # r => req'[q] = req[q]
  BY <1>0, <1>2, MovesFacts
<1>4. Typed'
  BY <1>0, <1>3 DEF Create, Typed
<1>5. Locked'
  BY <1>0, <1>1, <1>2, OffLock DEF Create, Replacing
<1>6. Commanded'
  BY <1>0, <1>1, <1>2, Keeps DEF Create, Commanding
<1>7. CreatedOnce'
  BY <1>0, <1>1, <1>3 DEF Create, CreatedOnce, At
<1>8. ASSUME NEW q \in Requests, q # r
      PROVE  Fine(q)'
  BY <1>0, <1>3, <1>8, Rests DEF Create, Undisturbed
<1>9. Fine(r)'
  BY <1>1, <1>3 DEF Create, Fine, Replaces, Creates, Commands, Commanding, At
<1>b. AllTold'
  BY SameTold DEF IInv, Create
<1> QED BY <1>4, <1>5, <1>6, <1>7, <1>8, <1>9, <1>b DEF IInv

\* It is: nobody served it before.
LEMMA StoreRowStep ==
  ASSUME IInv, NEW r \in Requests, StoreRow(r)
  PROVE  IInv'
<1> DEFINE s == req[r].session
           new == [model |-> req[r].asked, prompt |-> 0]
<1>0. Typed /\ Locked /\ Commanded /\ CreatedOnce /\ (\A q \in Requests : Fine(q))
      /\ At(r, "create") /\ s \in Sessions /\ req[r].asked \in Models /\ row[s].model = None
  BY DEF IInv, At, StoreRow, Fine, Creates
<1>1. Idle \in Forms /\ Idle.step = "idle" /\ new \in Rows
  BY <1>0, PromptAssumption DEF Idle, Forms, Steps, Rows
<1>2. Moves(r, Idle)
  BY <1>1 DEF Moves, Done, StoreRow
<1>3. /\ req' \in [Requests -> Forms] /\ req'[r] = Idle
      /\ \A q \in Requests : q # r => req'[q] = req[q]
  BY <1>0, <1>2, MovesFacts
<1>a. row' = [row EXCEPT ![s] = new]
  BY DEF StoreRow
<1>4. Typed'
  BY <1>0, <1>1, <1>3, <1>a DEF Typed, StoreRow
<1>5. Locked'
  BY <1>0, <1>1, <1>2, OffLock DEF StoreRow, Replacing, At
<1>6. Commanded'
  BY <1>0, <1>1, <1>2, Keeps DEF StoreRow, Commanding, At
<1>7. CreatedOnce'
  BY <1>0, <1>1, <1>2, NoNewCreation
<1>8. ASSUME NEW q \in Requests, q # r
      PROVE  Fine(q)'
  <2>1. ASSUME req[q].step \in Commanding \cup {"create"}
        PROVE  Undisturbed(req[q].session)
    <3>1. req[q].session # s
      BY <1>0, <1>8, <2>1 DEF CreatedOnce, Fine, Commands, At
    <3>2. row'[req[q].session] = row[req[q].session]
      BY <1>0, <1>8, <2>1, <1>a, <3>1 DEF Typed, Fine, Creates, Commands, At
    <3> QED BY <3>2 DEF Undisturbed, StoreRow
  <2> QED BY <1>0, <1>3, <1>8, <2>1, Rests DEF StoreRow
<1>9. Fine(r)'
  BY <1>1, <1>3 DEF Fine, Replaces, Creates, Commands, Commanding, At
<1>b. AllTold'
  BY SameTold DEF IInv, StoreRow
<1> QED BY <1>4, <1>5, <1>6, <1>7, <1>8, <1>9, <1>b DEF IInv

\* A request takes the command lock of a session.
LEMMA Begins ==
  ASSUME IInv, NEW r \in Requests, NEW form, NEW s \in Sessions, At(r, "idle"),
         Moves(r, form), form.step \in {"store", "read"}, form.session = s,
         command[s] = None, command' = [command EXCEPT ![s] = r], row[s].model # None,
         form.step = "read" => form.seen = {file},
         UNCHANGED <<file, lock, row, proc, saved, replaces, faults>>
  PROVE  IInv'
<1>0. Typed /\ Locked /\ Commanded /\ CreatedOnce /\ (\A q \in Requests : Fine(q))
      /\ req[r].step = "idle"
  BY DEF IInv, At
<1>3. /\ req' \in [Requests -> Forms] /\ req'[r] = form
      /\ \A q \in Requests : q # r => req'[q] = req[q]
  BY <1>0, MovesFacts
<1>4. Typed'
  BY <1>0, <1>3 DEF Typed
<1>5. Locked'
  BY <1>0, OffLock DEF Replacing
<1>6. Commanded'
  BY <1>0, Enters DEF Commanding
<1>7. CreatedOnce'
  BY <1>0, NoNewCreation
<1>8. ASSUME NEW q \in Requests, q # r
      PROVE  Fine(q)'
  BY <1>0, <1>3, <1>8, Rests DEF Undisturbed
<1>9. Fine(r)'
  BY <1>3 DEF Fine, Replaces, Creates, Commands, Commanding, At
<1>b. AllTold'
  BY SameTold DEF IInv
<1> QED BY <1>4, <1>5, <1>6, <1>7, <1>8, <1>9, <1>b DEF IInv

LEMMA SetPromptStep ==
  ASSUME IInv, NEW r \in Requests, NEW s \in Sessions, NEW prompt \in SystemPrompts,
         SetPrompt(r, s, prompt)
  PROVE  IInv'
<1> DEFINE form == [Idle EXCEPT !.step = "store", !.session = s, !.record.prompt = prompt]
<1>1. form \in Forms /\ form.step = "store" /\ form.session = s
  BY PromptAssumption DEF Idle, Forms, Steps, Rows
<1>2. Moves(r, form)
  BY <1>1 DEF Moves, SetPrompt
<1> HIDE DEF form
<1> QED BY <1>1, <1>2, Begins DEF SetPrompt, CommandFree

LEMMA PromptStep ==
  ASSUME IInv, NEW r \in Requests, NEW s \in Sessions, NEW model \in Models \cup {None},
         Prompt(r, s, model)
  PROVE  IInv'
<1> DEFINE form == [Idle EXCEPT !.step = "read", !.session = s, !.asked = model,
                               !.seen = {file}]
<1>1. form \in Forms /\ form.step = "read" /\ form.session = s /\ form.seen = {file}
  <2>1. {file} \in SUBSET Catalogs
    BY DEF IInv, Typed
  <2> DEFINE seen == {file}
  <2> HIDE DEF seen
  <2>2. [Idle EXCEPT !.step = "read", !.session = s, !.asked = model, !.seen = seen] \in Forms
    BY <2>1, PromptAssumption DEF Idle, Forms, Steps, Rows, seen
  <2> QED BY <2>2 DEF Idle, seen
<1>2. Moves(r, form)
  BY <1>1 DEF Moves, Prompt
<1> HIDE DEF form
<1> QED BY <1>1, <1>2, Begins DEF Prompt, CommandFree

\* The system prompt is stored.
LEMMA StorePromptStep ==
  ASSUME IInv, NEW r \in Requests, StorePrompt(r)
  PROVE  IInv'
<1> DEFINE s == req[r].session
           new == [row[s] EXCEPT !.prompt = req[r].record.prompt]
<1>0. Typed /\ req[r].step = "store" /\ s \in Sessions /\ row[s] \in Rows /\ req[r] \in Forms
  BY DEF IInv, Typed, StorePrompt, At, Fine, Commands, Commanding
<1>1. new \in Rows
  BY <1>0 DEF Rows, Forms
<1>2. row' = [row EXCEPT ![s] = new]
  BY <1>0 DEF StorePrompt, Typed
<1> HIDE DEF new
<1>3. Changes(s) /\ AllTold'
  BY <1>0, <1>1, <1>2, SameTold DEF Changes, StorePrompt, Typed, IInv
<1> QED BY <1>0, <1>3, Ends DEF StorePrompt, Fails, Commanding

\* What a request that serves a session has.
Serving(r) ==
    /\ Typed /\ req[r] \in Forms /\ req[r].session \in Sessions /\ row[req[r].session] \in Rows
    /\ proc[req[r].session] \in Processes /\ Commands(r)

LEMMA Serves ==
  ASSUME IInv, NEW r \in Requests, req[r].step \in Commanding
  PROVE  Serving(r)
  BY DEF IInv, Serving, Fine, Commands, Typed

\* It comes to the process it needs, or gives up.
LEMMA ContinueStep ==
  ASSUME IInv, NEW r \in Requests, req[r].step \in {"read", "update"}, NEW record \in Rows,
         Continue(r, record), row' = [row EXCEPT ![req[r].session] = record],
         record.prompt = row[req[r].session].prompt, record.model # None,
         UNCHANGED <<file, lock, proc, saved, replaces, faults>>
  PROVE  IInv'
<1> DEFINE s == req[r].session
           step == IF NeedsRestart(s, record) THEN "stop" ELSE "start"
           form == [req[r] EXCEPT !.record = record, !.step = step]
<1>0. Serving(r) /\ req[r].step \in Commanding
  BY Serves DEF Commanding
<1>1. Changes(s) /\ AllTold'
  BY <1>0, SameTold DEF Changes, Serving, Typed, IInv
<1>2. CASE Fails(r)
  BY <1>0, <1>1, <1>2, Ends
<1>3. CASE ~Fails(r)
  <2>1. req' = [req EXCEPT ![r] = form] /\ command' = command
    BY <1>0, <1>3 DEF Continue, Serving, Typed
  <2>2. /\ form \in Forms /\ form.step = step /\ form.session = s /\ form.record = record
        /\ form.seen = req[r].seen /\ form.asked = req[r].asked
    BY <1>0 DEF Serving, Forms, Steps
  <2> HIDE DEF form
  <2>3. Moves(r, form) /\ req'[r] = form
    BY <1>0, <2>1, <2>2 DEF Moves, Serving, Typed
  <2>4. row'[s] = record /\ proc' = proc /\ file' = file
    BY <1>0 DEF Serving, Typed
  <2>5. Commands(r)'
    BY <1>0, <2>2, <2>3, <2>4 DEF Serving, Commands, Commanding, At, NeedsRestart, Alive
  <2> QED BY <1>0, <1>1, <2>1, <2>2, <2>3, <2>5, GoesOn DEF Commanding
<1> QED BY <1>2, <1>3

LEMMA ReadStep ==
  ASSUME IInv, NEW r \in Requests, Read(r)
  PROVE  IInv'
<1> DEFINE s == req[r].session
           form == [req[r] EXCEPT !.step = "update"]
<1>0. Serving(r) /\ req[r].step = "read" /\ req[r].step \in Commanding
  BY Serves DEF Commanding, Read, At
<1>1. Changes(s) /\ AllTold'
  BY <1>0, SameTold DEF Changes, Serving, Typed, Read, IInv
<1>2. CASE Fails(r)
  BY <1>0, <1>1, <1>2, Ends
<1>3. CASE Continue(r, row[s])
  <2>1. row[s] \in Rows /\ row[s].model # None /\ row' = [row EXCEPT ![s] = row[s]]
    BY <1>0 DEF Serving, Typed, Commands, Read
  <2> QED BY <1>0, <1>3, <2>1, ContinueStep DEF Read
<1>4. CASE Goto(r, "update") /\ command' = command /\ req[r].asked \notin {None, row[s].model}
  <2>1. form \in Forms /\ form.step = "update" /\ form.session = s /\ form.asked \in Models
        /\ form.seen = req[r].seen
    BY <1>0, <1>4 DEF Serving, Forms, Steps
  <2>2. req' = [req EXCEPT ![r] = form]
    BY <1>4 DEF Goto
  <2> HIDE DEF form
  <2>3. Moves(r, form) /\ req'[r] = form
    BY <1>0, <2>1, <2>2 DEF Moves, Serving, Typed
  <2>4. Commands(r)'
    BY <1>0, <2>1, <2>3 DEF Serving, Commands, Commanding, At, Read
  <2> QED BY <1>0, <1>1, <1>4, <2>1, <2>3, <2>4, GoesOn DEF Commanding
<1> QED BY <1>2, <1>3, <1>4 DEF Read

LEMMA UpdateModelStep ==
  ASSUME IInv, NEW r \in Requests, UpdateModel(r)
  PROVE  IInv'
<1> DEFINE s == req[r].session
           record == [row[s] EXCEPT !.model = req[r].asked]
<1>0. Serving(r) /\ req[r].step = "update" /\ req[r].asked \in Models
  BY Serves DEF Serving, Commands, Commanding, UpdateModel, At
<1>1. record \in Rows /\ record.prompt = row[s].prompt /\ record.model # None
  BY <1>0, ModelAssumption DEF Serving, Rows
<1>2. Continue(r, record) /\ row' = [row EXCEPT ![s] = record]
  BY DEF UpdateModel
<1> HIDE DEF record
<1> QED BY <1>0, <1>1, <1>2, ContinueStep DEF UpdateModel

\* A step that changes a process and moves the request with it, once: the shape of the rest.
LEMMA MovesOn ==
  ASSUME IInv, NEW r \in Requests, NEW form, req[r].step \in Commanding \ {"store"},
         Serving(r), form \in Forms, req' = [req EXCEPT ![r] = form],
         form.step \in Commanding \ {"store", "read", "update"}, form.session = req[r].session,
         form.seen = req[r].seen,
         UNCHANGED <<file, lock, command, row, saved, replaces, faults>>,
         NEW p \in Processes, proc' = [proc EXCEPT ![req[r].session] = p],
         Told(p),
         form.step \in {"stop", "start"} => form.record.prompt = row[req[r].session].prompt,
         form.step \in {"start", "boot", "set", "give"} /\ p.step # "down" =>
            p.print \in form.seen,
         form.step = "exec" => p.print = {},
         form.step # "stop" /\ p.step # "down" => p.prompt = row[req[r].session].prompt,
         form.step \in {"set", "give"} => p.step # "boot",
         form.step = "give" /\ form.asked # None /\ p.step # "down" => p.model = form.asked
  PROVE  IInv'
<1>1. Moves(r, form) /\ req'[r] = form
  BY DEF Moves, Serving, Typed
<1>2. proc'[req[r].session] = p
  BY DEF Serving, Typed
<1>3. Changes(req[r].session)
  BY DEF Changes, Serving, Typed
<1>4. Commands(r)'
  BY <1>1, <1>2 DEF Serving, Commands, Commanding, At, Alive
<1>5. AllTold'
  BY DEF Serving, Typed, IInv, AllTold, Told
<1> QED BY <1>1, <1>3, <1>4, <1>5, GoesOn

LEMMA DownIsProcess == Down \in Processes /\ Down.step = "down"
  BY PromptAssumption DEF Down, Processes

LEMMA StopProcessStep ==
  ASSUME IInv, NEW r \in Requests, StopProcess(r)
  PROVE  IInv'
<1> DEFINE form == [req[r] EXCEPT !.step = "start"]
<1>0. Serving(r) /\ req[r].step = "stop" /\ req[r].step \in Commanding \ {"store"}
  BY Serves DEF Commanding, StopProcess, At
<1>1. /\ form \in Forms /\ form.step = "start" /\ form.session = req[r].session
      /\ form.record = req[r].record /\ form.seen = req[r].seen
  BY <1>0 DEF Serving, Forms, Steps
<1>2. /\ req' = [req EXCEPT ![r] = form]
      /\ proc' = [proc EXCEPT ![req[r].session] = Down]
      /\ UNCHANGED <<file, lock, command, row, saved, replaces, faults>>
  BY DEF StopProcess, Goto
<1>3. req[r].record.prompt = row[req[r].session].prompt
  BY <1>0 DEF Serving, Commands, Commanding
<1> HIDE DEF form
<1> QED BY <1>0, <1>1, <1>2, <1>3, DownIsProcess, DownTold, MovesOn DEF Commanding

LEMMA SpawnStep ==
  ASSUME IInv, NEW r \in Requests, Spawn(r)
  PROVE  IInv'
<1> DEFINE s == req[r].session
           form == [req[r] EXCEPT !.step = "exec"]
           p == [Down EXCEPT !.step = "boot", !.prompt = req[r].record.prompt,
                    !.model = IF saved[s] = None THEN req[r].record.model ELSE saved[s]]
<1>0. Serving(r) /\ req[r].step = "start" /\ req[r].step \in Commanding \ {"store"}
  BY Serves DEF Commanding, Spawn, At
<1>1. /\ form \in Forms /\ form.step = "exec" /\ form.session = s
      /\ form.record = req[r].record /\ form.seen = req[r].seen
  BY <1>0 DEF Serving, Forms, Steps
<1>2. /\ req' = [req EXCEPT ![r] = form]
      /\ proc' = [proc EXCEPT ![s] = p]
      /\ UNCHANGED <<file, lock, command, row, saved, replaces, faults>>
  BY DEF Spawn, Goto
<1>3. req[r].record.prompt = row[s].prompt
  BY <1>0 DEF Serving, Commands, Commanding, At
<1>4. p \in Processes /\ p.step = "boot" /\ p.print = {} /\ p.prompt = req[r].record.prompt
  BY <1>0 DEF Serving, Typed, Forms, Rows, Processes, Down, Catalogs
<1>5. Told(p)
  BY <1>4 DEF Told
<1> HIDE DEF form, p
<1> QED BY <1>0, <1>1, <1>2, <1>3, <1>4, <1>5, MovesOn DEF Commanding

LEMMA FingerprintStep ==
  ASSUME IInv, NEW r \in Requests, Fingerprint(r)
  PROVE  IInv'
<1> DEFINE s == req[r].session
           form == [req[r] EXCEPT !.step = "boot"]
           p == [proc[s] EXCEPT !.print = file]
<1>0. /\ Serving(r) /\ req[r].step = "exec" /\ req[r].step \in Commanding \ {"store"}
      /\ Alive(s) /\ Told(proc[s])
  BY Serves DEF Commanding, Fingerprint, At, IInv, AllTold, Serving
<1>1. form \in Forms /\ form.step = "boot" /\ form.session = s /\ form.seen = req[r].seen
  BY <1>0 DEF Serving, Forms, Steps
<1>2. /\ req' = [req EXCEPT ![r] = form]
      /\ proc' = [proc EXCEPT ![s] = p]
      /\ UNCHANGED <<file, lock, command, row, saved, replaces, faults>>
  BY DEF Fingerprint, Goto
<1>3. file \in req[r].seen /\ proc[s].prompt = row[s].prompt /\ proc[s].print = {}
  BY <1>0 DEF Serving, Commands, Commanding, At
<1>4. /\ p \in Processes /\ p.print = file /\ p.prompt = proc[s].prompt /\ p.step = proc[s].step
      /\ p.loaded = proc[s].loaded /\ p.overtaken = proc[s].overtaken
  BY <1>0 DEF Serving, Typed, Processes, Catalogs
<1>5. Told(p)
  BY <1>0, <1>3, <1>4 DEF Told
<1> HIDE DEF form, p
<1> QED BY <1>0, <1>1, <1>2, <1>3, <1>4, <1>5, MovesOn DEF Commanding

LEMMA StartedStep ==
  ASSUME IInv, NEW r \in Requests, Started(r)
  PROVE  IInv'
<1> DEFINE s == req[r].session
           form == [req[r] EXCEPT !.step = IF req[r].asked = None THEN "give" ELSE "set",
                                 !.record = Idle.record]
           p == proc[s]
<1>0. /\ Serving(r) /\ req[r].step \in {"start", "boot"} /\ req[r].step \in Commanding \ {"store"}
      /\ p.step = "up" /\ p \in Processes /\ Told(p)
  BY Serves DEF Commanding, Started, At, Serving, IInv, AllTold
<1>1. /\ form \in Forms /\ form.step = (IF req[r].asked = None THEN "give" ELSE "set")
      /\ form.session = s /\ form.seen = req[r].seen /\ form.asked = req[r].asked
  BY <1>0, PromptAssumption DEF Serving, Forms, Steps, Idle, Rows
<1>2. req' = [req EXCEPT ![r] = form]
  BY <1>0 DEF Started, Serving, Typed
<1>3. /\ proc' = [proc EXCEPT ![s] = p]
      /\ UNCHANGED <<file, lock, command, row, saved, replaces, faults>>
  BY <1>0 DEF Started, Serving, Typed
<1>4. p.print \in req[r].seen /\ p.prompt = row[s].prompt
  BY <1>0 DEF Serving, Commands, Commanding, Alive
<1> HIDE DEF form, p
<1>5. form.step \in Commanding \ {"store", "read", "update"} /\ form.step \in {"set", "give"}
  BY <1>1 DEF Commanding
<1>6. form.step = "give" => form.asked = None
  BY <1>1
<1> QED BY <1>0, <1>1, <1>2, <1>3, <1>4, <1>5, <1>6, MovesOn

LEMMA PiSwitchesStep ==
  ASSUME IInv, NEW r \in Requests, PiSwitches(r)
  PROVE  IInv'
<1> DEFINE s == req[r].session
           form == [req[r] EXCEPT !.step = "give"]
           p == [proc[s] EXCEPT !.model = req[r].asked]
<1>0. Serving(r) /\ req[r].step = "set" /\ req[r].step \in Commanding \ {"store"} /\ Alive(s)
  BY Serves DEF Commanding, PiSwitches, At
<1>1. CASE Fails(r) /\ UNCHANGED proc
  <2>1. Changes(s) /\ AllTold'
    BY <1>0, <1>1, SameTold DEF Changes, Serving, Typed, PiSwitches, IInv
  <2> QED BY <1>0, <1>1, <2>1, Ends
<1>2. CASE /\ proc' = [proc EXCEPT ![s].model = req[r].asked]
           /\ Goto(r, "give") /\ UNCHANGED command
  <2>1. /\ form \in Forms /\ form.step = "give" /\ form.session = s /\ form.seen = req[r].seen
        /\ form.asked = req[r].asked
    BY <1>0 DEF Serving, Forms, Steps
  <2>2. /\ p \in Processes /\ p.step = proc[s].step /\ p.print = proc[s].print
        /\ p.prompt = proc[s].prompt /\ p.model = req[r].asked /\ Told(p)
    BY <1>0 DEF Serving, Forms, Processes, IInv, AllTold, Told
  <2>3. /\ req' = [req EXCEPT ![r] = form] /\ proc' = [proc EXCEPT ![s] = p]
        /\ UNCHANGED <<file, lock, command, row, saved, replaces, faults>>
    BY <1>2 DEF Goto, PiSwitches
  <2>4. /\ proc[s].print \in req[r].seen /\ proc[s].prompt = row[s].prompt
        /\ proc[s].step # "boot"
    BY <1>0 DEF Serving, Commands, Commanding
  <2> HIDE DEF form, p
  <2>5. form.step \in Commanding \ {"store", "read", "update"}
    BY <2>1 DEF Commanding
  <2>6. /\ p.print \in form.seen /\ p.prompt = row[s].prompt /\ p.step # "boot"
        /\ p.model = form.asked /\ form.step \notin {"stop", "start", "exec", "boot"} /\ Told(p)
    BY <2>1, <2>2, <2>4
  <2> HIDE DEF s
  <2>7. s = req[r].session
    BY DEF s
  <2> QED BY <1>0, <2>1, <2>2, <2>3, <2>5, <2>6, <2>7, MovesOn
<1> QED BY <1>1, <1>2 DEF PiSwitches

LEMMA GiveStep ==
  ASSUME IInv, NEW r \in Requests, Give(r)
  PROVE  IInv'
<1> DEFINE s == req[r].session
<1>0. Serving(r) /\ req[r].step \in Commanding
  BY Serves DEF Commanding, Give, At
<1>1. Changes(s) /\ AllTold'
  BY <1>0, SameTold DEF Changes, Serving, Typed, Give, Processes, IInv
<1> QED BY <1>0, <1>1, Ends DEF Give, Fails

LEMMA UnavailableStep ==
  ASSUME IInv, NEW r \in Requests, Unavailable(r)
  PROVE  IInv'
<1>0. Serving(r) /\ req[r].step \in Commanding
  BY Serves DEF Commanding, Unavailable, Lost
<1>1. Changes(req[r].session) /\ AllTold'
  BY <1>0, SameTold DEF Changes, Serving, Typed, Unavailable, IInv
<1> QED BY <1>0, <1>1, Ends DEF Unavailable

\* Pi reads the catalog, starts or ends a turn, or dies, while every request rests: only a process
\* that starts may come up with another model than it was given.
LEMMA ProcessStep ==
  ASSUME IInv, NEW s \in Sessions, NEW p \in Processes, proc' = [proc EXCEPT ![s] = p],
         faults' \in 0..MaxFaults, UNCHANGED <<file, lock, command, row, saved, req, replaces>>,
         Told(p),
         p.step # "down" => p.print = proc[s].print /\ p.prompt = proc[s].prompt
                            /\ proc[s].step # "down" /\ p.step # "boot"
                            /\ (proc[s].step = "boot" \/ p.model = proc[s].model)
  PROVE  IInv'
<1>0. Typed /\ Locked /\ Commanded /\ CreatedOnce /\ \A q \in Requests : Fine(q)
  BY DEF IInv
<1>1. Typed' /\ Locked' /\ Commanded' /\ CreatedOnce'
  BY <1>0 DEF Typed, Locked, Commanded, CreatedOnce, At
<1>2. \A t \in Sessions : proc'[t] = IF t = s THEN p ELSE proc[t]
  BY <1>0 DEF Typed
<1>3. ASSUME NEW q \in Requests
      PROVE  Fine(q)'
  <2>1. Fine(q)
    BY <1>0
  <2>2. Replaces(q)' /\ Creates(q)'
    BY <2>1 DEF Fine, Replaces, Creates, At
  <2>3. Commands(q)'
    BY <1>2, <2>1 DEF Fine, Commands, At, Alive
  <2> QED BY <2>2, <2>3 DEF Fine
<1>4. AllTold'
  BY <1>0, <1>2 DEF IInv, AllTold, Told
<1> QED BY <1>1, <1>3, <1>4 DEF IInv

LEMMA PiLoadsStep ==
  ASSUME IInv, NEW s \in Sessions, PiLoads(s)
  PROVE  IInv'
<1>0. Typed /\ proc[s] \in Processes /\ proc[s].step = "boot" /\ file \in Catalogs /\ Told(proc[s])
  BY DEF IInv, Typed, PiLoads, AllTold
<1>1. PICK model \in IF proc[s].model \in file THEN {proc[s].model} ELSE file :
         proc' = [proc EXCEPT ![s] =
            IF saved[s] = None /\ proc[s].model \notin file THEN Down
            ELSE [@ EXCEPT !.step = "up", !.loaded = file, !.model = model]]
  BY DEF PiLoads
<1> DEFINE p == IF saved[s] = None /\ proc[s].model \notin file THEN Down
                ELSE [proc[s] EXCEPT !.step = "up", !.loaded = file, !.model = model]
<1>2. model \in Models
  BY <1>0, <1>1 DEF Catalogs
<1>3. /\ p \in Processes
      /\ p.step # "down" => p.step = "up" /\ p.print = proc[s].print /\ p.prompt = proc[s].prompt
  BY <1>0, <1>2, DownIsProcess DEF Processes, Catalogs
<1>4. proc' = [proc EXCEPT ![s] = p] /\ UNCHANGED <<file, lock, command, row, saved, req, replaces, faults>>
  BY <1>1 DEF PiLoads
<1>5. faults' \in 0..MaxFaults
  BY <1>0, <1>4 DEF Typed
<1>6. Told(p)
  BY <1>0, DownTold DEF Told, Processes
<1> HIDE DEF p
<1> QED BY <1>0, <1>3, <1>4, <1>5, <1>6, ProcessStep

LEMMA PiTurnsStep ==
  ASSUME IInv, NEW s \in Sessions, PiTurns(s)
  PROVE  IInv'
<1> DEFINE p == [proc[s] EXCEPT !.streaming = ~@]
<1>0. Typed /\ proc[s] \in Processes /\ proc[s].step = "up" /\ Told(proc[s])
  BY DEF IInv, Typed, PiTurns, AllTold
<1>1. /\ p \in Processes /\ p.step = "up" /\ p.print = proc[s].print
      /\ p.prompt = proc[s].prompt /\ p.model = proc[s].model /\ Told(p)
  BY <1>0 DEF Processes, Told
<1>2. proc' = [proc EXCEPT ![s] = p] /\ UNCHANGED <<file, lock, command, row, saved, req, replaces, faults>>
  BY DEF PiTurns
<1>3. faults' \in 0..MaxFaults
  BY <1>0, <1>2 DEF Typed
<1> HIDE DEF p
<1> QED BY <1>0, <1>1, <1>2, <1>3, ProcessStep

LEMMA PiExitsStep ==
  ASSUME IInv, NEW s \in Sessions, PiExits(s)
  PROVE  IInv'
<1>1. faults' \in 0..MaxFaults
  BY BoundAssumption DEF IInv, Typed, PiExits, Fault
<1> QED BY <1>1, DownIsProcess, DownTold, ProcessStep DEF PiExits

\* A crash: nobody is anywhere.
LEMMA CrashStep ==
  ASSUME IInv, Crash
  PROVE  IInv'
<1>1. Idle \in Forms /\ Idle.step = "idle"
  BY PromptAssumption DEF Idle, Forms, Steps, Rows
<1>2. \A r \in Requests : req'[r] = Idle
  BY DEF Crash
<1>3. Typed'
  BY <1>1, DownIsProcess, BoundAssumption DEF IInv, Typed, Crash, Fault
<1>4. Locked' /\ Commanded' /\ CreatedOnce'
  BY <1>1, <1>2, RequestAssumption
     DEF Crash, Locked, Commanded, CreatedOnce, Replacing, Commanding, At
<1>5. \A r \in Requests : Fine(r)'
  BY <1>1, <1>2 DEF Fine, Replaces, Creates, Commands, Commanding, At
<1>6. AllTold'
  BY DEF Crash, AllTold, Told, Down
<1> QED BY <1>3, <1>4, <1>5, <1>6 DEF IInv

LEMMA WriteStep ==
  ASSUME IInv, NEW r \in Requests, Write(r)
  PROVE  IInv'
<1>1. CASE Rename(r, [req[r] EXCEPT !.step = "migrate"]) /\ UNCHANGED faults
  BY <1>1, WrittenStep DEF Write, IInv, Typed
<1>2. CASE Fault("refuse") /\ Done(r) /\ UNCHANGED <<file, proc>>
  BY <1>2, RefusedStep DEF Write
<1>3. CASE Fault("sync") /\ Rename(r, Idle)
  <2>1. faults' \in 0..MaxFaults
    BY <1>3, BoundAssumption DEF Fault, IInv, Typed
  <2> QED BY <1>3, <2>1, WrittenStep DEF Write
<1> QED BY <1>1, <1>2, <1>3 DEF Write

LEMMA StutterStep ==
  ASSUME IInv, UNCHANGED vars
  PROVE  IInv'
<1> USE DEF vars
<1>1. Typed' /\ Locked' /\ Commanded' /\ CreatedOnce'
  BY DEF IInv, Typed, Locked, Commanded, CreatedOnce, At
<1>2. \A r \in Requests : Fine(r)'
  BY DEF IInv, Fine, Replaces, Creates, Commands, At, Alive
<1> QED BY <1>1, <1>2, SameTold DEF IInv

LEMMA Inductive == IInv /\ [Next]_vars => IInv'
<1> SUFFICES ASSUME IInv, [Next]_vars PROVE IInv'
  OBVIOUS
<1>1. ASSUME NEW r \in Requests, Arrive(r)
      PROVE  IInv'
  BY <1>1, ReplaceStep, CreateStep, SetPromptStep, PromptStep DEF Arrive
<1>2. ASSUME NEW r \in Requests, Serve(r)
      PROVE  IInv'
  BY <1>2, LockStep, CompareStep, WriteStep, MigrateStep, StoreRowStep, StorePromptStep, ReadStep,
     UpdateModelStep, StopProcessStep, SpawnStep, FingerprintStep, StartedStep, PiSwitchesStep, GiveStep,
     UnavailableStep DEF Serve
<1>3. ASSUME NEW s \in Sessions, PiLoads(s) \/ PiTurns(s) \/ PiExits(s)
      PROVE  IInv'
  BY <1>3, PiLoadsStep, PiTurnsStep, PiExitsStep
<1> QED BY <1>1, <1>2, <1>3, CrashStep, StutterStep DEF Next

LEMMA IInvHolds == Spec => []IInv
<1>1. Init => IInv
  BY InitIInv
<1>2. IInv /\ [Next]_vars => IInv'
  BY Inductive
<1> QED BY <1>1, <1>2, PTL DEF Spec

------------------------------------------------------------------------------
\* Types, and the lock of the catalog has the request that compares or writes.
THEOREM TypeCorrect == Spec => []TypeOK
<1>1. IInv => TypeOK
  BY TypeOKIs DEF IInv
<1> QED BY <1>1, IInvHolds, PTL

\* A catalog is replaced under a condition only while it is the one of the condition, whether the
\* request succeeds or fails (replace).
THEOREM ConditionHoldsAlways == Spec => ConditionHolds
<1>1. IInv /\ [Next]_vars =>
        [\A r \in Requests :
           At(r, "write") /\ req'[r].step # "write" /\ file' # file /\ req[r].match # {}
              => file = req[r].match]_vars
  BY DEF IInv, Fine, Replaces
<1> QED BY <1>1, IInvHolds, PTL DEF Spec, ConditionHolds

\* A prompt reaches Pi with the model it asks for, under the session's system prompt and with a
\* catalog, read by Pi, that was in place since it came, unless the file was replaced between the two
\* readings of it at the start of the process (prompt, needs_configuration_restart).
THEOREM PromptAppliesAlways == Spec => PromptApplies
<1> DEFINE Applies ==
      \A r \in Requests : Gives(r) =>
         LET p == proc[req[r].session] IN
         /\ req[r].asked # None => p.model = req[r].asked
         /\ p.prompt = row[req[r].session].prompt
         /\ ~p.overtaken => p.loaded \in req[r].seen
<1>1. ASSUME IInv, NEW r \in Requests, Gives(r)
      PROVE  LET p == proc[req[r].session] IN
             /\ req[r].asked # None => p.model = req[r].asked
             /\ p.prompt = row[req[r].session].prompt
             /\ ~p.overtaken => p.loaded \in req[r].seen
  <2> DEFINE p == proc[req[r].session]
  <2>1. Serving(r) /\ req[r].step = "give" /\ Alive(req[r].session)
    BY <1>1, Serves DEF Gives, At, Commanding
  <2>2. /\ req[r].asked # None => p.model = req[r].asked
        /\ p.prompt = row[req[r].session].prompt
        /\ p.print \in req[r].seen /\ p.step = "up"
    BY <2>1 DEF Serving, Commands, Commanding, At, Alive, Processes
  <2>3. p.print # {}
    BY <2>1, <2>2 DEF Serving, Forms, Catalogs
  <2>4. Told(p)
    BY <1>1, <2>1 DEF IInv, AllTold, Serving
  <2> QED BY <2>2, <2>3, <2>4 DEF Told
<1>2. IInv /\ [Next]_vars => [Applies]_vars
  BY <1>1
<1> QED BY <1>2, IInvHolds, PTL DEF Spec, PromptApplies
=============================================================================
