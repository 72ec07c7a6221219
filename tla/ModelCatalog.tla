---------------------------- MODULE ModelCatalog ----------------------------
(***************************************************************************)
(* The models a Bridge offers, and the settings a session starts Pi with:   *)
(* the catalog file, its conditional replacement and the migration of the   *)
(* sessions, the model and the system prompt of a session, and the prompts  *)
(* that must reach a Pi with the right ones.                                *)
(*                                                                         *)
(*   model_catalog.py            Replace, Matches, Write                    *)
(*   app/model_routes.py         Migrate                                    *)
(*   catalog/store.py            StoreRow, Migrate, UpdateModel, StorePrompt*)
(*   app/session_routes.py       Create, Prompt .. Give, SetPrompt          *)
(*   rpc/process.py              Spawn, Fingerprint, PiLoads, PiSwitches    *)
(*                                                                         *)
(* A step is what runs between two suspensions of the event loop.  The lock *)
(* of the catalog and the command lock of a session have one holder; in     *)
(* which order they are given is left open.                                 *)
(*                                                                         *)
(* Abstracted: a catalog is the set of its model ids, and its fingerprint   *)
(* is that set; a system prompt is a number; whether a request is known to  *)
(* the journal, the capacity, and what else may restart a process are in    *)
(* Supervisor.                                                              *)
(***************************************************************************)
EXTENDS Integers, FiniteSets

CONSTANTS
    Sessions, Requests,
    Models,         \* model ids
    Default,        \* coding-default
    SystemPrompts,  \* versions of a system prompt, 0 for none
    MaxReplaces,    \* bound: replacements in one behaviour
    Faults,         \* which of FaultKinds the environment may cause
    MaxFaults       \* bound: faults in one behaviour

FaultKinds == {"refuse", "sync", "exit", "crash"}
None == "none"
Catalogs == {c \in SUBSET Models : Default \in c}

ASSUME ModelAssumption == Default \in Models /\ None \notin Models
ASSUME RequestAssumption == None \notin Requests
ASSUME PromptAssumption == SystemPrompts \subseteq Nat /\ 0 \in SystemPrompts
ASSUME BoundAssumption == MaxReplaces \in Nat /\ MaxFaults \in Nat /\ Faults \subseteq FaultKinds

VARIABLES
    file,       \* models.json
    lock,       \* ModelCatalog._lock
    command,    \* _command_locks
    row,        \* the catalog's row of a session; its model is None before it is created
    proc,       \* the process of a session
    saved,      \* the model in Pi's own file of a session, None without a file
    req,        \* the requests under way
    replaces, faults

vars == <<file, lock, command, row, proc, saved, req, replaces, faults>>

------------------------------------------------------------------------------
Idle == [step |-> "idle", session |-> None, asked |-> None, match |-> {}, content |-> {},
         record |-> [model |-> None, prompt |-> 0], seen |-> {}]
\* The print of a process is {} until it is taken, which no catalog is; overtaken is history.
Down == [step |-> "down", print |-> {}, loaded |-> {}, model |-> None, prompt |-> 0,
         streaming |-> FALSE, overtaken |-> FALSE]

Init ==
    /\ file \in Catalogs
    /\ lock = None
    /\ command = [s \in Sessions |-> None]
    /\ row = [s \in Sessions |-> [model |-> None, prompt |-> 0]]
    /\ proc = [s \in Sessions |-> Down]
    /\ saved = [s \in Sessions |-> None]
    /\ req = [r \in Requests |-> Idle]
    /\ replaces = 0 /\ faults = 0

At(r, step) == req[r].step = step
Goto(r, step) == req' = [req EXCEPT ![r].step = step]
Fault(kind) == kind \in Faults /\ faults < MaxFaults /\ faults' = faults + 1
Alive(s) == proc[s].step # "down"
Allowed(model) == model \in file

\* A request is answered; what it waited with is forgotten.
Done(r) == req' = [req EXCEPT ![r] = Idle]
FreeCommand(r) == command' = [command EXCEPT ![req[r].session] = None]

\* Mutant: prompts do not exclude each other.
CommandIgnored(s) == TRUE
CommandFree(s) == command[s] = None

------------------------------------------------------------------------------
(* PUT models/config.  Without if_match the match is {}, which no catalog is. *)

Replace(r, content, match) ==
    /\ At(r, "idle") /\ replaces < MaxReplaces
    /\ replaces' = replaces + 1
    /\ req' = [req EXCEPT ![r] = [Idle EXCEPT !.step = "lock", !.content = content, !.match = match]]
    /\ UNCHANGED <<file, lock, command, row, proc, saved, faults>>

\* Mutant: replacements do not exclude each other.
LockIgnored == TRUE
LockFree == lock = None

Lock(r) ==
    /\ At(r, "lock") /\ LockFree
    /\ lock' = r
    /\ Goto(r, "compare")
    /\ UNCHANGED <<file, command, row, proc, saved, replaces, faults>>

Matches(r) == req[r].match \in {{}, file}

Compare(r) ==
    /\ At(r, "compare")
    /\ IF Matches(r) THEN Goto(r, "write") /\ UNCHANGED lock
                     ELSE Done(r) /\ lock' = None
    /\ UNCHANGED <<file, command, row, proc, saved, replaces, faults>>

\* A process whose fingerprint is taken of a file that Pi has yet to read, or the other way round.
Halfway(p) == (p.step = "boot" /\ p.print # {}) \/ (p.step = "up" /\ p.print = {})

\* The file is replaced, and the request goes on as the form says.  Every prompt under way may have
\* seen the new catalog.
Rename(r, form) ==
    /\ file' = req[r].content
    /\ req' = [q \in Requests |->
                 IF q = r THEN form ELSE [req[q] EXCEPT !.seen = @ \cup {req[r].content}]]
    /\ proc' = [s \in Sessions |-> [proc[s] EXCEPT !.overtaken = @ \/ Halfway(proc[s])]]

\* LiteLLM has authorized the models and the file is replaced; or it has not; or the directory
\* cannot be synced, and the request fails with the file replaced.
Write(r) ==
    /\ At(r, "write")
    /\ lock' = None
    /\ \/ Rename(r, [req[r] EXCEPT !.step = "migrate"]) /\ UNCHANGED faults
       \/ Fault("refuse") /\ Done(r) /\ UNCHANGED <<file, proc>>
       \/ Fault("sync") /\ Rename(r, Idle)
    /\ UNCHANGED <<command, row, saved, replaces>>

\* migrate_removed_models, by what this request has written.
Migrate(r) ==
    /\ At(r, "migrate")
    /\ row' = [s \in Sessions |->
                 IF row[s].model \in req[r].content \cup {None} THEN row[s]
                 ELSE [row[s] EXCEPT !.model = Default]]
    /\ Done(r)
    /\ UNCHANGED <<file, lock, command, proc, saved, replaces, faults>>

------------------------------------------------------------------------------
(* POST sessions: the model is checked, then the row is stored.              *)

Create(r, s, model) ==
    /\ At(r, "idle") /\ Allowed(model)
    /\ row[s].model = None /\ \A q \in Requests : ~(At(q, "create") /\ req[q].session = s)
    /\ req' = [req EXCEPT ![r] = [Idle EXCEPT !.step = "create", !.session = s, !.asked = model]]
    /\ UNCHANGED <<file, lock, command, row, proc, saved, replaces, faults>>

StoreRow(r) ==
    /\ At(r, "create")
    /\ row' = [row EXCEPT ![req[r].session] = [model |-> req[r].asked, prompt |-> 0]]
    /\ Done(r)
    /\ UNCHANGED <<file, lock, command, proc, saved, replaces, faults>>

------------------------------------------------------------------------------
(* PUT and DELETE system-prompt, under the command lock of the session.       *)

SetPrompt(r, s, prompt) ==
    /\ At(r, "idle") /\ CommandFree(s) /\ row[s].model # None
    /\ ~(Alive(s) /\ proc[s].streaming)
    /\ command' = [command EXCEPT ![s] = r]
    /\ req' = [req EXCEPT ![r] = [Idle EXCEPT !.step = "store", !.session = s,
                                             !.record.prompt = prompt]]
    /\ UNCHANGED <<file, lock, row, proc, saved, replaces, faults>>

StorePrompt(r) ==
    /\ At(r, "store")
    /\ row' = [row EXCEPT ![req[r].session].prompt = req[r].record.prompt]
    /\ FreeCommand(r) /\ Done(r)
    /\ UNCHANGED <<file, lock, proc, saved, replaces, faults>>

------------------------------------------------------------------------------
(* POST prompts, from the command lock to Pi.                                 *)

\* With the lock: a model the prompt asks for must be listed.
Prompt(r, s, model) ==
    /\ At(r, "idle") /\ CommandFree(s) /\ row[s].model # None
    /\ model # None => Allowed(model)
    /\ command' = [command EXCEPT ![s] = r]
    /\ req' = [req EXCEPT ![r] = [Idle EXCEPT !.step = "read", !.session = s, !.asked = model,
                                             !.seen = {file}]]
    /\ UNCHANGED <<file, lock, row, proc, saved, replaces, faults>>

\* Mutant: the catalog of a process is not compared.
OldCatalogServes(s, record) == Alive(s) /\ proc[s].prompt # record.prompt
NeedsRestart(s, record) ==
    Alive(s) /\ (proc[s].prompt # record.prompt \/ proc[s].print # file)

Fails(r) == FreeCommand(r) /\ Done(r)

\* The process the prompt goes to: the one there is, or a new one.  A generating Pi is not
\* restarted.
Continue(r, record) ==
    LET s == req[r].session IN
    IF NeedsRestart(s, record) /\ proc[s].streaming
    THEN Fails(r)
    ELSE /\ req' = [req EXCEPT ![r].record = record,
                               ![r].step = IF NeedsRestart(s, record) THEN "stop" ELSE "start"]
         /\ UNCHANGED command

\* require_session, and then either the model of the prompt is stored or the session's is checked.
Read(r) ==
    LET record == row[req[r].session]
        asked == req[r].asked
    IN
    /\ At(r, "read")
    /\ \/ /\ asked = None /\ ~Allowed(record.model)
          /\ Fails(r)
       \/ /\ asked \notin {None, record.model}
          /\ Goto(r, "update") /\ UNCHANGED command
       \/ /\ asked = record.model \/ (asked = None /\ Allowed(record.model))
          /\ Continue(r, record)
    /\ UNCHANGED <<file, lock, row, proc, saved, replaces, faults>>

UpdateModel(r) ==
    LET s == req[r].session
        record == [row[s] EXCEPT !.model = req[r].asked]
    IN
    /\ At(r, "update")
    /\ row' = [row EXCEPT ![s] = record]
    /\ Continue(r, record)
    /\ UNCHANGED <<file, lock, proc, saved, replaces, faults>>

StopProcess(r) ==
    /\ At(r, "stop")
    /\ proc' = [proc EXCEPT ![req[r].session] = Down]
    /\ Goto(r, "start")
    /\ UNCHANGED <<file, lock, command, row, saved, replaces, faults>>

\* PiRpcProcess.start: a session that Pi has a file of is resumed, without naming a model.
Spawn(r) ==
    LET s == req[r].session IN
    /\ At(r, "start") /\ ~Alive(s)
    /\ proc' = [proc EXCEPT ![s] = [Down EXCEPT
          !.step = "boot", !.prompt = req[r].record.prompt,
          !.model = IF saved[s] = None THEN req[r].record.model ELSE saved[s]]]
    /\ Goto(r, "exec")
    /\ UNCHANGED <<file, lock, command, row, saved, replaces, faults>>

\* The event loop comes back with the process, which has run since it was created.
Fingerprint(r) ==
    LET s == req[r].session IN
    /\ At(r, "exec") /\ Alive(s)
    /\ proc' = [proc EXCEPT ![s].print = file]
    /\ Goto(r, "boot")
    /\ UNCHANGED <<file, lock, command, row, saved, replaces, faults>>

\* get_or_start has a process that answers.
Started(r) ==
    /\ At(r, "start") \/ At(r, "boot")
    /\ proc[req[r].session].step = "up"
    /\ req' = [req EXCEPT ![r].step = IF req[r].asked = None THEN "give" ELSE "set",
                          ![r].record = Idle.record]
    /\ UNCHANGED <<file, lock, command, row, proc, saved, replaces, faults>>

\* Pi switches to the model the prompt asks for if its own catalog has it.
PiSwitches(r) ==
    LET s == req[r].session IN
    /\ At(r, "set") /\ Alive(s)
    /\ IF req[r].asked \in proc[s].loaded
       THEN /\ proc' = [proc EXCEPT ![s].model = req[r].asked]
            /\ Goto(r, "give")
            /\ UNCHANGED command
       ELSE Fails(r) /\ UNCHANGED proc
    /\ UNCHANGED <<file, lock, row, saved, replaces, faults>>

\* Pi accepts the prompt and keeps its model with it.
Give(r) ==
    LET s == req[r].session IN
    /\ At(r, "give") /\ Alive(s)
    /\ saved' = [saved EXCEPT ![s] = proc[s].model]
    /\ FreeCommand(r) /\ Done(r)
    /\ UNCHANGED <<file, lock, row, proc, replaces, faults>>

\* Mutant of Lost: a prompt whose process is gone waits for it.
LostUnnoticed(r) == FALSE
Lost(r) == req[r].step \in {"exec", "boot", "set", "give"} /\ ~Alive(req[r].session)

Unavailable(r) ==
    /\ Lost(r)
    /\ Fails(r)
    /\ UNCHANGED <<file, lock, row, proc, saved, replaces, faults>>

------------------------------------------------------------------------------
(* Pi, and the Bridge as a whole.                                             *)

\* Pi reads the catalog.  A new session needs its model there; a resumed one gets another.
PiLoads(s) ==
    /\ proc[s].step = "boot"
    /\ \E model \in IF proc[s].model \in file THEN {proc[s].model} ELSE file :
         proc' = [proc EXCEPT ![s] =
            IF saved[s] = None /\ proc[s].model \notin file THEN Down
            ELSE [@ EXCEPT !.step = "up", !.loaded = file, !.model = model]]
    /\ UNCHANGED <<file, lock, command, row, saved, req, replaces, faults>>

\* agent_start or agent_end.
PiTurns(s) ==
    /\ proc[s].step = "up"
    /\ proc' = [proc EXCEPT ![s].streaming = ~@]
    /\ UNCHANGED <<file, lock, command, row, saved, req, replaces, faults>>

\* Pi dies, or the reaper or another request stops it.
PiExits(s) ==
    /\ Alive(s) /\ Fault("exit")
    /\ proc' = [proc EXCEPT ![s] = Down]
    /\ UNCHANGED <<file, lock, command, row, saved, req, replaces>>

Crash ==
    /\ Fault("crash")
    /\ lock' = None
    /\ command' = [s \in Sessions |-> None]
    /\ proc' = [s \in Sessions |-> Down]
    /\ req' = [r \in Requests |-> Idle]
    /\ UNCHANGED <<file, row, saved, replaces>>

------------------------------------------------------------------------------
Serve(r) ==
    \/ Lock(r) \/ Compare(r) \/ Write(r) \/ Migrate(r)
    \/ StoreRow(r) \/ StorePrompt(r)
    \/ Read(r) \/ UpdateModel(r) \/ StopProcess(r) \/ Spawn(r) \/ Fingerprint(r)
    \/ Started(r) \/ PiSwitches(r) \/ Give(r) \/ Unavailable(r)

Arrive(r) ==
    \/ \E content \in Catalogs, match \in Catalogs \cup {{}} : Replace(r, content, match)
    \/ \E s \in Sessions, model \in Models : Create(r, s, model)
    \/ \E s \in Sessions, prompt \in SystemPrompts : SetPrompt(r, s, prompt)
    \/ \E s \in Sessions, model \in Models \cup {None} : Prompt(r, s, model)

Next ==
    \/ \E r \in Requests : Arrive(r) \/ Serve(r)
    \/ \E s \in Sessions : PiLoads(s) \/ PiTurns(s) \/ PiExits(s)
    \/ Crash

Spec == Init /\ [][Next]_vars

\* Tasks of the event loop go on, and Pi starts within the time a request waits for it.
FairSpec ==
    /\ Spec
    /\ \A r \in Requests : SF_vars(Lock(r)) /\ WF_vars(Serve(r))
    /\ \A s \in Sessions : WF_vars(PiLoads(s))

------------------------------------------------------------------------------
Steps == {"idle", "lock", "compare", "write", "migrate", "create", "store", "read", "update",
          "stop", "start", "exec", "boot", "set", "give"}
Rows == [model : Models \cup {None}, prompt : SystemPrompts]

TypeOK ==
    /\ file \in Catalogs
    /\ lock \in Requests \cup {None}
    /\ command \in [Sessions -> Requests \cup {None}]
    /\ row \in [Sessions -> Rows]
    /\ proc \in [Sessions -> [step : {"down", "boot", "up"}, print : SUBSET Models,
                              loaded : SUBSET Models, model : Models \cup {None},
                              prompt : SystemPrompts, streaming : BOOLEAN,
                              overtaken : BOOLEAN]]
    /\ saved \in [Sessions -> Models \cup {None}]
    /\ req \in [Requests -> [step : Steps, session : Sessions \cup {None},
                             asked : Models \cup {None}, match : SUBSET Models,
                             content : SUBSET Models, record : Rows,
                             seen : SUBSET Catalogs]]
    /\ replaces \in 0..MaxReplaces /\ faults \in 0..MaxFaults
    /\ \A r \in Requests : (req[r].step \in {"compare", "write"}) = (lock = r)

\* A catalog is replaced under a condition only while it is still the one of the condition, so no
\* client overwrites what another has written since, whether its own request succeeds or fails
\* (replace).
ConditionHolds ==
    [][\A r \in Requests :
         At(r, "write") /\ req'[r].step # "write" /\ file' # file /\ req[r].match # {}
            => file = req[r].match]_vars

Gives(r) == At(r, "give") /\ req'[r].step = "idle" /\ Alive(req[r].session) /\ UNCHANGED faults

\* A prompt reaches Pi with what it should have: the model it asks for, not the one another prompt of
\* the session asked for (prompt), the system prompt the session has now (update_system_prompt), and
\* a catalog Pi has read that was in place at some time since the prompt came
\* (needs_configuration_restart) - the last unless the file was replaced between the two readings of
\* it when the process was started, Pi's and that of its fingerprint.
PromptApplies ==
    [][\A r \in Requests : Gives(r) =>
         LET p == proc[req[r].session] IN
         /\ req[r].asked # None => p.model = req[r].asked
         /\ p.prompt = row[req[r].session].prompt
         /\ ~p.overtaken => p.loaded \in req[r].seen]_vars

\* Every request is answered, whatever it waits for (prompt, replace).
RequestsEnd == \A r \in Requests : ~At(r, "idle") ~> At(r, "idle")

------------------------------------------------------------------------------
(* Promises the code does not keep: see the README on known disagreements.    *)

\* When nothing is under way every session has a listed model (migrate_removed_models).
SessionsAreListed ==
    (\A r \in Requests : At(r, "idle")) =>
        \A s \in Sessions : row[s].model \in file \cup {None}

\* No prompt is answered with a model that was removed before it came (replace).
UsedWasListed ==
    [][\A r \in Requests : Gives(r) => \E c \in req[r].seen : proc[req[r].session].model \in c]_vars

\* A prompt is answered by a Pi that has read a catalog in place since the prompt came, also when the
\* file was replaced while the process started (needs_configuration_restart).
LoadedIsCurrent ==
    [][\A r \in Requests : Gives(r) => proc[req[r].session].loaded \in req[r].seen]_vars

\* Pi answers with the model the session is said to have (session_out).
ReportedIsUsed ==
    [][\A r \in Requests :
         Gives(r) => proc[req[r].session].model = row[req[r].session].model]_vars
==============================================================================
