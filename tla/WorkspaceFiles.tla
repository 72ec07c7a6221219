--------------------------- MODULE WorkspaceFiles ---------------------------
(***************************************************************************)
(* One file of an instance and the two ways the Bridge lets clients change  *)
(* it: the workspace API, which works on the file system in a thread, and   *)
(* the files API, which asks Execd, call by call.  Pi's own tools write the *)
(* file as well.                                                            *)
(*                                                                         *)
(*   runner  app/workspace_file_routes.py   Temp, Rename, Create, Fill      *)
(*           app/file_routes.py             Upload, Command, Verify, Cleanup*)
(*           app/context.py                 Lock, Download, Matches         *)
(*   manager app/workspace_file_routes.py   AskWorkspace                    *)
(*           app/filesystem_routes.py       AskFiles                        *)
(*                                                                         *)
(* A lock belongs to a key: the workspace API has one of its own, the files *)
(* API one for each spelling of the path.                                   *)
(*                                                                         *)
(* Abstracted: a content is a number and its ETag is the content; a refusal *)
(* is one, whatever its status; owner, mode, size, encoding and ranges are  *)
(* left out.  A call of Execd that fails has had its effect or none.        *)
(***************************************************************************)
EXTENDS Integers, FiniteSets

CONSTANTS
    Requests,
    Paths,          \* the spellings of the file's path in the files API
    Contents,       \* whole contents
    Faults,         \* which of FaultKinds the environment may cause
    MaxFaults,      \* bound: faults in one behaviour
    MaxWrites       \* bound: writes by Pi's tools in one behaviour

FaultKinds == {"write", "short", "execd", "silent", "crash"}
Workspace == "workspace"
Agent == "agent"
None == "none"
Absent == "absent"
Partial == "partial"
Keys == Paths \cup {Workspace}
Kinds == {"replace", "delete", "create"}

ASSUME PathAssumption == Workspace \notin Paths /\ Agent \notin Keys
ASSUME RequestAssumption == None \notin Requests
ASSUME ContentAssumption ==
    /\ Requests \cap (Contents \cup {Absent, Partial}) = {}
    /\ Contents \cap {Absent, Partial} = {}
ASSUME BoundAssumption == MaxFaults \in Nat /\ MaxWrites \in Nat /\ Faults \subseteq FaultKinds

VARIABLES
    disk,       \* what the path names: nothing, a content, or the file a request is filling
    writer,     \* the key, or the agent, that changed the file last
    lock,       \* _file_locks
    req,        \* the requests under way, and whether the last one succeeded
    faults, writes

vars == <<disk, writer, lock, req, faults, writes>>

------------------------------------------------------------------------------
Idle == [step |-> "idle", key |-> None, kind |-> None, match |-> Absent, content |-> Absent,
         temp |-> Absent, ok |-> FALSE]

Init ==
    /\ disk \in Contents \cup {Absent}
    /\ writer = Agent
    /\ lock = [k \in Keys |-> None]
    /\ req = [r \in Requests |-> Idle]
    /\ faults = 0 /\ writes = 0

At(r, step) == req[r].step = step
Is(r, kind) == req[r].kind = kind
InWorkspace(r) == req[r].key = Workspace
Goto(r, step) == req' = [req EXCEPT ![r].step = step]
Fault(kind) == kind \in Faults /\ faults < MaxFaults /\ faults' = faults + 1

\* What a reader finds: a GET takes no lock.
ReadFile == IF disk \in Requests THEN Partial ELSE disk
Download == ReadFile

\* The file becomes value by a request.
Put(r, value) == disk' = value /\ writer' = req[r].key

\* A request is answered and its lock released.
Answer(r, ok) ==
    /\ req' = [req EXCEPT ![r] = [Idle EXCEPT !.ok = ok]]
    /\ lock' = [lock EXCEPT ![req[r].key] = None]

------------------------------------------------------------------------------
(* A request comes through the Manager and waits for the lock of its key.     *)
(* Replacing and deleting name the content they expect, creating expects none.*)

Ask(r, key, kind, match, content) ==
    /\ At(r, "idle")
    /\ (kind = "create") = (match = Absent)
    /\ req' = [req EXCEPT ![r] = [Idle EXCEPT !.step = "lock", !.key = key, !.kind = kind,
                                             !.match = match, !.content = content]]
    /\ UNCHANGED <<disk, writer, lock, faults, writes>>

Expected == Contents \cup {Absent, Partial}
AskWorkspace(r) ==
    \E kind \in Kinds, match \in Expected, content \in Contents :
        Ask(r, Workspace, kind, match, content)
AskFiles(r) ==
    \E path \in Paths, kind \in Kinds, match \in Expected, content \in Contents :
        Ask(r, path, kind, match, content)

\* Mutant: requests do not exclude each other.
LockIgnored(key) == TRUE
LockFree(key) == lock[key] = None

Lock(r) ==
    /\ At(r, "lock") /\ LockFree(req[r].key)
    /\ lock' = [lock EXCEPT ![req[r].key] = r]
    /\ Goto(r, "check")
    /\ UNCHANGED <<disk, writer, faults, writes>>

\* if_match against the file's ETag; for a new file, that there is none.
Matches(r) == req[r].match = Download

Refuse(r) ==
    /\ Answer(r, FALSE)
    /\ UNCHANGED <<disk, writer, faults, writes>>

After(kind) == CASE kind = "replace" -> "temp"
                 [] kind = "delete"  -> "unlink"
                 [] kind = "create"  -> "upload"

\* The workspace API creates in one step, so it has nothing to check before.
Check(r) ==
    /\ At(r, "check") /\ ~(InWorkspace(r) /\ Is(r, "create"))
    /\ \/ /\ Matches(r)
          /\ Goto(r, After(req[r].kind))
          /\ UNCHANGED <<disk, writer, lock, faults, writes>>
       \/ ~Matches(r) /\ Refuse(r)

------------------------------------------------------------------------------
(* The workspace API.                                                         *)

\* Mutant of Temp: the new content is written over the old one.
WriteOver(r) ==
    /\ At(r, "temp") /\ InWorkspace(r)
    /\ \/ /\ req' = [req EXCEPT ![r].temp = req[r].content, ![r].step = "rename"]
          /\ UNCHANGED <<disk, writer, lock, faults>>
       \/ /\ Fault("write") /\ Put(r, Partial)
          /\ Answer(r, FALSE)
    /\ UNCHANGED writes

\* The temporary file is written, in part if the write is short, or cannot be.
Temp(r) ==
    /\ At(r, "temp") /\ InWorkspace(r)
    /\ \/ /\ req' = [req EXCEPT ![r].temp = req[r].content, ![r].step = "rename"]
          /\ UNCHANGED <<lock, faults>>
       \/ /\ Fault("short")
          /\ req' = [req EXCEPT ![r].temp = Partial, ![r].step = "rename"]
          /\ UNCHANGED lock
       \/ Fault("write") /\ Answer(r, FALSE)
    /\ UNCHANGED <<disk, writer, writes>>

Rename(r) ==
    /\ At(r, "rename")
    /\ Put(r, req[r].temp)
    /\ Answer(r, TRUE)
    /\ UNCHANGED <<faults, writes>>

Unlink(r) ==
    /\ At(r, "unlink") /\ InWorkspace(r)
    /\ IF disk = Absent THEN Answer(r, FALSE) /\ UNCHANGED <<disk, writer>>
                        ELSE Put(r, Absent) /\ Answer(r, TRUE)
    /\ UNCHANGED <<faults, writes>>

\* O_EXCL: the file is there, empty, before its content is.
Create(r) ==
    /\ At(r, "check") /\ InWorkspace(r) /\ Is(r, "create")
    /\ \/ /\ disk = Absent
          /\ Put(r, r) /\ Goto(r, "fill")
          /\ UNCHANGED <<lock, faults, writes>>
       \/ disk # Absent /\ Refuse(r)

\* What is written goes to the file that was created, whatever the path names by now.
Filled(r, value) ==
    IF disk = r THEN Put(r, value) ELSE UNCHANGED <<disk, writer>>

Fill(r) ==
    /\ At(r, "fill")
    /\ \/ Filled(r, req[r].content) /\ Answer(r, TRUE) /\ UNCHANGED faults
       \/ Fault("short") /\ Filled(r, Partial) /\ Answer(r, TRUE)
       \/ Fault("write") /\ Filled(r, Partial) /\ Answer(r, FALSE)
    /\ UNCHANGED writes

------------------------------------------------------------------------------
(* The files API.                                                             *)

Upload(r) ==
    /\ At(r, "temp") /\ ~InWorkspace(r)
    /\ \/ /\ req' = [req EXCEPT ![r].temp = req[r].content, ![r].step = "command"]
          /\ UNCHANGED faults
       \/ Fault("execd") /\ Goto(r, "cleanup")
    /\ UNCHANGED <<disk, writer, lock, writes>>

\* The replacement runs as a command, whose failure Execd does not report.
Command(r) ==
    /\ At(r, "command")
    /\ \/ Put(r, req[r].temp) /\ Goto(r, "verify") /\ UNCHANGED faults
       \/ Fault("silent") /\ Goto(r, "verify") /\ UNCHANGED <<disk, writer>>
       \/ Fault("execd") /\ Put(r, req[r].temp) /\ Goto(r, "cleanup")
       \/ Fault("execd") /\ Goto(r, "cleanup") /\ UNCHANGED <<disk, writer>>
    /\ UNCHANGED <<lock, writes>>

\* Mutant: the command is trusted.
CommandTrusted(r) == TRUE
Written(r) == Download = req[r].content

Verify(r) ==
    /\ At(r, "verify")
    /\ \/ Written(r) /\ Answer(r, TRUE) /\ UNCHANGED faults
       \/ ~Written(r) /\ Goto(r, "cleanup") /\ UNCHANGED <<lock, faults>>
       \/ Fault("execd") /\ Goto(r, "cleanup") /\ UNCHANGED lock
    /\ UNCHANGED <<disk, writer, writes>>

\* Mutant: a replacement that failed keeps its lock.
Abandon(r) ==
    /\ At(r, "cleanup")
    /\ req' = [req EXCEPT ![r] = Idle]
    /\ UNCHANGED <<disk, writer, lock, faults, writes>>

Cleanup(r) ==
    /\ At(r, "cleanup")
    /\ Refuse(r)

\* The calls of Execd that delete the file and that write a new one.
Effect(r) == IF At(r, "unlink") THEN Absent ELSE req[r].content

Execd(r) ==
    /\ At(r, "upload") \/ (At(r, "unlink") /\ ~InWorkspace(r))
    /\ \/ Put(r, Effect(r)) /\ Answer(r, TRUE) /\ UNCHANGED faults
       \/ Fault("execd") /\ Put(r, Effect(r)) /\ Answer(r, FALSE)
       \/ Fault("execd") /\ Answer(r, FALSE) /\ UNCHANGED <<disk, writer>>
    /\ UNCHANGED writes

------------------------------------------------------------------------------
\* Pi's tools write and remove files under no lock.
AgentWrites(value) ==
    /\ writes < MaxWrites /\ writes' = writes + 1
    /\ disk' = value /\ writer' = Agent
    /\ UNCHANGED <<lock, req, faults>>

Crash ==
    /\ Fault("crash")
    /\ disk' = ReadFile
    /\ lock' = [k \in Keys |-> None]
    /\ req' = [r \in Requests |-> Idle]
    /\ UNCHANGED <<writer, writes>>

Serve(r) ==
    \/ Lock(r) \/ Check(r)
    \/ Temp(r) \/ Rename(r) \/ Unlink(r) \/ Create(r) \/ Fill(r)
    \/ Upload(r) \/ Command(r) \/ Verify(r) \/ Cleanup(r) \/ Execd(r)

Next ==
    \/ \E r \in Requests : AskWorkspace(r) \/ AskFiles(r) \/ Serve(r)
    \/ \E value \in Contents \cup {Absent} : AgentWrites(value)
    \/ Crash

Spec == Init /\ [][Next]_vars

\* Threads, tasks and Execd go on; a lock is given in the order it is asked for.
FairSpec ==
    /\ Spec
    /\ \A r \in Requests : SF_vars(Lock(r)) /\ WF_vars(Serve(r))

------------------------------------------------------------------------------
Steps == {"idle", "lock", "check", "temp", "rename", "unlink", "fill", "upload", "command",
          "verify", "cleanup"}
Holds(r) == req[r].step \notin {"idle", "lock"}
Values == Contents \cup {Absent, Partial}

TypeOK ==
    /\ disk \in Values \cup Requests
    /\ writer \in Keys \cup {Agent}
    /\ lock \in [Keys -> Requests \cup {None}]
    /\ req \in [Requests -> [step : Steps, key : Keys \cup {None}, kind : Kinds \cup {None},
                             match : Values, content : Values, temp : Values, ok : BOOLEAN]]
    /\ faults \in 0..MaxFaults /\ writes \in 0..MaxWrites
    /\ \A r \in Requests : ~At(r, "idle") => req[r].key \in Keys /\ req[r].kind \in Kinds
    /\ \A r \in Requests, k \in Keys : (lock[k] = r) = (Holds(r) /\ req[r].key = k)

\* The steps that change a file the request has found as it expected it.
Compared(r) == req[r].step \in {"temp", "rename", "unlink", "upload", "command"}

\* What is about to be replaced, deleted or created over is what the request named: since it
\* looked, nobody has changed the file but Pi or a client under another key (require_if_match).
NamedIsReplaced ==
    \A r \in Requests : Compared(r) => ReadFile = req[r].match \/ writer # req[r].key

\* A whole file never turns into a part of one, however a replacement fails or ends, save by a
\* write that was short and not noticed (replace_file, update_text_file).
StaysWhole ==
    [][ReadFile' = Partial =>
         \/ ReadFile \in {Absent, Partial}
         \/ \E r \in Requests : At(r, "rename") /\ req[r].temp = Partial]_vars

Saves(r) ==
    ~At(r, "idle") /\ req'[r].step = "idle" /\ req'[r].ok /\ ~Is(r, "delete")

\* A success is answered with the content in the file, or the part of it a short write has left,
\* unless Pi or a client under another key has changed it since (replace_file, create_file,
\* update_text_file).
SavedIsThere ==
    [][\A r \in Requests :
         Saves(r) => disk' \in {req[r].content, Partial} \/ writer' # req[r].key]_vars

\* Every request is answered, whatever fails on its way and whoever held the lock before (locked).
RequestsEnd == \A r \in Requests : ~At(r, "idle") ~> At(r, "idle")

------------------------------------------------------------------------------
(* Promises the code does not keep: see the README on known disagreements.    *)

\* Whoever the other client is, the content named is the one replaced.
NothingLost ==
    \A r \in Requests : Compared(r) => ReadFile = req[r].match \/ writer = Agent

\* A success is answered only with the whole content in the file.
SavedIsWhole ==
    [][\A r \in Requests : Saves(r) => disk' = req[r].content \/ writer' # req[r].key]_vars

\* A reader never finds a file half written (get_content).
ReadersSeeWhole == ReadFile # Partial
==============================================================================
