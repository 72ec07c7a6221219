# Runner Manager and Bridge: specifications, model checks and proofs

This directory holds TLA+ specifications of the Runner Manager (`src/pi_opensandbox_manager`) and of
the Bridge that runs inside every sandbox (`src/pi_opensandbox_runner`), the configurations with which
TLC checks them on small instances, and proofs, checked by TLAPS, of what matters most for every
instance. `PROJECT.json` lists the runs, the source lines behind each definition, the hazards of the
code and the theorems.

## 1. The system

A *consumer* asks the **Manager** for an *instance*: a sandbox of OpenSandbox with a virtual model key
of LiteLLM. Inside the sandbox the **Bridge** runs one Pi process per session and keeps a journal of
its events. The Manager forwards sessions, turns, terminals and files to the Bridge through
OpenSandbox's proxy.

| component | state | operations | hard behaviour | what makes it correct |
| --- | --- | --- | --- | --- |
| instance API and queue (`instance_routes`, `short_transactions`) | `manager_runner_instances`, `manager_operations` | ensure, reconcile, stop, destroy | reads and writes of a handler and of two threads between each other | one active operation of a kind; a key for what runs and none for what is stopped; a state is left behind by two known races only |
| worker (`long_tasks.OperationExecutor`) | snapshot of the row; sandboxes; keys | claim, load, provision, stop, fail | lost answers, crashes, stale snapshots, retries | ends; delivers what it loaded; leaves no key after a stop, no second sandbox |
| monitor (`SandboxRecoveryMonitor`) | list of candidates, one observation | check_once | acts on an observation that has aged | notices every death, recovers only the dead |
| sessions and turns (`session_routes`, `turn_routes`) | session and turn bindings | ensure, prompt, refresh, cancel, delete | a bridge call between two database sessions | a turn runs once, its status is the truth, terminal states are final |
| terminals (`terminal_routes/`) | terminal bindings, tickets, live connections | create, ticket, connect, close, clean up | limits checked before an await, late disconnects | limits hold, tickets are used once and die with their terminal, a lifetime is a bound |
| catalog (`catalog_config`, `factory`) | policies, models, revisions; the reload loop | load, sync, pin | instances pinned to old revisions, invalid files | what is published is the last valid file, what is pinned stays |
| Bridge supervisor (`rpc/`) | process map, locks, generation | get_or_start, stop, reload, reap, exit handler | seven coroutines on one map, locks held across awaits | no lost process, no lock cycle, no turn cut off |
| event journal (`journal.py`) | segments, sequence numbers, conditions | append, read, wait, delete | rotation under readers, missed wake-ups | no gap, no loss, cursor expiry is reported |
| Bridge catalogs (`catalog/`, `model_catalog.py`) | session table, model file | create, set_runtime, migrate, replace | file and table replaced in two steps | sessions name allowed models |
| files (`workspace_file_routes.py`, `file_routes.py`) | files, per-path locks | conditional read, write, delete | a check and a write around an await, writes that fail half way | no lost update, no half file |
| proxies, clients, configuration, scripts | none of their own | forwarding | - | not modelled: pure input and output |

Interactions: the API and the worker share two tables; the worker and the monitor are threads of the
same process; the Manager's handlers are coroutines of one event loop that give up control only around
bridge calls; the Bridge is one event loop in which locks are held across awaits; Manager and Bridge
exchange requests whose answers may be lost.

## 2. Modules and their order

| module | models | kind |
| --- | --- | --- |
| `Lifecycle` | what the instance API promises, with no queue, worker or sandbox | abstract specification |
| `Operations` | API, queue, worker, monitor, OpenSandbox, LiteLLM, crashes | detailed specification |
| `Operations_proofs` | the inductive invariant and its consequences, what a provision delivers, that `Operations` implements `Lifecycle`, the retry budget, the account of the sandboxes | proofs |
| `Turns` | sessions and turns of one ready instance, and the Bridge sessions behind them | detailed specification |
| `Turns_proofs` | the inductive invariant of `Turns` and its consequences | proofs |
| `Supervisor` | the Bridge's Pi processes, with the routes that use them | detailed specification |
| `Supervisor_proofs` | who has a lock, a session's one process, no lock cycle | proofs |
| `Terminals` | web terminals: rows, tickets, relayed connections, the cleanup loop, the PTYs | detailed specification |
| `Terminals_proofs` | a ticket opens one connection, and none after a deletion | proofs |
| `EventJournal` | the journal of a Bridge session, its rotation, its streams and its deletion | detailed specification |
| `EventJournal_proofs` | nothing lost or twice for a reader, the end is kept, a deletion that ends leaves no journal | proofs |
| `ModelCatalog` | the models of a Bridge, their replacement, and the prompts that depend on them | detailed specification |
| `ModelCatalog_proofs` | no lost replacement; a prompt meets its system prompt and a catalog Pi has read that was in place meanwhile, unless a start was overtaken | proofs |
| `WorkspaceFiles` | one file under the two file APIs of the Bridge, and Pi beside them | detailed specification |
| `WorkspaceFiles_proofs` | no lost update, no half file, no false success | proofs |
| `CatalogSync` | the Manager's catalog file, its published revisions, and what instances pin of them | detailed specification |
| `CatalogSync_proofs` | what is published is the last valid file; what an instance has pinned stays complete and stays the same | proofs |
| `MC*` | symmetry sets and bounded forms for TLC, one for each specification | model checking |

The order was: the life cycle of instances first, because every other part needs an instance that is
ready and because its queue, retries, crashes and adopted sandboxes are the hardest code of the Manager;
then turns, which the consumer sees; then the supervisor, on which the turns rest; then what stands
beside them. The modules are checked apart because they do not write each other's state. `Operations`
and `Turns` share the tables of the Manager but not a single column that both write (a turn needs a
ready instance, an operation never looks at a session). `Turns` sees the Bridge through its answers,
which `Supervisor` gives. `CatalogSync` has of an instance only the policy that an ensure reads and
stores. `ModelCatalog` has the restart of a process that `Supervisor` has with
its locks, and adds what the process is started with.

Plan for what is left, most important first:

1. `Supervisor` with `EventJournal`: a retry relies on the acceptance record of its prompt, which
   rotation may have removed.
2. Abstract specifications of the journal (a log of which a reader sees a gapless suffix) and of the
   supervisor (a session is down, up or in between), with the proofs that the detailed ones implement
   them. Every invariant and every action property of the runs is proved.
3. Which sandboxes can be left behind when answers are lost: at most those whose creation was not
   recorded.
4. Pure modules: keyset pagination against the list it enumerates, trusted proxy addresses.

## 3. How the modules correspond to the code

### Operations

A session of the database holds no transaction while it reads: `autoflush` is off (`database.py:34`),
the driver begins one at the first write, and no unique index stands behind the search for an active
operation. So what a block reads and what it writes are steps of their own, and so is every upstream
call. A handler of the API has no `await`, so one handler runs at a time; the worker and the monitor are
threads (`factory.py:59`, `74`), and may commit before any of a handler's steps and of each other's. What
a block has read stays in `api`, in `exec.seen` or in `monitor.url`, and what it writes rests on it:
an attribute that is set to the value it was loaded with is not in the UPDATE (`Updated`), so an end
that wants "ready" and has read "ready" leaves whatever stands there by then.

| variable | code |
| --- | --- |
| `inst` | `manager_runner_instances`: state, policy, sandbox id, bridge url, credentials |
| `ops` | `manager_operations` in `created_at` order: kind, status, attempt, whether `available_at` is in the future |
| `api` | the request at hand, with the row's state as the handler has read it and the operation its search found |
| `exec` | the locals of `OperationExecutor`: the operation, the snapshot of `_load`, the sandbox at hand, the next step, the row as the session that ends the operation has read it |
| `monitor` | the locals of `SandboxRecoveryMonitor.check_once` and of `enqueue_sandbox_recovery` |
| `boxes`, `key` | OpenSandbox's sandboxes with the credentials and models they were created with; LiteLLM's key of the instance's alias |

API: `Create` is an ensure that finds no row; `Ensure`, `Reconcile` and `RequestStop` read the row,
`Search` looks for an active operation, `Store` writes the row and a new operation. Worker: `Claim`,
`Load`, then for a provision `ClearKey`, `GenerateKey`, `ReplaceSandbox`/`ForgetSandbox`,
`InspectSandbox`, `DiscardSandbox`, `FindSandbox`, `CreateSandbox`, `RecordSandbox`, `WaitRunning`,
`WaitBridge`, `ReplaceModels`; for a stop `DeleteSandbox`, `RevokeKey`; at the end `SeeRow`, then
`CommitReady`, `CommitStopped` or `Fail`; and `RetryDue`. Monitor: `ListCandidates`, `PickCandidate`,
`Observe`, then `ConfirmReady`, `ConfirmIdle`, `EnqueueRecovery`. Environment: `Rejected` and the lost
answers of the calls, `SandboxStarts`, `SandboxDies`, `Crash` (the locals are gone, the tables stay,
startup resumes nothing), `WorkerDatabaseFails` and `MonitorDatabaseFails` (a refused session fails the
operation, or, in the claim, in `_fail` or anywhere in the monitor, ends the loop, which catches nothing).

Abstractions: the bridge token and the LiteLLM key are drawn together everywhere in the code, so one
credential generation stands for both; policies are published revisions (a policy that cannot be found
in `_load` cannot happen, since `ensure` has checked it and revisions stay); operations are committed in
the order of `created_at`; the claim stays one step, for nothing else writes an operation that is
pending; `phase` and problem texts are only displayed; waits may always time out; a LiteLLM deletion
answered with 404 is a rejected call.

### Turns

A handler is a coroutine: an atomic first part, a call to the Bridge, an atomic last part. What the
first part has read stays in `call[r]` and may be stale in the last one. `binding` is
`manager_session_bindings` (row ids are never reused), `turns` is `manager_turn_bindings`, `bridges` the
Bridge's sessions. `PutSession`, `CreateBridgeSession`, `RecordBridgeSession` are `put_session`;
`SubmitTurn`, `Prompt`, `ConfirmTurn`, `FailTurn` are `put_turn`; `RefreshSession`, `ReadStatus`,
`ApplyStatus` are `get_session`; `CancelTurn`, `Abort`, `ApplyCancel` are `cancel_turn`;
`DeleteSession`, `RemoveBridgeSession`, `ApplyDelete` are `delete_session`. Calls may be refused, or
take effect and lose their answer; Pi may die; `Crash` ends all handlers.

Abstractions: inputs and titles (a second input for a turn id is refused and changes nothing), the
session ids of migrated data, listings; the Bridge's session list is taken as complete, although the
client asks for 200.

### Supervisor

One event loop: a step is what runs between two suspensions that matter. Session and command locks are
queues, first come first served, whose head holds the lock; the map lock is never held across a
suspension. `task` holds the locals of each request and of the reaper, `procs` every process ever
spawned, `registered` the map `self.processes`.

`Prompt`, `Lookup`, `GetOrStart`, `Spawn`, `Boot`, `Settle`, `Send`, `Record` are the prompt route with
`get_or_start` and `_reserve_capacity` inside; `Stop`, `AbortFails`, `Terminate`, `Stopped` are
`SessionSupervisor.stop` on behalf of a stop, a deletion, an eviction, a restart, a reload or the reaper
(`task[t].next` says which); `StopSession`, `DeleteSession`, `Erase`, `Reload`, `Reap`, `Loop` are the
rest of the routes and loops; `PiStarts`, `PiEnds`, `Exits`, `Exited` are Pi and the reader of its
output, which ends in `_process_exited`.

Abstractions: a write to the catalog or the journal belongs to the step that makes it; which idle
process is the oldest, and when one has been idle for long, is any; the other causes of a restart
(system prompt, model catalog) are those of a reload; the calls to Pi in a row before the prompt are
one; the request ids of events, `close()` and the routes that only read are left out.

### Terminals

Handlers are coroutines: an atomic first part, a call to the Bridge, an atomic last part. `row` is the state
column of `manager_terminal_bindings`, `tickets` every ticket issued, `conn` the WebSocket handlers, `sweep`
the locals of `cleanup_terminals`, `pty` the PTYs in the sandbox. Requests: `Begin`, `Upstream`, `Store` for
create, read and delete; `IssueTicket`, `ExpireTicket`; `Connect` presents a ticket, `Attach`, `Reject`,
`BreakHandshake` are the dial to the Bridge, `Leave`, `TimeOut`, `ShellExits` the ends of a relay and
`Finish` what the handler stores after it; `Sweep`, `SweepDelete`, `SweepClose` are the cleanup, terminal by
terminal; `Restart` is a crash and the start after it. `GoDown` and `ComeUp` are the instance, which comes
back with or without its PTYs.

Abstractions: the bytes and offsets of the relay; origins and secrets; clocks, so a lifetime, a ticket or
the retention of an idle terminal may end at any moment.

### EventJournal

`seq` is `sessions.event_seq`, `segments` the files by the number in their names, `torn` the segments whose
last line has no end, `lock` the session's journal lock. `Acquire`, `Number`, `Write` are `append`: the
number comes from the database, which suspends, and the write, the rotation and the wake-up are one stretch
of the event loop; `Tear` is a write that fails half way. `Open`, `Read`, `Wait`, `TimeOut`, `Disconnect`
are the event stream, whose client is the Manager's batch reader or a browser. `DeleteRow`, `Unlink`,
`DeleteJournal` are the three parts of a deletion in the order of `session_routes.py`, of which the second
may fail and leave the file and the journal; `Restart` is the crash and `reconcile_files`.

Abstractions: a line is one unit of size and carries the number of its event; a full disk leaves part of
a line. A client that is told its cursor has expired opens the next stream at `oldest_cursor`.

### ModelCatalog

`file` is `models.json`, `row` the model and system prompt of a session, `saved` the model in Pi's own
file, `proc` the process with the fingerprint it was started under (`print`), the catalog it has loaded
and the settings it works with. `Replace`, `Matches`, `Write`, `Migrate` are the model route; `Create`,
`StoreRow` the creation of a session; `SetPrompt`, `StorePrompt` the system prompt; `Prompt` to `Give`
the prompt route, suspension by suspension; `PiLoads`, `PiSwitches` are Pi. `Spawn` creates the process
and `Fingerprint`, when the event loop comes back to the request, takes the fingerprint of the file
(`process.py:114`, `129`): Pi may read the file before or after that, and a replacement may come between
the two readings. `overtaken` is history: it says that one did. A replacement that cannot sync the
directory fails with the file replaced and no migration.

Abstractions: a catalog is its set of model ids, and so is its fingerprint; the order in which a lock is
given is open.

### WorkspaceFiles

`disk` is what the path names: nothing, a content, or the file a request is still filling (`O_EXCL`
makes it visible empty). `lock` is `_file_locks`, with one key for the workspace API and one for each
spelling of the path in the files API, as in the code. `Temp`, `Rename`, `Create`, `Fill` and the
removal are the workspace API; `Upload`, `Command`, `Verify`, `Cleanup` the files API through Execd;
`AgentWrites` is Pi. `writer` is history: who changed the file last.

Abstractions: a content is its ETag; a refusal is one, whatever its status; owner, mode and ranges are
left out. Assumptions on Execd, which is external: an upload writes the whole file or nothing, and a call
that fails had its effect or none.

### CatalogSync

`models` and `policies` are the rows with their revisions and states, `applied` is `catalog_hash`,
`loop` the start of the Manager and `catalog_reload_loop`, `pinned` the `policy_id` of an instance,
`ensuring` the policy an ensure has read and not stored yet. `Sync` gives the rows after
`sync_catalog`, which is one transaction; `Boot`, `BootSync`, `Reload`, `Apply` are `factory.py`;
`EnsureRead`, `EnsurePin` the two parts of an ensure; `Pinned` the rows `_load` finds for an instance.

Abstractions: all that a model says besides its slug is a version, and likewise for a policy besides its
models; a file that is invalid for any reason is `Invalid`. `app.state.catalog_error` is only displayed
(it stays when an invalid edit is taken back, for the hash is then the one applied before).

## 4. Runs

Every run ends in a few minutes. `CHECK_DEADLOCK FALSE` stands in all of them because the bounds on
requests and faults let a behaviour come to rest, as a system without requests does.

| run | question | instance |
| --- | --- | --- |
| `ops_safety` | when is a state left behind? are keys revoked, promises kept, attempts counted? does it implement `Lifecycle`? | 1 instance, 2 policies, 2 operations of the API and the recoveries, 1 fault of any kind |
| `ops_sandboxes` | is there one sandbox at most, none after a stop, and is the ready one watched? | 1 policy, 3 operations of the API, 1 rejected call or death |
| `ops_live` | does every operation end, is every death noticed? | 2 instances sharing the worker, 2 operations of the API, 1 rejected call, lost answer or death |
| `turns_races` | two requests of any kind over two turns, or over one turn of a session that is deleted and created again | 2 turns and 1 row, or 1 turn and 2 rows; 1 fault of any kind |
| `turns_single` | do submissions and turns end? | 1 request at a time, 2 turns, 2 rows, 2 faults, no crash |
| `sup_races` | is a process unique, never lost, and is every lock given back? | 2 sessions, 1 slot, 2 requests and the reaper, 1 fault of any kind |
| `sup_twice` | known disagreement, section 6 | 1 session, 2 requests, no fault |
| `term_races` | are tickets used once and revoked, is a lifetime a bound? | 1 terminal, 1 request, 2 browsers, 2 tickets, 2 faults of any kind |
| `journal` | does a reader receive every event once, is the end kept, is nothing left of a deleted session? | 2 appenders, 1 stream, 2 segments of 2 lines, 6 events, 2 of a crash, a torn line, a disconnect, a failed unlink |
| `models` | are conditions kept, and does a prompt meet a Pi that has the right settings? | 1 session, 2 requests, 2 models, 2 prompts, 3 replacements, 1 fault of any kind |
| `files` | no lost update, no half file, no false success? | 2 requests, 2 APIs, 2 contents, 1 write of Pi, 2 faults of any kind |
| `catalog` | is the last valid file published, and does what is pinned stay? | 2 models in 2 versions, 1 policy, 1 instance, 2 edits, 1 fault of any kind |

Why the bounds are enough: `MaxRequests` counts the operations that the API inserts, while requests that
join one, and recoveries, come besides; an operation interacts with at most one other of its instance, a
recovery that overtook it or a stop that came meanwhile, so two operations and a recovery meet in every
order, and with the three of `ops_sandboxes` an instance is brought up, stopped and brought up again; a
retry limit of 2 is reached and exceeded with the faults of one behaviour and the waits that end by
themselves; a row is created again once; stale results need two requests, one holding an old observation;
one slot and two sessions make every start an eviction or a refusal; two browsers contend for one ticket and
for one terminal, and a second ticket is issued after the first is revoked; six events in segments of two
remove the oldest segment twice, under a reader that has come to it or not; three replacements overtake a
prompt that is under way, or put back the catalog a process was started under after Pi has read another; two
edits retire a model and bring it back. A second version of a policy (`PolicyVersions = {1, 2}`) passes as
well and takes four minutes. `MaxFaults`, `MaxRequests`, `MaxCredentials`, `MaxBindings`, `MaxServed`,
`MaxTickets`, `MaxEvents`, `MaxReplaces`, `MaxWrites` and `MaxEdits` bound the state space only; no guard of
the code depends on them.

Further configurations pass and are kept beside the runs: `sup_single` (the promises of the supervisor
that hold when requests come one at a time), `sup_locks` (`NoLockCycle` with three sessions that make
room for one another), `files_live` and `models_live` (every request is answered).

Every property has a mutant: an operator beside the definition it replaces, marked *Mutant*, that
changes the code the way a plausible bug would, with which TLC finds the property violated. A property
of several parts (`SandboxesAccounted`, `OneKnownProcess`, `RetentionHolds`, `PromptApplies`) has more
than one beside it; `PROJECT.json` names one.

## 5. Fairness

`Operations!FairSpec`: the worker and the monitor are loops that `lifespan` starts, and the clock reaches
`available_at`; requests, faults and OpenSandbox are owed nothing (a wait ends at its own deadline). The
loops catch nothing (`factory.py:57-64`, `72-78`): what upstream calls raise is caught inside `execute_next`
and `check_once`, but a refusal of the database in the claim, in `_fail` or in the monitor ends a loop until
the Manager is restarted. `ops_live` therefore leaves out `"database"` and `"crash"`, and `ops_stuck` shows
what each of them does. `Turns!PolledSpec`: a handler is served until it ends, since a call has a timeout;
Pi works on what it accepted; and a consumer polls, as `docs/api/turns.md` tells it to (strong fairness of
`RefreshSession`, which other requests disable now and then). `Supervisor!FairSpec`: coroutines are
scheduled, calls of Pi have a timeout, a terminated process is killed after its grace period and its reader
comes to the end. Nothing is assumed of a process nobody terminates.

`Terminals!FairSpec`: lifetimes end, the cleanup loop runs on (it catches what a terminal raises), and a
handler that holds an answer stores it; browsers and requests are owed nothing. `EventJournal!FairSpec`:
appenders, streams and the rest of a deletion are tasks of the event loop, a wait ends after fifteen
seconds, and a client reconnects. `CatalogSync!FairSpec`: the Manager is started again after a crash, and
its loop goes on; that a valid file is applied is asked only when it is no longer edited.
`ModelCatalog!FairSpec` and `WorkspaceFiles!FairSpec`: tasks, threads and calls come to an end, and a lock
that is free again and again is got (`asyncio.Lock` serves in the order of asking).

That fairness is enough for `RequestsEnd` rests on the locks of `Supervisor`: they are never waited for
in a circle, although a start waits for another session's lock while it holds its own (`NoLockCycle`,
proved in section 7).

## 6. Known disagreements between the code and what it says

One is a run of the project and listed as a finding: `sup_twice` (a retry enters between Pi's acceptance
and its record, and Pi gets the prompt twice). The modules state further properties that TLC refutes with
the configurations below, where several are named in one file to be enabled one at a time; they are kept
for whoever repairs the code.

| configuration | property | what happens |
| --- | --- | --- |
| `ops_refuted` | `ReadyIsCurrent` | an `ensure` during a provision is swallowed: the instance gets ready with the old policy |
| `ops_refuted` | `TransitionalIsOwed` | a reconcile or an ensure finds an active provision, the worker ends it, and the request then stores "provisioning" with nothing under way, for good (`short_transactions.py:122`, `instance_routes.py:128`); or the end has read "ready" before a request stored "provisioning", and so does not write it (`long_tasks.py:274-289`) |
| `ops_refuted` | `OneActivePerClass` | the monitor finds no active operation, a request inserts a provision, and the monitor inserts its recovery (`short_transactions.py:154-171`): the recovery replaces the sandbox the provision has just brought up |
| `ops_refuted` | `StoppedHasNothing` | an ensure reads "provisioning" while a stop waits behind the provision; when both have ended it stores fresh credentials and an operation of its own, but not "provisioning", which is what it has read: the row says stopped until that operation ends |
| `ops_stuck` | `AllOperationsEnd` | an operation that runs when the Manager dies is never ended; nor is any operation once an error of the database has ended the worker's loop (`factory.py:57-64`, with `Faults = {"database"}`) |
| `ops_refuted` | `StoppedIsClean` | a sandbox adopted after a lost creation is not recorded, so a stop leaves it running |
| `ops_refuted` | `StoppingRefusesSessions` | a provision that commits after a stop was accepted makes the instance reachable again |
| `ops_refuted` | `StopsSucceed` | a stop or destroy of an instance that is down fails for want of credentials |
| `ops_refuted` | `RecoversOnlyTheDead` | a recovery is queued for a sandbox that has meanwhile been replaced |
| `turns_refuted` | `TerminalIsFinal` | a cancel overwrites a finished turn, a late answer a cancelled one |
| `turns_refuted` | `SucceededIsDone` | a refresh before `agent_start`, or after Pi's death, reports success |
| `turns_two_active` | `OneActiveTurn` | two concurrent submissions of different turns are both accepted |
| `turns_two_bridges` | `OneBridgeSession` | a retry during the first `put_session` creates a second Bridge session |
| `turns_stuck` | `SubmissionsEnd` | a turn stays queued when the Manager dies before the Bridge's answer |
| `turns_shared` | `OwnBridgeSession` | two sessions of one directory are one Bridge session |
| `sup_capacity` | `CapacityRespected` | two sessions that start at once take one slot |
| `sup_refuted` | `DeletedIsGone` | a deletion during a start stops nothing |
| `sup_refuted` | `ReaperRuns` | a deletion during a stop makes the journal raise, which ends the reaper |
| `sup_refuted` | `ToolsAreFresh` | a reload passes by a process that is being started, and marks it fresh |
| `sup_refuted` | `StopsOnlyIdle` | a process seen idle generates by the time it is terminated |
| `sup_hung` | `StopStops` | a Pi that does not answer the abort is not stopped: `TimeoutError` is no `RpcError` |
| `term_limit` | `LimitRespected` | two creations pass the check on the limit before either inserts its row |
| `term_refuted` | `DeletedIsGone` | the end of a lifetime closes the row and leaves the PTY, and the deletion of a closed row does not ask the Bridge (`crud.py:271`) |
| `term_refuted` | `ClosedIsFinal` | a late disconnect or a stale status reopens a closed row (`lifecycle.py:30`) |
| `term_refuted` | `CleanupSparesBrowsers` | a cleanup round acts on a list made before a browser came |
| `journal_refuted` | `AppendedIsReadable` | a line without end makes the line after it unreadable |
| `journal_refuted` | `RetainedIsReceived` | a client whose cursor expired is told `oldest_cursor`, the number of the first event kept, but a cursor is exclusive: starting there, it never gets that event (`journal.py:74-86`, `session_runtime_routes.py:113-118`) |
| `journal_revived` | `ReceivedOnce` | a crash halfway through a deletion, or a restart after an unlink that failed: `reconcile_files` revives the session and numbers from 0 over the old journal (`store.py:220`, against `docs/architecture/events.md`) |
| `models_refuted` | `SessionsAreListed` | a session is created with a model of the old catalog: checked before the replacement, inserted after the migration |
| `models_refuted` | `UsedWasListed` | a prompt passes the check before a replacement and is answered by a Pi that has the old catalog |
| `models_refuted` | `LoadedIsCurrent` | the fingerprint of a process is taken when the event loop comes back from creating it (`process.py:114-129`), not when Pi reads the catalog: a replacement between the two, also one that a third takes back, leaves a Pi with a catalog that no prompt was to see, and no prompt notices |
| `models_refuted` | `ReportedIsUsed` | a resumed Pi keeps the model of its own file, the row names another (`process.py:82`) |
| `files_refuted` | `NothingLost` | the two file APIs, and two spellings of a path, have different locks (`workspace_file_routes.py:184`, against `docs/api/idempotency.md:23`) |
| `files_refuted` | `ReadersSeeWhole` | a read takes no lock, and a creation is visible before it is filled |
| `files_refuted` | `SavedIsWhole` | the result of `os.write` is ignored (`workspace_file_routes.py:140`, `159`) |
| `catalog_dead` | `FileIsAlwaysApplied` | an error of the database ends the reload loop (`factory.py:91`, against `docs/deployment/manager-configuration.md:37`) |

Two more were met while modelling: a process that never answers `get_state` is left running outside the
map (`process.py:133`), and a process that dies while its start is being recorded leaves its session
stored as `idle` (`supervisor.py:116`).

## 7. What is proved

All proofs hold for every value of the constants, bounds included, from the named assumptions of the
modules only (policies and limits are numbers, the reaper is no request, and so on).

**`Operations_proofs`.** `IInv` is the conjunction of `TypeOK`, `ThreadsAgree`, `OneActivePerKind` and
`StoppedIsRevoked`. `ThreadsAgree` is what makes the others inductive. The worker's operation is running
and of the kind its step belongs to (`Working`). What a provision has loaded and registered is its own
(`Loaded`, `KeyFollows`), which gives that a stopped instance without a provision under way has no key.
And what has been read and not yet written is true as far as it is relied on: of the end of an operation
(`SeenHolds`: only requests of another kind, or a recovery, have changed the row since), of a request
(`Asking`) and of the monitor (`Watching`). `OneActivePerKind` needs the last two: of each kind of
operation only one party inserts, the API or the monitor, and each party searches in vain before, so what
another thread commits in between is of another kind. That this is all one gets, and not one operation of
a class, is in section 6. The proof has one lemma per kind of step, for the types, the tables and the
threads. Theorems: `Inductive`, `TypeCorrect`, `SnapshotsHold`, `Deduplicated`, `RevokedWhenStopped`.

`NeverAbandoned` says which steps leave an instance in a transitional state with nothing under way that
would end it: only "provisioning" can be left so, and only by a request that stores it when the operation
it found has ended, or by the end of an operation that had read the state it wants before a request
changed it. It follows step by step from `IInv`.

Implementation of `Lifecycle`. `Implements`: `Spec => ImplementsLifecycle` with the mapping `life` = the state
column, `owed` = the kinds of the active operations, `granted` = whether the key is registered. Each
step of the worker maps to a step of `Lifecycle` or to none; the end of an operation removes exactly one
kind, thanks to `OneActivePerKind`, also when a recovery stands beside a provision. `Lifecycle` says
openly what stale reads cost: a request may join what has ended meanwhile, and an end may leave the state
to a request that came since. `WithinBudget`: the attempts of an operation count its executions
(the invariant `Counted` relates `attempt` to the status), and ended operations never change.

What a provision delivers. A provision may end with a sandbox it did not create, the recorded one or one
that OpenSandbox lists, and the worker compares its credentials, never its policy. `DInv` says why that
is enough: a credential generation is paired with one policy wherever it is stored, in the row, in the
worker's snapshot and in every sandbox (`Generations`), because only an ensure pairs them anew and then
draws a fresh generation. The sandboxes of rows and snapshots belong to their instance (`OwnSandboxes`,
`WorkerBoxes`). `ProvisionsDeliver` follows at the commit. `ReadyHasItsKey` follows because a key changes
only in an operation under way for its instance, and of the three ways an operation ends only the commit
of a provision leaves the instance ready (`ReadyHolds`).

The account of the sandboxes. `SandboxesAreAccountedFor` assumes
`Faults \cap {"lost", "crash", "database"} = {}`: when the answer of a creation is lost, or the Manager dies
or its database refuses before it records it, OpenSandbox has a sandbox that no row names, and a stop
leaves it running (`StoppedIsClean` in section 6). Without these faults, and with refused calls, dying
sandboxes, time-outs, retries and stale reads, `AInv` is inductive: every sandbox that lives is the one
recorded, or the one the worker is about to record (`Recorded`); at each step of an operation what the
worker holds is what the row says, and after its clearing steps nothing lives (`Known`). A ready instance
may have a recovery under way, one the monitor inserted beside a provision that has ended since, and that
recovery forgets the sandbox of an instance that is said to be ready. So the theorem speaks of instances
with nothing under way: when the recovery ends, the row has the new sandbox and its url, or says failed.

**`Turns_proofs`.** `IInv` adds to `TypeOK`, `ActiveIsRunning` and `SubmittedOnce` what makes a late answer
harmless: row ids are drawn once and belong to one session (`Rows`, `Owner`), and the turn of a
submission under way is queued or cancelled while its row lives (`Pending`). Theorems: `InvariantHolds`,
`TypesHold`, `ActiveTurnsRun`, `SubmissionsAreSingle`, `FinishedTurnsStay`. `ReportedTurnsWereAccepted`
needs `AcceptedInv` besides: the turn of a submission that was answered "accepted" is among those the
Bridge session it was sent to has accepted. No step shrinks what a Bridge session has accepted, deleted
or not (`BridgesGrow`), and a turn is reported running or succeeded only by such a submission or when
it was reported running before (`ReportsAreJustified`).

**`WorkspaceFiles_proofs`.** `IInv` is the conjunction of `Typed`, `Excluded`, `Own` and
`NamedIsReplaced`. `NamedIsReplaced` rests on the lock: whoever has compared the file holds the lock of
its key until its last step (`Excluded`), so a request that changes the file under the same key cannot be
between its comparison and its end. A file in the making belongs to the request that creates it and to
nobody else (`Own`), which is what `StaysWhole` and `SavedIsThere` need besides. Theorems: `TypeCorrect`,
`NamedIsReplacedHolds`, `StaysWholeHolds`, `SavedIsThereHolds`, for any number of requests, spellings,
contents and faults.

**`CatalogSync_proofs`.** `IInv` is the conjunction of `Control` (the variables of the loop), `RowsInv`
and `IdsExist`. `RowsInv` says that one row has a revision, that at most one row of a slug is published,
and that the revisions a policy names exist; it survives a synchronisation because a new revision is
above all revisions of its slug and no row is ever removed. `IdsExist`, that what is pinned or about to
be pinned names a policy in the table, then gives `PinnedIsLoadableHolds`; that rows change nothing but
their state gives `PinnedIsFrozenHolds`. `CatalogIsAppliedHolds` needs `LatestInv`: what is published is
the latest revision of its slug. So a synchronisation that finds a slug unchanged compares with the right
row, and retires every other one.

**`Supervisor_proofs`.** `IInv` says first who has a lock: the queue of a session has each task that
waits for or has its lock once, and a task between its locked steps is first there (`LocksInv`,
`CommandsInv`); so nobody gives up a lock that is not his. On the locks rests `WorksInv`: whoever starts a
process, or makes room for it, holds the lock of a session that has no live process, from the moment it
looked until the process is registered, and whoever stops one holds it until the process is dead. With
`Finds`, that the map and the table of processes agree, this gives `OneKnownProcessHolds`, for any
capacity, requests and faults. `NoLockCycleHolds` adds `EvictionsEnd`: of any tasks that wait to evict,
one waits for a session that none of them is starting. The eviction that began last is such a one, for its
victim was alive when it was chosen, and by `WorksInv` nobody was starting a process for it. That is all
a circle needs: who is first in the queue of a session's lock and still waits can only be an evictor, and
who is first in a queue of command locks and still waits does so for a session's lock.

**`EventJournal_proofs`.** `TypeInv` adds to the types which numbers can have been given (`NumbersInv`, a
crash may lose one) and what each part of a deletion has removed (`DeleteInv`), and holds whatever fails:
`TypesHold`, `DeletionHolds`. `JournalInv` holds if no restart finds Pi's file of a session whose row is
gone (`"halfway" \notin Faults`: a crash between the two, or any restart after an unlink that failed; with
one, the session is revived and numbered from 0 over the old journal, section 6). Its core: the journal's
lock makes the number an appender holds the next one (`Fresh`), so numbers grow along the files (`Grows`),
and a cursor tells exactly what a client has (`Seen`); whatever was stored since the oldest segment began is
there (`Retained`), the last line always (`EndIsThere`). Theorems: `ReceivedOnceHolds`, `RetentionIsKept`.

**`Terminals_proofs`.** `IInv` adds to the types that a live ticket belongs to a terminal and was never
used (`Unused`), which gives the bound of `TypeOK` on the connections of a ticket, and that requests and
handlers work for a terminal (`Calling`, `Connecting`). Rows are left out on purpose: the races write
anything into them. `TicketsRevokedHolds` follows because every way a deletion succeeds goes through
`Close`, in the step that answers it.

**`ModelCatalog_proofs`.** `IInv` says who is alone: the holder of the catalog's lock sees the file
unchanged from its comparison to its write (`Locked`), and of the requests of one session at most one
holds the command lock (`Commanded`), so between its look at the row and its answer nobody else changes
the row's prompt or the session's process. `Fine(r)` collects, per step of a request, what it has
established by then, and `Told` what a process's fingerprint tells of it: unless the start was overtaken,
it is the catalog Pi has read, so a prompt that finds it equal to the file finds a Pi that has that file.
Theorems: `TypeCorrect`, `ConditionHoldsAlways`, `PromptAppliesAlways`.

Only model-checked: liveness, as there is no ENABLED in the prover (`AllOperationsEnd`, `DeathIsNoticed`,
`SubmissionsEnd`, `RunningEnds`, `RequestsEnd`, `ExpiredIsClosed`, `LifetimeIsHard`, `StoredIsReceived`,
`FileIsApplied` and those of the further configurations); and the properties of `sup_single`, which hold
for one request at a time, that is, only under a bound of the model. Every invariant and every action
property of the runs has a theorem.

## 8. What is not modelled

- List routes and their cursors, and the rule for trusted proxy addresses: planned as pure modules, section
  2. They read only.
- Authentication, encryption and the resolution of secrets: lookups and library calls.
- Database, settings, request formats, migrations and the command line: declarations. The session blocks of
  `CatalogSync`, `Turns` and `Terminals` that read and write are single steps where only handlers of the
  event loop write the rows; where threads do, in `Operations`, they are not.
- Forwarding to a Bridge or to Execd (commands, the MCP configuration, directory listings, ranges): no state
  of their own. Of the file routes, what is conditional is in `WorkspaceFiles`.
- Of the Bridge's session routes: renaming, the settings route, abort, replay and listing; of the
  supervisor: `close()` at shutdown and the request id that events are tagged with.
- Container scripts, extensions and patches of third-party code.

`PROJECT.json` lists every component with its reason.
