# Verification of the Qodalis CLI server (Python)

TLA+ models of the server's stateful parts, the TLC runs that check them on
small instances, and theorems that TLAPS proves for every instance. Paths below
are relative to the repository root.

## The system

A FastAPI server runs commands for browser terminals. Its plugins add jobs,
users, file systems, audit, an admin dashboard and data sources. Everything
runs on one asyncio event loop: code between two `await`s is atomic, and
everything else may happen at an `await`. What is hard is therefore what is read
before an `await` and used after it, what a crash leaves in a store, and what
several requests, tasks and timers do to one object in an order nobody chose.

| Component | State | Operations | Hard part | What makes it correct |
|---|---|---|---|---|
| Job scheduler (`plugins/jobs/.../cli_job_scheduler.py`) | registrations (status, options, timer, runs, queued), run tasks | trigger, pause, resume, stop, cancel, update, delete, timer, run with retries, start, stop | slots shared by timers, triggers and ends of runs; cancellation races; crash recovery; saves in flight | limit, no lost wake-up, no slot leak, one timer per schedule, truthful history |
| Job storage (`in_memory_job_storage_provider.py`, `ICliJobStorageProvider`) | executions, job states | save, list, delete, prune, query | shared record objects; slow, failing or reordering stores | a finished record is final |
| Authentication (`plugins/users/.../auth_service.py`) | sessions, tickets, lockouts, rate windows | login, logout, verify, revoke, tickets | password hashing in a thread between check and use | no session for a disabled or deleted user; lockout holds |
| Accounts (`users_service.py`, `permissions.py`) | users, groups, API tokens | create, update, delete | check-then-act across stores; grants that add up | an enabled administrator always exists; no caller gains what nobody gave |
| Event and log sockets (`cli_event_bus.py`, `cli_event_socket_manager.py`, `session_bound_sockets.py`, `cli_log_socket_manager.py`) | sockets, outboxes, bindings | connect, publish, recheck, disconnect | session ends between check and binding; full outbox | nothing after the session ended; exactly one's own events, in order |
| Shell sessions (`cli_shell_session_manager.py`, `shell_security.py`, `shell_access.py`) | sessions, limits, child processes | authorise, register, relay, watch, close, terminate | several reasons to end at once; limits across awaits; processes that start others | one end, first reason, limits hold, no process left |
| Command execution (`cli_command_registry.py`, `cli_command_executor_service.py`, `cli_controller.py`, `mcp/`, `server_protection.py`, `module_registry.py`) | processors, filters, usage counters | register, find, execute, stream, call a tool | three routes to one command; clients that leave; permissions of nested commands | only what is permitted runs; counted and announced once |
| File system providers (`plugins/filesystem*`, `filesystem_controller.py`) | a tree of nodes, in five forms | read, write, mkdir, move, copy, remove | persistence; stores without directories; links and `..` | every provider is the same tree; nothing outside the roots |
| Audit and admin logs (`in_memory_audit_store.py`, `log_ring_buffer.py`) | bounded queues | add, query, page, histogram | eviction and paging at the same time; edges of ranges | the newest entries, none skipped, each counted once |
| Data explorer (`plugins/data-explorer*`) | one connection per request | query, schema | databases that hang or fail, timeout, row limits, seven drivers | answers are true, connections are closed, every query is answered |
| Job statistics, AWS, weather, dashboard pages | none of their own | map requests to the above or to external services | | |

The components meet at a few calls: the REST controllers and MCP tools call the
scheduler, the user services, the executor and the file providers; all of them
publish on the event bus; the event bus fills the sockets' outboxes; a change of
sessions, users or groups makes the socket and shell managers re-check their
sessions.

## Plan

1. Done: `JobSlots`, `JobScheduler`, `UserSessions`, with their proofs.
2. Done: `ShellSessions`, `FileTree` and `FileProviders`, `Accounts`,
   `Commands`, `Feeds`, `DataExplorer`.
3. Done: the safety properties of every module but those listed under "Only
   model-checked" as theorems, with the refinements of `JobSlots` and `FileTree`.
   No module of the project has a `RECURSIVE` operator.
4. Left out on purpose: see "Not modelled".

Each module is one component, or several that share state; where two modules
look at the same code (`users_service.py` in `Accounts` and in `UserSessions`)
each keeps the part of it that its properties depend on.

## Modules

### JobSlots

What the jobs plugin promises about concurrency, with three variables per job:
slots held, whether a due run waits, and the limit. The promises are its guards:
a run takes a slot only below the limit and never past a waiting run; a run
waits only while the job is full; the step that frees a slot hands it to the
waiting run.

### JobScheduler

`CliJobScheduler`, one action per stretch of code between two awaits.

* `phase`, `todo`, `stale` say where `start()` and `stop()` are. `StartBegin`,
  `ListStale`, `ListReturned`, `SaveStale`, `ScanFails`, `ScanEnd` and `LoadJob`
  are `start()`; the listing is read by the store in one step and compared with
  the running executions in a later one, because it is awaited in between.
  `Stop` and `StopEnd` are `stop()`, one job per step, each waiting for its save.
  `Crash` is the end of the process at any point: it forgets the registrations
  and tasks, and also the store when that is in memory.
* `status`, `opt`, `timers`, `runs`, `queued` are the fields of
  `JobRegistration`. `timers` counts live timer tasks, so that a task that is
  replaced without being cancelled would be seen. `runs` is a set of run ids;
  ids grow, so `reg.runs[0]` is the least.
* `pc`, `attempt`, `cancelled`, `outcome`, `jobOf` are the run tasks:
  *admitted* (slot taken, `job:triggered` being published), *launched*,
  *opening* (first save), *executing*, *saving* (last save), *persisting* (job
  state), *delaying* (retry delay), *retryDue* (the delay timed out, the task
  has not resumed), *done*. `execution_id` is set in *opening*, *executing* and
  *saving*.
* `store`, `doomed` are the history and the deletions that have passed their
  check; `saved`, `writes` the persisted status and the state writes in flight.
* `TakeSlot`, `StartQueued`, `Admit`, `Release`, `CancelRuns` are the methods of
  the same names, used by every action that calls them.

Abstracted: time (a timer, a timeout or a delay may end at any moment), names,
logs, properties, durations and event contents. The second save of
`_save_finished` (without properties) is part of `FinishSaved` when it succeeds
and of `FinishFails` when it does not. The loop of `start()` over the
registrations is one step per job; jobs share no state and no request is served
yet, so this adds nothing. API calls happen only while the scheduler is up,
because `start()` and `stop()` are run by the application's lifespan
(`demo/main.py`).

External: the store is whatever implements `ICliJobStorageProvider`. `Aliased`
is the in-memory store, which keeps the very object the run goes on writing to;
otherwise a store survives the process. `StoreInOrder` says whether state writes
are applied in call order, `StoreMayFail` whether a call may raise (a call that
raises has no effect).

### UserSessions

`AuthService` and the parts of `UsersService` that act on sessions, with the
event sockets bound to them. Every request, the sweep and every connecting
socket is a task, kept as the list of steps it has left (`task[p].script`): a
request is one action that writes the script (`Login`, `DisableUser`, ...), and
each step is an action of its own (`Reserve`, `ReadCredentials`, `Verify`, ...).
A handler that raises or returns early drops the rest of its script (`Abort`).

* `user`, `creds`, `owner`, `live`, `expired` are the user, credential and session
  stores; `lock` is `_lockouts`, `tickets` is `_tickets`; `sock`, `sockSess`,
  `due`, `half` are the bound sockets and their checks.
* `loop` is the task that runs. The shipped stores are coroutines that never
  suspend, so a task keeps the loop until it waits for the password thread, for
  `websocket.accept()` or for a message to be sent. `SlowStores` gives the loop
  away at every call, as a host's own store or event handler may.
* A socket's check is asked for by `request_recheck` and begins later. Checks of
  one socket that have been asked for and not begun count as one: they would
  read the same stores.
* `owed` and `lock[k].tried` are history: the sockets a revocation still has to
  tell, and the attempts let through since a lockout entry was last dropped.

Abstracted: time (sessions, tickets and locks expire whenever no task runs);
passwords (right or wrong, and wrong when there are no credentials); the caller's
own authentication and permissions in requests made by administrators; the
`mustChangePassword` gate, which only refuses requests; the re-hashing of legacy
passwords; the rate limit per address (a refused request is one not made). That
another enabled administrator exists is assumed, so `LAST_ADMIN` never refuses.

### ShellSessions

`CliShellSessionManager.handle_connection` and what runs beside it, one action
per stretch of code between two awaits.

* `pc[c]` is where the handler of a connection is; `Connect`, `Deny`,
  `Register`, `FirstCheck`, `Fork`, `Ready`, `EndRun`, `LingerEnds`, `Terminate`,
  `Reap` and `Finish` are its stretches. `fin` and `exit` are the tasks it waits
  for (output, input, watcher, `_wait_for_exit`), ended by `OutputEnds`,
  `ClientLeaves`, `WatchEnds`, `Wake` and `ExitSent`.
* `asked` is `close_event` with the reason it was first set for, `ended` is
  `end_reason`; `RequestClose` is `request_close`, called by timeouts, checks,
  `CloseAll` and the watcher.
* `cred` is what the users plugin answers for a caller, `note` a change event
  that has not reached the manager, `due` the checks asked for. `Change` and
  `Expire` are the two ways a session ends: with an event and without.
* `procs` are the live processes of a shell, `hit` those already signalled.
  `Spawn` starts a `job` (in the shell's process tree) or a `daemon` (out of its
  process group and tree, found only by the marker in its environment), also
  while signals take effect. A shell may be signalled, exit or be killed by
  others (`Dies`).

The address counted for the limit is chosen by `ForwardedClientIp` from a header
to which the client may have added an entry of its own. Abstracted: the bytes
relayed, terminal sizes, file descriptors; time, so that idle and maximum
duration may pass at any moment.

### FileTree, FileProviders

`FileTree` is what `IFileStorageProvider` promises: a tree, requests that do what
they say and announce it with one `fs:changed` event, or change nothing and
announce nothing; and, for the durable providers, a restart that changes nothing.

`FileProviders` has one operator per operation of each of the five providers
(`MemWrite`, `JsonWrite`, `SqliteWrite`, `S3Write`, `OsWrite`, ...), the routes
and MCP tools that call them (`Upload`, `MakeDirectory`, `RemovePath`), `copy` and
`move`, which only hosts call (`CopyFile`, `MoveFile`), and the routes that work on the
operating system's files when no provider is configured (`Legacy...`).
`Normalize`, `Resolve`, `Realpath` and `Allowed` are the treatment of paths;
`Caught` says which errors a route turns into an answer of its own, the others
are a 500. `CrashInSave` and `CrashInMove` are the process dying between the
truncation and the writing of the JSON file and between the two transactions of
the SQLite `move`; after the first the server does not start again, which is why
the run does not check for deadlock.

`View` is the refinement mapping: the tree itself, or what `stat` makes of the
objects and markers in the bucket. JSON and SQLite store text: `Replaced` gives the
contents that come back changed (undecodable bytes are replaced).

Requests do not overlap: the memory, JSON, SQLite and local providers do not
suspend, and the S3 provider is modelled for one client at a time. Copies and
moves go to free destinations outside their source (`FreeOnly`): a move onto
itself or into the own subtree loses data in the memory, JSON and SQLite
providers, a move onto an ancestor raises in the memory provider after it has
changed the tree, and a SQLite copy over a directory leaves orphans; no route or
tool of the server makes such a call. The model also keeps these peculiarities:
removing the root of the memory provider raises `NameError`
(`FileStoragePermissionError` is not imported); the upload, mkdir and rm routes
do not catch `NotADirectory`; non-recursive `rm` on S3 removes a directory
whose single object is the marker of a directory below; mkdir of the local
provider on an existing file reports success.

### Accounts

The routes of users, groups and tokens, each an operator that decides a request
on the state it reads (`Decide`) and says what it writes. With the repository's
stores the two are one step, except for passwords, which are hashed in a thread
in between (`Suspended`, `Resume`); `StoresSuspend` separates them for every
request. `Init` is the state after `seed()` and the creation by root of one more
account in one more group.

`theirs` and `given` are history. A coalition is a user or a token and every
account and token whose secret it has set; `given` are the permissions that
requests of others have let it have. `Credit` adds to it what such a request
gives, and `Obtained` what a request of its own brings into its hands.

Abstracted: names, expiry of tokens, the lockout and sessions (`UserSessions`).
Removing a user's tokens and its row is one step. Permissions have one or two
segments: `permission_matches` is not transitive for three (`a:*:*` covers
`a:*`, which covers `a`, which `a:*:*` does not), so a statement about coverage
through several hands is made for the shapes the server itself uses.

### Commands

A request (`Arrive`) passes the gate (`Gate`: bearer, external adapter with its
origin check, static MCP token, pending password change) and keeps the
permissions it was let in with. `ExecuteCommand`, `ExecuteStream` and `McpPost`
handle it: lookup (`FindProcessor`), permissions along the path
(`RequiredAlong`, `PermissionDenied`), the module filter (`IsBlocked`), and for
MCP the tools that exist, are exposed and visible. It ends by `Finish`,
`StreamEnd`, `StreamGone` or `ExecutorGone`, which record usage and publish
`command:executed`. Meanwhile `Revise` changes accounts and `Toggle` modules.

The configuration is chosen by `Init` (`server`). The model keeps what may
surprise: the plain route always answers an HTTP command with exit code 0, the
stream route with 0 or 1; when the client leaves, a streaming processor is
counted as not failed and its task runs on, because nothing sets
`cancellation_event` (`cli_controller.py:213-273`), while a command run by the
executor is counted as failed; MCP names that collide across providers are
resolved after the permission filter (`mcp/core.py:191-201`), so that a caller
without the permission of the first tool reaches the second, although "the lower
tier wins" (`mcp/core.py:16-18`); among commands they are resolved before it. Arguments are one
declared and one undeclared name.

### Feeds

Event sockets with their outboxes and senders, log sockets with scheduled
broadcasts, the ring buffer of the admin log, the two rings of the audit log,
and a reader that pages through either log. Everything recorded has a number,
which is also its time. `Mixes` takes apart feeds that do not touch each other
(an audit entry is also an event; a log record is not). A record logged in a
thread without an event loop reaches the ring buffer and no log socket
(`broadcast_log`, `Emit`). The model covers paging
of `GET /logs` too, about which no property is stated: it skips entries when the
ring wraps between two pages.

### DataExplorer

`execute_async` of the executor and of the seven providers: `ExecuteStarts`,
`Connect`, `DbRuns`, `Receive`, `DbCommits`, `ReceiveCommit`, `CloseDone`, with
`TimesOut` and `ConnectionFails` at every point; the differences between the
providers are in `Traits` and in how each counts its rows (`SqlRows`,
`MongoRows`, `RedisRows`, `ElasticRows`). `GetSchema`, `ListTables`, `ReadTable`
and `SchemaDone` are the schema requests, during which `Alter` creates and drops
tables. The databases are external. Queries and schema requests share nothing,
so a behaviour has one or the other.

### MC modules, proof modules

`MCJobScheduler`, `MCUserSessions`, `MCShellSessions`, `MCFileProviders`,
`MCAccounts`, `MCCommands`, `MCFeeds` and `MCDataExplorer` hold the values of the
constants. The theorems about a module `M` are in `MProofs`, for each of the
eight modules but the two abstract ones.

## Runs

| Run | Asks | Bounds |
|---|---|---|
| `slots` | one job, two kinds of options (policies queue and cancel, limits 1 and 2, retry or none), triggers, timer, cancel, updates and rejected updates, crashes; a store that applies writes in any order and whose calls may raise; fairness | 3 runs: two to fill the slots, one to wait |
| `memory` | in-memory store, policy skip, retry delay "0s", deletions, stops, cancels, `stop()` and `start()` in the same process | 2 runs of 2 attempts: one may end while another is deleted or retried |
| `schedule` | two jobs, one disabled in code, both run on start; pause, resume, stop, changes of schedule, persistent store, crashes, `stop()` | 2 runs: one per job, or one and one that waits; two writes of a job in flight, so that their order matters |
| `sessions` | in-memory stores, every request, two at a time, the sweep, one socket | 2 sessions, 1 ticket, limit of 2 attempts: a session to end while another is opened, a lock reached by two attempts in flight |
| `sockets_close` | stores that suspend anywhere, fairness | 1 request at a time, 1 session, 1 socket |
| `shells` | every mode of access, two connections of one caller, one proxy, a daemon started, fairness | limit of 1 per user: the second connection meets it at every point of the first |
| `files` | five providers and the legacy routes, seven paths on four levels, `.`, `..` and a link, crashes | one link out of one root; contents that are text, are not, or are too large |
| `accounts` | three accounts, three groups, one token, three permission lists; every request by every caller | 4 requests: build a group, join it, act, undo |
| `commands` | six processors on two levels (streaming, HTTP, guarded parent, guarded child, colliding tool names), one caller | 2 requests at the same time |
| `feeds` | one client per kind of feed, outbox and rings of 2, failed-login ring of 1 | 4 entries: rings wrap twice |
| `explorer` | one source per provider, and MongoDB without a row limit | replies of up to 4 rows with a limit of 1; 2 tables, 2 changes; fairness |
| `late_login` | the disagreement below | as small as shows it |

What they show:

* `QueuedOnlyWhenFull`, `SlotLimit`, `KeepsSlotPromises`, `SlotsHeldByLiveRuns`,
  `QueuedRunStarts`: the slot discipline is right under every interleaving,
  including failing saves.
* `OneTimerPerSchedule`: although `_schedule_next` does not cancel the timer it
  replaces, every caller reaches it without one.
* `RunningIsOwned`, `HistoryIsFinal`, `RunningRunsAreKept`: after any crash the
  history is truthful once the server is up; finished records only ever leave;
  the check by `running_execution_ids` in `_is_running` is needed for the
  in-memory store, and enough.
* `StatusReachesStore`: the persisted status is the job's once its writes are
  done.
* `StopReachesEveryJob`: `stop()` leaves nothing that acts on its own.
* `AttemptsAreBounded`: concurrent verifications cannot pass the limit together.
* `EndIsAnnounced`: every way a session ends publishes `session:closed`. With
  stores that suspend it needs that no session is opened and expires within one
  sweep (`cleanup_sessions` compares two listings), which the default timeouts
  guarantee; the run uses the in-memory stores, where the sweep is one stretch.
* `DeletedUserLosesSessions`: a login that was verifying while the user was
  deleted fails at `update_user`. This too is a fact of the in-memory stores: a
  store that suspends between `update_user` and `create_session` breaks it.
* `KickedBeforeClosed`: holds while no user has two event sockets open at once, which
  is also a hypothesis of its theorem.
* `SocketFollowsSession`: a session that ends while its socket is being accepted
  is missed by the check its end asks for; the next sweep closes the socket.
* `ShellLimits`: the second count in `_register` makes the limits hold for what
  has processes, and forged header entries do not change whom a shell counts for.
* `EndReachesShell`: the check after registration closes the window between
  ticket and registration; `ShellFollowsSession`: the periodic check ends the
  shells of sessions that expire without an event.
* `NoOrphans`: collecting the targets again after the signals, by process tree,
  group, session and marker, leaves no process.
* `FirstReasonIsAudited`: of several reasons to end, the first is told.
* `ImplementsTree`, `ReadsAgree`, `DiskIsTree`, `ConfinedToRoots`: the providers
  are interchangeable within the limits stated above.
* `AdminRemains`, `MembersOfExistingGroups`, `NoEscalation`: the protections of
  single requests compose over sequences of requests.
* `UsageIsExact`, `EventMatchesCount`, `RunsPermitted`: whichever route.
* `EventsReachAudience`, `AuditKeepsOthers`, `AuditPagesMissNothing` (newest-first
  paging repeats entries but skips none), `HistogramCounts`.
* `LogsInOrder`: a broadcast is a task of its own, which sends to the clients there
  were when the record was logged; the order of the records survives.
* `AnswersAreTrue`: a count of changes means they were applied, rows are cut at
  the limit and marked. It says nothing about an answer with rows to a statement
  that also changes (`RETURNING`): SQLite, MySQL and SQL Server take it for a
  read and never commit (`sql_provider.py:37-41`). Nor does an error mean that
  nothing was done: after a timeout the SQL Server thread runs on and commits,
  and a commit in flight may arrive.
* `NoConnectionLeft`, `SchemaMissesNothing`, `QueryIsAnswered`. `GET /schema` has no
  timeout; a query on SQLite runs on the event loop, where the timeout cannot
  fire, and is answered when it is done.

### Disagreements

`late_login` is a run that TLC refutes: a login that read the account before it
was disabled opens a session after the account's sessions were revoked
(`plugins/users/README.md:147`).

The following were found in the same way; the property is in the module, and the
constants that show it are given so that the counterexample can be reproduced.

* `StartsAfterTheCancelled` (`slots.cfg`): the run queued by the `cancel` policy
  is started by the end of any run of the job, not of the cancelled one, when
  the limit is 2 (`cli_job_scheduler.py:636`; `plugins/jobs/README.md:105`).
* `NoRetryAfterCancel` (`memory.cfg`): a cancellation that arrives between the
  timeout of the retry delay and the resumption of the task, or at any time with
  a delay of "0s", does not stop the retry (`cli_job_scheduler.py:677`;
  `plugins/jobs/README.md:112`).
* `OneTimerPerSchedule` with `"invalid update"` in the `Requests` of
  `schedule.cfg`: a refused `update_options` may leave a new schedule without a
  timer (`cli_job_scheduler.py:416`).
* `KickedBeforeClosed` with `Sockets = {w1, w2}`, `MaxTickets = 2`,
  `Requests = {r1}` in `sessions.cfg`: with several sockets, one may be closed before `session-kicked` is sent to it, because disabling the
  account has already asked for a check (`plugins/users/README.md:102`).
* `NeverSignalsReaped`: `_terminate` takes the shell for unreaped until its exit
  task is done, but `_wait_for_exit` reaps it and then still awaits a send
  (`cli_shell_session_manager.py:558-571`, `648-663`).
* `ExitCodeMeansExit`: a shell that closes its terminal and stays is killed by
  the server after two seconds and reported as exited (`:382`).
* `RemovesOnlyBelow` with `Alike <- LikeNames`: in the SQLite provider, removing
  or moving `my_dir` also removes what is below `my-dir`, because the path is
  used as a `LIKE` pattern (`sqlite_provider.py:269-274`, `348-352`).
* `RemovesAll` with `Page = 1`: removing an S3 directory with more objects than
  one listing gives (1000) leaves the rest and reports success
  (`s3_provider.py:319-345`).
* `AdminRemains` with `StoresSuspend = TRUE`, `InFlight = {r1, r2}`,
  `MaxRequests = 3`, two accounts, no tokens and `Coalitions <- NoCoalition`: two
  requests that demote one administrator each
  (`plugins/users/README.md:146`). Not with the shipped stores.
* `ActsOnCovered`: the target of a password reset may have gained permissions
  while the password is hashed (`users_service.py:249-250`).
* `DisabledModuleBlocked`: the filter knows the root processors of a module and is
  asked about the processor found, so sub-commands of a disabled module run on
  every route (`module_registry.py:33-49`,
  `cli_command_executor_service.py:176-190`, `cli_controller.py:228-237`).

Observed while modelling, without a property: `GET /logs?level=ERROR` leaves out
CRITICAL, which the histogram counts as ERROR (`logs_controller.py:85-86`,
`log_ring_buffer.py:47-57`); `collect_runs` can miss runs that a store prunes or
shifts between two pages (`job_stats.py:102-123`); resuming or updating an
interval job while it runs fires at once, since `last_run_at` is set at the end
of the run; the Redis schema looks at 1000 keys, and a key that goes between SCAN and
TYPE becomes a table "none".

### Limits

Three guarantees of the scheduler have a limit that its runs state through
their constants. `StopReachesEveryJob` needs saves that succeed: with
`StoreMayFail = TRUE` in `schedule.cfg` a failing save ends `stop()` before it has
reached every job. `HistoryIsFinal` needs a new process for every `start()`: with
`InProcessRestart = TRUE` in `slots.cfg`, `start()` after `stop()` can overwrite a
run that has just finished as interrupted, because the listing it looks at is
older than the set of running executions it compares it with.
`StatusReachesStore` needs a store that applies the writes of one job in call
order: `_persist_state` writes the whole state from API calls and from every
ending run and nothing orders those calls, so with `StoreInOrder = FALSE` it fails.

Two more were met while proving. `_ensure_not_root` compares a path with the
allowed roots for equality, so where one allowed root lies below another, a
directory between the two can be removed or moved, and the lower root with it
(`StaysInRoots` assumes `Separate`). `permission_matches` is not transitive
for permissions of three or more segments that end in two wildcards: `a:*:*`
matches `a:*`, which matches `a`, which `a:*:*` does not match. The permissions
of the repository are `resource:action` (`plugins/users/README.md:78`), for which it
is (`NoEscalationEver` assumes `Documented`).

### Bounds

`MaxRuns` bounds the runs of a whole history, across restarts; a due run is
admitted only while there is an id for it and for every waiting run (`Room`), so
that the bound never keeps a waiting run from starting. `MaxWrites` bounds the
state writes in flight made by requests. `Requests` and `Endings` restrict a run
to the requests and the endings of a job that its question is about. Attempts
are bounded by the options' `max_retries`.
`MaxSessions`, `MaxTickets` and `Sockets` bound what is opened over a whole
history of `UserSessions`, `Requests` how many requests run at the same time
(there is no bound on how many follow each other), `Operations` which are made.
`Conns` of `ShellSessions` are made once each; `Paths` bounds the trees of
`FileProviders`, whose histories are unbounded; `MaxRequests` bounds the history
of `Accounts`, `MaxEntries` that of `Feeds`, `Reqs` and `Queries` those of
`Commands` and `DataExplorer`, `MaxReply` and `MaxAlters` a database's answers and
changes. A history that is used up ends without being a deadlock of the system,
so the runs `accounts`, `shells`, `explorer` do not check for one.

### Fairness

`FairSpec` of `JobScheduler` has weak fairness of each run's task (`RunStep`) and
of the store's answers (`StoreStep`): the event loop runs every task that is ready, and an
awaited call of the store returns. It includes the return of the job's own code,
which the scheduler cannot enforce for a job without a timeout; a job that never
returns keeps its slot, by design. Requests, timers, starts, stops and crashes
have no fairness.

`FairSpec` of `UserSessions` has weak fairness of every task, check, answer of
`accept()` and of the sweep, which its loop repeats for ever. It is used with
`SlowStores`, where no task holds the loop, so that weak fairness says just that
a ready task is run. Requests, clients and the clock have no fairness.

`FairSpec` of `ShellSessions` has weak fairness of the handlers, their tasks, the
checks (the periodic one too, which its watcher repeats) and the delivery of
change events. Clients, administrators, processes and the clock have none.

`FairSpec` of `DataExplorer` has weak fairness of the timeout, which is a timer of
the event loop, and of the end of a connection that is being closed; the databases have
none. The second is an assumption about the drivers: `await conn.close()` of
asyncpg after a timeout is not bounded by it.

## Proofs

The theorems are checked by TLAPS, for every value of the constants that meets the
assumptions stated (`ASSUME`) in the modules; TLC evaluates those assumptions
in every run. Each inductive invariant was checked by TLC on the instance of a run
before it was proved. What an assumption beyond the types of the constants says:
`GroupLists` of `Accounts` are lists of known groups and a permission has at least one
segment; the nodes of `Commands` are paths of names and their order lists them;
providers of `DataExplorer` are the seven shipped ones and the tables are finitely many;
`Paths` of `FileProviders` is closed under prefixes, links lead to paths, and
neither `"none"` nor `"dir"` is the content of a file.

A theorem's own hypotheses (`ASSUME ... PROVE Spec => ...`) restrict the constants.
Each run of that property satisfies them, and for each that could be dropped if
the code were different the reason is under "Disagreements" or "Limits".

`JobSchedulerProofs`:

* `TypeCorrect`: the type invariant, one step per action. No run checks it.
* `NoLostWakeUp`, `NoSlotLeak`, `LimitHolds`: from the inductive invariant
  `SlotInv`, which adds to `QueuedOnlyWhenFull` and `SlotsHeldByLiveRuns` that
  run ids are used in order (`NextRunIsFresh`). Without it a new run might take
  the id of a live one; without `SlotsHeldByLiveRuns` the end of a run need not
  free a slot. `SlotSteps` shows that, seen from the slots, every action is one of
  seven steps (leave them alone, move a run, admit, end, update, drop, crash), so
  each proof has seven cases instead of one per action.
* `ImplementsSlots`: `JobScheduler` implements `JobSlots` with
  `held = Cardinality(runs[j])`, `waiting = queued`, `limit = opt[j].limit`.
* `RunningRecordsKept`: `HistoryInv` says of each run which records it can have at
  each stage, and that what a delete request found finished is not the attempt the
  run is in, also when the run goes on between the request's listing and its delete.
* `HistoryStaysFinal` (`~InProcessRestart`): `BootInv` adds that nothing runs, waits
  for a timer or is deleted until the interrupted runs are finished.
* `RunningIsTrue` (`~StoreMayFail`): `OwnedInv` says what `start()` still has to list
  or to finish at each point of the recovery.
* `OneTimer` (no update that raises half-way; no `start()` after a `stop()` that a
  failing store cut short): `TimerInv` follows the timers through the phases of the
  server, job by job.
* `StopIsComplete` (`~StoreMayFail`): `StopInv`, what `stop()` has visited stays quiet.
* `StatusIsSaved` (`StoreInOrder`, `~StoreMayFail`): `StateInv` compares the status with
  the last write in flight while the server is up, and with every write behind that
  of `stop()` afterwards, because runs of before a restart in the same process
  may still be saving.

`UserSessionsProofs`: `AttemptLimit`, for any users, requests, sockets, limit and
stores. The bound alone is not inductive, because nothing ties it to the counter the
code tests: `LockInv` adds that an entry has let through as many attempts as it
counts failures while open, and exactly the limit once locked. `LockSteps` reduces
the actions to three cases (leave the table alone, drop an entry, count an attempt
of an open entry).

`EndsAreAnnounced` and `DeletionRevokes`, for any users, requests and (finitely many)
sockets, and stores that do not suspend (`~SlowStores`). Both properties speak of steps
some task still has to take, and neither is inductive: a task may skip the rest of its
script by an early return before it gets there. The argument:

* A step of a script is sure when no step in front of it can return early. `Told`
  and `Doomed` strengthen the two properties to sure steps: `AnnounceInv` and
  `RevokeInv`.
* `ScriptsInv` says what the scripts of the handlers have in common (`TaskOK`: behind each
  step that ends a session its "announce" follows, with nothing that can fail between; a
  sweep lists, purges, compares in this order), for every store. With `~SlowStores` it
  also says that the loop is kept from a sweep's listing to its purge and from the
  stamp of a login to its session (`LoopOK`). Without this part a login could open a
  session for a user deleted in between, and the sweep could purge a session it has
  not listed: this is where `~SlowStores` is used, and both happen without it.
* Every action is one of ten kinds of moves (`StillMove`, `FreshMove`, `OtherMove`,
  `AnnounceMove`, `EndMove`, `ListMove`, `OpenMove`, `DeleteMove`, `PurgeMove`,
  `CompareMove`; lemmas `...Moves`), and the three invariants are shown to survive
  each kind once (`ScriptsStep`, `AnnounceStep`, `RevokeStepInv`). What the loop of
  `revoke_user_sessions` queues is `RevokeEachOK`, from `InOrderLists`.

`KickPrecedesClose`, with the same stores, under the hypothesis `[]OneSocketEach` (no
user has two event sockets open at once). The hypothesis is needed: with two
sockets the send to the first gives up the loop, and a check may close the second
before its turn (see "Disagreements"). `KickedBeforeClosed` alone is not inductive,
because nothing says that the kick is still to come when the session is gone:

* `OwedInv`: while a socket is owed `session-kicked`, the task that revoked its session
  holds the loop and its next steps are the "announce" and "kick" of that session
  (`Kicking`) or the send to that one socket. So no check can run in between.
* `SocketTasks`: the task of a connecting socket never revokes, so a kick always belongs to
  a request; binding the socket is its last step.
* Every other step is a `QuietStep`, which owes nothing and leaves a kicking task alone
  (lemmas `QuietTasks`, `QuietSteps`); what the task itself does next is `OwedTasks`.

`NoKickForgotten` says what is left without the two hypotheses, for any number of sockets
per user and any stores: a socket that is owed `session-kicked` (`KickIsComing`) is closed
or some task is going to send it, with no step in front that can return early
(`WillKick`). With several sockets one may be closed before it is told, but none that is
still open is forgotten. It rests on three facts:

* `ScriptsInv`: "announce" and "kick" follow every step that revokes, at once.
* `SocketsInv`: only an open socket awaits a check, and a socket is bound once, as the last
  step of its task (`BindsKept`), so that an owed socket is never opened again under
  another session.
* Every step but "revoke", "announce", "kick" and "send" leaves alone the tasks that are at
  one of the last three, owes nothing and opens no owed socket (`ElsewhereSteps`).
  `KickComingStep` has the four, with `KickAdvances` for the script and `EveryMember` for
  the kick, which queues a send for every open socket of the user.

TLC checked `KickIsComing` and `SocketsInv` on an instance with two sockets of one user and
two requests before they were proved.

`TypeCorrect`, for any constants. The type invariant is not inductive: a step puts its
argument into `owner`, `tickets`, `announced` or `sockSess`, so `TasksInv` says of every step
of every script what its argument may be (`TypedSteps`: a session that was opened, or a
socket), and `RoomInv` that what was opened or issued leaves room for the tasks that are
still going to open or issue, each as its last step (`Ends`). One lemma per
kind of step (`...Typed`), over two ways to go on: the rest of the script with harmless
steps in front, or harmless steps alone (`SplicedTyped`, `GoOnTyped`). No run checks it.

`ShellSessionsProofs`:

* `TypeCorrect`; `NothingIsOrphaned` from `Books`: the connections the manager holds,
  the caller each is counted for, and the stages in which a shell has processes.
* `FirstReasonStays` from `Asked`; `EndReaches` is inductive given `Books`.
* `LimitsHold` from `Counted`, which bounds what `_register` counts, and `Books`, by
  which a shell with processes is counted for its caller.

`AccountsProofs`: `RequestDecides` shows once what the routes and the service have checked
when a request decides on a write (`Allowed`), and each theorem is one induction
over the writes.

* `TypeCorrect`, with `Types`, which also says of every write still to come what it
  carries, so that it holds for stores that suspend.
* `AdminStays`, `NoGhostMembers`, `NoEscalationEver`, all for stores that do not suspend
  between the decision and the write (`~StoresSuspend`), as the shipped ones.
  `AdminInv` adds that the group admin keeps `*`; `CoalitionInv` adds that what a
  coalition was given covers the permissions of `users`, which every new account is
  in. `NoEscalationEver` rests on the transitivity of `permission_matches`
  (`Documented`), proved from its definition. `NoGhostMembers` excludes a read-only
  user store beside a group store that is not.

`CommandsProofs`: `RequestsSound` (`Requests`, `Settings`: at each state, what a request
has been allowed), from which `OnlyPermittedRun` follows; `UsageCountsExecutions`
(`Counts`: finitely many ended requests, each counted once) and `EventsTellOutcome`
(`Events`) over three kinds of steps of a request; `TypeCorrect`.

`DataExplorerProofs`: `AnswersStayTrue` and `ConnectionsClosed` from `QueriesInv`, the
invariant of a single query lifted to all by the lemma that a step touches one;
`SchemaIsComplete` from `SchemasInv`, by which a table that stays is still to be
read or was found.

`FileProvidersProofs`:

* `TypeCorrect`, `DiskFollows`: what each method of each provider leaves is a tree, and a
  failed method of the JSON provider leaves the tree it found.
* `StaysInRoots` (`FreeOnly`, `Separate`): per method of the two providers with roots,
  `Inside` of the tree it leaves, with `RootsStand` (the roots and what is above
  them are directories).
* `ReadingAgrees`: needs `Apart` for S3, where no object lies below another or beside
  its own marker.
* `ProvidersImplementTree` (`Fitting`): `ImplementsTree`, the refinement of `FileTree`
  with `tree = View`, from `TreeInv` (`Types`, `DiskIsTree`, `Apart`, and `NodesGrown`:
  what is above a node is a directory). Each provider's method is shown to do to
  the view what the abstract action says (lemmas `Node...` for the five providers that
  keep nodes, `Bucket...` for S3). `Fitting` excludes the two disagreements
  `RemovesOnlyBelow` and `RemovesAll`, and copies onto something that is there.

`FeedsProofs`:

* `EventsReach`: `EventsInv` has, per connected client, that what it was sent followed
  by what waits for it is increasing, nothing of it from the future, and exactly
  what is due to it (`Due`). That nothing is from the future is what keeps the next
  event in order; that `_receives` asks at publication is `HearsReceives`.
* `HistogramIsExact`: `RingInv`, the numbers in the buffer increase, so positions and
  entries are counted alike (`ImageCounts`); `ColumnMeans` is the arithmetic of the
  columns, and shows that `min(..., buckets - 1)` never moves an entry of the range.
* `AuditKeeps`: `AuditInv` says that the first deque holds the newest of the other entries,
  and that it holds all of them or is full. The second half makes it inductive: it is
  why an entry that `prune` removes from a full deque leaves no older one behind. One
  lemma per operation of the store (`OtherLogged`, `FailureLogged`, `LogCleared`,
  `LogPruned`).
* `PagesMissNothing`: `PagesInv`, an entry the reader began with has been shown or is at a
  place behind the offset. A new entry pushes all places back by one and evicts at
  most one (`PlaceGrows`), `prune` removes only what is behind; `PageShows` is the
  arithmetic of a page.
* `LogsStayInOrder`: `LogsInv` adds to `LogsInOrder` that the broadcasts waiting are in the
  order logged themselves, none from the future, each for clients still there that
  want its level. One lemma per operation on the log sockets (`LogsEmit`, `LogsSent`,
  `LogsConnect`, `LogsLeave`, `LogsOff`), shared by the steps of all other feeds
  (`LogsLater`).
* `TypeCorrect`, for any sizes: from the invariants above, with `OutboxesBounded` (no
  outbox exceeds its limit, also of a client whose sender failed, which nobody empties)
  and `ReaderOK` (where a client that reads the audit log stands). No run checks it.

Every safety property of a passing run is stated by a theorem.

Only model-checked:

* liveness, which the prover does not cover: `QueuedRunStarts`, `SocketFollowsSession`,
  `ShellFollowsSession` and `QueryIsAnswered`, under `FairSpec`;
* `DisabledUserLosesSessions`, which the code violates (`late_login`).

## Not modelled

* The clock of the scheduler: cron and interval arithmetic, `next_run_at`,
  `last_run_at`. A timer fires at any moment, so every order of firings is
  covered, and nothing is said about their times.
* Merging and paging of job executions, pruning, and the statistics on them:
  aggregation without state.
* A host that cancels its own call of `trigger()` while `job:triggered` is
  published would leave the slot taken (`cli_job_scheduler.py:341`); the server
  does not do that.
* The rate limit per address and the eviction from the lockout and rate tables,
  which hold 10,000 keys (`auth_service.py:312`).
* Admin login, configuration, branding, status history; the dashboard.
* The AWS and weather commands, which format answers of external services.
* Wiring (`create_cli_server.py`, the builders), versions and discovery,
  formatting, logging and the contents of outputs and events.
