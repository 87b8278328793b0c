# TLA+ verification of the StudyOS agent gateway

The gateway (`src/src/study_discord_agent/`) is one asyncio process that turns
Discord messages, slash commands, buttons and GitHub webhooks into tasks for a
Codex agent and posts the agent's answers back. This directory holds TLA+
modules that model its core, the TLC configurations that check them, and the
TLAPS proofs about them. `PROJECT.json` lists the runs, the source lines each
definition models, the hazards and the theorems.

## The system

| Component | State | Operations | Works with |
|---|---|---|---|
| task record (`discord_task_model.py`, `discord_task_failures.py`) | one task: state, attempt, revision, failure with retry mode, interruption cause, card and result ids, continuation links | `transition`, `claim_interruption`, validation, classification of failures | everything below |
| task store (`discord_task_store*.py`, `discord_task_persistence.py`) | a JSON document, and the same records in memory | `create`, `compare_and_set`, `link_child`, `forget`, `reconcile_startup`, retention, load | the file system |
| task service (`discord_task_service.py`, `_actions`, `_runtime`, `_runners`, `_runtime_failures`, `_reconciliation`, `_queries`, `_application`) | one runner per task, claims of events, pending retries | start, steer, stop, retry, continue, forget, reconcile, close; the agent runner | store, agent gateway, delivery, presentation |
| delivery (`discord_delivery_*.py`, `discord_generated_*.py`, `discord_task_delivery.py`) | cached replies, transferred leases, reservations of generated files | `put`, `consume`, `restore`, `discard`, `close`; leases | event loop and worker threads |
| Codex app-server (`codex_app_server_*.py`) | connection generation, recovery, active turns, early notifications | start, recover, run, steer, interrupt, notifications, close | a child process |
| its client and transport (`codex_app_server.py`, `_transport`) | process, pending requests and their ids, reader, failure | start, request, read, close | the child process's pipes |
| GitHub mirror (`github_mirror_*.py`) | mirrored issues and pull requests, their cards, reserved tasks | apply a webhook, publish a card, reserve and start a task, recover | Discord, task service |
| presentation (`discord_task_messenger.py`, `_cards`, `_components`, `_component_controller`, `_commands`, `_progress`, `_auth`, `_access`) | last card per task, progress buffers | render, flush progress, handle buttons | Discord |
| mention intake (`discord_mentions.py`) | ids of messages seen | claim, route to start or steer | task service |
| inputs (`discord_task_inputs.py`, `discord_staging_files.py`) | staged attachments | stage, clean up | file system |
| sessions and worktrees (`session_store.py`, `discord_worktrees.py`) | thread and context per channel, clones and git worktrees | get, set, prepare | git, Codex app-server |
| agent gateway (`agent.py`, `codex_app_server_thread_loader.py`, `github_task_execution.py`, `github_task_context.py`) | the task that is asked | resolve the context, prepare the workspace, load the thread, bind it, start the turn | sessions, worktrees, Codex app-server, task service |
| web hooks, usage, memory, configuration | none that matters here | | |

What is hard about it: everything that happens between two awaits of a runner
(buttons pressed while a turn ends, a reply is prepared or a card is updated);
the end of the process at any point, with a document that was written but not
synced; Discord requests that fail although the message arrived; events that
arrive twice or before startup reconciliation; replies that two threads want.

What makes the parts correct: an execution channel never has two active tasks,
in memory or in any document a restart may find; the document always loads; an
acknowledged operation survives; every active task has a runner and settles; a
Stop that was accepted wins; a result reaches Discord at most once and the agent
is not run again for it; an interaction takes effect once; a prepared reply has
one holder and its generated file is not forgotten; there is one app-server and
one turn per channel, and every run ends; a mirrored item ends with one card
that shows its newest event, and with at most one task; a task's card never goes
back, shows the newest progress and ends right; staged files and threads have an
owner who removes them; a channel keeps to its own Codex thread, a restricted turn to
a thread that only turns of the same policy, repository and commit have used and to a
worktree at that commit, and no request waits for an answer that cannot come.

## Modules

| Module | Models |
|---|---|
| `DiscordTaskRecord` | the record: states, the transition table, validation, `transition`, `claim_interruption`, `_reconcile` |
| `DiscordTaskUpdates` | the updates the service computes for `compare_and_set`, one operator per kind |
| `DiscordTaskStorePolicy` | retention, the continuation graph, forgetting |
| `DiscordTaskStore` | the store: memory, the file and the documents a power loss may leave |
| `TaskLifecycle` | abstract specification: what the design document promises about a task |
| `BoundedClaims` | the claim table of interactions and trigger events |
| `DiscordTaskService` | the service over the store: operations, runners, reconciliation, process ends |
| `DiscordDeliveryCache` | prepared replies, their leases and the reservations of generated files, used from two threads |
| `CodexAppServerConnection` | the connection to the app-server: generations, recovery, close |
| `CodexAppServerRuntime` | turns over a connection: runs, notifications, steering, interrupts |
| `AppServerTransport` | requests over the pipes of one app-server process: ids, pending futures, the reader, failure, close |
| `DiscordWorktrees` | clones and worktrees, `prepare` between its git commands |
| `AgentGateway` | a task from its execution context to the end of its turn: workspace, client, thread, session binding, requests, time limit |
| `GitHubMirrorRecord` | the record of a mirrored item: events, card, reservation, and the store's operations on them |
| `GitHubMirrorPublisher` | webhooks, the publication of cards between its Discord requests, the sweep |
| `GitHubMirrorTaskStarter` | buttons and mentions on a card, reservations, starts, startup reconciliation |
| `DiscordTaskMessenger` | the card of a task: render locks, progress reports, flushes, what the card shows |
| `DiscordTaskSurface` | a task as users meet it: mentions, commands, threads, staged files, buttons, its runner, close |
| `MCDiscordTaskStore`, `MCDiscordTaskService`, `MCDiscordDeliveryCache`, `MCCodexAppServer`, `MCAgentGateway`, `MCGitHubMirrorPublisher`, `MCGitHubMirrorTaskStarter`, `MCDiscordTaskSurface` | instances for TLC |
| `DiscordTaskStoreProofs` | theorems about the store, and that it implements `TaskLifecycle` |
| `DiscordTaskServiceProofs` | theorems about the service, and that it uses the store as `StoreSpec` foresees |
| `DiscordDeliveryCacheProofs` | theorems about the delivery cache |
| `CodexAppServerProofs` | theorems about the connection, about the runtime, and that it uses the connection as `ConnectionSpec` allows |
| `AgentGatewayProofs` | theorems about the agent gateway with its transport and worktrees |
| `GitHubMirrorPublisherProofs`, `GitHubMirrorTaskStarterProofs` | theorems about the two halves of the GitHub mirror |
| `DiscordTaskSurfaceProofs` | theorems about the card, its progress and the owners of files and threads |

`DiscordTaskService` extends the store's modules and uses `BoundedClaims` for its
claims; `CodexAppServerRuntime` extends `CodexAppServerConnection`; both GitHub modules
extend `GitHubMirrorRecord`; `DiscordTaskSurface` extends `DiscordTaskMessenger`, which
uses the record and its updates, and `BoundedClaims` for the messages seen;
`AgentGateway` composes `AppServerTransport` and `DiscordWorktrees`. `DiscordTaskStore`
is related to `TaskLifecycle`, and the runtime to the connection's own
specification, by refinement.

### The store

`tasks` is `DiscordTaskStore._tasks`, `disk` the file, `durable` the set of
documents the file may contain after a power loss, `outcome` how the last
operation ended. A write ends in one of three ways: `ok`; `failed`, before the
file was replaced; `unsynced`, after it was replaced and before the directory
was synced, which the code reports as an error although memory and file have
the new document. A restart loads the file; a power loss puts any document of
`durable` there first. Task ids are numbers that grow with creation, which is
the order `can_continue` and retention need. Timestamps are the value of
`clock`; titles, labels and summaries are left out.

`TaskLifecycle` knows only the state of each task. `ImplementsLifecycle` maps
the store's records to it: every step of the store is a legal transition, a
creation, the removal of an inactive task, or a stutter.

### The service

The process has one event loop, so what runs between two awaits is one action.
`runner[t].at` names the await that the runner of task `t` is suspended at. The
agent, Discord and the file system are the environment: each await ends in any
of the ways the code distinguishes (`RunFails`, `PrepareFails`, `SendFails`,
`TurnReplies`, ...). A send that fails ambiguously, or that the end of the
process cuts off, may still have arrived; `history.landed` counts arrivals.
`retrying` holds retries suspended in `wait_idle`. Reconciliation is one action
for the store's pass and one per record for the enrichment, because the code
awaits in between. Access checks belong to the presentation and are not in the
service module.

### The delivery cache

The class is written for several threads (the application closes it from a
worker thread), so each operation is split at its lock sections and `pc[th]`
says where a thread stands. `entries`, `processing`, `transferred` and `closed`
are the fields of the same names, `reserved` and `pending` those of the registry
of generated files, `held` the leases that callers of `consume` have. A reply is
put and leased at most once, so `reply[r]` also holds the state of its lease and
of its generated file. Closing a stream and unlinking a file may raise
(`StreamFaults`, `CleanupFaults`). `close` sleeps in `Condition.wait` until no
entry is claimed ("asleep"), and whoever ends a claim wakes it.

### The Codex app-server

A client (one child process) is named by the generation it was made for. The
locks of the connection and of the runtime are never held across a suspension,
so a section is part of the step that runs it. `conn` has the connection's
fields, `recovery` the one recovery task and where it is suspended, `server` the
process of each client, `starter` the callers suspended in `start()`, `closer`
the call of `close()`. When `close()` cancels a recovery that waits for the old
process, that process becomes "cut": its standard input is closed, but nobody
terminates it.

`CodexAppServerRuntime` adds `run` (per call of `run()`: the await it is
suspended at, its channel, client and turn, how its future ended), `active`,
`ready`, `starting` and `early` (the dictionaries of those names), `queue` (the
transport's notifications, in order), `progressing` (dispatchers suspended in a
progress sink), `turns` (what the server does) and `call` (steer and interrupt).
A request ends with its answer or with an error: an error answer, the time
limit, the end of the process or the close of the client. An error is named by
the generation that raised it. A channel has one Codex thread, so a thread is
named by its channel; the text of a turn is left out, its identity is kept.

### From a task to its turn

`AppServerTransport` is `AppServerTransport` with the client around it. `call` has the
calls of `request()` and their entries in `_pending`, `sent` and `stdout` are the two
pipes, as sets: the server takes requests, and answers them, in any order. `_write` is a
check and a write without a suspension in between; from there on a call is "waiting",
until its future is resolved, failed, or its time limit or a broken pipe ends it. `close()`
is two actions, its beginning and the end of the process it waits for. Ids start again
with every client object, as each has a transport of its own.

`DiscordWorktrees` has one action per git command, since every command is a process that
is waited for and nothing keeps two calls of `prepare()` apart. `canonical` is the clone
of each repository, which may be under way or left half done, `tree` the worktree of each
channel and repository with its HEAD. What git says of a half made directory is open. A
clone or a `worktree add` that runs may fail; the commands that only ask fail on what is
missing or half made.

`AgentGateway` follows the run of each task (`run[k].at`: the context of a repository
task, `prepare()`, the thread's request, `turn/start`, the turn). A run leaves its turn
when the turn ends, when its generation is given up, or at the time limit: then it
interrupts the turn (`TurnTimesOut`, `interrupting`), gives it a grace (`Interrupted`,
`grace`) and ends whatever became of it (`GraceEnds`, `InterruptFailed`), while the client
and its generation are used on. The server may go on with such a turn, and the next task
of the channel gets its own beside it; `overrun` remembers, for the properties, which
tasks ended so. `sessions` is the
document of the session store and `saved` what a crash may bring back; `threads` and
`turns` belong to the server, where `threads[i].log` records the contexts of the turns
that a thread was given, which is what a later turn on it can know of them. A context is
a policy, a repository and a commit; its workspace follows from these. Of the connection
there is only what decides the client of a run: `generation`, `stale` and the recovery;
the rest, such as a caller that is resumed with a client that was replaced meanwhile, is
`CodexAppServerConnection`'s. That a channel has one running task is taken
from the task service (`OneActivePerChannel`, `IsolatedRuns`) as the guard of `Begin`.
Retried tasks are those of `before`, which ran under an earlier start of the gateway: a
retry requires its session, and its prompt is the generic one and names no repository.
The agent of a general turn may make and move worktrees of its channel, also when the
gateway has given the turn up: such a move makes a tree `stray`.

### The GitHub mirror

The store reads the file, changes one record and writes it under a lock that no
await happens under, so its operations are functions on a record
(`GitHubMirrorRecord`); `constructible` is `__post_init__`. An event is a
delivery id, a time and a state; title, labels and refs are named by the event
they came from (`shows`). A card's `marker` is the line with the nonce that the
code puts under the text, by which it finds its own cards again.

`GitHubMirrorPublisher` has one item: `mirror` is its stored record, `channel`
its cards in Discord, `pub` the worker's publication and the request it waits
for. What a publication does after a request, up to the next, is one step whose
possible results are a set, because each write on the way may fail or be
unsynced. Requests fail, are cut off by the end of the process after they took
effect, and a send may be repeated by the client library, which posts two cards
and returns one. Moderators delete cards.

`GitHubMirrorTaskStarter` has one item and several handlers of interactions
(`handler`), suspended in the acknowledgement, the thread or the commit lookup.
`tasks` are the tasks they start, with as much of the task service as the
starter sees: trigger claims, busy channels, ends, retries, forgetting.
Interactions do not wait for startup reconciliation; `early` marks the starts
that began before it ended.

### The presentation

`DiscordTaskMessenger` has the card of one task: `shown` is what it shows, `outer`
and `inner` are the two render locks with their holder and waiters, `view` what a
caller that edits has read, `entry` and `flush` the coordinator's entry and its
flush tasks. A part of a progress report is named by the number of the update that
set it, so that the newest can be told from an older one; the attempt is recorded
beside it for the property only. Delays are left out: a flush may wake at any time.
`unshown` says that the last edit was lost to an error or a cancellation.

`DiscordTaskSurface` adds the handlers of Discord events (`handler[h].at` is the
await a handler is suspended at), the runner with the awaits at which a card or a
file is at stake, the staged directories and dedicated threads that exist (as
counts, `onDisk` and `threads`), and the three stages of close. Checks that depend
on other tasks, on permissions or on the agent may fail at any time; what the
service does for several tasks, over restarts and with failing writes is
`DiscordTaskService`'s. The first task is followed; a second request is followed
until its thread and files belong to its task. `channel_capabilities` is no await here:
the locks it takes are never held over a suspension, so that it returns before any other
coroutine runs. A steer, a retry and a continuation are therefore one step from their
last check to what they write; if they could be overtaken there, a retry would find
another retry's runner alive, which `spawn` would refuse after the record was written.
A retry waits for the runner it found (`wait_idle`). Of several that one runner releases, the
first to be carried out takes the record on and the others are refused beside the runner it
started, because the record is active again (`RetryIdle`); the run has one handler, the proofs
any number, and `DiscordTaskService` models the release itself.

## Runs

| Run | Bounds | Shows |
|---|---|---|
| `store_writes` | 2 tasks in 1 channel, 4 revisions, every write outcome, room for 1 inactive record, for retention a third, settled task | exclusive channels and loadable documents in memory, file and after a power loss; acknowledged operations survive; retention is the code's scan, also when a settled pair does not fit and a task behind it does; no document outgrows its limit; the first interruption cause wins; `TaskLifecycle` is implemented |
| `service_lifetime` | 1 task, 3 attempts, 1 process end, 1 change of day, claim table of 1 | no orphaned active task; it settles; a delivered result is not computed again; the cache agrees with the records; the store is used as it foresees |
| `service_channel` | 2 tasks in 1 channel, 2 attempts, 2 interactions, every write outcome, 1 process end or power loss | no two runners in one session, no interaction twice; at most one result message; an accepted Stop wins |
| `service_restart` | 1 task, 2 attempts, 1 process end | violation: reconciliation raises on a retried task that was delivering |
| `service_early_intake` | 2 tasks in 1 channel, events before reconciliation | violation: two runners in one session |
| `delivery_threads` | 2 threads, 2 tasks, 2 replies, 1 file, 2 calls of close, faults | a reply has one holder; no file is forgotten; close leaves only what callers hold, and returns |
| `codex_turns` | 2 runs in 1 channel, 1 steer or interrupt, 2 generations, 1 turn, time limits | one server, a final close; an answer that arrived is returned; a replacement is not invalidated for its predecessor's error; every run ends |
| `codex_exit` | 1 run, 1 generation | violation: an exit does not fail the active turn |
| `agent_sessions` | 3 tasks (general, implementation, review) in 2 channels of 1 repository with 2 commits, for the first time or retried, 2 clients, 2 threads, every write outcome of the sessions, 1 crash; the implementation's turn may reach its time limit | no request waits in vain; a channel has its own thread; a restricted turn's thread and commit are its own; one turn per channel on the server, beside one that outlived its time limit |
| `task_surface` | 1 handler, 3 events, 2 attempts, 2 progress updates of 2 parts, 2 flushes, 1 fault, table of 1 seen message | the card never goes back and ends right; no progress is lost or shown for a later attempt; staged files and threads have an owner |
| `mirror_publication` | 3 events, 3 updates, 1 fault, 2 deletions, 1 process end | no card is lost track of; a completed publication shows the newest event; publication ends with one card |
| `mirror_actions` | 2 handlers, 2 interactions, 3 starts, 1 retry, 1 fault, 1 process end, 1 change of the card or the item | one task runs and the record knows it; an interaction starts one task; a reservation has an owner |

Bounds. Two tasks are enough for conflicts over a channel, because every check
compares one record with another. Retention needs three: a continued pair that settles is too large for the room of one, and
only a third task behind it shows that the scan goes on. The run stores two tasks (`Stored`,
the bound of `StoredSpec`); `RetentionIsTheScan` takes the documents that an operation would
hand to `commit` in each of its states, as they are and with one more settled task beside
them (`offered_documents`). Its mutant, a scan that ends at the first chain that does not
fit, differs from the code in that case only. Three attempts are one more than the first
retry that finds what an earlier retry left. Two generations are a client and
its replacement; a third repeats the second's situation, since every decision
compares a generation with the current one. In `agent_sessions` only the implementation's turn reaches its time limit (`Overdue`), with
the general task as the next of its channel (3,412,126 states). With the general task's
instead, which may move a worktree afterwards, the run has 5,704,762 states, with both
7,432,010; neither finds anything, and both take most of the time that a run should take. Two channels are what a late answer can confuse, two
contexts in one channel what a thread can mix up, and two commits what a worktree can
be moved between. Three starts on a mirrored item are
a task, its successor and one more after a replaced card. Two progress updates are
one that is being rendered and one that arrives meanwhile; one handler beside the
runner and the flushes makes three callers that queue for the render locks. Flush
tasks, and the parts of a report, are interchangeable, hence the symmetry of
`task_surface`; it checks no liveness. The real limits (500
records, 30 days, 2048 claims, 64 deliveries, 8 reconciliation rounds) are
constants, set so small that they are reached. `Revisions` is a bound of the store's
runs; the service's runs are bounded by their attempts. Counters that grow
(`MaxAttempts`, `MaxCrashes`, `MaxGeneration`, `MaxTurns`,
`MaxUpdates`, `MaxFaults`, `MaxDeletions`, `MaxGenerations`, `MaxThreads`, `MaxCloses`, `MaxTasks`, ...) are
bounded in the guards.

Fairness. Service: a runner whose await has ended is resumed, and every await
ends, since turns, interrupts and Discord requests have time limits; a released
retry runs; reconciliation runs, as the bot becomes ready. Runtime: requests and
turns end by their time limits, and what is ready on the event loop runs.
Delivery cache: a thread that is inside an operation goes on. Publisher: Discord
requests end, the worker takes what is queued, and the sweep runs every minute;
faults are finitely many, so `EventuallyPublished` is about what follows the
last one. Nothing is assumed about users, moderators, webhooks or the end of the
process. `CHECK_DEADLOCK FALSE` stands where the process may have nothing to do.

## Disagreements between code and documents

1. `service_restart`: a retried task keeps the failure of its previous attempt.
   If the process ends while it is delivering, `_delivery_retry_disabled` keeps
   that failure's category, the record is rejected, and `reconcile_startup`
   raises for every record, at every start.
2. `service_early_intake`: events are handled before the reconciliation, which
   then interrupts a task whose runner is alive; its channel counts as free.
3. `codex_exit`: if a request is in flight when the app-server exits, its error
   invalidates the generation first, the exit notification is dropped as stale,
   and the active turn waits for its time limit.

The models also show behaviours that no document speaks about, or none plainly. They are listed
as hazards with a note, and the properties are stated so that they do not claim
otherwise: a turn that outlives its time limit, its interruption and the grace is still
worked on by the server when its run ends, and the check of an active turn before a
continuation is offered ("no still-active turn", line 123 of the task control design) looks
at the table from which the run has just taken it, so that the channel's next turn may start
beside the old one (`OneServerTurn` names this exception, no run of its own shows it);
retention drops a continuation chain whole (so fewer than its limit
may be kept); a reservation of a generated file can be released a second time
after a stream resisted being closed; a late notification of an earlier turn can
end the next turn of its thread; of two callers of `start()`, the second can
blame the replacement for its predecessor's error; a send that was repeated *and*
an attachment whose write failed leave a card nobody finds (hence
`MaxFaults = 1` in `mirror_publication` and `Unrepeated` in the theorem); a reservation whose write was not known to be durable keeps an
item busy until the next start; startup reconciliation may finish the
reservation of a live start; `start_slash` builds its request outside the `try` that
removes the thread, so a prompt that the request rejects leaves a thread, and so
does a repeated interaction; a runner that close cancels before its first step does
not clean up its inputs; a card whose last render is cancelled by close stays old,
since reconciliation renders only the records it changes; an older task that is retried
resumes whatever thread its channel is bound to by then, which may be a newer task's,
while the design document says "never a silent replacement session"; a clone that a crash
cut short blocks its repository; a worktree whose creation was cut short may be taken for
whole; git commands have no time limit, and Stop does not reach a task whose workspace
is being prepared; an answer is lost when its usage cannot be written.

## Proofs

Every theorem holds for all values of the constants that satisfy the named
assumptions of its module. Each rests on an inductive invariant that is checked
by TLC on the bounds of the runs first and then proved with one lemma per action.
The state counts below are of those checks.

### The store

`DiscordTaskStoreProofs` proves `TypeCorrect`, `ChannelsExclusive`,
`StoreAlwaysLoads`, `AcknowledgedSurvives`, `RetentionExact` (`RetentionIsTheScan`),
`RetentionBounds` (`InactiveWithinLimit`),
`RevisionsAlwaysAdvance`, `FirstCauseAlwaysWins` and `StoreImplementsLifecycle`, for
every set of tasks, channels and owners and every limit. `StoreInvariant`: every document in memory, in
the file or left to a power loss is a *good document* (well typed, finite, channels
exclusive, continuation graph reciprocal and acyclic, records constructible),
memory equals the file, and the file is among the documents a power loss may
leave. The properties are not inductive alone: a restart loads what a power loss
left, so exclusiveness of memory needs exclusiveness of every document; loading
needs the graph to survive retention, which needs components to be closed under
links. The proof has one lemma per way a document is made (put, link, forget,
reconcile, retain).

The refinement of `TaskLifecycle` needs two more facts. Retention keeps every
active record (`RetentionKeepsActive`: its component is an active one), so that what a
commit loses on the side is inactive. And a record that has its result message is
completed (`ResultsComplete`, 80,580 states): `_reconcile` would otherwise complete a task that
was delivering, where the documented life cycle says `delivery_failed`.
`CommitPublishes` turns each of the three ends of a write into a publication or a
stutter; one lemma per operation then names the abstract step.

`RetentionExact` is about the model as much as about the code. `kept_inactive` says what
retention keeps by a condition, and `commit` chooses a set that satisfies it: had it no
solution, every commit would be silently disabled, and had it two, retention would not be
the function the code computes. `scan_order` and `scan_retained` are the code's sort and its
loop with the count it keeps. The proof: the reciprocal links make components a
partition (`ComponentsPartition`); the newest record of each, ties broken by its id, orders
them strictly and totally (`NewerOrders`), so that the number of newer components is a
bijection onto the places and the sort succeeds (`OrderFacts`); the loop keeps at each place
what fits beside the kept components before it, and its count is the number of tasks in them
(`ScanFacts`); the first place at which another solution differed would see the same
components before it (`OneRetention`). It needs documents to be finite, hence that part of a
good document. The inductions are over places, by the least one for which a
statement could fail. It is stated of the documents that `compare_and_set`,
`reconcile_startup` and `forget` may hand to `commit`, alone or with one more settled task
(`offered_documents`, `OfferedLinked`).

`RetentionBounds` says what this is for: the oldest kept component fitted beside all the
others, so together they are within the limit (`KeptFits`); a task of an active component is
in an active component of what retention leaves, since components are kept whole
(`RetentionWithinLimit`); and every step commits a good document or adds none (`StepCommits`).

### The service

`DiscordTaskServiceProofs` proves, for any number of tasks, channels, interactions,
attempts, process ends and power losses, and with events before reconciliation or not:

- `ServiceKeepsStore`: exclusive channels, loadable documents, durable acknowledgements;
- `ResultSentOnce` (`OneResultMessage`), `NeverRunAgain` (`NoRerunAfterHandover`) and
  `StopAlwaysWins` (`StopWins`);
- `EffectsOnce` (`InteractionsOnce`) under `Roomy`: the claims of a process have room for
  the interactions. The code keeps 2048; one that was forgotten may take effect again.

They rest on `ServiceInvariant` (`CoreInv`): the store's invariant, what a runner
remembers at each await, that ids are drawn once (`Fresh`), and `Agrees`, which relates a
record to what happened outside: after the result was handed over the record is
delivering, completed or `delivery_failed`; if it is being sent or has arrived, the record
does not offer to send it again; the attempt that was stopped is in a state no result
leaves from. The three properties speak of the record in memory, but a power loss replaces
memory by an older document, so `Agrees` is stated for every document a power loss may
leave. It survives because the code writes the record *before* it hands the result over
or interrupts the run, and an acknowledged write leaves no older document. One lemma
per step of a runner, operation and retry shows that it stores a record that `Agrees`
with at least as much as the one before (`Succeeds`).

Where events wait for startup reconciliation (`~EarlyIntake`; the run
`service_early_intake` shows that the code lacks what this assumes):

- `RunsIsolated` (`IsolatedRuns`), from `RunnersInv`: at every await a runner finds the
  record in a state and channel that fit, with a Stop as the only change meanwhile. Two
  runners in one session would then be two active records of one channel. At startup
  there is no runner for reconciliation to interrupt, which is where the condition enters.
- `ServiceUsesStore` (`UsesStore`), from the same invariant: each update the service
  computes is one that `StoreSpec` foresees for the record it finds. `Revisions = Nat` and
  `Reported` (the errors explored include `runtime_disconnected`) exclude instances
  whose bounds cut the store off; the code has neither bound.
  `ServiceImplementsLifecycle` then carries `StoreImplementsLifecycle`,
  `RevisionsAlwaysAdvance` and `FirstCauseAlwaysWins` to the service.
- `NoOrphans` (`ActiveHasRunner`) and `CacheFollowsRecords` (`CacheMatchesRecords`), if
  also every write succeeds, from `AttendedInv`. Both conditions are those of
  `service_lifetime`. A write that fails while a runner settles its task ends the runner
  and leaves the record active; the code logs it and the next start settles the task.

`CoreInv` holds in the 746,512 states of `service_channel`, the 135,692 of
`service_lifetime` and the 42,729 explored with `EarlyIntake`; `RunnersInv` in those of
the first two; `AttendedInv` in those of `service_lifetime` and in 83,785 of
`service_channel` with `WriteOutcomes = {"ok"}`. All proofs about records assume
`NoneAssumption`: that the absent value differs from every failure and state.

### The delivery cache

`DiscordDeliveryCacheProofs` proves `RepliesAlwaysHaveHolder` for any number of
threads, tasks, replies and files, with every fault. `CacheInvariant` adds to the
property where each thread stands (`ThreadShapes`), that two threads never work on
one entry (`ClaimsExclusive`), that a cached reply is cached under its own task and
is held by nobody (`RepliesConsistent`), and what `close` has not met yet
(`Draining`). Without the claims, a reply that one thread disposes of could be the
one another thread leases.

### The Codex app-server

`CodexAppServerProofs` proves of the connection, for any number of callers and
generations: `AlwaysOneServer`, `ClientAlwaysOpen` and `CloseIsFinal`, from
`ConnectionInvariant`. Its parts: every process that may still run is owned by
the connection, the recovery, a caller or the close (`Owned`); what each place
of the recovery task says about old and new client (`RecoveryInv`); what `close`
has taken over (`CloserInv`); the connection's client is the current generation's
(`ClientInv`); a caller that was woken holds the outcome of the last recovery
(`StarterInv`). One server at a time is not inductive alone: that a recovery may
start a process needs that no other owner has a live one.

It proves of the runtime, for any number of runs, callers, channels and
turns, that it moves the connection only as `ConnectionSpec` allows
(`RuntimeUsesConnection`, proved only), which carries the theorems about the connection to it
(`RuntimeHasOneServer`, `RuntimeClosesForGood`); that an answer the server sent before
the end of its turn is returned (`AnswersKept`); and that a generation is only marked
failed for an error of its own (`FailuresAreOwn`). `RuntimeInvariant` (446,980 states)
joins the connection's invariant with the runtime's tables: runs have the client of
their generation (`Published`), claims and buffers agree (`Claims`), a turn is one
run's (`Accepted`), and wherever the end of a turn is, in the transport's queue or in
the buffer of early notifications, its answer is further on (`AnswersFirst`). The last
is what `AnswerKept` needs, since the step that loses an answer is not the one
that sent it. That the first notification for a turn is found by its index uses the
least element of a set of numbers, from the well-foundedness of `<`.

### From a task to its turn

`AgentGatewayProofs` proves for any number of channels, repositories and tasks:
`NobodyEverWaits`, `ThreadsStayInChannels`, `RestrictedThreadsAreTheirs`,
`OneTurnOfChannel` and `PinnedTurnsStay`. `GatewayInvariant` (2,777,925 states)
says how far the preparation of each run is and that a pinned worktree is at its commit
from then on (`WorktreesInv`); that an id is that of one request, answer or waiting
call (`Ids`); and what is under way for whom: which message or answer a call waits for
and that the answer is a thread of its channel and context (`Converses`), that a turn
asked for or running belongs to a live run of the current client, unless that client is
given up already or the run was given up at the turn's time limit (`Owned`), and that
there is one per channel beside those (`OneTurn`). That a task is run once (`Begun`) keeps
a turn of the second kind from being taken for that of a live run. `OneTurnOfChannel` thus
covers every request that was given up, since that invalidates its generation, and states
the case in which the code keeps the client as its exception. The properties speak about sessions and turns only;
what would break them is an answer that is already in a pipe, hence the conjuncts on the
pipes. Assumed: tasks of before have sessions of their own channels and restricted tasks
name a repository and a commit (`TaskAssumption`), `None` is not a context, and bounds
are numbers.

### The GitHub mirror

`GitHubMirrorPublisherProofs` proves `CompletedIsCurrent`, that a publication which
completed shows the newest event, without conditions, and `NoCardIsStray`, that no card
is lost track of, under `Unrepeated`: the library never posts a repeated send twice
(`Copies = {1}`), or no write fails without leaving its record in the file. The
condition is needed, and a run with `MaxFaults = 2` would show it: if a send was repeated
and the write that attaches the card then fails, `_delete_uncommitted_cards` removes the
message that was returned and gives the claim back, and nothing remembers the nonce of
the other. That a send may post two cards is what the model grants the library; a
library that always enforces the nonce does not. `PublisherInvariant` says what each
suspension of the worker still knows of the record and of the channel (`At`), that
every card carries the record's id or one of its nonces (`Accounted`), and what a
rendered record that has become old implies (`Fresh`). It was checked with two
faults and one deletion on 421,922 states (`Copies = {1}`), 350,902 (`{1, 2}`, no
failed write) and 588,809 (`{1, 2}` and every outcome).

`GitHubMirrorTaskStarterProofs` proves `OneTaskOfAnItem`, `RunningTaskAlwaysKnown`,
`ReservationAlwaysOwned`, and `InteractionsStartOnce` under `Roomy`: the history of handled
interactions has room for all of them (the code keeps 64; an interaction that was
forgotten again may be repeated). `StarterInvariant` (395,139 states) adds what a handler between `reserve()` and the
start is owed (`Owed`: its task does not exist, its reservation stands), that no two
handlers start the same task (`Distinct`), and that the record is constructible
(`Sound`).

### The presentation

`DiscordTaskSurfaceProofs` proves the four properties of `task_surface` for any number of
handlers, flushes, events, attempts, reports and faults, for any parts of a report and
with a close at any time: `CardEndsRight` (`FinalCardShown`), `ProgressAlwaysShown`
(`ProgressShown`), `NothingIsLeft` (`NothingLeftBehind`) and `CardOnlyAdvances`
(`CardNeverGoesBack`). None of them is inductive. `SurfaceInvariant` has, besides the types:

- `QueueInv`: who waits for the messenger's lock holds the runtime's or is a flush, and
  only the holder of both has read a card. So at most one caller has something to show.
- `RunnerInv` and `StatesAt`: the states in which the record can be while the runner is at an
  await. A settled record has no runner that will still ask the agent.
- `ProgressInv`: a flush belongs to the coordinator's entry (`Current`), or it found the task
  settled, dropped the entry and edits without progress (`Outlived`); then no later attempt
  reports before that edit is over, since the runner's own render waits behind it. While a
  settled task still has an entry, a render that drops it is due.
- `AttemptInv`, `NewestInv`, `FinalInv`: what a card and whoever edits it show is of one
  attempt; without a flush it is the newest; and the card of a settled task is right, being
  made right, or will be.
- `OrderInv`: what is shown is not newer than what its editor has read, and that not newer
  than the record. This is what `CardNeverGoesBack` needs.
- `HandlerInv`: at which awaits a handler may own files or a thread. Each step of a handler
  is shown to balance what exists with who owns it (`Balance`).

The proof has three groups. The steps of handlers leave the card and the coordinator alone;
`QuietStep` says what they must still observe (a record that they settle or retry is
rendered), and is proved once to keep the invariant, so that each handler's lemma only
shows that its step is one (`HandlerEffect`). The runner's steps likewise (`Runs`). The
steps of renders change what is shown; `LeaveFacts` and `LeaveProgress` say what is left
when a caller gives up both locks. That cancelled callers leave the others in order is a
fact about the recursive function `drop`, shown by the least number for which it could fail
(`Upto`), as the induction theorems of the library cannot be instantiated.

Assumed: `AbsenceAssumption`, that the absent value is no record, entry or card, and that
callers, flushes and the runner have different names. TLC checked the invariant on the
403,033 states of one handler and two events, 8,194,784 states of two handlers and
three events (up to renaming), and in 31 million states of random behaviours of three
handlers, eight events, five reports and four attempts.

### Only model-checked

Every safety invariant and every action property of the runs that hold is proved. What is
left to TLC is every liveness property, `ActiveSettles` of the service, `RunsEnd`,
`CloseReturns` and `EventuallyPublished`, and the absence of deadlock: the proof system
reasons neither from fairness nor about `ENABLED`.

## Not modelled

Text (cards, prompts, JSON documents), file descriptors and path checks, HTTP parsing and signatures, the command-line agent backend's
process I/O, usage statistics, memory and guidance files: they keep no state that
the properties are about, or are I/O whose success or failure is all that the
modelled parts see. Of the presentation, the read-only commands and the rules of
access (a refusal is possible at every check) are left out; of staging, what a
previous process left. Of the agent gateway, the one-shot command and
the webhook are left out, which keep no state, and prompts that name several
repositories, which get the channel's root; of the transport, the order of the bytes of
two messages that wait for the write lock, the steps between asking the process to end
and killing it, and standard error. In `AgentGateway` a run that is cancelled while the
gateway closes is not a step of its own: what follows is the crash; and a Stop by the user
is an end of the turn by the server (`codex_turns` has both).

## Plan

1. Access: who may press what, and the controls a card offers to its owner,
   composed with the surface.
2. Staging of attachments: locks, quotas and cleanup of what a previous process
   left.
