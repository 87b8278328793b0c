------------------------- MODULE DiscordTaskService -------------------------
(***************************************************************************)
(* The task service of one gateway process over the store:                 *)
(* discord_task_service.py, discord_task_actions.py,                       *)
(* discord_task_runtime.py, discord_task_runners.py,                       *)
(* discord_task_runtime_failures.py, discord_task_reconciliation.py,       *)
(* discord_task_queries.py and the start of reconciliation in              *)
(* discord_task_application.py.                                            *)
(*                                                                         *)
(* The process is one asyncio event loop: what runs between two awaits is  *)
(* one action.  Each task has at most one runner; runner[t].at names the   *)
(* await it is suspended at:                                               *)
(*   "card"      create_card               "prepare"  prepare_reply        *)
(*   "begin"     render of the new card    "send"     delivery of the reply*)
(*   "recover"   AgentGateway.start        "failing"  none: an exception   *)
(*   "context"   render, workspace and                is on its way to     *)
(*               connection                           record_agent_failure *)
(*   "ready"     the channel is reserved,  "enrich"   channel_capabilities *)
(*               the turn is starting      "render"   the last card update *)
(*   "turn"      the active agent turn                                     *)
(* The agent, Discord and the file system are the environment: each await  *)
(* ends in any of the ways the code distinguishes.                         *)
(***************************************************************************)
EXTENDS DiscordTaskStore, BoundedClaims

CONSTANTS
  Interactions,   \* ids of component interactions and text controls
  EarlyIntake,    \* whether Discord may dispatch events before reconciliation
  MaxAttempts,    \* bound: attempts of a task after which no retry is requested
  MaxCrashes      \* bound: ends of the process

ASSUME ServiceAssumption ==
  /\ EarlyIntake \in BOOLEAN
  /\ "other" \in Errors
  /\ MaxAttempts \in Nat
  /\ MaxCrashes \in Nat

VARIABLES
  runner,          \* DiscordTaskRunners._current: what each runner awaits
  cache,           \* the tasks with a reply in the delivery cache
  interactions,    \* claims of interactions
  triggers,        \* claims of trigger events
  retrying,        \* retries suspended in wait_idle
  reconciliation,  \* progress of the startup reconciliation
  enriching,       \* records the reconciliation still has to enrich
  closed,          \* DiscordTaskService._closed
  nextId,          \* the next id of the id factory; ids grow with created_at
  crashes,         \* how often the process has ended
  history          \* what happened outside: see HistoryInit

serviceVars ==
  <<runner, cache, interactions, triggers, retrying, reconciliation, enriching,
    closed, nextId, crashes, history>>

vars == <<storeVars, serviceVars>>

Stages == {"none", "card", "begin", "recover", "context", "ready", "turn",
           "prepare", "send", "failing", "enrich", "render"}

\* A runner keeps the channel it runs in, the error it handles and the
\* revision it compares with, where it still needs them.
at(stage) == [at |-> stage, channel |-> None, error |-> None, revision |-> 0]

inside(stage, c) == [at(stage) EXCEPT !.channel = c]

failing(error) == [at("failing") EXCEPT !.error = error]

Idle == at("none")

live(t) == runner[t] # Idle

\* Observations the properties speak about: how many result messages of a
\* task reached Discord, whether its result was ever handed to Discord, the
\* attempt in which its owner's Stop was accepted, and how often an
\* interaction took effect in this process.
HistoryInit ==
  [landed  |-> [t \in TaskIds |-> 0],
   handed  |-> [t \in TaskIds |-> FALSE],
   stopped |-> [t \in TaskIds |-> 0],
   effects |-> [i \in Interactions |-> 0]]

Init ==
  /\ StoreInit
  /\ runner = [t \in TaskIds |-> Idle]
  /\ cache = {}
  /\ interactions = <<>> /\ triggers = <<>>
  /\ retrying = {}
  /\ reconciliation = "pending" /\ enriching = {}
  /\ closed = FALSE
  /\ nextId \in TaskIds /\ \A t \in TaskIds : nextId <= t
  /\ crashes = 0
  /\ history = HistoryInit

----------------------------------------------------------------------------
(* Building blocks.                                                        *)

\* A defect for comparison: a write that leaves the revision as it was.
persist_in_place(t, candidate) == commit(put(tasks, t, candidate))

persist_update(t, candidate) == compare_and_set(t, tasks[t].revision, candidate)

written == outcome' = "ok"

\* The runner goes on to its next await; where there is none it ends, and the
\* retries that wait for it are released.
move(t, next) ==
  /\ runner' = [runner EXCEPT ![t] = next]
  /\ retrying' = {IF op.task = t /\ next = Idle THEN [op EXCEPT !.released = TRUE]
                                                ELSE op : op \in retrying}

\* To one await if the write succeeded and to another if it raised.
proceed(t, next, otherwise) == move(t, IF written THEN next ELSE otherwise)

\* A retry that wait_idle released runs in the next turn of the event loop,
\* before any await of the task's next runner can end.
turn_of_runner(t, stage) ==
  /\ runner[t].at = stage
  /\ ~closed
  /\ ~ \E op \in retrying : op.task = t /\ op.released

affected(i) == [history EXCEPT !.effects[i] = @ + 1]

\* CodexAppServerRuntime.has_active_turn, and the check its run makes.
active_turn(channel) == \E t \in TaskIds : runner[t] = inside("turn", channel)

reserved(channel) == active_turn(channel) \/ \E t \in TaskIds : runner[t] = inside("ready", channel)

\* What no step of a runner changes.
quiet == UNCHANGED <<interactions, triggers, reconciliation, enriching, closed,
                     nextId, crashes>>

\* A defect for comparison: the runner of a stopping task just returns.
end_without_stopping(t, otherwise) == UNCHANGED storeVars /\ move(t, Idle)

\* _finish_stopping, from a runner.
finish_stopping(t, otherwise) ==
  /\ persist_update(t, advance(tasks[t], "stopped", clock))
  /\ proceed(t, at("render"), otherwise)

----------------------------------------------------------------------------
(* Operations of the service.                                              *)

accepting == ~closed /\ (EarlyIntake \/ reconciliation # "pending")

known_trigger(e) ==
  \/ existing(triggers, e)
  \/ \E t \in DOMAIN tasks : tasks[t].trigger = e

\* DiscordTaskService.start; a known trigger and a busy channel change nothing.
Start(owner, channel, e) ==
  /\ accepting
  /\ nextId \in TaskIds
  /\ ~known_trigger(e)
  /\ create(nextId, new_record(owner, channel, e, None, clock))
  /\ IF written
       THEN /\ triggers' = remember(triggers, e, nextId)
            /\ runner' = [runner EXCEPT ![nextId] = at("card")]
       ELSE UNCHANGED <<triggers, runner>>
  /\ nextId' = IF nextId \in DOMAIN tasks' THEN nextId + 1 ELSE nextId
  /\ UNCHANGED <<cache, interactions, retrying, reconciliation, enriching,
                 closed, crashes, history>>

\* DiscordTaskActions.steer: the record is not changed.
Steer(i, t) ==
  /\ accepting
  /\ ~existing(interactions, i)
  /\ tasks[t].state = "running"
  /\ interactions' = remember(interactions, i, t)
  /\ UNCHANGED <<storeVars, runner, cache, triggers, retrying, reconciliation,
                 enriching, closed, nextId, crashes, history>>

\* DiscordTaskActions.stop of a task that is already stopping: interrupt again.
StopAgain(i, t) ==
  /\ accepting
  /\ ~existing(interactions, i)
  /\ tasks[t].state = "stopping"
  /\ interactions' = remember(interactions, i, t)
  /\ UNCHANGED <<storeVars, runner, cache, triggers, retrying, reconciliation,
                 enriching, closed, nextId, crashes, history>>

\* DiscordTaskActions.stop; the interrupt it sends ends the turn in one of the
\* ways a turn can end anyway.
Stop(i, t) ==
  /\ accepting
  /\ ~existing(interactions, i)
  /\ tasks[t].state \in {"recovering", "starting", "running"}
  /\ persist_update(t, claim_stop(tasks[t], clock))
  /\ IF written
       THEN /\ interactions' = remember(interactions, i, t)
            /\ history' = [affected(i) EXCEPT !.stopped[t] = tasks[t].attempt]
       ELSE UNCHANGED <<interactions, history>>
  /\ UNCHANGED <<runner, cache, triggers, retrying, reconciliation, enriching,
                 closed, nextId, crashes>>

\* queries.validate_session_retry
session_retry_allowed(r) ==
  /\ r.failure # None
  /\ r.failure.retry_mode = "continue_session"
  /\ r.state \in {"failed", "timed_out", "interrupted"}

\* A defect for comparison: Retry does not wait for the runner to end.
RetryWithoutWaiting(i, t) ==
  /\ accepting
  /\ ~existing(interactions, i)
  /\ tasks[t].failure # None
  /\ tasks[t].failure.retry_mode = "retry_delivery" \/ session_retry_allowed(tasks[t])
  /\ tasks[t].attempt < MaxAttempts
  /\ retrying' = retrying \cup {[id |-> i, task |-> t, released |-> TRUE]}
  /\ UNCHANGED <<storeVars, runner, cache, interactions, triggers,
                 reconciliation, enriching, closed, nextId, crashes, history>>

\* DiscordTaskActions.retry up to wait_idle.
RetryRequested(i, t) ==
  LET r == tasks[t]
  IN /\ accepting
     /\ ~existing(interactions, i)
     /\ r.failure # None
     /\ r.failure.retry_mode = "retry_delivery" \/ session_retry_allowed(r)
     /\ r.attempt < MaxAttempts
     /\ retrying' = retrying \cup {[id |-> i, task |-> t, released |-> ~live(t)]}
     /\ UNCHANGED <<storeVars, runner, cache, interactions, triggers,
                    reconciliation, enriching, closed, nextId, crashes, history>>

\* What retry checks again after wait_idle.
retry_still_allowed(op) ==
  /\ ~closed
  /\ op.task \in DOMAIN tasks
  /\ ~existing(interactions, op.id)
  /\ tasks[op.task].failure # None

\* retry after wait_idle, where a check fails or the saved session is missing
\* or busy: nothing changes.
RetryRefused(op) ==
  /\ op.released
  /\ retry_still_allowed(op) =>
       \/ tasks[op.task].failure.retry_mode # "retry_delivery"
       \/ ~execution_available(op.task, advance(tasks[op.task], "delivering", clock))
  /\ retrying' = retrying \ {op}
  /\ UNCHANGED <<storeVars, runner, cache, interactions, triggers,
                 reconciliation, enriching, closed, nextId, crashes, history>>

\* retry after wait_idle with a saved session and no active turn.
RetrySession(op) ==
  LET t == op.task
  IN /\ op.released
     /\ retry_still_allowed(op)
     /\ session_retry_allowed(tasks[t])
     /\ ~active_turn(tasks[t].channel)
     /\ persist_update(t, advance(tasks[t], "recovering", clock))
     /\ IF written
          THEN /\ interactions' = remember(interactions, op.id, t)
               /\ history' = affected(op.id)
               /\ runner' = IF live(t) THEN runner   \* spawn raises RuntimeError
                            ELSE [runner EXCEPT ![t] = at("recover")]
          ELSE UNCHANGED <<interactions, history, runner>>
     /\ retrying' = retrying \ {op}
     /\ UNCHANGED <<cache, triggers, reconciliation, enriching, closed, nextId,
                    crashes>>

\* _retry_delivery with the cached reply.
RetryDelivery(op) ==
  LET t == op.task
  IN /\ op.released
     /\ retry_still_allowed(op)
     /\ tasks[t].failure.retry_mode = "retry_delivery"
     /\ t \in cache
     /\ persist_update(t, advance(tasks[t], "delivering", clock))
     /\ IF written
          THEN /\ interactions' = remember(interactions, op.id, t)
               /\ history' = affected(op.id)
               /\ cache' = cache \ {t}
               /\ runner' = IF live(t) THEN runner
                            ELSE [runner EXCEPT ![t] = at("send")]
          ELSE UNCHANGED <<interactions, history, cache, runner>>
     /\ retrying' = retrying \ {op}
     /\ UNCHANGED <<triggers, reconciliation, enriching, closed, nextId, crashes>>

\* _retry_delivery without one: never cached, or its files no longer validate.
RetryDeliveryLost(op) ==
  LET t == op.task
  IN /\ op.released
     /\ retry_still_allowed(op)
     /\ tasks[t].failure.retry_mode = "retry_delivery"
     /\ persist_update(t, with_failure(tasks[t], classify_delivery_failure(FALSE), clock))
     /\ IF written
          THEN /\ interactions' = remember(interactions, op.id, t)
               /\ history' = affected(op.id)
          ELSE UNCHANGED <<interactions, history>>
     /\ cache' = cache \ {t}
     /\ retrying' = retrying \ {op}
     /\ UNCHANGED <<runner, triggers, reconciliation, enriching, closed, nextId,
                    crashes>>

\* queries.can_continue: the latest task of its channel, completed, unlinked.
can_continue(t) ==
  /\ \A u \in DOMAIN tasks : tasks[u].channel = tasks[t].channel => u <= t
  /\ tasks[t].state = "completed"
  /\ tasks[t].to = None

\* DiscordTaskActions.continue_task with a saved session and no active turn.
Continue(i, p, e) ==
  /\ accepting
  /\ ~existing(interactions, i)
  /\ nextId \in TaskIds
  /\ can_continue(p)
  /\ ~active_turn(tasks[p].channel)
  /\ link_child(p, tasks[p].revision, nextId,
                new_record(tasks[p].owner, tasks[p].channel, e, p, clock))
  /\ IF written
       THEN /\ interactions' = remember(interactions, i, nextId)
            /\ triggers' = remember(triggers, e, nextId)
            /\ history' = affected(i)
            /\ runner' = [runner EXCEPT ![nextId] = at("card")]
       ELSE UNCHANGED <<interactions, triggers, history, runner>>
  /\ nextId' = IF nextId \in DOMAIN tasks' THEN nextId + 1 ELSE nextId
  /\ UNCHANGED <<cache, retrying, reconciliation, enriching, closed, crashes>>

\* DiscordTaskActions.forget
ForgetTask(i, t) ==
  /\ accepting
  /\ ~existing(interactions, i)
  /\ forget(t, tasks[t].revision)
  /\ IF written
       THEN /\ interactions' = remember(interactions, i, t)
            /\ history' = affected(i)
            /\ cache' = cache \ {t}
       ELSE UNCHANGED <<interactions, history, cache>>
  /\ UNCHANGED <<runner, triggers, retrying, reconciliation, enriching, closed,
                 nextId, crashes>>

----------------------------------------------------------------------------
(* Steps of a runner.  A step that stores a record without awaiting in     *)
(* between is split where a crash may come between two writes.             *)

known(t) == t \in DOMAIN tasks

\* create_card failed or returned nothing, or its id is attached.
CardDone(t) ==
  /\ turn_of_runner(t, "card") /\ known(t)
  /\ \/ UNCHANGED storeVars /\ move(t, at("begin"))
     \/ /\ persist_update(t, attach_card(tasks[t], clock))
        /\ proceed(t, at("begin"), failing("other"))
  /\ quiet /\ UNCHANGED <<cache, history>>

\* AgentGateway.start returned in a recovering runner.
Recovered(t) ==
  /\ turn_of_runner(t, "recover") /\ known(t)
  /\ \/ /\ tasks[t].state = "stopping"
        /\ finish_stopping(t, failing("other"))
     \/ /\ tasks[t].state = "recovering"
        /\ persist_update(t, advance(tasks[t], "starting", clock))
        /\ proceed(t, at("begin"), failing("other"))
     \/ /\ tasks[t].state \notin {"stopping", "recovering"}
        /\ UNCHANGED storeVars /\ move(t, Idle)
  /\ quiet /\ UNCHANGED <<cache, history>>

Begin(t) ==
  /\ turn_of_runner(t, "begin") /\ known(t)
  /\ \/ /\ tasks[t].state = "stopping"
        /\ finish_stopping(t, failing("other"))
     \/ /\ tasks[t].state = "starting"
        /\ persist_update(t, advance(tasks[t], "running", clock))
        /\ proceed(t, inside("context", tasks[t].channel), failing("other"))
     \/ /\ tasks[t].state \notin {"stopping", "starting"}
        /\ UNCHANGED storeVars /\ move(t, Idle)
  /\ quiet /\ UNCHANGED <<cache, history>>

\* CodexAppServerRuntime.run reserves the channel, or raises if it is taken.
TurnReserved(t) ==
  /\ turn_of_runner(t, "context")
  /\ move(t, IF reserved(runner[t].channel)
               THEN failing("other") ELSE inside("ready", runner[t].channel))
  /\ quiet /\ UNCHANGED <<storeVars, cache, history>>

TurnStarts(t) ==
  /\ turn_of_runner(t, "ready")
  /\ move(t, inside("turn", runner[t].channel))
  /\ quiet /\ UNCHANGED <<storeVars, cache, history>>

\* What a runner awaits raises before there is a reply: the runtime does not
\* start, the workspace cannot be prepared, the turn fails or times out.
RunFails(t, error) ==
  /\ \E stage \in {"recover", "context", "ready", "turn"} : turn_of_runner(t, stage)
  /\ move(t, failing(error))
  /\ quiet /\ UNCHANGED <<storeVars, cache, history>>

\* The turn completed: the first half of _prepare_delivery.
TurnReplies(t) ==
  /\ turn_of_runner(t, "turn") /\ known(t)
  /\ \/ /\ tasks[t].state = "stopping"
        /\ finish_stopping(t, failing("other"))
     \/ /\ tasks[t].state = "running"
        /\ UNCHANGED storeVars /\ move(t, at("prepare"))
     \/ /\ tasks[t].state \notin {"stopping", "running"}
        /\ UNCHANGED storeVars /\ move(t, Idle)
  /\ quiet /\ UNCHANGED <<cache, history>>

\* prepare_reply returned: the second half.  The reply is cached and consumed
\* again in the same step, so the cache does not change.
Prepared(t) ==
  /\ turn_of_runner(t, "prepare") /\ known(t)
  /\ \/ /\ tasks[t].state = "stopping"
        /\ finish_stopping(t, failing("other"))
        /\ UNCHANGED history
     \/ /\ tasks[t].state = "running"
        /\ persist_update(t, advance(tasks[t], "delivering", clock))
        /\ proceed(t, at("send"), failing("other"))
        /\ history' = [history EXCEPT !.handed[t] = @ \/ written]
     \/ /\ tasks[t].state \notin {"stopping", "running"}   \* transition raises
        /\ move(t, failing("other"))
        /\ UNCHANGED <<storeVars, history>>
  /\ quiet /\ UNCHANGED cache

\* prepare_reply raised, or the cached reply could not be consumed.
PrepareFails(t) ==
  /\ turn_of_runner(t, "prepare")
  /\ move(t, failing("other"))
  /\ quiet /\ UNCHANGED <<storeVars, cache, history>>

landing(t) == [history EXCEPT !.landed[t] = @ + 1]

delivering(t) == known(t) /\ tasks[t].state = "delivering"

\* deliver_reply returned the id of the result message.
Sent(t) ==
  /\ turn_of_runner(t, "send")
  /\ history' = landing(t)
  /\ IF delivering(t)
       THEN /\ persist_update(t, complete(tasks[t], clock))
            /\ proceed(t, at("render"), Idle)
       ELSE UNCHANGED storeVars /\ move(t, Idle)
  /\ quiet /\ UNCHANGED cache

\* A defect for comparison: every failed delivery is offered again.
SendFailsRetryably(t, definitive) ==
  /\ turn_of_runner(t, "send")
  /\ history' \in {history} \cup IF definitive THEN {} ELSE {landing(t)}
  /\ cache' = cache \cup {t}
  /\ IF delivering(t)
       THEN /\ persist_update(t, delivery_failed(tasks[t], TRUE, clock))
            /\ proceed(t, at("render"), Idle)
       ELSE UNCHANGED storeVars /\ move(t, Idle)
  /\ quiet

\* deliver_reply raised.  Definitively undelivered, the reply goes back to the
\* cache; otherwise it may have arrived all the same.
SendFails(t, definitive) ==
  /\ turn_of_runner(t, "send")
  /\ history' \in {history} \cup IF definitive THEN {} ELSE {landing(t)}
  /\ cache' = IF definitive THEN cache \cup {t} ELSE cache
  /\ IF delivering(t)
       THEN /\ persist_update(t, delivery_failed(tasks[t], definitive, clock))
            /\ proceed(t, at("render"), Idle)
       ELSE UNCHANGED storeVars /\ move(t, Idle)
  /\ quiet

\* record_agent_failure up to its await.
RecordFailure(t) ==
  LET error == runner[t].error
      enrich == [at("enrich") EXCEPT !.error = error, !.revision = tasks[t].revision + 1]
  IN /\ turn_of_runner(t, "failing") /\ known(t)
     /\ \/ /\ tasks[t].state = "stopping"
           /\ finish_stopping(t, Idle)
        \/ /\ failure_target(tasks[t], error) # None
           /\ persist_update(t, fail(tasks[t], error, clock))
           /\ proceed(t, IF failure_cause(tasks[t], error) # None
                           THEN enrich ELSE at("render"), Idle)
        \/ /\ tasks[t].state # "stopping" /\ failure_target(tasks[t], error) = None
           /\ UNCHANGED storeVars /\ move(t, Idle)
     /\ quiet /\ UNCHANGED <<cache, history>>

\* channel_capabilities returned: the session may be there, and it can only be
\* resumed if no turn is active; or it raised, or the record has changed.
Enrich(t) ==
  /\ turn_of_runner(t, "enrich") /\ known(t)
  /\ \/ UNCHANGED storeVars /\ move(t, at("render"))
     \/ /\ tasks[t].revision = runner[t].revision
        /\ \E persisted \in BOOLEAN :
             persist_update(t, with_failure(tasks[t],
               classify_agent_failure(runner[t].error,
                 persisted /\ ~active_turn(tasks[t].channel)), clock))
        /\ proceed(t, at("render"), Idle)
  /\ quiet /\ UNCHANGED <<cache, history>>

\* The last card update is done, and the runner returns.
RunnerDone(t) ==
  /\ turn_of_runner(t, "render")
  /\ move(t, Idle)
  /\ quiet /\ UNCHANGED <<storeVars, cache, history>>

\* The record is gone: store.get raises KeyError, also in the handler.
RunnerLosesTask(t) ==
  /\ ~known(t)
  /\ \E stage \in Stages \ {"none", "context", "ready", "send", "render"} :
        turn_of_runner(t, stage)
  /\ move(t, Idle)
  /\ quiet /\ UNCHANGED <<storeVars, cache, history>>

----------------------------------------------------------------------------
(* Startup, shutdown and the end of the process.                           *)

restart_interrupted(t) ==
  /\ tasks'[t] # tasks[t]
  /\ tasks'[t].state = "interrupted" /\ tasks'[t].cause = "gateway_restart"

\* _reconcile_after_ready up to the first await; an exception is logged.
Reconcile ==
  /\ ~closed
  /\ reconciliation = "pending"
  /\ reconcile_startup
  /\ IF outcome' \in {"ok", "unchanged"}
       THEN /\ reconciliation' = "enriching"
            /\ enriching' = {t \in DOMAIN tasks' : restart_interrupted(t)}
       ELSE /\ reconciliation' = "failed"
            /\ UNCHANGED enriching
  /\ UNCHANGED <<runner, cache, interactions, triggers, retrying, closed,
                 nextId, crashes, history>>

\* _enrich_restart of one record, as it is then; where the record is gone, or
\* cannot take the failure, or cannot be written, reconciliation ends.
EnrichRestart(t) ==
  /\ ~closed
  /\ t \in enriching
  /\ \E persisted \in BOOLEAN :
       LET enriched == with_failure(tasks[t],
             classify_agent_failure("runtime_disconnected",
               persisted /\ ~active_turn(tasks[t].channel)), clock)
       IN  \/ /\ known(t) /\ valid_record(t, enriched)
              /\ persist_update(t, enriched)
              /\ enriching' = IF written THEN enriching \ {t} ELSE {}
              /\ reconciliation' = IF written THEN reconciliation ELSE "failed"
           \/ /\ known(t) => ~valid_record(t, enriched)
              /\ enriching' = {}
              /\ reconciliation' = "failed"
              /\ UNCHANGED storeVars
  /\ UNCHANGED <<runner, cache, interactions, triggers, retrying, closed,
                 nextId, crashes, history>>

ReconcileDone ==
  /\ ~closed
  /\ reconciliation = "enriching" /\ enriching = {}
  /\ reconciliation' = "done"
  /\ UNCHANGED <<storeVars, runner, cache, interactions, triggers, retrying,
                 enriching, closed, nextId, crashes, history>>

\* Result messages that were on their way may still arrive.
in_flight_lands(effects) ==
  \E arriving \in SUBSET {t \in TaskIds : runner[t].at = "send"} :
    history' = [history EXCEPT
                  !.landed = [t \in TaskIds |->
                                IF t \in arriving THEN @[t] + 1 ELSE @[t]],
                  !.effects = effects]

\* DiscordTaskApplication.close: reconciliation and every runner are cancelled.
Close ==
  /\ ~closed
  /\ closed' = TRUE
  /\ runner' = [t \in TaskIds |-> Idle]
  /\ cache' = {} /\ retrying' = {} /\ enriching' = {}
  /\ reconciliation' = IF reconciliation = "done" THEN "done" ELSE "failed"
  /\ in_flight_lands(history.effects)
  /\ UNCHANGED <<storeVars, interactions, triggers, nextId, crashes>>

\* The process ends, cleanly or not, and a new one starts.
new_process ==
  /\ crashes < MaxCrashes
  /\ crashes' = crashes + 1
  /\ runner' = [t \in TaskIds |-> Idle]
  /\ cache' = {} /\ retrying' = {} /\ enriching' = {}
  /\ interactions' = <<>> /\ triggers' = <<>>
  /\ reconciliation' = "pending"
  /\ closed' = FALSE
  /\ in_flight_lands([i \in Interactions |-> 0])
  /\ UNCHANGED nextId

Restart == restart /\ new_process

PowerLoss == power_loss /\ new_process

Tick == tick /\ UNCHANGED serviceVars

----------------------------------------------------------------------------

Operations ==
  \/ \E o \in Owners, c \in Channels, e \in Triggers : Start(o, c, e)
  \/ \E i \in Interactions, t \in DOMAIN tasks :
       \/ Steer(i, t) \/ StopAgain(i, t) \/ Stop(i, t)
       \/ RetryRequested(i, t) \/ ForgetTask(i, t)
       \/ \E e \in Triggers : Continue(i, t, e)

RetryResumes(op) ==
  \/ RetryRefused(op) \/ RetrySession(op)
  \/ RetryDelivery(op) \/ RetryDeliveryLost(op)

RunnerStep(t) ==
  \/ CardDone(t) \/ Recovered(t) \/ Begin(t) \/ TurnReserved(t) \/ TurnStarts(t)
  \/ \E error \in Errors : RunFails(t, error)
  \/ TurnReplies(t) \/ Prepared(t) \/ PrepareFails(t)
  \/ Sent(t) \/ \E definitive \in BOOLEAN : SendFails(t, definitive)
  \/ RecordFailure(t) \/ Enrich(t) \/ RunnerDone(t) \/ RunnerLosesTask(t)

Startup == Reconcile \/ (\E t \in TaskIds : EnrichRestart(t)) \/ ReconcileDone

Next ==
  \/ Operations
  \/ \E op \in retrying : RetryResumes(op)
  \/ \E t \in TaskIds : RunnerStep(t)
  \/ Startup
  \/ Close \/ Restart \/ PowerLoss \/ Tick

Spec == Init /\ [][Next]_vars

\* The event loop resumes every coroutine whose await has ended, and every
\* await of a runner ends: turns, interrupts and Discord requests have time
\* limits.  Ready is reached, so reconciliation runs.  Nothing is assumed
\* about what users do, or about the ends of the process.
Fairness ==
  /\ \A t \in TaskIds : WF_vars(RunnerStep(t))
  /\ WF_vars(\E op \in retrying : RetryResumes(op))
  /\ WF_vars(Startup)

FairSpec == Spec /\ Fairness

----------------------------------------------------------------------------
(* Properties.                                                             *)

\* No orphans: once startup reconciliation has passed over the records, every
\* active record has a runner that will settle it, so no channel is blocked by
\* a task nobody works on, however stops, retries, failures, continuations and
\* retention interleave.
ActiveHasRunner ==
  reconciliation \in {"enriching", "done"} /\ ~closed =>
    \A t \in DOMAIN tasks : is_active(tasks[t]) => live(t)

\* A task's result message reaches its channel at most once, over delivery
\* retries, ambiguous failures, crashes while sending and replayed buttons.
OneResultMessage == \A t \in TaskIds : history.landed[t] <= 1

\* Once a result was handed to Discord no retry runs the agent again: the
\* task's side effects are not repeated because its delivery failed.
NoRerunAfterHandover ==
  [][\A t \in TaskIds :
       runner'[t].at = "turn" /\ runner[t].at # "turn" => ~history.handed[t]]_vars

\* A Stop that was accepted wins: no result of the stopped attempt is sent,
\* though the turn may still complete, fail or time out after the Stop.
StopWins ==
  [][\A t \in DOMAIN tasks :
       runner'[t].at = "send" /\ runner[t].at # "send" =>
         history.stopped[t] # tasks[t].attempt]_vars

\* An interaction takes effect at most once in a process, also when Discord
\* delivers it again while the first delivery waits for the runner to end.
InteractionsOnce == \A i \in Interactions : history.effects[i] <= 1

\* The delivery cache and the records agree: a record offers to send its reply
\* again exactly while the reply is cached, so Retry neither promises what is
\* gone nor keeps files of a task that cannot use them.
CacheMatchesRecords ==
  reconciliation \in {"enriching", "done"} /\ ~closed =>
    \A t \in DOMAIN tasks :
      t \in cache <=> /\ tasks[t].failure # None
                      /\ tasks[t].failure.retry_mode = "retry_delivery"

\* Every active task settles unless the process is closed or its startup
\* reconciliation raised: no stop, failure or interleaving leaves it hanging.
ActiveSettles ==
  \A t \in TaskIds :
    (t \in DOMAIN tasks /\ is_active(tasks[t])) ~>
      \/ t \notin DOMAIN tasks
      \/ ~is_active(tasks[t])
      \/ closed
      \/ reconciliation = "failed"

\* "One active task per execution channel/thread preserves runtime/worktree
\* isolation" (design document): no two runners use a channel's workspace and
\* agent session at the same time.
IsolatedRuns ==
  \A t, u \in TaskIds :
    /\ runner[t].at \in {"context", "ready", "turn"}
    /\ runner[u].at \in {"context", "ready", "turn"}
    /\ runner[t].channel = runner[u].channel
    => t = u

\* "delivering becomes delivery_failed with retry mode none" on startup (design
\* document): reconciliation leaves no record in delivery.
RestartSettlesDeliveries ==
  [][reconciliation = "pending" /\ reconciliation' \in {"enriching", "failed"} /\ ~closed' =>
       \A t \in DOMAIN tasks' : tasks'[t].state # "delivering"]_vars

\* The service uses the store only through the store's operations, and hands
\* it only updates that the store's own specification foresees.
UsesStore == StoreSpec
============================================================================
