------------------------- MODULE DiscordTaskSurface -------------------------
(***************************************************************************)
(* One task as Discord users meet it: the requests that start it           *)
(* (discord_mentions.py, discord_task_commands.py,                         *)
(* discord_task_controller.py, discord_task_threads.py), the files staged  *)
(* for it (discord_task_inputs.py, discord_staging_files.py), the buttons  *)
(* of its card (discord_task_component_controller.py), its runner, and the *)
(* close of the service.  What the card shows is DiscordTaskMessenger's.   *)
(*                                                                         *)
(* A handler is a coroutine of one Discord event; handler[h].at names the  *)
(* await it is suspended at, or "none".  Requests of users without the     *)
(* needed permission are refused before anything changes, and the store's  *)
(* and the service's own checks are DiscordTaskService's; here, any check  *)
(* that depends on other tasks or on the agent may fail.  The first task   *)
(* that is started is followed; a request that starts another one is       *)
(* followed until its thread and its files belong to that task.            *)
(***************************************************************************)
EXTENDS DiscordTaskMessenger, BoundedClaims

CONSTANTS
  Messages,     \* the triggers that are messages
  Requests,     \* the triggers that are interactions
  MaxEvents,    \* bound: Discord events that are handled
  MaxAttempts   \* bound: attempts of the task

ASSUME SurfaceAssumption ==
  /\ {1, 2} \subseteq TaskIds
  /\ Triggers = Messages \cup Requests
  /\ Owners # {} /\ Channels # {}
  /\ None \notin Triggers \cup {"slash", "context"}
  /\ MaxEvents \in Nat /\ MaxAttempts \in Nat

VARIABLES
  created,   \* the trigger of the task that is followed
  started,   \* the triggers that have started a task
  runner,    \* its runner: the await it is suspended at, whether it has inputs
  handler,   \* the handlers of events
  seen,      \* DiscordMentionCoordinator._seen_order
  closing,   \* progress of DiscordTaskService.close
  events,    \* how many events were handled
  onDisk,    \* staged directories that exist, except those of other tasks
  pending,   \* StagingCleanupRegistry._owners: those whose cleanup failed
  stranded,  \* those of a runner that was cancelled before its first step
  threads,   \* dedicated threads that exist and have no task
  left       \* those of them that nobody will remove

stagingVars == <<onDisk, pending, stranded>>

surfaceVars ==
  <<created, started, runner, handler, seen, closing, events, stagingVars, threads, left>>

vars == <<cardVars, surfaceVars>>

displayVars ==
  <<card, shown, unshown, inner, view, entry, flush, silent, updates_made>>

NoRunner == [at |-> "none", inputs |-> FALSE, error |-> None, read |-> None]

\* A runner that has been created and has not run yet.
spawned(kind, inputs) == [NoRunner EXCEPT !.at = kind, !.inputs = inputs]

unstarted == runner.at \in {"new", "recovering", "sending"}

NoEvent == [at |-> "none", what |-> None, trigger |-> None, inputs |-> FALSE]

is_closed == closing # "open"

Init ==
  /\ CardInit
  /\ created = None /\ started = {} /\ runner = NoRunner
  /\ handler = [h \in Handlers |-> NoEvent]
  /\ seen = <<>> /\ closing = "open" /\ events = 0
  /\ onDisk = 0 /\ pending = 0 /\ stranded = 0 /\ threads = 0 /\ left = 0

----------------------------------------------------------------------------
(* Building blocks.                                                        *)

persist(candidate) == task' = [candidate EXCEPT !.revision = task.revision + 1]

goes(h, stage) == handler' = [handler EXCEPT ![h].at = stage]

ends(h) == handler' = [handler EXCEPT ![h] = NoEvent]

one(b) == IF b THEN 1 ELSE 0

\* A defect for comparison: a cleanup that fails is forgotten.
cleanup_unregistered(inputs) ==
  \/ onDisk' = onDisk - one(inputs) /\ UNCHANGED <<pending, faults>>
  \/ /\ inputs /\ faults < MaxFaults
     /\ faults' = faults + 1
     /\ UNCHANGED <<onDisk, pending>>

\* StagedDiscordAttachments.cleanup: what cannot be removed is registered and
\* the error is raised.
cleanup(inputs) ==
  \/ onDisk' = onDisk - one(inputs) /\ UNCHANGED <<pending, faults>>
  \/ /\ inputs /\ faults < MaxFaults
     /\ faults' = faults + 1
     /\ pending' = pending + 1
     /\ UNCHANGED onDisk

raised == faults' # faults

\* create_staging_ownership, for a message with attachments.
staging(attached) == onDisk' = onDisk + one(attached)

----------------------------------------------------------------------------
(* Requests for a task.                                                    *)

arrives(h) ==
  /\ handler[h] = NoEvent
  /\ events < MaxEvents
  /\ events' = events + 1

\* _claim_message: a message that was seen is dropped.
claimed(m) ==
  /\ ~existing(seen, m)
  /\ seen' = remember(seen, m, None)

active_task == task # None /\ is_active(task)

\* dispatch of a message that is not known, up to the staging of its
\* attachments: a follow-up in the channel of the active task, a new task in
\* another channel.  Without attachments the code does not wait there; the
\* model lets it.
Mention(h, m, what, attached) ==
  /\ arrives(h)
  /\ claimed(m)
  /\ what = "steer" => active_task
  /\ handler' = [handler EXCEPT ![h] =
       [at |-> "stage", what |-> what, trigger |-> m, inputs |-> attached]]
  /\ staging(attached)
  /\ UNCHANGED <<cardVars, created, started, runner, closing, pending, stranded,
                 threads, left>>

\* /study ask and the message action, up to the creation of the thread.
Command(h, what, i) ==
  /\ arrives(h)
  /\ handler' = [handler EXCEPT ![h] =
       [NoEvent EXCEPT !.at = "thread", !.what = what, !.trigger = i]]
  /\ UNCHANGED <<cardVars, created, started, runner, seen, closing, stagingVars,
                 threads, left>>

dedicated(h) == handler[h].what \in {"slash", "context"}

\* The request has failed: its thread is to be removed.
given_up(h, inputs) ==
  IF dedicated(h)
    THEN handler' = [handler EXCEPT ![h].at = "remove", ![h].inputs = inputs]
    ELSE ends(h)

new_task(h) ==
  [revision |-> 1, owner |-> CHOOSE o \in Owners : TRUE,
   channel |-> CHOOSE c \in Channels : TRUE, trigger |-> handler[h].trigger,
   updated |-> 0, attempt |-> 1, state |-> "starting", failure |-> None,
   cause |-> None, result |-> FALSE, from |-> None, to |-> None]

\* DiscordTaskService.start; n counts the threads without task, the request's
\* own included.
start(h, n) ==
  LET e == handler[h]
      known == e.trigger \in started
      forgotten == e.trigger = created /\ task = None
  IN  \/ /\ is_closed \/ ~known         \* closed, busy, or not to be stored
         /\ cleanup(e.inputs)
         /\ given_up(h, FALSE)
         /\ threads' = n
         /\ UNCHANGED <<task, created, started, runner, left>>
      \/ /\ ~is_closed /\ known         \* handled before
         /\ cleanup(e.inputs)
         /\ \/ /\ raised \/ e.trigger # created \/ forgotten
               /\ given_up(h, FALSE)
               /\ UNCHANGED left
            \/ /\ ~raised /\ ~forgotten
               /\ ends(h)
               /\ left' = left + one(dedicated(h))
         /\ threads' = n
         /\ UNCHANGED <<task, created, started, runner>>
      \/ /\ ~is_closed /\ ~known
         /\ ends(h)
         /\ started' = started \cup {e.trigger}
         /\ IF created = None
              THEN /\ created' = e.trigger
                   /\ task' = new_task(h)
                   /\ runner' = spawned("new", e.inputs)
                   /\ UNCHANGED onDisk
              ELSE /\ onDisk' = onDisk - one(e.inputs)
                   /\ UNCHANGED <<created, task, runner>>
         /\ threads' = n - one(dedicated(h))
         /\ UNCHANGED <<pending, faults, left>>

\* create_dedicated_thread returned.  A slash command goes on to start, unless
\* its prompt is not valid; a message action stages the attachments first.
ThreadCreated(h) ==
  /\ handler[h].at = "thread"
  /\ \/ /\ handler[h].what = "slash"
        /\ start(h, threads + 1)
     \/ /\ handler[h].what = "slash"
        /\ ends(h)
        /\ threads' = threads + 1
        /\ left' = left + 1
        /\ UNCHANGED <<task, created, started, runner, onDisk, pending, faults>>
     \/ \E attached \in BOOLEAN :
          /\ handler[h].what = "context"
          /\ handler' = [handler EXCEPT ![h].at = "stage", ![h].inputs = attached]
          /\ threads' = threads + 1
          /\ staging(attached)
          /\ UNCHANGED <<task, created, started, runner, pending, faults, left>>
  /\ UNCHANGED <<displayVars, outer, seen, closing, events, stranded>>

\* It raised: no permission, Discord refused, or what it answered is not a
\* usable thread, which then stays.
ThreadRefused(h) ==
  /\ handler[h].at = "thread"
  /\ ends(h)
  /\ \/ UNCHANGED <<threads, left>>
     \/ threads' = threads + 1 /\ left' = left + 1
  /\ UNCHANGED <<cardVars, created, started, runner, seen, closing, events,
                 stagingVars>>

\* DiscordTaskActions.steer up to AgentGateway.steer, or refused: not running, or
\* without a turn that can be steered.  channel_capabilities does not suspend, as
\* the locks that it takes are never held over a suspension.
steer(h) ==
  /\ \/ /\ ~is_closed /\ task # None /\ task.state = "running"
        /\ goes(h, "steering")
        /\ UNCHANGED <<onDisk, pending, faults>>
     \/ cleanup(handler[h].inputs) /\ ends(h)
  /\ UNCHANGED <<task, created, started, runner, threads, left>>

\* The attachments are staged, and the request is valid.
Staged(h) ==
  /\ handler[h].at = "stage"
  /\ IF handler[h].what = "steer" THEN steer(h) ELSE start(h, threads)
  /\ UNCHANGED <<displayVars, outer, seen, closing, events, stranded>>

\* They are not: stage_message_attachments removes what it created.
StageFails(h) ==
  /\ handler[h].at = "stage" /\ handler[h].inputs
  /\ cleanup(TRUE)
  /\ given_up(h, FALSE)
  /\ UNCHANGED <<displayVars, task, outer, created, started, runner, seen,
                 closing, events, stranded, threads, left>>

\* The prompt is not valid: the files are cleaned up at once, or after the
\* thread was removed.
RequestInvalid(h) ==
  /\ handler[h].at = "stage"
  /\ IF dedicated(h)
       THEN given_up(h, handler[h].inputs) /\ UNCHANGED <<onDisk, pending, faults>>
       ELSE cleanup(handler[h].inputs) /\ ends(h)
  /\ UNCHANGED <<displayVars, task, outer, created, started, runner, seen,
                 closing, events, stranded, threads, left>>

\* delete_dedicated_thread ended, or failed: then the thread stays.
ThreadRemoved(h) ==
  /\ handler[h].at = "remove"
  /\ cleanup(handler[h].inputs)
  /\ ends(h)
  /\ \/ threads' = threads - 1 /\ UNCHANGED left
     \/ left' = left + 1 /\ UNCHANGED threads
  /\ UNCHANGED <<displayVars, task, outer, created, started, runner, seen,
                 closing, events, stranded>>

----------------------------------------------------------------------------
(* Buttons of the card, and controls in messages.                          *)

\* After the operation a button's handler refreshes the card.
refresh(h) ==
  IF handler[h].what \in {"start", "steer", "halt"} \/ task = None
    THEN ends(h) /\ UNCHANGED outer
    ELSE goes(h, "refresh") /\ render(h)

\* AgentGateway.steer ended, one way or the other.
Steered(h) ==
  /\ handler[h].at = "steering"
  /\ cleanup(handler[h].inputs)
  /\ \/ ~raised /\ refresh(h)
     \/ ends(h) /\ UNCHANGED outer
  /\ UNCHANGED <<displayVars, task, created, started, runner, seen, closing,
                 events, stranded, threads, left>>

\* DiscordTaskActions.stop up to its first await.
stop(h) ==
  /\ ~is_closed
  /\ task # None
  /\ \/ /\ task.state \in {"recovering", "starting", "running"}
        /\ persist(claim_stop(task, 0))
        /\ goes(h, "interrupt")
     \/ /\ task.state = "stopping"
        /\ UNCHANGED task
        /\ goes(h, "interrupt_again")

\* A button that the card shows is pressed, or Forget is confirmed; access is
\* resolved next.
Click(h, what) ==
  /\ arrives(h)
  /\ task # None
  /\ \/ shown # None /\ card /\ what \in buttons(shown.record)
     \/ what = "forget" /\ ~is_active(task)
  /\ handler' = [handler EXCEPT ![h] = [NoEvent EXCEPT !.at = "access", !.what = what]]
  /\ UNCHANGED <<cardVars, created, started, runner, seen, closing, stagingVars,
                 threads, left>>

\* dispatch of a cancel prompt of the owner in the channel of the task.  The
\* code goes on to stop at once; the model lets it wait, as a button does.
MentionStop(h, m) ==
  /\ arrives(h)
  /\ claimed(m)
  /\ active_task
  /\ handler' = [handler EXCEPT ![h] = [NoEvent EXCEPT !.at = "access", !.what = "halt"]]
  /\ UNCHANGED <<cardVars, created, started, runner, closing, stagingVars, threads,
                 left>>

\* queries.validate_session_retry
session_retry_allowed(r) ==
  /\ r.failure # None
  /\ r.failure.retry_mode = "continue_session"
  /\ r.state \in {"failed", "timed_out", "interrupted"}

\* Forget, confirmed: the record is dropped, and nothing is rendered.
forget(h) ==
  /\ ~is_closed /\ task # None /\ ~is_active(task)
  /\ task' = None
  /\ ends(h)

\* resolve_task_access, authorize or the operation refuses: a channel that the
\* user does not see, an action that is not the user's, a task that moved on.
refused(h) == ends(h) /\ UNCHANGED <<task, outer>>

\* What an action does once access is resolved, up to its next await.
Accessed(h) ==
  /\ handler[h].at = "access"
  /\ \/ /\ handler[h].what \in {"stop", "halt"}
        /\ stop(h)
        /\ UNCHANGED outer
     \/ /\ handler[h].what = "why" /\ task # None /\ task.failure # None
        /\ refresh(h)
        /\ UNCHANGED task
     \/ /\ handler[h].what = "retry" /\ ~is_closed /\ task # None /\ task.failure # None
        /\ task.failure.retry_mode = "retry_delivery" \/ session_retry_allowed(task)
        /\ task.attempt < MaxAttempts
        /\ goes(h, "idle")
        /\ UNCHANGED <<task, outer>>
     \/ /\ handler[h].what \in {"add_context", "continue"} /\ task # None
        /\ goes(h, "modal")
        /\ UNCHANGED <<task, outer>>
     \/ /\ handler[h].what = "forget"
        /\ forget(h)
        /\ UNCHANGED outer
     \/ refused(h)
  /\ UNCHANGED <<displayVars, faults, created, started, runner, seen, closing, events,
                 stagingVars, threads, left>>

\* continue_task with a saved session and no turn; the child is another task.
continue_task(h) ==
  /\ ~is_closed
  /\ task # None /\ task.state = "completed" /\ task.to = None
  /\ persist([task EXCEPT !.to = 2])
  /\ goes(h, "render") /\ render(h)

\* The modal was filled in: submit_instruction.
ModalSubmitted(h) ==
  /\ handler[h].at = "modal"
  /\ \/ /\ handler[h].what = "add_context"
        /\ steer(h)
        /\ UNCHANGED outer
     \/ /\ handler[h].what = "continue"
        /\ continue_task(h)
        /\ UNCHANGED <<created, started, runner, onDisk, pending, faults, threads, left>>
     \/ /\ refused(h)
        /\ UNCHANGED <<created, started, runner, onDisk, pending, faults, threads, left>>
  /\ UNCHANGED <<displayVars, seen, closing, events, stranded>>

\* AgentGateway.interrupt ended or raised; a first stop renders the card.
Interrupted(h) ==
  /\ \/ /\ handler[h].at = "interrupt"
        /\ goes(h, "render") /\ render(h)
     \/ /\ handler[h].at = "interrupt_again"
        /\ refresh(h)
     \/ /\ handler[h].at \in {"interrupt", "interrupt_again"}
        /\ ends(h) /\ UNCHANGED outer
  /\ UNCHANGED <<displayVars, task, faults, created, started, runner, seen, closing,
                 events, stagingVars, threads, left>>

\* _retry_delivery: the delivery is repeated if the reply is still cached.
retry_delivery ==
  /\ task.failure.retry_mode = "retry_delivery"
  /\ \/ /\ persist(advance(task, "delivering", 0))
        /\ runner' = spawned("sending", FALSE)
     \/ /\ persist(with_failure(task, classify_delivery_failure(FALSE), 0))
        /\ UNCHANGED runner

\* The session is resumed, if it is saved and has no turn.
retry_session ==
  /\ session_retry_allowed(task)
  /\ persist(advance(task, "recovering", 0))
  /\ runner' = spawned("recovering", FALSE)

\* retry after wait_idle, which waits for the runner it found.  Retries that wait
\* for the same runner are released together: the first one that is carried out
\* takes the record on, and the others are refused beside the runner it started.
\* A retry that instead waits for that one's end stands for a later event.
RetryIdle(h) ==
  /\ handler[h].at = "idle"
  /\ \/ /\ runner = NoRunner
        /\ ~is_closed /\ task # None /\ task.failure # None
        /\ retry_delivery \/ retry_session
        /\ goes(h, "render") /\ render(h)
     \/ /\ runner = NoRunner \/ (task # None /\ is_active(task))
        /\ ends(h) /\ UNCHANGED <<task, runner, outer>>
  /\ UNCHANGED <<displayVars, faults, created, started, seen, closing, events,
                 stagingVars, threads, left>>

\* The render that a handler waits for is over.
Rendered(h) ==
  /\ ~rendering(h)
  /\ \/ handler[h].at = "render" /\ refresh(h)
     \/ handler[h].at = "refresh" /\ ends(h) /\ UNCHANGED outer
  /\ UNCHANGED <<displayVars, task, faults, created, started, runner, seen, closing,
                 events, stagingVars, threads, left>>

----------------------------------------------------------------------------
(* The runner.                                                             *)

reaches(stage) == runner' = [runner EXCEPT !.at = stage, !.read = None]

\* A defect for comparison: the last change of the record is not rendered.
settles_unseen(candidate) ==
  /\ persist(candidate)
  /\ UNCHANGED outer
  /\ reaches("last")

\* A settled record and its last render.
settles(candidate) ==
  /\ persist(candidate)
  /\ render("runner")
  /\ reaches("last")

returns == reaches("last") /\ UNCHANGED <<task, outer>>

\* _finish_stopping, or the next step of a task that goes on.
unless_stopped(next) ==
  IF task.state = "stopping" THEN settles(advance(task, "stopped", 0)) ELSE next

\* record_agent_failure up to channel_capabilities.
record_agent_failure(error) ==
  unless_stopped(
    IF failure_target(task, error) = None THEN returns
    ELSE IF failure_cause(task, error) = None THEN settles(fail(task, error, 0))
    ELSE /\ persist(fail(task, error, 0))
         /\ runner' = [runner EXCEPT !.at = "enrich", !.error = error, !.read = task']
         /\ UNCHANGED outer)

\* The first step of _agent_runner or _send_delivery.
RunnerStarts ==
  /\ unstarted
  /\ runner' = CASE runner.at = "new" -> [runner EXCEPT !.at = "create", !.read = task]
                 [] runner.at = "recovering" -> [runner EXCEPT !.at = "recover"]
                 [] runner.at = "sending" -> [runner EXCEPT !.at = "send"]
  /\ UNCHANGED <<task, outer, card, shown, unshown>>

\* create_card: the card shows the record as it was read.
CardCreated ==
  /\ runner.at = "create"
  /\ shown' = card_of(runner.read, None) /\ unshown' = FALSE
  /\ card' = TRUE
  /\ persist(attach_card(task, 0))
  /\ render("runner")
  /\ reaches("begin")

CardFails ==
  /\ runner.at = "create"
  /\ reaches("begin")
  /\ UNCHANGED <<task, outer, card, shown, unshown>>

\* _agent_runner from the record to the render of the running task.
Begin ==
  /\ runner.at = "begin" /\ ~rendering("runner")
  /\ unless_stopped(
       IF task.state = "starting"
         THEN persist(advance(task, "running", 0)) /\ render("runner") /\ reaches("context")
         ELSE returns)
  /\ UNCHANGED <<card, shown, unshown>>

\* AgentGateway.start returned: two transitions in one step.
Recovered ==
  /\ runner.at = "recover"
  /\ unless_stopped(
       IF task.state = "recovering"
         THEN /\ task' = [advance(advance(task, "starting", 0), "running", 0)
                            EXCEPT !.revision = task.revision + 2]
              /\ render("runner")
              /\ reaches("context")
         ELSE returns)
  /\ UNCHANGED <<card, shown, unshown>>

\* The workspace is resolved, and the agent is asked.
Asked ==
  /\ runner.at = "context" /\ ~rendering("runner")
  /\ reaches("ask")
  /\ UNCHANGED <<task, outer, card, shown, unshown>>

\* The agent answers.  The reply is prepared without an await in between.
Replied ==
  /\ runner.at = "ask"
  /\ unless_stopped(
       IF task.state = "running"
         THEN persist(advance(task, "delivering", 0)) /\ reaches("send") /\ UNCHANGED outer
         ELSE returns)
  /\ UNCHANGED <<card, shown, unshown>>

AgentFails(error) ==
  /\ runner.at \in {"recover", "context", "ask"} /\ ~rendering("runner")
  /\ record_agent_failure(error)
  /\ UNCHANGED <<card, shown, unshown>>

\* channel_capabilities answered or raised.
Enriched ==
  /\ runner.at = "enrich"
  /\ \/ /\ task # None
        /\ \/ UNCHANGED task
           \/ \E resumable \in BOOLEAN :
                /\ task.revision = runner.read.revision
                /\ persist(with_failure(task, classify_agent_failure(runner.error, resumable), 0))
        /\ render("runner")
        /\ reaches("last")
     \/ task = None /\ returns
  /\ UNCHANGED <<card, shown, unshown>>

Sent ==
  /\ runner.at = "send"
  /\ \/ settles(complete(task, 0))
     \/ \E definitive \in BOOLEAN : settles(delivery_failed(task, definitive, 0))
  /\ UNCHANGED <<card, shown, unshown>>

RunnerStep ==
  /\ \/ RunnerStarts \/ CardCreated \/ CardFails \/ Begin \/ Recovered \/ Asked
     \/ Replied \/ Enriched \/ Sent
     \/ \E error \in Errors : AgentFails(error)
  /\ UNCHANGED <<inner, view, entry, flush, silent, updates_made, faults, created,
                 started, handler, seen, closing, events, stagingVars, threads, left>>

\* The last render is over: the runner's inputs are cleaned up.
RunnerDone ==
  /\ runner.at = "last" /\ ~rendering("runner")
  /\ runner' = NoRunner
  /\ cleanup(runner.inputs)
  /\ UNCHANGED <<displayVars, task, outer, created, started, handler, seen, closing,
                 events, stranded, threads, left>>

\* The agent reports progress while it is asked.
Progress(parts) ==
  /\ runner.at = "ask"
  /\ sink(parts)
  /\ UNCHANGED <<task, card, shown, unshown, outer, inner, view, silent, faults,
                 surfaceVars>>

----------------------------------------------------------------------------
(* DiscordTaskService.close: runners, presentation, pending cleanups.      *)

\* A runner that has not run yet is cancelled without its finally clause.
CloseRunners ==
  /\ closing = "open"
  /\ closing' = "runners"
  /\ runner' = NoRunner
  /\ cancel_renders({"runner"})
  /\ IF unstarted
       THEN stranded' = stranded + one(runner.inputs) /\ UNCHANGED <<onDisk, pending, faults>>
       ELSE cleanup(runner.inputs) /\ UNCHANGED stranded
  /\ UNCHANGED <<task, card, entry, flush, silent, updates_made, created, started,
                 handler, seen, events, threads, left>>

ClosePresentation ==
  /\ closing = "runners"
  /\ closing' = "presentation"
  /\ close_progress
  /\ UNCHANGED <<task, card, updates_made, faults, created, started, runner, handler,
                 seen, events, stagingVars, threads, left>>

\* StagingCleanupRegistry.retry_all; if it raises, close may be called again.
CloseStaging ==
  /\ closing = "presentation"
  /\ \/ /\ onDisk' = onDisk - pending
        /\ pending' = 0
        /\ closing' = "closed"
     \/ /\ pending > 0
        /\ \E n \in 0 .. pending - 1 : onDisk' = onDisk - n /\ pending' = pending - n
        /\ UNCHANGED closing
  /\ UNCHANGED <<cardVars, created, started, runner, handler, seen, events, stranded,
                 threads, left>>

----------------------------------------------------------------------------

HandlerStep(h) ==
  \/ \E m \in Messages, what \in {"start", "steer"}, attached \in BOOLEAN :
       Mention(h, m, what, attached)
  \/ \E m \in Messages : MentionStop(h, m)
  \/ \E what \in {"slash", "context"}, i \in Requests : Command(h, what, i)
  \/ \E what \in {"stop", "retry", "why", "add_context", "continue", "forget"} :
       Click(h, what)
  \/ ThreadCreated(h) \/ ThreadRefused(h) \/ Staged(h) \/ StageFails(h)
  \/ RequestInvalid(h) \/ ThreadRemoved(h) \/ Steered(h)
  \/ Accessed(h) \/ ModalSubmitted(h) \/ Interrupted(h) \/ RetryIdle(h)
  \/ Rendered(h)

\* Steps of the renders that run for somebody.
Renders ==
  /\ \E c \in Callers : RenderStep(c)
  /\ UNCHANGED surfaceVars

Flushing(f) == FlushWakes(f) /\ UNCHANGED surfaceVars

Next ==
  \/ \E h \in Handlers : HandlerStep(h)
  \/ RunnerStep \/ RunnerDone
  \/ \E parts \in Notifications : Progress(parts)
  \/ Renders
  \/ \E f \in Flushes : Flushing(f)
  \/ CloseRunners \/ ClosePresentation \/ CloseStaging

Spec == Init /\ [][Next]_vars

----------------------------------------------------------------------------
(* Properties.                                                             *)

\* The card never returns to an older record, whichever of the runner, the
\* handlers and the flushes edits it: the record is read under the lock that
\* is held until the edit is over.
CardNeverGoesBack ==
  [][shown # None => shown'.record.revision >= shown.record.revision]_vars

\* Once a settled task is left alone, its card shows how it ended and no
\* progress, unless the last edit was lost.
FinalCardShown ==
  /\ task # None /\ ~is_active(task) /\ card /\ ~is_closed
  /\ runner = NoRunner /\ outer = <<>> /\ inner = <<>> /\ ~unshown
  => shown = card_of(task, None)

\* Progress on the card was reported in the attempt that the card shows: what
\* an earlier attempt reported is dropped when it ends, before a retry begins.
ProgressOfAttempt ==
  (shown # None /\ shown.progress # None) =>
    shown.progress.attempt = shown.record.attempt

\* No progress is lost: when no flush is due and no render under way, the card
\* of an active task shows the newest of what was reported, however updates
\* and renders overlapped, unless an edit failed.
NewestProgressShown ==
  /\ entry # None /\ entry.flush = None
  /\ active_task /\ ~is_closed /\ faults = 0
  /\ outer = <<>> /\ inner = <<>>
  => shown.progress = entry.progress

\* The progress on the card is that of the attempt and the newest one reported
\* in it, although flushes, renders and retries overlap.
ProgressShown == ProgressOfAttempt /\ NewestProgressShown

\* Every staged directory that exists belongs to a handler or the runner, which
\* will clean it up, or to the registry, which tries again; the exception is
\* the runner that close cancels before its first step.
InputsHaveOwner ==
  onDisk = Cardinality({h \in Handlers : handler[h].inputs}) + one(runner.inputs)
           + pending + stranded

\* A dedicated thread has a task or a request that will remove it, unless its
\* creation or removal failed at Discord, its slash prompt was invalid or its
\* request was a repetition.
ThreadsHaveTasks ==
  threads = Cardinality({h \in Handlers : dedicated(h) /\ handler[h].at # "thread"}) + left

\* Whatever fails between a request and its task, in whatever order, nothing is
\* left behind: neither files nor threads, apart from the cases above.
NothingLeftBehind == InputsHaveOwner /\ ThreadsHaveTasks
============================================================================
