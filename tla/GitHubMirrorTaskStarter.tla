---------------------- MODULE GitHubMirrorTaskStarter ----------------------
(***************************************************************************)
(* Tasks that are started from the card of a mirrored item: buttons, the   *)
(* work form and mentions (github_mirror_controller.py), the reservation   *)
(* of the item (github_mirror_action_store.py) and the start itself        *)
(* (github_mirror_task_starter.py), with startup reconciliation.           *)
(*                                                                         *)
(* What runs between two awaits is one action, so the retries of a         *)
(* compare_and_set whose revision changed never happen here.  A handler is *)
(* suspended in                                                            *)
(*   "ack"      the acknowledgement, or fetching the card for a mention    *)
(*   "thread"   resolve_or_create_thread                                   *)
(*   "context"  resolve_github_task_context                                *)
(* service.start() does not suspend.  A thread made from a message has the *)
(* message's id, so threads are named by cards.                            *)
(***************************************************************************)
EXTENDS GitHubMirrorRecord, FiniteSets

CONSTANTS
    Handlers,        \* concurrent handlers of interactions
    Triggers,        \* interaction and message ids
    Cards,           \* message ids that the item's card has in turn
    WriteOutcomes,
    MaxTasks,        \* bounds: task ids drawn,
    MaxRetries,      \* retries of tasks that ended,
    MaxFaults,       \* writes that fail,
    MaxCrashes,      \* process ends
    MaxChanges       \* webhooks and cards replaced

ASSUME StarterAssumption ==
    /\ WriteOutcomes \subseteq {"ok", "failed", "unsynced"} /\ "ok" \in WriteOutcomes
    /\ \A n \in {MaxTasks, MaxRetries, MaxFaults, MaxCrashes, MaxChanges} : n \in Nat
    /\ None \notin Cards \cup Triggers \cup 1..MaxTasks
    /\ None \notin [interaction : Triggers, task : 1..MaxTasks]

VARIABLES
    mirror,    \* the stored record of the item
    tasks,     \* the tasks that were started for the item
    claims,    \* DiscordTaskService._triggers: trigger ids handled by this process
    handler,   \* the handlers
    phase,     \* startup: "started", "tasks_reconciled", "reconciled"
    used       \* how much of each bound is used

vars == <<mirror, tasks, claims, handler, phase, used>>

TaskIds == 1..MaxTasks
NoTask == [state |-> "absent", trigger |-> None, thread |-> None, early |-> FALSE, retried |-> FALSE]
Idle == [at |-> "idle", trigger |-> None, card |-> None, active |-> None, thread |-> None,
         task |-> None, early |-> FALSE]

Init ==
    /\ \E e \in Events, c \in Cards :
          mirror = [record_from_event(e) EXCEPT !.card = c, !.publication_pending = FALSE]
    /\ tasks = [t \in TaskIds |-> NoTask]
    /\ claims = [i \in Triggers |-> None]
    /\ handler = [h \in Handlers |-> Idle]
    /\ phase = "reconciled"
    /\ used = [tasks |-> 0, retries |-> 0, faults |-> 0, crashes |-> 0, changes |-> 0]

stored(ts, t) == t # None /\ ts[t].state \in {"active", "ended"}
running(ts, t) == t # None /\ ts[t].state = "active"

-----------------------------------------------------------------------------
\* GitHubMirrorActionStore: the record after each operation.
reserved(m, i, t) == updated_record([m EXCEPT !.pending_action = [interaction |-> i, task |-> t]])
attached(m, thread) == updated_record([m EXCEPT !.thread = thread])
cleared(m, t) == IF m.active # t THEN m ELSE updated_record([m EXCEPT !.active = None])

matching_pending(m, t) == m.pending_action # None /\ m.pending_action.task = t

\* A task id that the record mentions has been drawn: no other start draws it.
mentions(m, t) == matching_pending(m, t) \/ \E n \in DOMAIN m.handled : m.handled[n].task = t

\* Mutant: the interaction is not remembered as handled.
finished_unclaimed(m, t, succeeded) ==
    updated_record([m EXCEPT !.pending_action = None, !.active = IF succeeded THEN t ELSE None])

finished(m, t, succeeded) ==
    updated_record([m EXCEPT
        !.pending_action = None,
        !.active = IF succeeded THEN t ELSE None,
        !.handled = Append(@, [interaction |-> m.pending_action.interaction, task |-> t,
                               succeeded |-> succeeded])])

\* _reservation_for(): the task that an interaction was given before, or None.
prior(m, i) ==
    IF m.pending_action # None /\ m.pending_action.interaction = i THEN m.pending_action.task
    ELSE LET known == {n \in DOMAIN m.handled : m.handled[n].interaction = i}
         IN IF known = {} THEN None ELSE m.handled[CHOOSE n \in known : TRUE].task

-----------------------------------------------------------------------------
\* A result of a step: the stored record, the handler, and the writes that failed.
Result(m, s) == {[mirror |-> m, handler |-> s, faults |-> 0]}
Faulty(results) == {[q EXCEPT !.faults = @ + 1] : q \in results}

\* A write that may raise; the exception is handled by raised.
Committed(m, new, then(_), raised(_)) ==
    IF new = m THEN then(m)
    ELSE UNION {CASE o = "ok" -> then(new)
                  [] o = "failed" -> Faulty(raised(m))
                  [] o = "unsynced" -> Faulty(raised(new)) : o \in WriteOutcomes}

Ends(m) == Result(m, Idle)
Write(m, new) == Committed(m, new, Ends, Ends)

\* finish() where nothing follows it; it raises if the action is no longer pending.
Finish(m, t, succeeded) ==
    IF matching_pending(m, t) THEN Write(m, finished(m, t, succeeded)) ELSE Ends(m)

\* Mutant: a start that raised is always taken for failed.
SettleFailed(m, ts, t) == Finish(m, t, FALSE)

\* _settle_failed_start()
Settle(m, ts, t) == Finish(m, t, stored(ts, t))

\* _busy_response() for the task that keeps the item busy.
Busy(m, t) ==
    IF m.pending_action # None
    THEN IF stored(tasks, t) THEN Finish(m, t, TRUE) ELSE Ends(m)
    ELSE IF running(tasks, t) THEN Ends(m) ELSE Write(m, cleared(m, t))

\* _replayed_response()
Replayed(m, t) ==
    IF stored(tasks, t) /\ m.pending_action # None THEN Finish(m, t, TRUE) ELSE Ends(m)

\* reserve() and what start() does up to the first await; a reservation whose write raises
\* is not settled.
Reserve(m, s, t) ==
    IF prior(m, s.trigger) # None THEN Replayed(m, prior(m, s.trigger))
    ELSE IF m.pending_action # None THEN Busy(m, m.pending_action.task)
    ELSE IF m.active # None THEN Busy(m, m.active)
    ELSE IF m.state \notin {"open", "draft"} THEN Ends(m)
    ELSE Committed(m, reserved(m, s.trigger, t),
                   LAMBDA new : IF new.card # s.card THEN Settle(new, tasks, t)
                                ELSE Result(new, [s EXCEPT !.at = "thread", !.task = t,
                                                           !.thread = new.thread]),
                   Ends)

\* start(): the record that was read before the acknowledgement decides whether the item
\* has a task, and which finished one is cleared.
StartTask(m, s, t) ==
    IF running(tasks, s.active) THEN Ends(m)
    ELSE IF s.active = None THEN Reserve(m, s, t)
    ELSE Committed(m, cleared(m, s.active), LAMBDA new : Reserve(new, s, t), Ends)

\* Mutant: the thread of the current card replaces the one the item is bound to.
AttachThreadAnew(m, s) ==
    IF ~matching_pending(m, s.task) THEN Settle(m, tasks, s.task)
    ELSE Committed(m, attached(m, s.card),
                   LAMBDA new : Result(new, [s EXCEPT !.at = "context", !.thread = s.card]),
                   LAMBDA n : Settle(n, tasks, s.task))

AttachThread(m, s) ==
    LET thread == IF s.thread # None THEN s.thread ELSE s.card
        settle(n) == Settle(n, tasks, s.task)
    IN IF ~matching_pending(m, s.task) \/ m.thread \notin {None, thread} THEN settle(m)
       ELSE Committed(m, attached(m, thread),
                      LAMBDA new : Result(new, [s EXCEPT !.at = "context", !.thread = thread]),
                      settle)

-----------------------------------------------------------------------------
\* DiscordTaskService.start(): what is returned and what is stored.
by_trigger(i) == {t \in TaskIds : stored(tasks, t) /\ tasks[t].trigger = i}
already_handled(i) == claims[i] # None \/ by_trigger(i) # {}
channel_free(thread) ==
    \A t \in TaskIds : running(tasks, t) => tasks[t].thread # thread

Continue(h, results, faults) ==
    \E q \in results :
       /\ used.faults + q.faults + faults <= MaxFaults
       /\ mirror' = q.mirror
       /\ handler' = [handler EXCEPT ![h] = q.handler]
       /\ used' = [used EXCEPT !.faults = @ + q.faults + faults,
                               !.tasks = IF mentions(q.mirror, @ + 1) THEN @ + 1 ELSE @]

\* A button, the work form or a mention: validated_button() and the first await.  Nothing
\* makes an interaction wait for reconciliation; early tells the ones that did not.
Press(h, i) ==
    /\ handler[h].at = "idle"
    /\ mirror.card # None
    /\ handler' = [handler EXCEPT ![h] = [Idle EXCEPT !.at = "ack", !.trigger = i,
                                                      !.card = mirror.card,
                                                      !.active = mirror.active,
                                                      !.early = phase # "reconciled"]]
    /\ UNCHANGED <<mirror, tasks, claims, phase, used>>

Start(h) ==
    /\ handler[h].at = "ack"
    /\ used.tasks < MaxTasks
    /\ Continue(h, StartTask(mirror, handler[h], used.tasks + 1), 0)
    /\ UNCHANGED <<tasks, claims, phase>>

ThreadResolved(h) ==
    /\ handler[h].at = "thread"
    /\ Continue(h, AttachThread(mirror, handler[h]), 0)
    /\ UNCHANGED <<tasks, claims, phase>>

\* Mutant: a start that fails leaves its reservation.
StartAbandoned(h) ==
    /\ handler[h].at \in {"thread", "context"}
    /\ Continue(h, Ends(mirror), 0)
    /\ UNCHANGED <<tasks, claims, phase>>

\* The thread or the commit is unavailable, or the handler is cancelled.
StartFails(h) ==
    /\ handler[h].at \in {"thread", "context"}
    /\ Continue(h, Settle(mirror, tasks, handler[h].task), 0)
    /\ UNCHANGED <<tasks, claims, phase>>

\* The task is created and the reservation finished; if that raises, the start is settled
\* once more.
ContextResolved(h) ==
    LET s == handler[h]
        new == [tasks EXCEPT ![s.task] = [state |-> "active", trigger |-> s.trigger,
                                          thread |-> s.thread, early |-> s.early,
                                          retried |-> FALSE]]
        settle(ts) == Settle(mirror, ts, s.task)
    IN
    /\ s.at = "context"
    /\ UNCHANGED phase
    /\ \/ /\ already_handled(s.trigger) \/ ~channel_free(s.thread)
          /\ Continue(h, settle(tasks), 0)
          /\ UNCHANGED <<tasks, claims>>
       \/ /\ ~already_handled(s.trigger) /\ channel_free(s.thread)
          /\ \E o \in WriteOutcomes :
                /\ tasks' = IF o = "failed" THEN tasks ELSE new
                /\ claims' = IF o = "ok" THEN [claims EXCEPT ![s.trigger] = s.task] ELSE claims
                /\ IF o = "ok"
                   THEN Continue(h, IF matching_pending(mirror, s.task)
                                    THEN Committed(mirror, finished(mirror, s.task, TRUE), Ends,
                                                   LAMBDA m : Settle(m, new, s.task))
                                    ELSE Ends(mirror), 0)
                   ELSE Continue(h, settle(tasks'), 1)

-----------------------------------------------------------------------------
\* The tasks live their own lives (DiscordTaskService).
TaskEnds(t) ==
    /\ running(tasks, t)
    /\ tasks' = [tasks EXCEPT ![t].state = "ended"]
    /\ UNCHANGED <<mirror, claims, handler, phase, used>>

TaskRetried(t) ==
    /\ tasks[t].state = "ended"
    /\ channel_free(tasks[t].thread)
    /\ used.retries < MaxRetries
    /\ tasks' = [tasks EXCEPT ![t].state = "active", ![t].retried = TRUE]
    /\ used' = [used EXCEPT !.retries = @ + 1]
    /\ UNCHANGED <<mirror, claims, handler, phase>>

TaskForgotten(t) ==
    /\ tasks[t].state = "ended"
    /\ tasks' = [tasks EXCEPT ![t].state = "forgotten"]
    /\ UNCHANGED <<mirror, claims, handler, phase, used>>

\* The item is closed, merged or reopened (github_webhook).
Webhook(e) ==
    /\ used.changes < MaxChanges
    /\ upsert_existing(mirror, e) # mirror
    /\ mirror' = upsert_existing(mirror, e)
    /\ used' = [used EXCEPT !.changes = @ + 1]
    /\ UNCHANGED <<tasks, claims, handler, phase>>

\* The publisher replaces a card that was deleted.
CardReplaced(c) ==
    /\ used.changes < MaxChanges
    /\ c # mirror.card
    /\ mirror' = updated_record([mirror EXCEPT !.card = c])
    /\ used' = [used EXCEPT !.changes = @ + 1]
    /\ UNCHANGED <<tasks, claims, handler, phase>>

Restart ==
    /\ used.crashes < MaxCrashes
    /\ handler' = [h \in Handlers |-> Idle]
    /\ claims' = [i \in Triggers |-> None]
    /\ phase' = "started"
    /\ used' = [used EXCEPT !.crashes = @ + 1]
    /\ UNCHANGED <<mirror, tasks>>

\* DiscordTaskService.reconcile_startup() interrupts the tasks of the previous process.
TasksReconciled ==
    /\ phase = "started"
    /\ phase' = "tasks_reconciled"
    /\ tasks' = [t \in TaskIds |-> IF running(tasks, t) THEN [tasks[t] EXCEPT !.state = "ended"]
                                   ELSE tasks[t]]
    /\ UNCHANGED <<mirror, claims, handler, used>>

\* reconcile_startup(): a pending reservation is finished, then an active task that is over
\* is cleared.
Reconciled ==
    LET clear(m) == IF m.active # None /\ ~running(tasks, m.active)
                    THEN Write(m, cleared(m, m.active)) ELSE Ends(m)
        t == mirror.pending_action.task
    IN
    /\ phase = "tasks_reconciled"
    /\ phase' = "reconciled"
    /\ \E q \in IF mirror.pending_action = None THEN clear(mirror)
                ELSE Committed(mirror, finished(mirror, t, stored(tasks, t)), clear, Ends) :
          /\ used.faults + q.faults <= MaxFaults
          /\ mirror' = q.mirror
          /\ used' = [used EXCEPT !.faults = @ + q.faults]
    /\ UNCHANGED <<tasks, claims, handler>>

Next ==
    \/ \E h \in Handlers : \/ \E i \in Triggers : Press(h, i)
                           \/ Start(h)
                           \/ ThreadResolved(h)
                           \/ StartFails(h)
                           \/ ContextResolved(h)
    \/ \E t \in TaskIds : TaskEnds(t) \/ TaskRetried(t) \/ TaskForgotten(t)
    \/ \E e \in Events : Webhook(e)
    \/ \E c \in Cards : CardReplaced(c)
    \/ Restart
    \/ TasksReconciled
    \/ Reconciled

Spec == Init /\ [][Next]_vars

\* Whatever card, reservation or retry they came from, the tasks of an item share its
\* thread, so at most one of them runs.
OneTaskRuns ==
    \A t, u \in TaskIds : running(tasks, t) /\ running(tasks, u) => t = u

\* A task that was started from the card is known to the record until it ends, although
\* finish() or the process failed right after the start: the next press finds it.  (Startup
\* reconciliation may take the reservation of a start that did not wait for it.)
\* The record always is one that __post_init__ accepts.
RunningTaskKnown ==
    /\ constructible(mirror)
    /\ \A t \in TaskIds : running(tasks, t) /\ ~tasks[t].early /\ ~tasks[t].retried
          => mirror.active = t \/ matching_pending(mirror, t)

\* An interaction that is handled twice starts one task, across restarts and forgetting.
OneTaskPerInteraction ==
    \A t, u \in TaskIds :
       tasks[t].trigger # None /\ tasks[t].trigger = tasks[u].trigger => t = u

\* Without a failed write a reservation is always someone's: the handler that will finish
\* or settle it, or the reconciliation; the item is not blocked for ever.
ReservationHasOwner ==
    used.faults = 0 /\ phase = "reconciled" /\ mirror.pending_action # None
       => \E h \in Handlers : handler[h].task = mirror.pending_action.task
=============================================================================
