------------------------- MODULE DiscordTaskRecord -------------------------
(***************************************************************************)
(* The task record of discord_task_model.py: its states, the legal         *)
(* transitions, the checks its constructor makes, and the pure functions   *)
(* that compute a changed record.  Every other task module builds on it.   *)
(*                                                                         *)
(* The data are abstracted to what the task logic tells apart: identifiers *)
(* of messages, labels and summaries are left out, guild, origin channel,  *)
(* intent and repository reference are folded into the owner (they only    *)
(* occur in the comparison same_task_scope), result_message_id is whether  *)
(* it is set, and timestamps are natural numbers.                          *)
(***************************************************************************)
EXTENDS Naturals

CONSTANTS
  TaskIds,     \* task ids; numbers, because retention breaks ties by id
  Channels,    \* execution channels and threads
  Owners,      \* task owners, with the rest of a task's scope
  Triggers,    \* ids of the Discord events that start tasks
  None         \* Python's None

ASSUME RecordAssumption ==
  /\ TaskIds \subseteq Nat
  /\ None \notin TaskIds

----------------------------------------------------------------------------

States ==
  {"starting", "recovering", "running", "stopping", "delivering", "completed",
   "delivery_failed", "failed", "timed_out", "stopped", "interrupted"}

Causes == {"user_stop", "timeout", "runtime_exit", "gateway_restart"}

\* The six categories that never carry a retry are one: "other".
Categories == {"timeout", "runtime_disconnected", "discord_delivery", "other"}

RetryModes == {"continue_session", "retry_delivery", "none"}

Failure == [category : Categories, retry_mode : RetryModes]

ASSUME NoneAssumption == None \notin Failure /\ None \notin States

failure_of(category, mode) == [category |-> category, retry_mode |-> mode]

Record ==
  [revision : Nat, owner : Owners, channel : Channels, trigger : Triggers,
   updated  : Nat, attempt : Nat \ {0}, state : States,
   failure  : Failure \cup {None}, cause : Causes \cup {None},
   result   : BOOLEAN, from : TaskIds \cup {None}, to : TaskIds \cup {None}]

\* A defect for comparison: a task that delivers no longer counts as active.
active_until_delivery == {"recovering", "starting", "running", "stopping"}

ACTIVE_STATES == {"recovering", "starting", "running", "stopping", "delivering"}

FAILURE_STATES == {"failed", "timed_out", "delivery_failed"}

is_active(r) == r.state \in ACTIVE_STATES

TRANSITIONS ==
  [s \in States |->
     CASE s \in {"failed", "timed_out", "interrupted"} -> {"recovering"}
       [] s = "recovering"      -> {"starting", "failed", "stopping"}
       [] s = "starting"        -> {"running", "failed", "stopping"}
       [] s = "running"         -> {"delivering", "failed", "timed_out",
                                    "stopping", "interrupted"}
       [] s = "stopping"        -> {"stopped", "failed", "interrupted"}
       [] s = "delivering"      -> {"completed", "delivery_failed"}
       [] s = "delivery_failed" -> {"delivering"}
       [] s \in {"completed", "stopped"} -> {}]

can_transition(current, target) == target \in TRANSITIONS[current]

\* The checks of DiscordTaskRecord.__post_init__ that relate fields; a record
\* that fails one cannot be constructed: replace() and transition() raise.
valid_record(t, r) ==
  /\ t \notin {r.from, r.to}
  /\ r.state \in FAILURE_STATES => r.failure # None
  /\ r.state \in {"completed", "stopped"} => r.failure = None
  /\ r.state = "delivery_failed" =>
       /\ r.failure.category = "discord_delivery"
       /\ r.failure.retry_mode \in {"retry_delivery", "none"}
  /\ (r.failure # None /\ r.state # "delivery_failed") =>
       /\ r.failure.category # "discord_delivery"
       /\ r.failure.retry_mode # "retry_delivery"

----------------------------------------------------------------------------

\* A defect for comparison: a retry starts counting again.
attempt_reset_by_retry(r, target) ==
  IF target = "recovering" THEN 0 ELSE r.attempt

attempt_after_transition(r, target) ==
  IF \/ target = "recovering" /\ r.state \in {"failed", "timed_out", "interrupted"}
     \/ target = "delivering" /\ r.state = "delivery_failed"
    THEN r.attempt + 1
    ELSE r.attempt

\* The failure a transition leaves: cleared by success, a stop and a delivery
\* retry, otherwise the new one or, without a new one, the old one.
failure_after_transition(r, target, failure) ==
  IF \/ target \in {"completed", "stopped"}
     \/ r.state = "delivery_failed" /\ target = "delivering"
    THEN None
    ELSE IF failure # None THEN failure ELSE r.failure

\* transition(record, target, updated_at, failure=...), where can_transition.
transition(r, target, failure, now) ==
  [r EXCEPT !.state   = target,
            !.updated = now,
            !.failure = failure_after_transition(r, target, failure),
            !.attempt = attempt_after_transition(r, target)]

\* A defect for comparison: the last cause wins.
claim_last_cause(r, cause) ==
  IF r.state \in {"delivering", "completed"} THEN r ELSE [r EXCEPT !.cause = cause]

claim_interruption(r, cause) ==
  IF r.state \in {"delivering", "completed"} \/ r.cause # None
    THEN r
    ELSE [r EXCEPT !.cause = cause]

\* discord_task_store_policy.same_task_scope
same_task_scope(parent, child) ==
  /\ parent.owner = child.owner
  /\ parent.channel = child.channel

----------------------------------------------------------------------------

\* discord_task_store._delivery_retry_disabled
delivery_retry_disabled(failure) ==
  IF failure = None
    THEN failure_of("discord_delivery", "none")
    ELSE [failure EXCEPT !.retry_mode = "none"]

\* Defects for comparison: a restart keeps the offer to send a reply again
\* whose cached copy is gone, or treats a delivery as interrupted work.
reconcile_keeps_delivery_retry(r, now) ==
  CASE r.state \in {"recovering", "starting", "running", "stopping"} ->
         [claim_interruption(r, "gateway_restart")
            EXCEPT !.state = "interrupted", !.updated = now]
    [] r.state = "delivering" ->
         [r EXCEPT !.state = "delivery_failed", !.updated = now,
                   !.failure = failure_of("discord_delivery", "none")]
    [] OTHER -> r

reconcile_interrupts_delivery(r, now) ==
  IF is_active(r)
    THEN [claim_interruption(r, "gateway_restart")
            EXCEPT !.state = "interrupted", !.updated = now]
    ELSE r

\* discord_task_store._reconcile: what a restart makes of a stored record.
reconcile(r, now) ==
  CASE r.state \in {"recovering", "starting", "running", "stopping"} ->
         [claim_interruption(r, "gateway_restart")
            EXCEPT !.state = "interrupted", !.updated = now]
    [] r.state = "delivering" /\ r.result ->
         [r EXCEPT !.state = "completed", !.updated = now, !.failure = None]
    [] r.state = "delivering" /\ ~r.result ->
         [r EXCEPT !.state = "delivery_failed", !.updated = now,
                   !.failure = delivery_retry_disabled(@)]
    [] r.state = "delivery_failed" /\ r.failure.retry_mode = "retry_delivery" ->
         [r EXCEPT !.updated = now, !.failure = delivery_retry_disabled(@)]
    [] OTHER -> r
============================================================================
