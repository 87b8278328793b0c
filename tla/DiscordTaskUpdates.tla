------------------------- MODULE DiscordTaskUpdates -------------------------
(***************************************************************************)
(* The record updates that callers of the store compute before they hand   *)
(* the candidate to compare_and_set: discord_task_runtime.py,              *)
(* discord_task_runtime_failures.py, discord_task_failures.py,             *)
(* discord_task_actions.py and discord_task_reconciliation.py.             *)
(***************************************************************************)
EXTENDS DiscordTaskRecord

\* The errors an agent run may end with, as far as classification tells them
\* apart: AgentTurnTimedOut, AgentRuntimeDisconnected and everything else.
CONSTANT Errors

ASSUME ErrorsAssumption == Errors \subseteq {"timeout", "runtime_disconnected", "other"}

\* classify_agent_failure; resumable is persisted_session and not active_turn.
classify_agent_failure(error, resumable) ==
  failure_of(error,
             IF error # "other" /\ resumable THEN "continue_session" ELSE "none")

classify_delivery_failure(definitive) ==
  failure_of("discord_delivery", IF definitive THEN "retry_delivery" ELSE "none")

\* _failure_target; None where the error leaves the record alone.
failure_target(r, error) ==
  CASE r.state \in {"recovering", "starting"} -> "failed"
    [] r.state = "running" /\ error = "timeout" -> "timed_out"
    [] r.state = "running" /\ error = "runtime_disconnected" -> "interrupted"
    [] r.state = "running" /\ error = "other" -> "failed"
    [] OTHER -> None

failure_cause(r, error) ==
  CASE r.state = "running" /\ error = "timeout" -> "timeout"
    [] r.state = "running" /\ error = "runtime_disconnected" -> "runtime_exit"
    [] OTHER -> None

\* The update of record_agent_failure.
fail(r, error, now) ==
  LET claimed == IF failure_cause(r, error) = None
                   THEN r ELSE claim_interruption(r, failure_cause(r, error))
  IN  transition(claimed, failure_target(r, error),
                 classify_agent_failure(error, FALSE), now)

\* The later update that knows whether the session can be resumed: after a
\* failure, after a restart, and of a delivery whose cached reply is gone.
with_failure(r, failure, now) == [r EXCEPT !.failure = failure, !.updated = now]

\* A defect for comparison: Stop records its cause and lets the task run on.
claim_stop_only(r, now) == [claim_interruption(r, "user_stop") EXCEPT !.updated = now]

\* DiscordTaskActions.stop
claim_stop(r, now) ==
  transition(claim_interruption(r, "user_stop"), "stopping", None, now)

\* The last update of _send_delivery.
complete(r, now) == transition([r EXCEPT !.result = TRUE], "completed", None, now)

\* _delivery_failed
delivery_failed(r, definitive, now) ==
  transition(r, "delivery_failed", classify_delivery_failure(definitive), now)

\* _set_message_id for the card; the id itself is not modelled.
attach_card(r, now) == [r EXCEPT !.updated = now]

\* The steps of a runner and of a retry that only change the state.
advance(r, target, now) == transition(r, target, None, now)

moves(r, states, targets) == IF r.state \in states THEN targets ELSE {}

\* The candidates of runners.
runner_updates(r, now) ==
  moves(r, ACTIVE_STATES, {attach_card(r, now)})
  \cup moves(r, {"recovering"}, {advance(r, "starting", now)})
  \cup moves(r, {"starting"}, {advance(r, "running", now)})
  \cup moves(r, {"running"}, {advance(r, "delivering", now)})
  \cup moves(r, {"stopping"}, {advance(r, "stopped", now)})
  \cup moves(r, {"delivering"}, {complete(r, now), delivery_failed(r, TRUE, now),
                                 delivery_failed(r, FALSE, now)})
  \cup moves(r, {"recovering", "starting", "running"},
             {fail(r, error, now) : error \in Errors})

\* The candidates that store a failure again, with what is known later.  The
\* enrichment after a restart does not look at the state it finds.
later_failures(r, now) ==
  moves(r, IF "timeout" \in Errors THEN {"timed_out"} ELSE {},
        {with_failure(r, classify_agent_failure("timeout", b), now) : b \in BOOLEAN})
  \cup moves(r, IF "runtime_disconnected" \in Errors THEN States ELSE {},
             {with_failure(r, classify_agent_failure("runtime_disconnected", b), now) :
                b \in BOOLEAN})
  \cup moves(r, {"delivery_failed"},
             {with_failure(r, classify_delivery_failure(FALSE), now)})

\* The candidates of the stop and retry actions.
action_updates(r, now) ==
  moves(r, {"recovering", "starting", "running"}, {claim_stop(r, now)})
  \cup moves(r, {"failed", "timed_out", "interrupted"}, {advance(r, "recovering", now)})
  \cup moves(r, {"delivery_failed"}, {advance(r, "delivering", now)})

\* Every candidate some caller computes from a record.
updates(r, now) ==
  runner_updates(r, now) \cup later_failures(r, now) \cup action_updates(r, now)
============================================================================
