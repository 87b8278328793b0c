--------------------------- MODULE BoundedClaims ---------------------------
(***************************************************************************)
(* BoundedClaims of discord_task_service_state.py: the Discord events and  *)
(* interactions already handled, oldest first, at most ClaimLimit of them  *)
(* (2048 in the code).                                                     *)
(***************************************************************************)
EXTENDS Naturals, Sequences

CONSTANT ClaimLimit

ASSUME ClaimLimitAssumption == ClaimLimit \in Nat \ {0}

claim_of(event, task) == [event |-> event, task |-> task]

\* A defect for comparison: only the last claim is looked at.
claimed_last(claims, event) == claims # <<>> /\ claims[Len(claims)].event = event

existing(claims, event) == \E k \in DOMAIN claims : claims[k].event = event

\* The claims without the event's, of which there is at most one.
without(claims, event) ==
  IF existing(claims, event)
    THEN LET k == CHOOSE n \in DOMAIN claims : claims[n].event = event
         IN  SubSeq(claims, 1, k - 1) \o SubSeq(claims, k + 1, Len(claims))
    ELSE claims

remember(claims, event, task) ==
  LET newest == Append(without(claims, event), claim_of(event, task))
  IN  IF Len(newest) > ClaimLimit THEN Tail(newest) ELSE newest
============================================================================
