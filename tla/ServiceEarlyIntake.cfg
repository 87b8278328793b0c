\* Tasks started before startup reconciliation.
SPECIFICATION Spec
CONSTANTS
  Channels = {c1}
  Owners = {o1}
  Triggers = {e1, e2}
  None = None
  TaskIds = {1, 2}
  Errors = {"timeout", "other"}
  RETENTION_DAYS = 0
  MAX_INACTIVE_TASKS = 2
  WriteOutcomes = {"ok"}
  Revisions <- Nat
  MaxClock = 0
  MaxUncertain = 2
  ClaimLimit = 3
  Interactions = {i1}
  EarlyIntake = TRUE
  MaxAttempts = 2
  MaxCrashes = 0
CHECK_DEADLOCK FALSE
INVARIANT IsolatedRuns
