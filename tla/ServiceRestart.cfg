\* A retried task is sending its result when the process ends.
SPECIFICATION Spec
CONSTANTS
  Channels = {c1}
  Owners = {o1}
  Triggers = {e1}
  None = None
  TaskIds = {1}
  Errors = {"timeout", "other"}
  RETENTION_DAYS = 0
  MAX_INACTIVE_TASKS = 1
  WriteOutcomes = {"ok"}
  Revisions <- Nat
  MaxClock = 0
  MaxUncertain = 2
  ClaimLimit = 3
  Interactions = {i1}
  EarlyIntake = FALSE
  MaxAttempts = 2
  MaxCrashes = 1
CHECK_DEADLOCK FALSE
PROPERTY RestartSettlesDeliveries
