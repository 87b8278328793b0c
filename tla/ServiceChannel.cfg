\* Two tasks in one channel, every way a write can end, a restart or a power loss, and room
\* for one inactive record.
SPECIFICATION Spec
CONSTANTS
  Channels = {c1}
  Owners = {o1}
  Triggers = {e1, e2}
  None = None
  TaskIds = {1, 2}
  Errors = {"other"}
  RETENTION_DAYS = 0
  MAX_INACTIVE_TASKS = 1
  WriteOutcomes = {"ok", "failed", "unsynced"}
  Revisions <- Nat
  MaxClock = 0
  MaxUncertain = 2
  ClaimLimit = 3
  Interactions = {i1, i2}
  EarlyIntake = FALSE
  MaxAttempts = 2
  MaxCrashes = 1
CHECK_DEADLOCK FALSE
SYMMETRY EventSymmetry
INVARIANTS IsolatedRuns InteractionsOnce OneResultMessage
PROPERTIES StopWins
