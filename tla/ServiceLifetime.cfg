\* One task through three attempts, a restart and a change of day; every write succeeds.
SPECIFICATION FairSpec
CONSTANTS
  Channels = {c1}
  Owners = {o1}
  Triggers = {e1}
  None = None
  TaskIds = {1}
  Errors = {"timeout", "runtime_disconnected", "other"}
  RETENTION_DAYS = 0
  MAX_INACTIVE_TASKS = 1
  WriteOutcomes = {"ok"}
  Revisions <- Nat
  MaxClock = 1
  MaxUncertain = 2
  ClaimLimit = 1
  Interactions = {i1, i2}
  EarlyIntake = FALSE
  MaxAttempts = 3
  MaxCrashes = 1
CHECK_DEADLOCK FALSE
INVARIANTS ActiveHasRunner CacheMatchesRecords
PROPERTIES NoRerunAfterHandover ActiveSettles UsesStore
