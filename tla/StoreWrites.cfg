\* Two tasks in a channel, every way a write can end, records growing old and continued;
\* retention may find a third one that settled today and sorts after them.
SPECIFICATION StoredSpec
CONSTANTS
  Channels = {c1}
  Owners = {o1}
  Triggers = {e1}
  None = None
  TaskIds = {0, 1, 2}
  Stored = {1, 2}
  Errors = {"timeout"}
  RETENTION_DAYS = 0
  MAX_INACTIVE_TASKS = 1
  WriteOutcomes = {"ok", "failed", "unsynced"}
  Revisions = {0, 1, 2, 3, 4}
  MaxClock = 1
  MaxUncertain = 2
INVARIANTS TypeOK OneActivePerChannel AcknowledgedIsDurable RetentionIsTheScan InactiveWithinLimit
  DocumentsLoad
PROPERTIES FirstCauseWins ImplementsLifecycle
