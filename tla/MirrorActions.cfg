\* Two handlers of two interactions, three starts, a process end and a failed write.
SPECIFICATION Spec
CONSTANTS
  None = None
  Events <- PullRequestEvents
  MAX_RECENT_DELIVERIES = 2
  MAX_HANDLED_CLAIMS = 2
  Handlers = {h1, h2}
  Triggers = {i1, i2}
  Cards = {c1, c2}
  WriteOutcomes = {"ok", "failed", "unsynced"}
  MaxTasks = 3
  MaxRetries = 1
  MaxFaults = 1
  MaxCrashes = 1
  MaxChanges = 1
CHECK_DEADLOCK FALSE
SYMMETRY StarterSymmetry
INVARIANTS OneTaskRuns RunningTaskKnown OneTaskPerInteraction ReservationHasOwner
