\* One task with its card, its progress, its files and its thread.
CONSTANTS
  Handlers = {h1}
  Flushes = {f1, f2}
  Parts = {now, plan}
  Messages = {m1}
  Requests = {i1}
  Triggers = {m1, i1}
  Channels = {c1}
  Owners = {o1}
  TaskIds = {1, 2}
  None = None
  Errors = {"timeout"}
  ClaimLimit = 1
  MaxUpdates = 2
  MaxFaults = 1
  MaxEvents = 3
  MaxAttempts = 2
SPECIFICATION Spec
SYMMETRY SurfaceSymmetry
CHECK_DEADLOCK FALSE
INVARIANTS FinalCardShown ProgressShown NothingLeftBehind
PROPERTIES CardNeverGoesBack
