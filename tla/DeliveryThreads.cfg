\* Two threads over two tasks; streams and files that resist being closed.
SPECIFICATION FairSpec
CONSTANTS
  Threads = {loop, worker}
  Tasks = {t1, t2}
  Replies = {r1, r2}
  Files = {f1}
  None = None
  StreamFaults = TRUE
  CleanupFaults = TRUE
  MaxCloses = 2
CHECK_DEADLOCK FALSE
INVARIANTS RepliesHaveHolder
PROPERTY CloseReturns
