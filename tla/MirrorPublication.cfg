\* A pull request with three events, a process end, failing requests and writes.
SPECIFICATION FairSpec
CONSTANTS
  None = None
  Events <- PullRequestEvents
  MAX_RECENT_DELIVERIES = 2
  MAX_HANDLED_CLAIMS = 1
  RECONCILE_ATTEMPTS = 2
  WriteOutcomes = {"ok", "failed", "unsynced"}
  HistoryNonces = FALSE
  Copies = {1, 2}
  MaxUpdates = 3
  MaxFaults = 1
  MaxDeletions = 2
  MaxCrashes = 1
  MaxQueue = 1
CHECK_DEADLOCK FALSE
INVARIANTS NoStrayCard PublishedIsCurrent
PROPERTY EventuallyPublished
