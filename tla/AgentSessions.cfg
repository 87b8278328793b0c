\* Three tasks in two channels of one repository, one of them retried or none, with two
\* clients, two threads, every way a write can end and one crash.  Only the turn of the
\* implementation reaches its time limit.
CONSTANTS
    c1 = c1
    c2 = c2
    r1 = r1
    m1 = m1
    m2 = m2
    k1 = k1
    k2 = k2
    k3 = k3
    None = None
    Starter = starter
    Callers = {k1, k2, k3}
    Preparers = {k1, k2, k3}
    Channels = {c1, c2}
    Repos = {r1}
    Commits = {m1, m2}
    Upstream = m1
    Task <- MCTask
    Earlier <- MCEarlier
    Overdue = {k2}
    WriteOutcomes = {"ok", "failed", "unsynced"}
    MaxGenerations = 2
    MaxThreads = 2
    MaxCrashes = 1
SPECIFICATION Spec
CHECK_DEADLOCK FALSE
INVARIANTS
    NobodyWaits
    ThreadsBelongToChannels
    RestrictedThreads
    
    PinnedTurn
