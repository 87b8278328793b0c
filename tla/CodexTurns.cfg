\* Two concurrent runs of one channel, a steer or interrupt, time limits, cancellation, a
\* server that may exit twice.
CONSTANTS
    Starters = {r1, r2}
    Channels = {c1}
    Callers = {u1}
    None = None
    MaxGeneration = 2
    MaxTurns = 1
    TurnsTimeOut = TRUE
SPECIFICATION FairSpec
CHECK_DEADLOCK FALSE
INVARIANTS
    OneServer
    ClosedForGood
    AnswerKept
PROPERTIES
    ReplacementNotBlamed
    RunsEnd
