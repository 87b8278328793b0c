\* An active turn, a concurrent request, and a process that exits.
CONSTANTS
    Starters = {r1}
    Channels = {c1}
    Callers = {u1}
    None = None
    MaxGeneration = 1
    MaxTurns = 1
    TurnsTimeOut = FALSE
SPECIFICATION Spec
CHECK_DEADLOCK FALSE
INVARIANTS
    ExitFailsTurns
