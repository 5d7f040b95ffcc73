SPECIFICATION Spec
CONSTANTS
    Callers = {c1, c2, c3}
    Max = 1
    Window = 2
    MaxDelay = 2
    MaxTime = 5
    MaxCalls = 4
    None = None
    MayFail = TRUE
SYMMETRY Symmetry
\* The bounds on the clock and on the number of checks end every behaviour.
CHECK_DEADLOCK FALSE
INVARIANTS
    TypeOK
    LimitHolds
    LateAtMostTwice
    RefusesOnlyAtLimit
    CountersExpire
    KeysAreRemoved
