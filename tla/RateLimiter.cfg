\* Two clients, two goroutines, three windows.
CONSTANTS
    Keys = {k1, k2}
    Callers = {g1, g2}
    Limit = 2
    Window = 2
    Latency = 1
    MaxClock = 4
SPECIFICATION Spec
SYMMETRY Interchangeable
INVARIANTS
    TypeOK
    BurstBounded
    RetryAfterExact
PROPERTIES
    RefusalJustified
CHECK_DEADLOCK FALSE
