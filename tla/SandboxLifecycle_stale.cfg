CONSTANTS
    Sandbox = {s1, s2}
    Box = {b1, b2}
    Request = {r1, r2}
    IdleSweeper = IdleSweeper
    OrphanSweeper = OrphanSweeper
    NoBox = NoBox
    NoTask = NoTask
    MaxActive = 1
    Preserve = FALSE
    Named = FALSE
    CacheMiss = TRUE
    Sweeps = {}
    MaxRequests = 4
    MaxAbandons = 0
    MaxFaults = 1
SPECIFICATION Spec
CHECK_DEADLOCK FALSE
INVARIANTS RunningBounded
