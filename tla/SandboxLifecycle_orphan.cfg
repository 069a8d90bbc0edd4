CONSTANTS
    Sandbox = {s1}
    Box = {b1, b2}
    Request = {r1}
    IdleSweeper = IdleSweeper
    OrphanSweeper = OrphanSweeper
    NoBox = NoBox
    NoTask = NoTask
    MaxActive = 2
    Preserve = FALSE
    Named = FALSE
    CacheMiss = FALSE
    Sweeps = {"orphan"}
    MaxRequests = 1
    MaxAbandons = 0
    MaxFaults = 0
SPECIFICATION Spec
CHECK_DEADLOCK FALSE
PROPERTIES SweepSparesRunning
