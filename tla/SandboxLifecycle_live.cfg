CONSTANTS
    Sandbox = {s1}
    Box = {b1, b2, b3}
    Request = {r1}
    IdleSweeper = IdleSweeper
    OrphanSweeper = OrphanSweeper
    NoBox = NoBox
    NoTask = NoTask
    MaxActive = 1
    Preserve = TRUE
    Named = FALSE
    CacheMiss = TRUE
    Sweeps = {"idle", "reconcile", "orphan"}
    MaxRequests = 2
    MaxAbandons = 1
    MaxFaults = 1
    MaxStarts = 1
    MaxCallers = 3
    CellKinds = {"prints", "stubborn"}
    PoolOps = {}
    MaxKernels = 1
    ChannelsTear = TRUE
    MaxKernelFaults = 0
    MaxLeaves = 0
SPECIFICATION LiveSpec
CHECK_DEADLOCK FALSE
PROPERTIES StaleStartsHeal UnboundBoxesReaped TakesOver
