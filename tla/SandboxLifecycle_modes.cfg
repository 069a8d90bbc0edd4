CONSTANTS
    Sandbox = {s1, s2}
    Box = {b1, b2, b3}
    Request = {r1, r2}
    IdleSweeper = IdleSweeper
    OrphanSweeper = OrphanSweeper
    NoBox = NoBox
    NoTask = NoTask
    MaxActive = 1
    Preserve = TRUE
    Named = TRUE
    CacheMiss = FALSE
    Sweeps = {"idle", "reconcile", "orphan"}
    MaxRequests = 5
    MaxAbandons = 3
    MaxFaults = 1
    MaxStarts = 2
    MaxCallers = 3
    CellKinds = {"quick", "loop", "prints", "asks", "stubborn"}
    PoolOps = {"create", "interrupt", "restart", "delete"}
    MaxKernels = 1
    ChannelsTear = TRUE
    MaxKernelFaults = 1
    MaxLeaves = 1
    ShellClient = {c1, c2}
    MaxShells = 2
    MaxShellOps = 4
    MaxOutput = 3
    MaxLog = 3
    MaxInline = 2
    MaxCompleted = 1
SPECIFICATION ModesSpec
CHECK_DEADLOCK FALSE
SYMMETRY ModesSymmetry
INVARIANTS ModesTypes RunningIsBound CapacityOfMany OneKeepsBox
INVARIANTS PoolHasEveryKernel ReaderKeepsClient OutputGivenOnce
