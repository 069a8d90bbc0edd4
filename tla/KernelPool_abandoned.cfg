CONSTANTS
    MaxStarts = 1
    MaxCallers = 1
    CellKinds = {"loop"}
    PoolOps = {}
    MaxKernels = 1
    ChannelsTear = TRUE
    MaxKernelFaults = 0
    MaxLeaves = 1
SPECIFICATION KernelPoolFairSpec
CHECK_DEADLOCK FALSE
PROPERTIES AbandonedCellsEnd
