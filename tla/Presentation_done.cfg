CONSTANTS
    MaxInnerRuns = 3
    MaxWrites = 3
    MaxSubmits = 1
    MaxStops = 0
    MaxOuterFaults = 0
SPECIFICATION ExperimentalSpec
CHECK_DEADLOCK FALSE
INVARIANTS DoneMeansShown
