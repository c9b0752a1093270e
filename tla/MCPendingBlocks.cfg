SPECIFICATION LiveSpec
CONSTANTS
    MainBlocks = {"m"}
    AltBlocks = {"x", "y"}
    Id <- MCId
    Port <- OnePort
    Deep = {"y"}
    Stuck = {"x"}
    Old = {"m", "x"}
    Contested = {"m"}
    StaleLimit = 1
    NoBlock = "none"
    MaxFaults = 1
INVARIANT RecordedOnce
INVARIANT OnlyOrphansFinalized
PROPERTY EventuallyRecorded
PROPERTY ImplementsDelivery
