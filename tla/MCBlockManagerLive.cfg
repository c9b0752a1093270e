SPECIFICATION LiveSpec
CONSTANTS
    MainBlocks = {1}
    AltBlocks = {11}
    Height <- MCHeight
    Reward <- MCReward
    Legacy = {}
    Accounts = {a}
    Window = 2
    PayValues = {3}
    Seeded = {a}
    ConfirmDelay = 1
    BlocksRequired = 2
    AltDelay = 1
    AnchorRound = 2
    MaxAnchors = 1
    ReorgDepth = 0
    LateFind = 0
    CleanGap = 1
    Ops = {"exchange", "clean", "relock"}
    Edited = {1, 11}
    MaxTop = 4
    MaxFaults = 1
    MaxRowId = 2
INVARIANT PayableHasRows
INVARIANT NeverOverCredited
PROPERTY EventuallyPaid
