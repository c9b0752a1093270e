SPECIFICATION Spec
CONSTANTS
    MainBlocks = {1}
    AltBlocks = {11, 12}
    Height <- MCHeight
    Reward <- MCReward
    Legacy = {}
    Accounts = {a}
    Window = 2
    PayValues = {1}
    Seeded = {a}
    ConfirmDelay = 1
    BlocksRequired = 2
    AltDelay = 1
    AnchorRound = 4
    MaxAnchors = 1
    ReorgDepth = 1
    LateFind = 0
    CleanGap = 0
    Ops = {"debit", "delete", "unpaid", "paySet", "revalidate", "reset", "reward"}
    Edited = {11}
    MaxTop = 4
    MaxFaults = 1
    MaxRowId = 2
INVARIANT PaidOnMainChain
INVARIANT OnlyOrphansDropped
INVARIANT BalancesAddUp
PROPERTY UnlockedIsPaid
