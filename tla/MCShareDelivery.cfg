SPECIFICATION LiveSpec
CONSTANTS
    Rigs = {"a", "b"}
    MaxNamed = 1
    AccLimit = 2
    Payees = {"p"}
    Fronts = {"f1", "f2"}
    SendSlots = 1
    BatchSize = 1
    MaxShares = 2
    MaxHeight = 2
    MaxFaults = 2
    Faults = {"timeout", "refused", "poolWorker", "poolMaster", "front", "receiver", "write"}
INVARIANT CreditIsConserved
INVARIANT AckedIsKept
INVARIANT PaidOnce
INVARIANT BookedAtFirst
PROPERTY EventuallyStored
CHECK_DEADLOCK FALSE
