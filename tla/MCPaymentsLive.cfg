\* One runtime that may crash at any await; no operator.
SPECIFICATION LiveSpec
CONSTANTS
    Runtimes = {r1}
    Accounts = {a1}
    MaxBatches = 2
    MaxTransfers = 2
    MaxAmount = 1
    MaxPaymentTxns = 1
    Faults = {"crash", "sql"}
    UnlockModes = {}
PROPERTY SentIsSettled
