\* One runtime under every fault, two balance rows, and an operator who releases
\* batches with and without attesting wallet history.
SPECIFICATION Spec
CONSTANTS
    Runtimes = {r1}
    Accounts = {a1, a2}
    MaxBatches = 2
    MaxTransfers = 2
    MaxAmount = 1
    MaxPaymentTxns = 2
    Faults = {"crash", "lock", "sql"}
    UnlockModes = {"plain", "confirm"}
INVARIANT PinsMatchBatches
