\* Two overlapping runtimes, one balance row, two batches, and an operator who
\* releases batches without attesting wallet history.
SPECIFICATION Spec
CONSTANTS
    Runtimes = {r1, r2}
    Accounts = {a1}
    MaxBatches = 2
    MaxTransfers = 2
    MaxAmount = 1
    MaxPaymentTxns = 1
    Faults = {"crash", "lock"}
    UnlockModes = {"plain"}
SYMMETRY Symmetry
INVARIANTS
    TypeOK
    AtMostOneTransfer
    LedgerBooksOwnTransfer
    OnlyOwedIsSent
    FreedNeverSent
PROPERTY OnlyBatchMoves
