CONSTANTS
    m1 = m1
    m2 = m2
    w1 = w1
    Sessions = {m1, m2}
    Wallets = {w1}
    WalletOf <- MCWalletOf
    Watched = {}
    Nonces = {1, 2}
    Claims <- WithChild
    Data = {"good", "broken"}
    KindsOf <- AllStandard
    SharedNonces = FALSE
    MaxShares = 3
    RateLimit = 2
    QueueLimit = 1
    PendingLimit = 1
    VerifyRetries = 0
    Earned <- AllEarned
    SessionShares = 1
    WalletShares = 2
    BanThreshold = 3
    BanPercent = 50
    MaxEvents = 1
SYMMETRY MCSymmetry
SPECIFICATION Spec
INVARIANTS SuspectsAreChecked CreditedOnce CreditedBlockIsSubmitted
CHECK_DEADLOCK FALSE
