CONSTANTS
    m1 = m1
    m2 = m2
    w1 = w1
    Sessions = {m1, m2}
    Wallets = {w1}
    WalletOf <- MCWalletOf
    Watched = {w1}
    Nonces = {1, 2}
    Claims <- WithBlocks
    Data = {"good", "fake"}
    KindsOf <- OneSpecial
    SharedNonces = TRUE
    MaxShares = 2
    RateLimit = 2
    QueueLimit = 1
    PendingLimit = 1
    VerifyRetries = 1
    Earned <- AllEarned
    SessionShares = 1
    WalletShares = 3
    BanThreshold = 3
    BanPercent = 50
    MaxEvents = 0
SPECIFICATION FairSpec
INVARIANTS CountersMatchWork FakeOnlyByTrust
PROPERTIES EventuallySettled
CHECK_DEADLOCK FALSE
