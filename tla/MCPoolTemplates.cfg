CONSTANTS
    Workers = {w1}
    Main = main
    Alts = {alt}
    MaxHeight = 2
    MaxRetries = 1
    MaxRequests = 2
    MaxMessages = 2
    MaxEvents = 2
    Miners = {m1}
    MainCoin = main
    AltCoins = {alt}
    NoBest = NoBest
    NoWork = NoWork
    Versions = {1}
SPECIFICATION MCSpec
INVARIANTS HeaderIsServed FrozenIsNoticed WorkersAgree JobIsCurrent
