SPECIFICATION MCSpec
CONSTANTS
    A = A
    B = B
    t1 = t1
    c1 = c1
    None = None
    Accounts = {A, B}
    Settlers = {1, 2, 3}
    Calls <- Anyone
    Trades <- OneTrade
    Clerks = {c1}
    SeedStatus = "LOCKED"
    SeedShares <- Opposed
    SeedCash <- Tight
    Price = 1
    Unit = 2
    MaxCrashes = 1
INVARIANTS
    TypeOK
    PaidOnce
    EntriesExplainCash
PROPERTIES
    SettlesAtOnce
    EverySessionEnds
