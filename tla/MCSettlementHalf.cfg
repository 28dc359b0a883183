SPECIFICATION Spec
CONSTANTS
    A = A
    B = B
    t1 = t1
    None = None
    Accounts = {A, B}
    Settlers = {s1, s2}
    Calls <- OneWorker
    Trades <- NoTrades
    Clerks = {}
    SeedStatus = "LOCKED"
    SeedShares <- Opposed
    SeedCash <- Tight
    Price = 1
    Unit = 2
    MaxCrashes = 0
INVARIANTS
    ResolvedMeansSettled
