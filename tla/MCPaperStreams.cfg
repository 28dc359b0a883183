SPECIFICATION LiveSpec
CONSTANTS
    ann = ann
    k1 = k1
    None = None
    Users = {ann}
    Requests = {r1, r2}
    Calls <- RaceCalls
    Settlers = {s1, s2}
    Verdicts = {"VOID"}
    SeedOrders <- SeedPosition
    SeedBalance <- SeedCash
    Unit = 3
    MaxCrashes = 1
    Listings = {m1, m2}
    MaxExponent = 2
INVARIANTS
    LiveTypeOK
    OrdersExplainBalance
    KeyAnsweredOnce
    SettledOnce
    HoldsNewestShares
PROPERTIES
    NeverOversold
    EveryRequestEnds
    StreamComesBack
