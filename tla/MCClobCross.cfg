SPECIFICATION FairSpec
CONSTANTS
    A = A
    B = B
    C = C
    s1 = s1
    s2 = s2
    k1 = k1
    None = None
    Sweeper = Sweeper
    Accounts = {A, B}
    Requests = {r1, r2}
    Passes = {r1}
    Submits <- CrossSubmits
    SeedOrders <- CrossSeeds
    Cancellable = {s1}
    SeedCash <- CrossCash
    SeedPos <- Flat
    Unit = 3
    MaxQty = 2
    SweepBatch = 1
    MaxPauses = 2
    MaxCrashes = 0
PROPERTIES
    EveryRequestEnds
    LapsedOrdersLeave
