SPECIFICATION Spec
CONSTANTS
    A = A
    B = B
    C = C
    s1 = s1
    s2 = s2
    k1 = k1
    None = None
    Sweeper = Sweeper
    Accounts = {A, B, C}
    Requests = {r1, r2}
    Passes = {}
    Submits <- BothSidesSubmits
    SeedOrders <- BothSidesSeeds
    Cancellable = {}
    SeedCash <- Rich
    SeedPos <- OpenedFlat
    Unit = 3
    MaxQty = 2
    SweepBatch = 1
    MaxPauses = 0
    MaxCrashes = 0
INVARIANTS
    FillsExplainPositions
