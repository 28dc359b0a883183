SPECIFICATION Spec
CONSTANTS
    A = A
    B = B
    C = C
    s1 = s1
    s2 = s2
    k1 = k1
    None = None
    Sweeper = Sweeper
    Accounts = {A, B, C}
    Requests = {r1, r2, r3}
    Passes = {}
    Submits <- RaceSubmits
    SeedOrders <- RaceSeeds
    Cancellable = {s1, s2}
    SeedCash <- RaceCash
    SeedPos <- Flat
    Unit = 3
    MaxQty = 3
    SweepBatch = 1
    MaxPauses = 0
    MaxCrashes = 1
SYMMETRY RequestSymmetry
INVARIANTS
    TypeOK
    NoOverfill
    CashNeverNegative
    FillsExplainOrders
    FillsExplainCash
    KeyAnsweredOnce
PROPERTIES
    FilledIsFinal
    Serializable
