SPECIFICATION Spec
CONSTANTS
    A = A
    B = B
    C = C
    s1 = s1
    s2 = s2
    k1 = k1
    None = None
    Sweeper = Sweeper
    Accounts = {A, B, C}
    Requests = {r1, r2}
    Passes = {}
    Submits <- OneBuy
    SeedOrders <- OneSeed
    Cancellable = {s1}
    SeedCash <- Rich
    SeedPos <- Flat
    Unit = 3
    MaxQty = 2
    SweepBatch = 1
    MaxPauses = 0
    MaxCrashes = 0
PROPERTIES
    CancelledStaysCancelled
