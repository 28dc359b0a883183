SPECIFICATION Spec
CONSTANTS
    ann = ann
    k1 = k1
    None = None
    Users = {ann}
    Requests = {r1, r2}
    Calls <- CloseOnly
    Settlers = {s1}
    Verdicts = {"VOID"}
    SeedOrders <- SeedPosition
    SeedBalance <- SeedCash
    Unit = 3
    MaxCrashes = 0
INVARIANTS
    OpenOrdersNeverOversell
