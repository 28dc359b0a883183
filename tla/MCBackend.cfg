SPECIFICATION MCSpec
CONSTANTS
    Ids = {1, 2, 3, 4}
    MinPrice = 1
    MaxPrice = 3
    MaxQty = 2
    Sockets = {s1}
    HubTopics = {"briefs"}
    BusTopics = {"market.tick"}
    Tick = "market.tick"
    Slugs = {"m1", "m2"}
    MarketOf <- SlugAsked
    HubSize = 1
    BusSize = 2
    MaxPublished <- Published
    Keys = {k1, k2, k3}
    Readers = {r1, r2}
    Writers = {w1, w2}
    Ttl = 1
    MaxKeys = 1
    MaxChanges = 2
    Clients = {c1, c2}
    Quota = 2
    WindowSec = 2
    PerSecond = 3
    MaxWindows = 1
    Users = {"u1", "u2"}
    Requests <- Asked
    Passes = {"p1", "p2"}
    Resolvers = {"x1", "x2"}
    ResolveStamps = {}
    NoKey = "none"
    Unresolved = Unresolved
    Nobody = "nobody"
    Model = "model"
    ModelKey = "autolock"
    CloseAt = 1
    Horizon = 1
    MaxTime = 2
    MaxSeq = 2
    Callers = {b1, b2, b3}
    Threshold = 3
    Cooldown = 2
    MaxAttempts = 2
    ByVolume <- ListedMarkets
    Runs = {"w1", "w2", "w3"}
    ProcessOf <- WriterProcess
    Batch = 1
    RecencySec = 1
    LastTick = 2
    NoRun = "none"
    Editors = {e1, e2}
    Specs = {"first", "second"}
    FirstSpec = "first"
    MaxSaves = 2
    MaxRuns = 4
    Traded <- ListedMarkets
    PodPasses = {"n1", "n2"}
    MaxRows <- RowsPerMarket
    NoPass = "none"
SYMMETRY EditorSymmetry
INVARIANTS
    PartTypesOK
    QuantityConserved
    QuoteIsExact
    FeedInOrder
    EveryMessageAccounted
    PricesAreCurrent
    ClearedChangesShow
    NeverTwiceTheLimit
    WaitIsEnough
    OnTimeLocksAreScored
    NoModelHindsight
    BeliefsAreAChain
    ShutExactlyWhileFailing
    OncePerWindow
    AlarmsAreEarned
    OrdersHaveEntries
PROPERTIES
    PriceTimePriority
