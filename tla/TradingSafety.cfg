SPECIFICATION Spec
CONSTANTS
    Qty = 3
    TpQty = 2
    Targets = 2
    HunterTrade = {"t1", "t2"}
    HunterQty = 2
    Percent = {50, 100}
    MaxSignals = 2
    StopFills = TRUE
    MaxUpdates = 2
    UpdateFaults = 2
    Adapters = {"tradovate", "projectx", "rithmic"}
    Urgent = {"o1", "o2", "o3"}
    Poll = {"p1"}
    Burst = 1
    Spacing = 2
    PollSpacing = 1
    Patience = 1
    Penalty = {3}
    MaxClock = 4
    MaxClients = 4
    MaxPastes = 2
    MaxRows = 3
    QueueMax = 2
    BatchMax = 2
    Release = {"r1"}
    NewsTrade = {"t1", "t2"}
    Before = 1
    After = 1
    MemoLife = 2
    Day = 2
    MaxTime = 3
    MaxEdits = 1
    MaxFetches = 1
    NewsFaults = 2
INVARIANTS
    TypeOK
    Protected
    ClosedMeansFlat
    Covered
    ToldIsTrue
    OrdersPrompt
    OneLogin
    NothingLost
PROPERTIES
    GateClosed
CHECK_DEADLOCK FALSE
