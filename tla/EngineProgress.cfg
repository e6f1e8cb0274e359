SPECIFICATION FairSpec
CONSTANTS
    Hook = {"h1"}
    TsTrade = {"t1"}
    Signal = {"s1", "s2", "s3"}
    Manual = {"m1", "m2"}
    SignalTarget <- SomeTarget
    KeyOrder <- SomeOrder
    Fallback = "fb"
    Lock = {"o1", "o2", "o3", "o4", "o5"}
    NoLock = "no lock"
    NoTask = "no task"
    MaxDays = 1
    MaxTrades = 2
    MaxErrors = 1
    TimeRule = TRUE
    MaxTokens = 2
    MaxEdits = 1
    MaxConnects = 1
    MaxForms = 1
    MaxCrashes = 0
    Caller = {"a", "b", "c"}
    MaxReads = 3
    MaxCancels = 1
    Lists = TRUE
    Qty = 3
    TpQty = 2
    Targets = 1
    MaxChanges = 2
    MaxFaults = 2
    MaxStops = 2
INVARIANTS
    TypeOK
    SignalsExclusive
    Fresh
PROPERTIES
    TasksEnd
    LockedGoesFlat
    Agreed
CHECK_DEADLOCK FALSE
