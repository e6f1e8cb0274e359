SPECIFICATION Spec
CONSTANTS
    Entries = {"e1", "e2", "e3"}
    TsEntries = {"t1"}
    Manage = {"m1"}
    Cap = 2
    MaxErrors = 2
    MaxToggles = 1
    Approval = TRUE
    MaxEvents = 3
    MaxPeriods = 2
    MaxCheckouts = 2
    Brokers = {"tradovate", "other"}
    Mark = {1}
    JournalQty = 1
    MaxFills = 3
    MaxDay = 3
    Overlap = 1
    JournalFaults = 1
    Login = {"l1", "l2"}
    WatchQty = 1
    MaxMoves = 2
    WatchFaults = 1
    WatchRestarts = 0
    MaxDays = 0
    Rule = {"r1", "r2"}
    Cooldown = 2
    Retry = 1
    MaxTime = 2
    MaxRuns = 2
    RuleFaults = 1
    MaxOpens = 1
    MaxSnaps = 2
    MaxCommits = 1
    BackupFaults = 1
    MaxDeletes = 1
    KeepDaily = 1
    KeepWeekly = 0
    Area = {1, 2}
    MaxHook = 1
    Keep = 2
    MaxWrites = 2
    StoredFaults = 1
    StoredRestarts = 1
    MaxRestores = 0
    MaxAreaChanges = 1
    Years = {2027, 2028}
    Step = 3
INVARIANTS
    TypeOK
    
    BooksAreExact
    StoredIsKept
    ProposalAlive
PROPERTIES
    StepsAllowed
CHECK_DEADLOCK FALSE
