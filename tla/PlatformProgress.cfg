SPECIFICATION FairSpec
CONSTANTS
    Message = {"m1"}
    MaxEvents = 2
    MaxSaves = 2
    DiscordFaults = 1
    Critical = {"c1"}
    Trade = {"t1", "t2", "t3"}
    Warn = {}
    EmailAt = 1
    SmsAt = 2
    Keep = 1
    Fold = 2
    Shown = 1
    MaxTime = 2
    AlarmRestarts = 1
    Mail = {"m1", "m2", "m3"}
    Attached = {"m1", "m2"}
    MaxAttempts = 2
    MaxRetries = 1
    MailerFaults = 2
    MaxCrashes = 1
    Symbol = {"s1"}
    MaxContract = 3
    Period = 1
    Late = 1
    WarnDays = 1
    MaxDay = 2
    MaxEdits = 1
    RollFaults = 0
    MaxForced = 1
    RollRestarts = 0
INVARIANTS
    TypeOK
    PlatformSafe
PROPERTIES
    FollowsSettings
    MessagesEnd
    ExpiryTold
CHECK_DEADLOCK FALSE
