CONSTANTS
    Order = {a, b}
    Partner <- Legged
    MaxVersion = 2
    MaxPlaced = 3
    Synced <- Polled
    MaxChanges = 2
    MaxFaults = 1
    MaxSize = 1
    MaxEvents = 2
    Group = {g1, g2}
    Request = {q1, q2}
    MaxEdits = 2
    ManagerFaults = 1
SPECIFICATION Trading
SYMMETRY Swaps
INVARIANTS
    TypesOK
    TwinsKnown
    InProportion
CHECK_DEADLOCK FALSE
