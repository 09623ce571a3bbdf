CONSTANTS
    Clients = {a, b, c}
    MaxAttendants = 2
    MaxLines = 1
    Hasty = {a}
    Ends = TRUE
    Nobody = Nobody
SPECIFICATION Safety
INVARIANTS
    Tenancy
    OneSeat
    NoSlotForgotten
    EndReaches
PROPERTIES
    ImplementsBroadcast
CHECK_DEADLOCK FALSE
