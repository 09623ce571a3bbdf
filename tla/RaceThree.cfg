SPECIFICATION Safety
CONSTANTS
    Num = 3
    Final = 1
    MaxPlayers = 3
    MaxDamage = 1
    Quitters = {}
INVARIANTS
    TableSound
    GradesComplete
PROPERTIES
    SeenFirstRanksFirst
CHECK_DEADLOCK FALSE
