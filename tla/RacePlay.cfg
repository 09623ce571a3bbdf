SPECIFICATION Spec
CONSTANTS
    Num = 2
    Final = 2
    MaxPlayers = 3
    MaxDamage = 2
    Quitters = {}
INVARIANTS
    HonestBoards
    SwallowStalls
PROPERTIES
    AllGraded
    ImplementsPodium
CHECK_DEADLOCK FALSE
