SPECIFICATION Spec
CONSTANTS
    Num = 2
    Final = 1
    MaxPlayers = 3
    MaxDamage = 1
    Quitters = {0, 1}
INVARIANTS
    IInv
PROPERTIES
    RankingStable
    NobodyLeftBehind
CHECK_DEADLOCK FALSE
