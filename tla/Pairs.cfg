CONSTANTS
    Cells = {a1, b2, c3, c1}
    Dies = {}
SPECIFICATION PairsSpec
INVARIANTS
    SameView
    NeitherWaits
    NobodySentAway
PROPERTIES
    ImplementsBoard
    QuitHeard
CHECK_DEADLOCK FALSE
