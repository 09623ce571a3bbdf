SPECIFICATION Spec
INVARIANTS
    PieceIntact
PROPERTIES
    RowsCompacted
    NextPiece
CHECK_DEADLOCK FALSE
