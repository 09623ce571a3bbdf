CONSTANTS
    Values = {v1, v2, v3}
    MaxLength = 4
    Pieces = {"h", "b", "c", "nl"}
    Pages <- MCPages
    Space = 7
    Puzzles <- MCPuzzles
    Places <- MCPlaces
    Stores = 2
    Seconds = 1
SPECIFICATION Spec
INVARIANTS
    NumbersRight
    Translated
    OnlyBody
PROPERTIES
    ImplementsQueue
    PictureJudged
    ObjectsKept
