SPECIFICATION Spec
CONSTANTS
    MaxDamage = 1
    Width = 3
    Length = 3
    Races <- MCRaces
INVARIANTS
    WindowHonest
    AloneMeetsWalls
PROPERTIES
    RecordSteps
CHECK_DEADLOCK FALSE
