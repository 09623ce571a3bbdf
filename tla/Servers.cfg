CONSTANTS
    Ann = Ann
    Bob = Bob
SPECIFICATION Spec
INVARIANTS
    InOrder
PROPERTIES
    ImplementsBroadcast
    
    EndNoticed
CHECK_DEADLOCK FALSE
