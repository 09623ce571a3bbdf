SPECIFICATION Spec
CONSTANTS
    Base = 16
    Radix = 2
    MaxDigits = 2
INVARIANTS
    SignedProduct
CHECK_DEADLOCK FALSE
