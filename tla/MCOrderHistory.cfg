CONSTANTS
    MaxHistory = 2
    MaxOrders = 4
SPECIFICATION Spec
CHECK_DEADLOCK FALSE
INVARIANTS
    TypeOK
    UidIsIndex
PROPERTIES
    VerdictsStick
