CONSTANTS
    MaxLegs = 3
    Starts <- MCStarts
    Quotes <- MCQuotes
    PriceUnit = 2
    Books <- MCBooks
    Heights <- MCHeights
    Abort = 2
    CapInverse = 2
SPECIFICATION Spec
CHECK_DEADLOCK FALSE
INVARIANTS
    TypeOK
    PlanIsWhole
    PlanIsAffordable
    PlanWithinDepth
PROPERTIES
    SearchEnds
