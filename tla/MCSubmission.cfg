CONSTANTS
    transfer = transfer
    batch = batch
    bid = bid
    Sealed <- MCSealed
    Rebuilt <- MCRebuilt
    Clients = 2
SPECIFICATION Spec
CHECK_DEADLOCK FALSE
INVARIANTS
    TypeOK
    SealedOnce
    RepeatsNeedLostAnswers
PROPERTIES
    AnsweredIsFinal
    EveryCallEnds
