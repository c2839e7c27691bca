CONSTANTS
    PollInterval = 1
    TransferTimeout = 4
    PacketLife = 120
    SendTime = 12
    QueryTime = 6
    MaxSeq = 2
    MaxTime = 123
SPECIFICATION TransferSpec
CHECK_DEADLOCK FALSE
INVARIANTS
    AckMeansReceived
