SPECIFICATION Spec
CONSTANTS
    Nodes = {n1, n2}
    Pairs <- FourPairs
    Assets <- FourAssets
    Malformed <- MalformedPairs
    OsmoPools <- SomePools
    FilePools <- PoolsOfFile
    AuctionPairs <- SomeAuctions
    FileAuctions <- AuctionsOfFile
    Denoms <- AllDenoms
    PageSize = 2
CHECK_DEADLOCK FALSE
INVARIANTS
    TypeOK
    SteadyIsTradable
PROPERTIES
    StartupEnds
