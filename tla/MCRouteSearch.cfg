CONSTANTS
    usdc = usdc
    atom = atom
    osmo = osmo
    atomOsmosis = atomOsmosis
    osmoOsmosis = osmoOsmosis
    neutron = neutron
    osmosis = osmosis
    Denoms <- MCDenoms
    Elsewhere <- MCElsewhere
    Pools <- MCPools
    Auctions <- MCAuctions
    Src = usdc
    Dest = usdc
    Depth = 3
    Required <- MCAuctionOnly
SPECIFICATION Spec
CHECK_DEADLOCK FALSE
INVARIANTS
    TypeOK
    FoundAreCircuits
    CacheHasPrevious
    FindsAllButMisread
