CONSTANTS
    neutron = neutron
    osmosis = osmosis
    juno = juno
    Chains <- MCChains
    MaxLegs = 5
    Margin = 0
    Profits <- MCProfits
SPECIFICATION Spec
CHECK_DEADLOCK FALSE
INVARIANTS
    TypeOK
    FlagsAreHonest
    AbandonedIsExact
    ExecutedIsHome
    FundsOnRoute
    RecordMissesOneBatch
PROPERTIES
    ImplementsAtomicOrder
