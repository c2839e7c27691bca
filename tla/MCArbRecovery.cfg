CONSTANTS
    neutron = neutron
    osmosis = osmosis
    juno = juno
    Chains <- MCChains
    MaxLegs = 4
    Margin = 0
    Profits <- MCProfits
SPECIFICATION Spec
CHECK_DEADLOCK FALSE
INVARIANTS
    RecoveryStartsWhereStopped
