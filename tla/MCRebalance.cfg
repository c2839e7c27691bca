SPECIFICATION Spec
CONSTANTS
    Denoms = {"base", "a", "b", "oa", "ob"}
    Base = "base"
    Gas = {"oa"}
    Chains <- MCChains
    ChainOf <- MCChainOf
    Routes <- MCRoutes
    Wallets <- MCWallets
    Margins = {TRUE, FALSE}
    MaxRound = 2
INVARIANTS TypeOK ShortNeedsMishap NoneLeftBehind
PROPERTIES RebalanceEnds
CHECK_DEADLOCK FALSE
