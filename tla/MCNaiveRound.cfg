SPECIFICATION Spec
CONSTANTS
    Orders = {o1, o2}
    Routes <- SmallRoutes
    TransferGas = 1
    TransferFee = 3
    Home = "neutron"
    Margin = 1
    Abort = 1
    Promises = {2, 3}
    Gains <- SmallGains
    Sales <- SmallSales
    MaxWallet = 5
INVARIANTS
    TypeOK
    OverdraftNeedsLoss
    RealizedIsOwn
    DeliveredPlansPay
    WholeFailsOnlyUnseen
PROPERTIES
    RoundsGoOn
