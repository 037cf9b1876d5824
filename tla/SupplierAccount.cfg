SPECIFICATION FairSpec
CONSTANTS
    k1 = k1
    k2 = k2
    k3 = k3
    g1 = g1
    g2 = g2
    Key = {k1, k2, k3}
    Preordered = {k1}
    Warranty = {k2}
    Goods = {g1, g2}
    Wants <- MCWants
    Cost <- MCCost
    Order = {1, 2}
    NoOrder = NoOrder
    Retirable = {g2}
    Window = 1
    TopUps = {1}
    Start <- MCStart
    NoBuy = NoBuy
    NoPass = NoPass
    Idle = Idle
INVARIANTS
    OneFate
    RecoveredBalances
PROPERTIES
    NoFalseAlert
    SuspicionEnds
CHECK_DEADLOCK FALSE
