SPECIFICATION FairSpec
CONSTANTS
    d1 = d1
    d2 = d2
    d3 = d3
    alice = alice
    bob = bob
    Deposit = {d1, d2}
    Kind <- SaleKind
    Source <- SaleSource
    Owner <- SaleOwner
    Tx = {t1}
    Campaign = {1}
    NoSale = NoSale
    Totals = {2}
    Quantities = {1}
    Chat = {h1}
    NoView = NoView
    MaxPending = 1
INVARIANTS
    WithinQuota
    PlacesBalance
PROPERTIES
    PlaceReturns
CHECK_DEADLOCK FALSE
