SPECIFICATION FairSpec
CONSTANTS
    alice = alice
    bob = bob
    Customer = {alice}
    Rental = {1, 2}
    Owner <- MCOwner
    Source <- MCSource
    Legacy = {1}
    Costs = {1, 2}
    Markup = 1
    Retries = 1
    Funds = 4
    Wallet = 5
    NoCall = NoCall
    NoPoll = NoPoll
INVARIANTS
    NetIsSale
    OneUnsettled
    OneOrder
    RefundedIsOver
    MaintenanceIsQuiet
PROPERTIES
    RequestIsFollowed
    PendingSettles
