SPECIFICATION Spec
CONSTANTS
    u1 = u1
    u2 = u2
    User = {u1}
    NoUser = NoUser
    Referrer <- MCReferrer
    CommissionPercent = 2
    Product = {x1}
    ApiProduct = {x1}
    Preorder = {1, 2}
    Legacy = {1}
    NoTerms = NoTerms
    Deposit = {d1}
    Chat = {}
    Prices = {50, 100}
    Quantities = {2}
    Adjustments = {100}
    ShelfModes = {"active"}
    Blockable = {u1}
    MaxBalance = 100
    MaxStock = 1
    MaxActivePerUser = 2
INVARIANTS
    PaidForOnce
    CancelledIsRefunded
