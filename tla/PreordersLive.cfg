SPECIFICATION FairSpec
CONSTANTS
    u1 = u1
    u2 = u2
    User = {u1}
    NoUser = NoUser
    Referrer <- MCReferrer
    CommissionPercent = 2
    Product = {x1}
    ApiProduct = {}
    Preorder = {1, 2}
    Legacy = {1}
    NoTerms = NoTerms
    Deposit = {d1}
    Chat = {}
    Prices = {50}
    Quantities = {1}
    Adjustments = {50}
    ShelfModes = {"active", "hidden", "forced_out"}
    Blockable = {}
    MaxBalance = 0
    MaxStock = 1
    MaxActivePerUser = 2
PROPERTIES
    ProcessingEnds
    CustomerTold
