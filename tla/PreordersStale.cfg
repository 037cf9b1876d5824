SPECIFICATION Spec
CONSTANTS
    u1 = u1
    u2 = u2
    User = {u1, u2}
    NoUser = NoUser
    Referrer <- MCReferrer
    CommissionPercent = 2
    Product = {x1}
    ApiProduct = {}
    Preorder = {1, 2}
    Legacy = {}
    NoTerms = NoTerms
    Deposit = {}
    Chat = {c1}
    Prices = {50}
    Quantities = {1}
    Adjustments = {50}
    ShelfModes = {"active"}
    Blockable = {}
    MaxBalance = 50
    MaxStock = 1
    MaxActivePerUser = 2
INVARIANTS
    WalletIsLedger
