CONSTANTS
    User <- MCUser
    Price <- MCPrice
    MaxStock = 5
    Quote <- MCQuote
    Scene <- MCScene
SPECIFICATION FairSyncSpec
CHECK_DEADLOCK FALSE
PROPERTIES
    RefundIsQuiet
    TopUpStays
    
    StockIsShown
