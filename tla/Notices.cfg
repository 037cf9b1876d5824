CONSTANTS
    User <- MCUser
    Price <- MCPrice
    MaxStock = 2
    Scene <- MCScene
SPECIFICATION FairSpec
CHECK_DEADLOCK FALSE
INVARIANTS
    ToldOnce
    SentIsDone
    OnePending
PROPERTIES
    NewsEnds
