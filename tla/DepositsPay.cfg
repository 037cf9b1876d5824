SPECIFICATION Spec
CONSTANTS
    d1 = d1
    d2 = d2
    d3 = d3
    alice = alice
    bob = bob
    Deposit = {d1, d2, d3}
    Kind <- PayKind
    Source <- PaySource
    Owner <- PayOwner
    Tx = {t1, t2}
    Campaign = {}
    NoSale = NoSale
    Totals = {1}
    Quantities = {1}
    Chat = {}
    NoView = NoView
    MaxPending = 3
INVARIANTS
    OneCredit
    SettledOnce
PROPERTIES
    SettledForGood
SYMMETRY TxSymmetry
CHECK_DEADLOCK FALSE
