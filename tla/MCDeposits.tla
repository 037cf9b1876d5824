------------------------------ MODULE MCDeposits ------------------------------
(***************************************************************************)
(* Instances of Deposits for TLC.                                          *)
(***************************************************************************)
EXTENDS Deposits, TLC

CONSTANTS d1, d2, d3, alice, bob

\* Two purchases that compete for a sale.
SaleKind == [d \in Deposit |-> "direct_purchase"]
SaleSource == [d \in Deposit |-> IF d = d1 THEN "add_team" ELSE "manual"]
SaleOwner == [d \in Deposit |-> IF d = d1 THEN alice ELSE bob]

\* A submitted Binance id, a purchase, a preorder: one customer.
PayKind == [d \in Deposit |-> IF d = d1 THEN "binance" ELSE
                              IF d = d2 THEN "direct_purchase" ELSE "preorder"]
PaySource == [d \in Deposit |-> "add_team"]
PayOwner == [d \in Deposit |-> alice]

\* One purchase that the supplier fulfils by hand.
ByHandSource == [d \in Deposit |-> "manual"]

\* The bank's transaction ids are interchangeable.
TxSymmetry == Permutations(Tx)
=============================================================================
