-------------------------------- MODULE Escrow --------------------------------
(***************************************************************************)
(* What a preorder promises to the customer's money: it is held from       *)
(* booking until the contract ends, and it ends once, either delivered or  *)
(* given back in full.  A contract that was opened without payment is      *)
(* charged when it is delivered and void when it is cancelled.             *)
(***************************************************************************)
EXTENDS Integers

CONSTANTS User, Contract, NoDeal

VARIABLES
    account,    \* the books: what each user owns
    stage,      \* none, open, held, delivered, returned, void
    deal        \* the user and the amount of a contract

vars == <<account, stage, deal>>

Init ==
    /\ account \in [User -> Int]
    /\ stage \in [Contract -> {"none", "open"}]
    /\ \A c \in Contract : stage[c] = "none" <=> deal[c] = NoDeal

\* Only the account of u may change.
OnlyAccount(u) == \A v \in User \ {u} : account'[v] = account[v]

\* A contract begins, paid from the account or from outside.
Book(c, u) ==
    /\ stage[c] = "none"
    /\ stage' = [stage EXCEPT ![c] = "held"]
    /\ \A d \in Contract \ {c} : deal'[d] = deal[d]
    /\ deal'[c].user = u
    /\ \/ /\ account'[u] = account[u] - deal'[c].amount
          /\ OnlyAccount(u)
       \/ UNCHANGED account

\* The goods are handed over; somebody else may earn a reward.
Deliver(c) ==
    LET u == deal[c].user IN
    /\ stage[c] \in {"open", "held"}
    /\ stage' = [stage EXCEPT ![c] = "delivered"]
    /\ account'[u] = account[u] - (IF stage[c] = "open" THEN deal[c].amount ELSE 0)
    /\ \A v \in User \ {u} : account'[v] >= account[v]
    /\ UNCHANGED deal

\* The contract is cancelled and the money returned.
Return(c) ==
    LET u == deal[c].user IN
    /\ \/ /\ stage[c] = "held"
          /\ stage' = [stage EXCEPT ![c] = "returned"]
          /\ account' = [account EXCEPT ![u] = @ + deal[c].amount]
       \/ /\ stage[c] = "open"
          /\ stage' = [stage EXCEPT ![c] = "void"]
          /\ UNCHANGED account
    /\ UNCHANGED deal

\* Business outside the contracts.
Transfer(u) == OnlyAccount(u) /\ UNCHANGED <<stage, deal>>

Next ==
    \/ \E c \in Contract, u \in User : Book(c, u)
    \/ \E c \in Contract : Deliver(c) \/ Return(c)
    \/ \E u \in User : Transfer(u)

Spec == Init /\ [][Next]_vars
=============================================================================
