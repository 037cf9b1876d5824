--------------------------- MODULE PreordersProofs ---------------------------
(***************************************************************************)
(* Proofs about Preorders, for any number of users, products, preorders,   *)
(* payments and Telegram sessions.                                         *)
(***************************************************************************)
EXTENDS Preorders, TLAPS

-----------------------------------------------------------------------------
\* Amounts are natural numbers.
LEMMA ProductNat == ASSUME NEW a \in Nat, NEW b \in Nat PROVE a * b \in Nat
  OBVIOUS

LEMMA CommissionNat == ASSUME NEW a \in Nat PROVE Commission(a) \in Nat
  <1>1. a * CommissionPercent \in Nat
    BY ProductNat, CommissionAssumption
  <1> DEFINE x == a * CommissionPercent
  <1>2. x \in Nat => x \div 100 \in Nat
    <2> HIDE DEF x
    <2> QED OBVIOUS
  <1> QED BY <1>1, <1>2 DEF Commission

\* The amount of a preorder row.
LEMMA TotalNat ==
    ASSUME TypeOK, NEW p \in Preorder, terms[p] # NoTerms
    PROVE  Total(p) \in Nat
  <1>1. terms[p] \in Terms
    BY DEF TypeOK
  <1>2. terms[p].base \in Nat /\ terms[p].quantity \in Nat
    BY <1>1, PriceAssumption, QuantityAssumption DEF Terms
  <1> QED BY <1>2, ProductNat DEF Total

-----------------------------------------------------------------------------
(***************************************************************************)
(* Type correctness.  A row in use has terms, which is what makes its      *)
(* amount a number; the worker only holds rows in use.                     *)
(***************************************************************************)
RowsInUse ==
    /\ \A p \in Preorder : terms[p] = NoTerms <=> status[p] = "absent"
    /\ worker.pc # "idle" => status[worker.id] # "absent"
    /\ worker.pc \in {"send", "mark"} => status[worker.id] \in {"completed", "cancelled"}

Typed == TypeOK /\ RowsInUse

LEMMA TypedInit == Init => Typed
  <1> SUFFICES ASSUME Init PROVE Typed
    OBVIOUS
  <1>1. TypeOK
    BY PriceAssumption DEF Init, TypeOK, Status, Notify, Session, WorkerState
  <1>2. RowsInUse
    BY DEF Init, RowsInUse
  <1> QED BY <1>1, <1>2 DEF Typed

\* Typing is preserved.  ApplyWalletChange keeps balances natural because it
\* refuses a negative result.
LEMMA ApplyTyped ==
    ASSUME TypeOK, NEW u \in User, NEW held \in Nat, NEW amount \in Int,
           NEW e \in {"preorder_charge", "preorder_refund", "deposit"}
                       \X (Preorder \cup Deposit),
           ApplyWalletChange(u, held, amount, e)
    PROVE  /\ balance' \in [User -> Nat] /\ posted' \in [User -> Int]
           /\ events' \subseteq {"preorder_charge", "preorder_refund", "purchase",
                         "referral", "deposit"} \X (Preorder \cup Deposit)
           /\ overtaken' \subseteq User
  BY DEF TypeOK, ApplyWalletChange

LEMMA CancelTyped ==
    ASSUME Typed, NEW p \in Preorder, status[p] # "absent", NEW held \in Nat,
           CancelAndRefund(p, held),
           UNCHANGED <<goods, catalog, told>>,
           session' \in [Chat -> Session], worker' \in WorkerState,
           worker'.pc # "idle" => worker' = worker
    PROVE  Typed'
  <1>1. terms[p] # NoTerms /\ terms[p] \in Terms /\ terms[p].user \in User
    BY DEF Typed, TypeOK, RowsInUse, Terms
  <1>2. Total(p) \in Int
    BY <1>1, TotalNat DEF Typed
  <1>3. /\ balance' \in [User -> Nat] /\ posted' \in [User -> Int]
        /\ events' \subseteq {"preorder_charge", "preorder_refund", "purchase",
                         "referral", "deposit"} \X (Preorder \cup Deposit)
        /\ overtaken' \subseteq User
    <2>1. CASE charged[p] /\ ~refunded[p] /\ <<"preorder_refund", p>> \notin events
      <3>1. ApplyWalletChange(terms[p].user, held, Total(p), <<"preorder_refund", p>>)
        BY <2>1 DEF CancelAndRefund
      <3> QED BY <3>1, <1>1, <1>2, ApplyTyped DEF Typed
    <2>2. CASE ~(charged[p] /\ ~refunded[p] /\ <<"preorder_refund", p>> \notin events)
      BY <2>2 DEF CancelAndRefund, Typed, TypeOK
    <2> QED BY <2>1, <2>2
  <1>4. /\ refunded' \in [Preorder -> BOOLEAN] /\ status' \in [Preorder -> Status]
        /\ notify' \in [Preorder -> Notify]
    BY DEF CancelAndRefund, Typed, TypeOK, Status, Notify
  <1>5. TypeOK'
    BY <1>3, <1>4 DEF CancelAndRefund, Typed, TypeOK, goods, catalog
  <1>6. RowsInUse'
    BY <1>1 DEF CancelAndRefund, Typed, TypeOK, RowsInUse
  <1> QED BY <1>5, <1>6 DEF Typed

LEMMA InsertTyped ==
    ASSUME Typed, NEW p \in Preorder, NextId(p), NEW u \in User, NEW x \in Product,
           NEW q \in Quantities, Insert(p, u, x, q)
    PROVE  /\ terms' \in [Preorder -> Terms \cup {NoTerms}]
           /\ status' \in [Preorder -> Status]
           /\ charged' \in [Preorder -> BOOLEAN]
           /\ refunded' \in [Preorder -> BOOLEAN]
           /\ notify' \in [Preorder -> Notify]
           /\ \A r \in Preorder : terms'[r] = NoTerms <=> status'[r] = "absent"
           /\ \A r \in Preorder : status[r] # "absent" => status'[r] # "absent"
  <1>1. [user |-> u, product |-> x, quantity |-> q, base |-> price[x]] \in Terms
    BY DEF Typed, TypeOK, Terms
  <1>2. [user |-> u, product |-> x, quantity |-> q, base |-> price[x]] # NoTerms
    BY <1>1, TermsAssumption DEF Terms
  <1> QED BY <1>1, <1>2 DEF Typed, TypeOK, RowsInUse, Insert, NextId, Status

LEMMA DeliverTyped ==
    ASSUME Typed, worker.pc = "buy", NEW local \in Nat, NEW bought \in Nat,
           local =< stock[terms[worker.id].product],
           Funded(worker.id),
           Deliver(worker.id, local, bought)
    PROVE  /\ balance' \in [User -> Nat] /\ posted' \in [User -> Int]
           /\ events' \subseteq {"preorder_charge", "preorder_refund", "purchase",
                         "referral", "deposit"} \X (Preorder \cup Deposit)
           /\ delivered' \in [Preorder -> Nat]
           /\ stock' \in [Product -> Nat]
           /\ UNCHANGED <<qrPaid, inflow, overtaken>>
  <1> DEFINE p == worker.id
             u == terms[p].user
             r == Referrer[u]
             reward == Commission(Total(p))
             rewarded == r # NoUser /\ r # u /\ reward > 0
             debit == IF worker.charged THEN 0 ELSE Total(p)
             delta == [v \in User |-> (IF v = u THEN -debit ELSE 0)
                                 + (IF rewarded /\ v = r THEN reward ELSE 0)]
  <1>1. /\ p \in Preorder /\ terms[p] # NoTerms /\ terms[p] \in Terms
        /\ u \in User /\ terms[p].product \in Product
    BY DEF Typed, TypeOK, RowsInUse, Terms, WorkerState
  <1>2. Total(p) \in Nat /\ reward \in Nat
    BY <1>1, TotalNat, CommissionNat DEF Typed
  <1>3. debit \in Nat /\ debit =< balance[u]
    BY <1>1, <1>2 DEF Funded, Typed, TypeOK
  <1>4. delta \in [User -> Int]
    BY <1>2, <1>3
  <1>5. \A v \in User : balance[v] + delta[v] \in Nat
    BY <1>1, <1>2, <1>3 DEF Typed, TypeOK
  <1>6. /\ balance' = [v \in User |-> balance[v] + delta[v]]
        /\ posted' = [v \in User |-> posted[v] + delta[v]]
    BY DEF Deliver
  <1>7. balance' \in [User -> Nat] /\ posted' \in [User -> Int]
    BY <1>4, <1>5, <1>6 DEF Typed, TypeOK
  <1>8. events' \subseteq {"preorder_charge", "preorder_refund", "purchase",
                         "referral", "deposit"} \X (Preorder \cup Deposit)
    BY <1>1 DEF Deliver, Typed, TypeOK
  <1>9. delivered' \in [Preorder -> Nat] /\ stock' \in [Product -> Nat]
    BY <1>1 DEF Deliver, Typed, TypeOK
  <1> QED BY <1>7, <1>8, <1>9 DEF Deliver

\* What a row in use, and the row the worker holds, consist of.
LEMMA RowFacts ==
    ASSUME Typed, NEW p \in Preorder, status[p] # "absent"
    PROVE  /\ terms[p] # NoTerms /\ terms[p] \in Terms
           /\ terms[p].user \in User /\ terms[p].product \in Product
           /\ terms[p].quantity \in Nat \ {0} /\ terms[p].base \in Prices
           /\ Total(p) \in Nat
           /\ stock[terms[p].product] \in Nat /\ balance[terms[p].user] \in Nat
  <1>1. terms[p] # NoTerms /\ terms[p] \in Terms
    BY DEF Typed, TypeOK, RowsInUse
  <1>2. /\ terms[p].user \in User /\ terms[p].product \in Product
        /\ terms[p].quantity \in Nat \ {0} /\ terms[p].base \in Prices
    BY <1>1, QuantityAssumption DEF Terms
  <1>3. Total(p) \in Nat
    BY <1>1, TotalNat DEF Typed
  <1> QED BY <1>1, <1>2, <1>3 DEF Typed, TypeOK

LEMMA WorkerFacts ==
    ASSUME Typed
    PROVE  /\ worker.id \in Preorder /\ worker.charged \in BOOLEAN
           /\ worker.pc # "idle" => status[worker.id] # "absent"
  BY DEF Typed, TypeOK, RowsInUse, WorkerState

LEMMA GotoTyped ==
    ASSUME Typed, NEW pc \in {"idle", "claimed", "buy", "finish", "send", "mark"}, Goto(pc)
    PROVE  /\ worker' \in WorkerState /\ worker'.pc = pc /\ worker'.id = worker.id
           /\ worker'.charged = worker.charged /\ worker'.verdict = worker.verdict
  BY DEF Typed, TypeOK, WorkerState, Goto

LEMMA ConcludeTyped ==
    ASSUME Typed, NEW v \in {"completed", "cancel", "retry"}, Conclude(v)
    PROVE  /\ worker' \in WorkerState /\ worker'.pc = "finish" /\ worker'.id = worker.id
           /\ worker'.charged = worker.charged /\ worker'.verdict = v
  BY DEF Typed, TypeOK, WorkerState, Conclude

LEMMA TypedNext == Typed /\ [Next]_vars => Typed'
  <1> SUFFICES ASSUME Typed, [Next]_vars PROVE Typed'
    OBVIOUS
  <1> USE DEF wallet, book, goods, catalog
  <1>1. ASSUME NEW c \in Chat, NEW u \in User, OpenSession(c, u) PROVE Typed'
    BY <1>1 DEF OpenSession, Typed, TypeOK, RowsInUse, Session
  <1>2. ASSUME NEW c \in Chat, CloseSession(c) PROVE Typed'
    BY <1>2 DEF CloseSession, Typed, TypeOK, RowsInUse, Session
  <1>3. ASSUME NEW c \in Chat, NEW p \in Preorder, CancelOwnPreorder(c, p) PROVE Typed'
    <2>1. session[c] \in [user: User, balance: Nat]
      BY <1>3 DEF CancelOwnPreorder, Typed, TypeOK, Session
    <2>2. session' \in [Chat -> Session] /\ status[p] # "absent"
      BY <1>3 DEF CancelOwnPreorder, Typed, TypeOK, Session
    <2> QED BY <1>3, <2>1, <2>2, CancelTyped DEF CancelOwnPreorder, Typed, TypeOK
  <1>4. ASSUME NEW c \in Chat, NEW p \in Preorder, NEW x \in Product,
               NEW q \in Quantities, ConfirmPreorder(c, p, x, q)
        PROVE  Typed'
    <2> DEFINE u == session[c].user
    <2>1. u \in User /\ session[c].balance \in Nat
      BY <1>4 DEF ConfirmPreorder, Typed, TypeOK, Session
    <2>2. price[x] * q \in Nat
      BY PriceAssumption, QuantityAssumption, ProductNat DEF Typed, TypeOK
    <2>3. /\ NextId(p) /\ Insert(p, u, x, q)
          /\ ApplyWalletChange(u, session[c].balance, -(price[x] * q),
                                <<"preorder_charge", p>>)
      BY <1>4 DEF ConfirmPreorder
    <2>4. /\ balance' \in [User -> Nat] /\ posted' \in [User -> Int]
          /\ events' \subseteq {"preorder_charge", "preorder_refund", "purchase",
                         "referral", "deposit"} \X (Preorder \cup Deposit)
          /\ overtaken' \subseteq User
      <3> DEFINE amount == -(price[x] * q)
                 event == <<"preorder_charge", p>>
      <3>1. amount \in Int
        BY <2>2
      <3>2. event \in {"preorder_charge", "preorder_refund", "deposit"}
                       \X (Preorder \cup Deposit)
        OBVIOUS
      <3>3. ApplyWalletChange(u, session[c].balance, amount, event)
        BY <2>3
      <3> HIDE DEF amount, event
      <3> QED BY <2>1, <3>1, <3>2, <3>3, ApplyTyped DEF Typed
    <2>5. session' \in [Chat -> Session]
      BY <1>4 DEF ConfirmPreorder, Typed, TypeOK, Session
    <2>6. UNCHANGED <<qrPaid, inflow, goods, catalog, told, worker>>
      BY <1>4 DEF ConfirmPreorder
    <2>7. /\ terms' \in [Preorder -> Terms \cup {NoTerms}]
          /\ status' \in [Preorder -> Status]
          /\ charged' \in [Preorder -> BOOLEAN]
          /\ refunded' \in [Preorder -> BOOLEAN]
          /\ notify' \in [Preorder -> Notify]
          /\ RowsInUse'
      BY <2>1, <2>3, <2>6, InsertTyped, WorkerFacts DEF Insert, NextId, Typed, TypeOK, RowsInUse
    <2> QED BY <2>4, <2>5, <2>6, <2>7 DEF Typed, TypeOK
  <1>5. ASSUME NEW d \in Deposit, NEW u \in User, NEW x \in Product,
               NEW q \in Quantities, NEW unit \in Prices, PayPreorderByQr(d, u, x, q, unit)
        PROVE  Typed'
    <2>1. unit * q \in Nat
      BY PriceAssumption, QuantityAssumption, ProductNat
    <2>2. qrPaid' \subseteq Deposit /\ inflow' \in [User -> Int]
      BY <1>5, <2>1 DEF PayPreorderByQr, Typed, TypeOK
    <2>3. CASE /\ \E p \in Preorder : NextId(p) /\ Insert(p, u, x, q)
               /\ UNCHANGED <<balance, posted, events, overtaken>>
      <3>1. PICK p \in Preorder : NextId(p) /\ Insert(p, u, x, q)
        BY <2>3
      <3>2. UNCHANGED <<goods, catalog, told, session, worker>>
        BY <1>5 DEF PayPreorderByQr
      <3>3. /\ terms' \in [Preorder -> Terms \cup {NoTerms}]
            /\ status' \in [Preorder -> Status]
            /\ charged' \in [Preorder -> BOOLEAN]
            /\ refunded' \in [Preorder -> BOOLEAN]
            /\ notify' \in [Preorder -> Notify]
            /\ RowsInUse'
        BY <3>1, <3>2, InsertTyped, WorkerFacts DEF Insert, NextId, Typed, TypeOK, RowsInUse
      <3> QED BY <2>2, <2>3, <3>2, <3>3 DEF Typed, TypeOK
    <2>4. CASE /\ ApplyWalletChange(u, balance[u], unit * q, <<"deposit", d>>)
               /\ UNCHANGED book
      <3>1. /\ balance' \in [User -> Nat] /\ posted' \in [User -> Int]
            /\ events' \subseteq {"preorder_charge", "preorder_refund", "purchase",
                         "referral", "deposit"} \X (Preorder \cup Deposit)
            /\ overtaken' \subseteq User
        BY <2>1, <2>4, ApplyTyped DEF Typed, TypeOK
      <3> QED BY <1>5, <2>2, <2>4, <3>1 DEF PayPreorderByQr, Typed, TypeOK, RowsInUse
    <2> QED BY <1>5, <2>3, <2>4 DEF PayPreorderByQr
  <1>6. ASSUME NEW p \in Preorder, AdminCancelPreorder(p) PROVE Typed'
    <2>1. status[p] # "absent" /\ balance[terms[p].user] \in Nat
      BY <1>6 DEF AdminCancelPreorder, Typed, TypeOK, RowsInUse, Terms
    <2> QED BY <1>6, <2>1, CancelTyped DEF AdminCancelPreorder, Typed, TypeOK
  <1>7. ASSUME NEW u \in User, NEW a \in Int, AdjustBalance(u, a) PROVE Typed'
    BY <1>7 DEF AdjustBalance, Typed, TypeOK, RowsInUse
  <1>8. ASSUME NEW u \in Blockable, ToggleBlock(u) PROVE Typed'
    BY <1>8, CatalogAssumption DEF ToggleBlock, Typed, TypeOK, RowsInUse
  <1>9. ASSUME NEW x \in Product, NEW new \in Prices, ChangePrice(x, new) PROVE Typed'
    BY <1>9 DEF ChangePrice, Typed, TypeOK, RowsInUse
  <1>10. ASSUME NEW x \in Product, NEW mode \in ShelfModes, SetShelf(x, mode) PROVE Typed'
    BY <1>10, CatalogAssumption DEF SetShelf, Typed, TypeOK, RowsInUse
  <1>11. ASSUME NEW x \in Product, NEW n \in 0..MaxStock, MoveStock(x, n) \/ SyncSupply(x, n)
         PROVE  Typed'
    BY <1>11, BoundAssumption DEF MoveStock, SyncSupply, Typed, TypeOK, RowsInUse
  <1>12. ASSUME NEW p \in Preorder, ClaimPreorder(p) PROVE Typed'
    BY <1>12 DEF ClaimPreorder, Typed, TypeOK, RowsInUse, WorkerState, Status
  <1>13. CASE CheckClaimed
    <2>1. /\ worker' \in WorkerState /\ worker'.id = worker.id
          /\ worker'.pc \in {"idle", "buy", "finish"} /\ worker.pc # "idle"
      BY <1>13, GotoTyped, ConcludeTyped DEF CheckClaimed
    <2> QED BY <1>13, <2>1 DEF CheckClaimed, Typed, TypeOK, RowsInUse
  <1>14. ASSUME worker.pc = "buy", BuyRefused \/ BuyOutOfStock PROVE Typed'
    <2>1. /\ worker' \in WorkerState /\ worker'.id = worker.id /\ worker'.pc = "finish"
      BY <1>14, ConcludeTyped DEF BuyRefused, BuyOutOfStock
    <2> QED BY <1>14, <2>1 DEF BuyRefused, BuyOutOfStock, Typed, TypeOK, RowsInUse
  <1>15. ASSUME worker.pc = "buy", BuyFromStock PROVE Typed'
    <2> DEFINE p == worker.id  x == terms[p].product  q == terms[p].quantity
    <2>1. p \in Preorder /\ terms[p] \in Terms /\ x \in Product /\ q \in Nat
      BY <1>15, WorkerFacts, RowFacts
    <2>2. worker' \in WorkerState /\ worker'.id = worker.id /\ worker'.pc = "finish"
      BY <1>15, ConcludeTyped DEF BuyFromStock
    <2>3. CASE UNCHANGED <<wallet, goods>>
      BY <1>15, <2>2, <2>3 DEF BuyFromStock, Typed, TypeOK, RowsInUse
    <2>4. CASE /\ Funded(p) /\ Deliver(p, q, 0)
               /\ UNCHANGED <<supplied, shelved, supply>>
      <3>1. q =< stock[x]
        BY <1>15, <2>1 DEF BuyFromStock, Typed, TypeOK
      <3> QED BY <1>15, <2>1, <2>2, <2>4, <3>1, DeliverTyped
              DEF BuyFromStock, Typed, TypeOK, RowsInUse
    <2> QED BY <1>15, <2>3, <2>4 DEF BuyFromStock
  <1>16. ASSUME worker.pc = "buy", BuyFromSupplier PROVE Typed'
    <2> DEFINE p == worker.id
               x == terms[p].product
               missing == terms[p].quantity - stock[x]
               answered == IF supplied[p] = 0 THEN missing ELSE supplied[p]
    <2>1. /\ p \in Preorder /\ terms[p] \in Terms /\ x \in Product
          /\ terms[p].base \in Prices /\ missing \in Nat /\ answered \in Nat
          /\ stock[x] \in Nat
      BY <1>16, WorkerFacts, RowFacts DEF BuyFromSupplier, Typed, TypeOK
    <2>2. /\ worker' \in WorkerState /\ worker'.id = worker.id /\ worker'.pc = "finish"
          /\ UNCHANGED <<book, shelf, blocked, told, session>>
      BY <1>16, ConcludeTyped DEF BuyFromSupplier
    <2>7. /\ supply' \in [Product -> Nat] /\ price' \in [Product -> Prices]
          /\ supplied' \in [Preorder -> Nat] /\ shelved' \subseteq Preorder
      BY <1>16, <2>1, BoundAssumption DEF BuyFromSupplier, Typed, TypeOK
    <2>3. CASE UNCHANGED <<wallet, delivered>> /\ stock' \in [Product -> Nat]
      BY <1>16, <2>2, <2>3, <2>7 DEF Typed, TypeOK, RowsInUse
    <2>4. CASE Funded(p) /\ Deliver(p, stock[x], missing)
      BY <1>16, <2>1, <2>2, <2>4, <2>7, DeliverTyped DEF Typed, TypeOK, RowsInUse
    <2>5. ASSUME stock' = [stock EXCEPT ![x] = IF p \in shelved THEN @ ELSE @ + missing]
          PROVE  stock' \in [Product -> Nat]
      BY <2>1, <2>5 DEF Typed, TypeOK
    <2>6. stock \in [Product -> Nat]
      BY DEF Typed, TypeOK
    <2> QED BY <1>16, <2>3, <2>4, <2>5, <2>6 DEF BuyFromSupplier
  <1>17. CASE CompletePreorder
    <2>1. worker.id \in Preorder /\ worker' \in WorkerState /\ worker'.pc = "idle"
      BY <1>17, WorkerFacts, GotoTyped DEF CompletePreorder
    <2>2. status[worker.id] # "absent"
      BY <1>17, WorkerFacts DEF CompletePreorder
    <2>3. UNCHANGED <<wallet, terms, refunded, goods, catalog, told, session>>
      BY <1>17 DEF CompletePreorder
    <2>4. /\ status' \in [Preorder -> Status] /\ charged' \in [Preorder -> BOOLEAN]
          /\ notify' \in [Preorder -> Notify]
      BY <1>17, <2>1 DEF CompletePreorder, Typed, TypeOK, Status, Notify
    <2>5. \A q \in Preorder : status'[q] = "absent" <=> status[q] = "absent"
      BY <1>17, <2>1, <2>2 DEF CompletePreorder, Typed, TypeOK
    <2> QED BY <2>1, <2>3, <2>4, <2>5 DEF Typed, TypeOK, RowsInUse
  <1>18. CASE CancelPreorder
    <2>1. /\ worker.id \in Preorder /\ worker' \in WorkerState /\ worker'.pc = "idle"
          /\ status[worker.id] # "absent" /\ balance[terms[worker.id].user] \in Nat
      BY <1>18 DEF CancelPreorder, Goto, Typed, TypeOK, RowsInUse, WorkerState, Terms
    <2>2. CASE CancelAndRefund(worker.id, balance[terms[worker.id].user])
      BY <1>18, <2>1, <2>2, CancelTyped DEF CancelPreorder, Typed, TypeOK
    <2>3. CASE UNCHANGED <<wallet, book>>
      BY <1>18, <2>1, <2>3 DEF CancelPreorder, Typed, TypeOK, RowsInUse
    <2> QED BY <1>18, <2>2, <2>3 DEF CancelPreorder
  <1>19. CASE SetPendingRetry
    BY <1>19 DEF SetPendingRetry, Goto, Typed, TypeOK, RowsInUse, WorkerState, Status
  <1>20. CASE WorkerFails
    <2>1. terms[worker.id].quantity - stock[terms[worker.id].product] > 0
          => terms[worker.id].quantity - stock[terms[worker.id].product] \in Nat
      BY <1>20, WorkerFacts, RowFacts DEF WorkerFails
    <2>2. worker' \in WorkerState /\ worker'.pc = "idle"
      BY <1>20, GotoTyped DEF WorkerFails
    <2> QED BY <1>20, <2>1, <2>2 DEF WorkerFails, Typed, TypeOK, RowsInUse
  <1>21. ASSUME NEW P \in SUBSET Preorder, NEW N \in SUBSET Preorder, RecoverStale(P, N)
         PROVE  Typed'
    BY <1>21 DEF RecoverStale, Typed, TypeOK, RowsInUse, Status, Notify
  <1>22. ASSUME NEW p \in Preorder, ClaimNotification(p) PROVE Typed'
    BY <1>22 DEF ClaimNotification, Typed, TypeOK, RowsInUse, WorkerState, Notify
  <1>23. CASE SendNotification
    <2>1. worker.id \in Preorder /\ status[worker.id] # "absent"
      BY <1>23, WorkerFacts DEF SendNotification
    <2>3. worker' \in WorkerState /\ worker'.id = worker.id /\ worker'.pc = "mark"
      BY <1>23, GotoTyped DEF SendNotification
    <2>2. told' \in [Preorder -> SUBSET {"completed", "cancelled"}]
      BY <1>23, <2>1 DEF SendNotification, Typed, TypeOK, RowsInUse
    <2> QED BY <1>23, <2>2, <2>3 DEF SendNotification, Typed, TypeOK, RowsInUse
  <1>24. CASE SendFails
    <2>1. worker.id \in Preorder /\ worker' \in WorkerState /\ worker'.pc = "idle"
      BY <1>24, WorkerFacts, GotoTyped DEF SendFails
    <2>2. told' \in [Preorder -> SUBSET {"completed", "cancelled"}]
      BY <1>24, <2>1 DEF SendFails, Typed, TypeOK, RowsInUse
    <2> QED BY <1>24, <2>1, <2>2 DEF SendFails, Typed, TypeOK, RowsInUse, Notify
  <1>25. CASE MarkSent
    BY <1>25, GotoTyped DEF MarkSent, Typed, TypeOK, RowsInUse, Notify
  <1>26. CASE UNCHANGED vars
    BY <1>26 DEF vars, Typed, TypeOK, RowsInUse
  <1> QED
    BY <1>1, <1>2, <1>3, <1>4, <1>5, <1>6, <1>7, <1>8, <1>9, <1>10, <1>11, <1>12,
       <1>13, <1>14, <1>15, <1>16, <1>17, <1>18, <1>19, <1>20, <1>21, <1>22, <1>23,
       <1>24, <1>25, <1>26, AdjustmentAssumption
    DEF Next, Customer, Shop, Worker, Buy

\* Balances, ledger rows and preorder rows keep their types: no wallet goes
\* negative, whatever charges, refunds and adjustments come together.
THEOREM TypeCorrect == Spec => []TypeOK
  <1>1. Init => Typed
    BY TypedInit
  <1>2. Typed /\ [Next]_vars => Typed'
    BY TypedNext
  <1>3. Typed => TypeOK
    BY DEF Typed
  <1> QED BY <1>1, <1>2, <1>3, PTL DEF Spec

THEOREM RowsTyped == Spec => []Typed
  BY TypedInit, TypedNext, PTL DEF Spec

-----------------------------------------------------------------------------
(***************************************************************************)
(* The inductive invariant.  What a row says of itself, and what the       *)
(* worker knows of the row it holds: while it holds one, nobody else       *)
(* changes it, because customers and the shop only cancel pending rows.    *)
(***************************************************************************)
RowSound(p) ==
    /\ p \in Legacy => status[p] # "absent"
    /\ status[p] = "absent" => ~charged[p] /\ told[p] = {}
    /\ p \notin Legacy /\ status[p] # "absent" => charged[p]
    /\ p \in Legacy /\ charged[p] => delivered[p] > 0
    /\ refunded[p] <=> status[p] = "cancelled" /\ p \notin Legacy
    /\ <<"preorder_refund", p>> \in events <=> refunded[p]
    /\ delivered[p] > 0 => /\ status[p] \in {"processing", "completed"}
                           /\ delivered[p] = terms[p].quantity
    /\ status[p] = "completed" => delivered[p] > 0
    /\ <<"purchase", p>> \in events <=> delivered[p] > 0 /\ p \in Legacy
    /\ told[p] # {} => status[p] \in {"completed", "cancelled"} /\ told[p] = {status[p]}

WorkerSound ==
    /\ worker.pc \in {"claimed", "buy", "finish"} =>
         /\ status[worker.id] = "processing"
         /\ worker.charged <=> worker.id \notin Legacy
    /\ worker.pc \in {"claimed", "buy"} => delivered[worker.id] = 0
    /\ worker.pc = "finish" =>
         \/ worker.verdict = "completed" /\ delivered[worker.id] > 0
         \/ worker.verdict \in {"cancel", "retry"} /\ delivered[worker.id] = 0

Sound == (\A p \in Preorder : RowSound(p)) /\ WorkerSound

LEMMA SoundInit == Init => Sound
  <1> SUFFICES ASSUME Init PROVE Sound
    OBVIOUS
  <1>1. ASSUME NEW p \in Preorder PROVE RowSound(p)
    BY LegacyAssumption DEF Init, RowSound
  <1>2. WorkerSound
    BY DEF Init, WorkerSound
  <1> QED BY <1>1, <1>2 DEF Sound

\* A step that leaves alone what a row's soundness is about.
RowKept(p) ==
    /\ terms'[p] = terms[p] /\ status'[p] = status[p] /\ charged'[p] = charged[p]
    /\ refunded'[p] = refunded[p] /\ delivered'[p] = delivered[p] /\ told'[p] = told[p]
    /\ <<"preorder_refund", p>> \in events' <=> <<"preorder_refund", p>> \in events
    /\ <<"purchase", p>> \in events' <=> <<"purchase", p>> \in events

LEMMA RowFrame ==
    ASSUME NEW p \in Preorder, RowSound(p), RowKept(p) PROVE RowSound(p)'
  BY DEF RowSound, RowKept

\* A cancellation, whoever orders it, of a row that was not delivered.
LEMMA CancelSound ==
    ASSUME Typed, \A q \in Preorder : RowSound(q),
           NEW p \in Preorder, Active(p), delivered[p] = 0, NEW held,
           CancelAndRefund(p, held), UNCHANGED <<delivered, told>>
    PROVE  /\ \A q \in Preorder : RowSound(q)'
           /\ \A q \in Preorder : status[q] = "processing" /\ q # p => status'[q] = "processing"
  <1>1. ASSUME NEW q \in Preorder, q # p PROVE RowKept(q)
    BY <1>1 DEF CancelAndRefund, ApplyWalletChange, RowKept, Typed, TypeOK
  <1>2. /\ status'[p] = "cancelled" /\ charged'[p] = charged[p] /\ terms'[p] = terms[p]
        /\ refunded'[p] = (refunded[p] \/ charged[p])
        /\ told'[p] = told[p] /\ delivered'[p] = delivered[p]
    BY DEF CancelAndRefund, Typed, TypeOK
  <1>3. RowSound(p)
    OBVIOUS
  <1>4. refunded[p] = FALSE /\ told[p] = {} /\ (charged[p] <=> p \notin Legacy)
    BY <1>3 DEF RowSound, Active, ActiveStatus, Typed, TypeOK
  <1>5. <<"preorder_refund", p>> \in events' <=> charged[p]
    BY <1>3, <1>4 DEF CancelAndRefund, ApplyWalletChange, RowSound
  <1>6. <<"purchase", p>> \in events' <=> <<"purchase", p>> \in events
    BY DEF CancelAndRefund, ApplyWalletChange
  <1>9. delivered[p] = 0 /\ status[p] # "absent"
    BY DEF Active, ActiveStatus
  <1>7. RowSound(p)'
    <2>1. p \in Legacy => ~charged'[p] /\ ~refunded'[p]
      BY <1>2, <1>4
    <2>2. p \notin Legacy => charged'[p] /\ refunded'[p]
      BY <1>2, <1>4
    <2>3. ~(<<"purchase", p>> \in events')
      BY <1>3, <1>6, <1>9 DEF RowSound
    <2>4. <<"preorder_refund", p>> \in events' <=> p \notin Legacy
      BY <1>4, <1>5
    <2> QED BY <1>2, <1>4, <1>9, <2>1, <2>2, <2>3, <2>4 DEF RowSound
  <1>8. \A q \in Preorder : status[q] = "processing" /\ q # p => status'[q] = "processing"
    BY DEF CancelAndRefund, Typed, TypeOK
  <1> QED BY <1>1, <1>7, <1>8, RowFrame

\* A new row is paid.
LEMMA InsertSound ==
    ASSUME Typed, \A q \in Preorder : RowSound(q),
           NEW p \in Preorder, NextId(p), NEW u, NEW x, NEW n, Insert(p, u, x, n),
           UNCHANGED <<delivered, told>>,
           \A q \in Preorder : \A k \in {"preorder_refund", "purchase"} :
              <<k, q>> \in events' <=> <<k, q>> \in events
    PROVE  /\ \A q \in Preorder : RowSound(q)'
           /\ \A q \in Preorder : status[q] = "processing" => status'[q] = "processing"
  <1>1. ASSUME NEW q \in Preorder, q # p PROVE RowKept(q)
    BY <1>1 DEF Insert, RowKept, Typed, TypeOK
  <1>2. RowSound(p) /\ status[p] = "absent" /\ p \notin Legacy /\ delivered[p] = 0
    BY DEF NextId, RowSound, Typed, TypeOK
  <1>3. /\ status'[p] = "pending" /\ charged'[p] /\ refunded'[p] = refunded[p]
        /\ delivered'[p] = 0 /\ told'[p] = told[p]
    BY <1>2 DEF Insert, Typed, TypeOK
  <1>4. RowSound(p)'
    BY <1>2, <1>3 DEF RowSound
  <1>5. \A q \in Preorder : status[q] = "processing" => status'[q] = "processing"
    BY <1>2 DEF Insert, Typed, TypeOK
  <1> QED BY <1>1, <1>4, <1>5, RowFrame

LEMMA SoundNext == Typed /\ Sound /\ [Next]_vars => Sound'
  <1> SUFFICES ASSUME Typed, Sound, [Next]_vars PROVE Sound'
    OBVIOUS
  <1> USE DEF wallet, book, goods, catalog
  <1>a. \A p \in Preorder : RowSound(p)
    BY DEF Sound
  <1>b. WorkerSound
    BY DEF Sound
  \* Steps that touch neither the rows nor the worker.
  <1>1. ASSUME UNCHANGED <<terms, status, charged, refunded, delivered, told, events, worker>>
        PROVE  Sound'
    <2>1. \A p \in Preorder : RowKept(p)
      BY <1>1 DEF RowKept
    <2> QED BY <1>1, <1>a, <1>b, <2>1, RowFrame DEF Sound, WorkerSound
  <1>2. ASSUME NEW c \in Chat, CloseSession(c) \/ \E u \in User : OpenSession(c, u) PROVE Sound'
    BY <1>1, <1>2 DEF OpenSession, CloseSession
  <1>3. ASSUME NEW u, ToggleBlock(u) \/ \E a \in Int : AdjustBalance(u, a) PROVE Sound'
    BY <1>1, <1>3 DEF AdjustBalance, ToggleBlock
  <1>4. ASSUME NEW x \in Product, NEW v, \/ ChangePrice(x, v) \/ SetShelf(x, v)
                                         \/ MoveStock(x, v) \/ SyncSupply(x, v)
        PROVE  Sound'
    BY <1>1, <1>4 DEF ChangePrice, SetShelf, MoveStock, SyncSupply
  \* A pending row is not the worker's and was not delivered.
  <1>c. ASSUME NEW p \in Preorder, status[p] = "pending", NEW held, CancelAndRefund(p, held),
               UNCHANGED <<delivered, told, worker>>
        PROVE  Sound'
    <2>1. delivered[p] = 0
      <3>1. RowSound(p) /\ delivered[p] \in Nat
        BY <1>a DEF Typed, TypeOK
      <3> QED BY <1>c, <3>1 DEF RowSound
    <2>2. /\ \A q \in Preorder : RowSound(q)'
          /\ \A q \in Preorder : status[q] = "processing" /\ q # p => status'[q] = "processing"
      BY <1>a, <1>c, <2>1, CancelSound DEF Active, ActiveStatus
    <2> QED BY <1>b, <1>c, <2>2, WorkerFacts DEF Sound, WorkerSound
  <1>5. ASSUME NEW c \in Chat, NEW p \in Preorder, CancelOwnPreorder(c, p) PROVE Sound'
    BY <1>c, <1>5 DEF CancelOwnPreorder
  <1>6. ASSUME NEW p \in Preorder, AdminCancelPreorder(p) PROVE Sound'
    BY <1>c, <1>6 DEF AdminCancelPreorder
  <1>7. ASSUME NEW c \in Chat, NEW p \in Preorder, NEW x \in Product,
               NEW q \in Quantities, ConfirmPreorder(c, p, x, q)
        PROVE  Sound'
    <2>1. /\ NextId(p) /\ Insert(p, session[c].user, x, q)
          /\ events' = events \cup {<<"preorder_charge", p>>}
          /\ UNCHANGED <<delivered, told, worker>>
      BY <1>7 DEF ConfirmPreorder, ApplyWalletChange
    <2>2. \A r \in Preorder : \A k \in {"preorder_refund", "purchase"} :
             <<k, r>> \in events' <=> <<k, r>> \in events
      BY <2>1
    <2>3. /\ \A r \in Preorder : RowSound(r)'
          /\ \A r \in Preorder : status[r] = "processing" => status'[r] = "processing"
      BY <1>a, <2>1, <2>2, InsertSound
    <2> QED BY <1>b, <2>1, <2>3, WorkerFacts DEF Sound, WorkerSound
  <1>8. ASSUME NEW d \in Deposit, NEW u \in User, NEW x \in Product,
               NEW q \in Quantities, NEW unit \in Prices, PayPreorderByQr(d, u, x, q, unit)
        PROVE  Sound'
    <2>1. UNCHANGED <<delivered, told, worker>>
      BY <1>8 DEF PayPreorderByQr
    <2>2. CASE /\ \E p \in Preorder : NextId(p) /\ Insert(p, u, x, q)
               /\ UNCHANGED <<balance, posted, events, overtaken>>
      <3>1. /\ \A r \in Preorder : RowSound(r)'
            /\ \A r \in Preorder : status[r] = "processing" => status'[r] = "processing"
        BY <1>a, <2>1, <2>2, InsertSound
      <3> QED BY <1>b, <2>1, <3>1, WorkerFacts DEF Sound, WorkerSound
    <2>3. CASE /\ ApplyWalletChange(u, balance[u], unit * q, <<"deposit", d>>)
               /\ UNCHANGED book
      <3>1. \A p \in Preorder : RowKept(p)
        BY <2>1, <2>3 DEF ApplyWalletChange, RowKept
      <3> QED BY <1>a, <1>b, <2>1, <2>3, <3>1, RowFrame DEF Sound, WorkerSound
    <2> QED BY <1>8, <2>2, <2>3 DEF PayPreorderByQr
  <1>9. ASSUME NEW p \in Preorder, ClaimPreorder(p) PROVE Sound'
    <2>1. \A q \in Preorder : q # p => RowKept(q)
      BY <1>9 DEF ClaimPreorder, RowKept, Typed, TypeOK
    <2>2. /\ status[p] = "pending" /\ status'[p] = "processing"
          /\ UNCHANGED <<terms, charged, refunded, delivered, told, events>>
          /\ worker'.pc = "claimed" /\ worker'.id = p /\ worker'.charged = charged[p]
      BY <1>9 DEF ClaimPreorder, Typed, TypeOK
    <2>3. RowSound(p) /\ delivered[p] \in Nat
      BY <1>a DEF Typed, TypeOK
    <2>4. RowSound(p)' /\ delivered[p] = 0 /\ (charged[p] <=> p \notin Legacy)
      BY <2>2, <2>3 DEF RowSound
    <2> QED BY <1>a, <2>1, <2>2, <2>4, RowFrame DEF Sound, WorkerSound
  \* The worker moves on with its row.
  <1>d. ASSUME UNCHANGED <<terms, status, charged, refunded, delivered, told, events>>,
               worker'.id = worker.id, worker'.charged = worker.charged,
               \/ worker'.pc \in {"idle", "send", "mark"}
               \/ worker.pc = "claimed" /\ worker'.pc = "buy"
               \/ /\ worker.pc \in {"claimed", "buy"} /\ worker'.pc = "finish"
                  /\ worker'.verdict \in {"cancel", "retry"}
        PROVE  Sound'
    <2>1. \A p \in Preorder : RowKept(p)
      BY <1>d DEF RowKept
    <2> QED BY <1>d, <1>a, <1>b, <2>1, RowFrame DEF Sound, WorkerSound
  <1>10. CASE CheckClaimed
    <2>1. \/ worker'.pc \in {"idle", "buy"}
          \/ worker'.pc = "finish" /\ worker'.verdict \in {"cancel", "retry"}
      BY <1>10, GotoTyped, ConcludeTyped DEF CheckClaimed
    <2>2. worker'.id = worker.id /\ worker'.charged = worker.charged /\ worker.pc = "claimed"
      BY <1>10, GotoTyped, ConcludeTyped DEF CheckClaimed
    <2> QED BY <1>10, <1>d, <2>1, <2>2 DEF CheckClaimed
  <1>e. ASSUME worker.pc = "buy"
        PROVE  /\ worker.id \in Preorder /\ status[worker.id] = "processing"
               /\ delivered[worker.id] = 0 /\ (worker.charged <=> worker.id \notin Legacy)
    BY <1>e, <1>b, WorkerFacts DEF WorkerSound
  <1>11. ASSUME worker.pc = "buy", BuyRefused \/ BuyOutOfStock PROVE Sound'
    <2>1. /\ worker'.pc = "finish" /\ worker'.id = worker.id
          /\ worker'.charged = worker.charged /\ worker'.verdict \in {"cancel", "retry"}
      BY <1>11, <1>e, ConcludeTyped DEF BuyRefused, BuyOutOfStock
    <2> QED BY <1>11, <1>d, <2>1 DEF BuyRefused, BuyOutOfStock
  \* The whole order is delivered to a row that had nothing.
  <1>f. ASSUME worker.pc = "buy", UNCHANGED <<book, told>>,
               NEW local \in Nat, NEW bought \in Nat,
               Deliver(worker.id, local, bought), Conclude("completed"),
               local + bought = terms[worker.id].quantity
        PROVE  Sound'
    <2>0. PICK p \in Preorder : p = worker.id
      BY WorkerFacts
    <2>1. /\ p \in Preorder /\ status[p] = "processing" /\ delivered[p] = 0
          /\ (worker.charged <=> p \notin Legacy)
      BY <1>e, <1>f, <2>0
    <2>2. /\ terms[p].quantity \in Nat \ {0}
      BY <2>1, RowFacts
    <2>3. delivered'[p] = delivered[p] + local + bought
      BY <1>f, <2>0, <2>1 DEF Deliver, Typed, TypeOK
    <2>4. \A q \in Preorder : q # p => RowKept(q)
      BY <1>f, <2>0, <2>1 DEF Deliver, RowKept, Typed, TypeOK
    <2>5. /\ <<"preorder_refund", p>> \in events' <=> <<"preorder_refund", p>> \in events
          /\ <<"purchase", p>> \in events'
              <=> <<"purchase", p>> \in events \/ ~worker.charged
      BY <1>f, <2>0 DEF Deliver
    <2>6. /\ worker'.pc = "finish" /\ worker'.id = p /\ worker'.charged = worker.charged
          /\ worker'.verdict = "completed"
      BY <1>f, <2>0, ConcludeTyped
    <2>7. delivered'[p] = terms[p].quantity /\ delivered'[p] > 0
      BY <1>f, <2>0, <2>1, <2>2, <2>3
    <2>8. RowSound(p)'
      <3>1. RowSound(p) /\ UNCHANGED <<terms, status, charged, refunded, told>>
        BY <1>a, <1>f, <2>1
      <3> QED BY <2>1, <2>5, <2>7, <3>1 DEF RowSound
    <2> QED BY <1>a, <2>1, <2>4, <2>6, <2>7, <2>8, <1>f, RowFrame DEF Sound, WorkerSound
  <1>12. ASSUME worker.pc = "buy", BuyFromStock PROVE Sound'
    <2> DEFINE p == worker.id  x == terms[p].product  q == terms[p].quantity
    <2>1. CASE Conclude("cancel") /\ UNCHANGED <<wallet, goods>>
      BY <1>12, <1>d, <2>1, ConcludeTyped DEF BuyFromStock
    <2>2. CASE Deliver(p, q, 0) /\ Conclude("completed")
      <3>1. q \in Nat /\ q + 0 = q
        BY <1>12, WorkerFacts, RowFacts
      <3> QED BY <1>12, <1>f, <2>2, <3>1 DEF BuyFromStock
    <2> QED BY <1>12, <2>1, <2>2 DEF BuyFromStock
  <1>13. ASSUME worker.pc = "buy", BuyFromSupplier PROVE Sound'
    <2> DEFINE p == worker.id
               x == terms[p].product
               missing == terms[p].quantity - stock[x]
    <2>1. CASE /\ Conclude("retry") \/ Conclude("cancel")
               /\ UNCHANGED <<wallet, delivered>>
      <3>1. /\ worker'.pc = "finish" /\ worker'.id = worker.id
            /\ worker'.charged = worker.charged /\ worker'.verdict \in {"cancel", "retry"}
        BY <2>1, ConcludeTyped
      <3> QED BY <1>13, <1>d, <2>1, <3>1 DEF BuyFromSupplier
    <2>2. CASE Deliver(p, stock[x], missing) /\ Conclude("completed")
      <3>1. stock[x] \in Nat /\ missing \in Nat /\ stock[x] + missing = terms[p].quantity
        BY <1>13, WorkerFacts, RowFacts DEF BuyFromSupplier
      <3>2. UNCHANGED <<book, told>>
        BY <1>13 DEF BuyFromSupplier
      <3> HIDE DEF missing
      <3> QED BY <1>13, <1>f, <2>2, <3>1, <3>2
    <2> QED BY <1>13, <2>1, <2>2 DEF BuyFromSupplier
  <1>14. CASE CompletePreorder
    <2>0. PICK p \in Preorder : p = worker.id
      BY WorkerFacts
    <2>1. /\ p \in Preorder /\ status[p] = "processing" /\ delivered[p] > 0
      BY <1>14, <2>0, <1>b, WorkerFacts DEF CompletePreorder, WorkerSound, Typed, TypeOK
    <2>2. /\ status' = [status EXCEPT ![p] = "completed"]
          /\ charged' = [charged EXCEPT ![p] = TRUE]
          /\ UNCHANGED <<terms, refunded, delivered, told, events>>
      BY <1>14, <2>0, <2>1 DEF CompletePreorder
    <2>3. \A q \in Preorder : q # p => RowKept(q)
      BY <2>1, <2>2 DEF RowKept, Typed, TypeOK
    <2>4. status'[p] = "completed" /\ charged'[p]
      BY <2>1, <2>2 DEF Typed, TypeOK
    <2>5. RowSound(p)'
      <3>1. RowSound(p)
        BY <1>a, <2>1
      <3> QED BY <2>1, <2>2, <2>4, <3>1 DEF RowSound
    <2>6. worker'.pc = "idle"
      BY <1>14, <2>0, GotoTyped DEF CompletePreorder
    <2> QED BY <1>a, <2>3, <2>5, <2>6, RowFrame DEF Sound, WorkerSound
  <1>15. CASE CancelPreorder
    <2> DEFINE p == worker.id
    <2>1. p \in Preorder /\ Active(p) /\ delivered[p] = 0
      BY <1>15, <1>b, WorkerFacts
         DEF CancelPreorder, WorkerSound, Active, ActiveStatus
    <2>2. CancelAndRefund(p, balance[terms[p].user]) /\ UNCHANGED <<delivered, told>>
      BY <1>15, <2>1 DEF CancelPreorder
    <2>3. \A q \in Preorder : RowSound(q)'
      BY <1>a, <2>1, <2>2, CancelSound
    <2>4. worker'.pc = "idle"
      BY <1>15, GotoTyped DEF CancelPreorder
    <2> QED BY <2>3, <2>4 DEF Sound, WorkerSound
  <1>16. CASE SetPendingRetry
    <2>0. PICK p \in Preorder : p = worker.id
      BY WorkerFacts
    <2>1. p \in Preorder /\ status[p] = "processing" /\ delivered[p] = 0
      BY <1>16, <2>0, <1>b, WorkerFacts DEF SetPendingRetry, WorkerSound
    <2>2. /\ status' = [status EXCEPT ![p] = "pending"]
          /\ UNCHANGED <<terms, charged, refunded, delivered, told, events>>
      BY <1>16, <2>0, <2>1 DEF SetPendingRetry
    <2>3. \A q \in Preorder : q # p => RowKept(q)
      BY <2>1, <2>2 DEF RowKept, Typed, TypeOK
    <2>4. RowSound(p)'
      <3>1. RowSound(p) /\ status'[p] = "pending"
        BY <1>a, <2>1, <2>2 DEF Typed, TypeOK
      <3> QED BY <2>1, <2>2, <3>1 DEF RowSound
    <2>5. worker'.pc = "idle"
      BY <1>16, <2>0, GotoTyped DEF SetPendingRetry
    <2> QED BY <1>a, <2>3, <2>4, <2>5, RowFrame DEF Sound, WorkerSound
  <1>17. CASE WorkerFails
    BY <1>17, <1>d, GotoTyped DEF WorkerFails
  <1>18. ASSUME NEW P \in SUBSET Preorder, NEW N \in SUBSET Preorder, RecoverStale(P, N)
         PROVE  Sound'
    <2>1. UNCHANGED <<terms, refunded, delivered, told, events, worker>> /\ worker.pc = "idle"
      BY <1>18 DEF RecoverStale
    <2>2. ASSUME NEW p \in Preorder PROVE RowSound(p)'
      <3>1. RowSound(p) /\ delivered[p] \in Nat
        BY <1>a DEF Typed, TypeOK
      <3>2. CASE p \notin P
        <4>1. RowKept(p)
          BY <1>18, <2>1, <3>2 DEF RecoverStale, RowKept, Typed, TypeOK
        <4> QED BY <3>1, <4>1, RowFrame
      <3>3. CASE p \in P
        <4>1. /\ status[p] = "processing"
              /\ status'[p] = IF delivered[p] > 0 THEN "completed" ELSE "pending"
              /\ charged'[p] = (charged[p] \/ delivered[p] > 0)
          BY <1>18, <3>3 DEF RecoverStale
        <4> QED BY <2>1, <3>1, <4>1 DEF RowSound
      <3> QED BY <3>2, <3>3
    <2> QED BY <2>1, <2>2 DEF Sound, WorkerSound
  <1>19. ASSUME NEW p \in Preorder, ClaimNotification(p) PROVE Sound'
    <2>1. \A q \in Preorder : RowKept(q)
      BY <1>19 DEF ClaimNotification, RowKept
    <2>2. worker'.pc = "send"
      BY <1>19 DEF ClaimNotification, Typed, TypeOK, WorkerState
    <2> QED BY <1>a, <2>1, <2>2, RowFrame DEF Sound, WorkerSound
  <1>20. CASE SendNotification \/ SendFails
    <2>0. PICK p \in Preorder : p = worker.id
      BY WorkerFacts
    <2>1. /\ p \in Preorder /\ status[p] \in {"completed", "cancelled"}
          /\ UNCHANGED <<terms, status, charged, refunded, delivered, events>>
      BY <1>20, <2>0, WorkerFacts DEF SendNotification, SendFails, Typed, RowsInUse
    <2>2. told' = told \/ told' = [told EXCEPT ![p] = @ \cup {status[p]}]
      BY <1>20, <2>0 DEF SendNotification, SendFails
    <2>3. \A q \in Preorder : q # p => RowKept(q)
      BY <2>1, <2>2 DEF RowKept, Typed, TypeOK
    <2>4. RowSound(p)'
      <3>1. RowSound(p) /\ (told'[p] = told[p] \/ told'[p] = told[p] \cup {status[p]})
        BY <1>a, <2>1, <2>2 DEF Typed, TypeOK
      <3>2. told[p] \in {{}, {status[p]}}
        BY <3>1 DEF RowSound
      <3>3. told'[p] \in {{}, {status[p]}}
        BY <3>1, <3>2
      <3> QED BY <2>1, <3>1, <3>3 DEF RowSound
    <2>5. worker'.pc \in {"mark", "idle"}
      BY <1>20, <2>0, GotoTyped DEF SendNotification, SendFails
    <2> QED BY <1>a, <2>3, <2>4, <2>5, RowFrame DEF Sound, WorkerSound
  <1>21. CASE MarkSent
    BY <1>21, <1>d, GotoTyped DEF MarkSent
  <1>22. CASE UNCHANGED vars
    BY <1>1, <1>22 DEF vars
  <1> QED
    BY <1>2, <1>3, <1>4, <1>5, <1>6, <1>7, <1>8, <1>9, <1>10, <1>11, <1>12, <1>13,
       <1>14, <1>15, <1>16, <1>17, <1>18, <1>19, <1>20, <1>21, <1>22,
       AdjustmentAssumption
    DEF Next, Customer, Shop, Worker, Buy

THEOREM RowsSound == Spec => [](Typed /\ Sound)
  <1>1. Init => Typed /\ Sound
    BY TypedInit, SoundInit
  <1>2. (Typed /\ Sound) /\ [Next]_vars => (Typed /\ Sound)'
    BY TypedNext, SoundNext
  <1> QED BY <1>1, <1>2, PTL DEF Spec

\* Repeated claims, recovery and cancellation never deliver, charge or refund
\* a preorder twice.
THEOREM PaidForOnceAlways == Spec => []PaidForOnce
  <1>1. Typed /\ Sound => PaidForOnce
    BY DEF Sound, RowSound, PaidForOnce
  <1> QED BY <1>1, RowsSound, PTL

\* A cancelled preorder was not delivered and got its money back, exactly when
\* it had been taken.
THEOREM CancelledIsRefundedAlways == Spec => []CancelledIsRefunded
  <1>1. Typed /\ Sound => CancelledIsRefunded
    <2> SUFFICES ASSUME Typed, Sound, NEW p \in Preorder, status[p] = "cancelled"
                 PROVE  /\ delivered[p] = 0
                        /\ refunded[p] <=> p \notin Legacy
                        /\ <<"preorder_refund", p>> \in events <=> refunded[p]
      BY DEF CancelledIsRefunded
    <2>1. RowSound(p) /\ delivered[p] \in Nat
      BY DEF Sound, Typed, TypeOK
    <2> QED BY <2>1 DEF RowSound
  <1> QED BY <1>1, RowsSound, PTL

\* A delivered row cannot be cancelled between the purchase and its completion.
THEOREM DeliveredIsClosedAlways == Spec => []DeliveredIsClosed
  <1>1. Typed /\ Sound => DeliveredIsClosed
    BY DEF Sound, RowSound, DeliveredIsClosed
  <1> QED BY <1>1, RowsSound, PTL

\* No customer is told both outcomes.
THEOREM OneVerdictAlways == Spec => []OneVerdict
  <1>1. Typed /\ Sound => OneVerdict
    BY DEF Sound, RowSound, OneVerdict
  <1> QED BY <1>1, RowsSound, PTL
-----------------------------------------------------------------------------
(***************************************************************************)
(* The wallet: unless a session wrote from an outdated balance, balance    *)
(* and ledger move together.                                               *)
(***************************************************************************)
THEOREM WalletFollowsLedgerAlways == Spec => []WalletFollowsLedger
  <1>1. Init => WalletFollowsLedger
    BY DEF Init, WalletFollowsLedger
  <1>2. ASSUME Typed, WalletFollowsLedger, [Next]_vars PROVE WalletFollowsLedger'
    <2> USE DEF wallet, book, goods, catalog
    <2>1. ASSUME UNCHANGED <<balance, posted, overtaken>> PROVE WalletFollowsLedger'
      BY <1>2, <2>1 DEF WalletFollowsLedger
    <2>2. ASSUME NEW u, NEW held \in Nat, NEW amount \in Int, NEW e,
                 ApplyWalletChange(u, held, amount, e)
          PROVE  WalletFollowsLedger'
      BY <1>2, <2>2 DEF ApplyWalletChange, WalletFollowsLedger, Typed, TypeOK
    <2>3. ASSUME NEW p \in Preorder, status[p] # "absent", NEW held \in Nat,
                 CancelAndRefund(p, held)
          PROVE  WalletFollowsLedger'
      <3>1. Total(p) \in Int
        BY <1>2, <2>3, RowFacts
      <3> QED BY <2>1, <2>2, <2>3, <3>1 DEF CancelAndRefund
    <2>4. ASSUME NEW c \in Chat, NEW p \in Preorder, CancelOwnPreorder(c, p)
          PROVE  WalletFollowsLedger'
      <3>1. session[c].balance \in Nat
        BY <1>2, <2>4 DEF CancelOwnPreorder, Typed, TypeOK, Session
      <3> QED BY <2>3, <2>4, <3>1 DEF CancelOwnPreorder
    <2>5. ASSUME NEW p \in Preorder, AdminCancelPreorder(p) PROVE WalletFollowsLedger'
      <3>1. status[p] # "absent" /\ balance[terms[p].user] \in Nat
        BY <1>2, <2>5, RowFacts DEF AdminCancelPreorder
      <3> QED BY <2>3, <2>5, <3>1 DEF AdminCancelPreorder
    <2>6. CASE CancelPreorder
      <3>1. /\ worker.id \in Preorder /\ status[worker.id] # "absent"
            /\ balance[terms[worker.id].user] \in Nat
        BY <1>2, <2>6, WorkerFacts, RowFacts DEF CancelPreorder
      <3> QED BY <2>1, <2>3, <2>6, <3>1 DEF CancelPreorder
    <2>7. ASSUME NEW c \in Chat, NEW p \in Preorder, NEW x \in Product,
                 NEW q \in Quantities, ConfirmPreorder(c, p, x, q)
          PROVE  WalletFollowsLedger'
      <3> DEFINE amount == -(price[x] * q)
      <3>1. session[c].balance \in Nat
        BY <1>2, <2>7 DEF ConfirmPreorder, Typed, TypeOK, Session
      <3>2. price[x] * q \in Nat
        BY <1>2, PriceAssumption, QuantityAssumption, ProductNat DEF Typed, TypeOK
      <3>3. amount \in Int
        BY <3>2
      <3>4. ApplyWalletChange(session[c].user, session[c].balance, amount,
                              <<"preorder_charge", p>>)
        BY <2>7 DEF ConfirmPreorder
      <3> HIDE DEF amount
      <3> QED BY <2>2, <3>1, <3>3, <3>4
    <2>8. ASSUME NEW d \in Deposit, NEW u \in User, NEW x \in Product,
                 NEW q \in Quantities, NEW unit \in Prices, PayPreorderByQr(d, u, x, q, unit)
          PROVE  WalletFollowsLedger'
      <3>1. unit * q \in Nat
        BY PriceAssumption, QuantityAssumption, ProductNat
      <3>2. \/ UNCHANGED <<balance, posted, overtaken>>
            \/ ApplyWalletChange(u, balance[u], unit * q, <<"deposit", d>>)
        BY <2>8 DEF PayPreorderByQr
      <3>3. balance[u] \in Nat
        BY <1>2 DEF Typed, TypeOK
      <3> QED BY <2>1, <2>2, <3>1, <3>2, <3>3
    <2>9. ASSUME NEW u \in User, NEW a \in Int, AdjustBalance(u, a) PROVE WalletFollowsLedger'
      BY <1>2, <2>9 DEF AdjustBalance, WalletFollowsLedger, Typed, TypeOK
    <2>10. ASSUME NEW local, NEW bought, Deliver(worker.id, local, bought)
           PROVE  WalletFollowsLedger'
      BY <1>2, <2>10 DEF Deliver, WalletFollowsLedger, Typed, TypeOK
    <2>11. ASSUME Buy PROVE WalletFollowsLedger'
      BY <2>1, <2>10, <2>11
         DEF Buy, BuyRefused, BuyFromStock, BuyOutOfStock, BuyFromSupplier
    <2>12. ASSUME CheckClaimed \/ CompletePreorder \/ SetPendingRetry \/ WorkerFails
                  \/ SendNotification \/ SendFails \/ MarkSent \/ UNCHANGED vars
           PROVE  WalletFollowsLedger'
      BY <2>1, <2>12 DEF CheckClaimed, CompletePreorder, SetPendingRetry, WorkerFails,
                         SendNotification, SendFails, MarkSent, vars
    <2>13. ASSUME NEW p, ClaimPreorder(p) \/ ClaimNotification(p) PROVE WalletFollowsLedger'
      BY <2>1, <2>13 DEF ClaimPreorder, ClaimNotification
    <2>14. ASSUME NEW P, NEW N, RecoverStale(P, N) PROVE WalletFollowsLedger'
      BY <2>1, <2>14 DEF RecoverStale
    <2>15. ASSUME NEW c, CloseSession(c) \/ \E u \in User : OpenSession(c, u)
           PROVE  WalletFollowsLedger'
      BY <2>1, <2>15 DEF OpenSession, CloseSession
    <2>16. ASSUME NEW x, NEW v, \/ ToggleBlock(x) \/ ChangePrice(x, v) \/ SetShelf(x, v)
                                \/ MoveStock(x, v) \/ SyncSupply(x, v)
           PROVE  WalletFollowsLedger'
      BY <2>1, <2>16 DEF ToggleBlock, ChangePrice, SetShelf, MoveStock, SyncSupply
    <2> QED
      BY <1>2, <2>4, <2>5, <2>6, <2>7, <2>8, <2>9, <2>11, <2>12, <2>13, <2>14, <2>15,
         <2>16, AdjustmentAssumption
      DEF Next, Customer, Shop, Worker
  <1> QED BY <1>1, <1>2, RowsTyped, PTL DEF Spec
-----------------------------------------------------------------------------
(***************************************************************************)
(* Queue order.  Ids are handed out in order, so nothing enters the queue  *)
(* before the row the worker claimed at its head.                          *)
(***************************************************************************)
Before(q, p) == q < p /\ terms[q].product = terms[p].product

InOrder ==
    /\ \A p, q \in Preorder : q < p /\ status[p] # "absent" => status[q] # "absent"
    /\ worker.pc \in {"claimed", "buy"} =>
         \A q \in Preorder : Before(q, worker.id) => ~Active(q)

LEMMA InOrderInit == Init => InOrder
  <1> SUFFICES ASSUME Init PROVE InOrder
    OBVIOUS
  <1>1. \A p \in Preorder : status[p] # "absent" <=> p \in Legacy
    BY DEF Init
  <1>2. \A p, q \in Preorder : q < p /\ p \in Legacy => q \in Legacy
    BY LegacyAssumption, PreorderAssumption
  <1>3. worker.pc = "idle"
    BY DEF Init
  <1> QED BY <1>1, <1>2, <1>3 DEF InOrder

\* What every step does to the queue: rows keep their terms, a closed row stays
\* closed, and a new row is behind all others.
QueueKept ==
    /\ \A p \in Preorder : status[p] # "absent" =>
         /\ terms'[p] = terms[p] /\ status'[p] # "absent"
         /\ ~Active(p) => ~Active(p)'
    /\ \A p \in Preorder : status[p] = "absent" /\ status'[p] # "absent" => NextId(p)

LEMMA QueueStep == Typed /\ Sound /\ [Next]_vars => QueueKept
  <1> SUFFICES ASSUME Typed, Sound, [Next]_vars PROVE QueueKept
    OBVIOUS
  <1> USE DEF wallet, book, goods, catalog
  <1>1. ASSUME UNCHANGED <<terms, status>> PROVE QueueKept
    BY <1>1 DEF QueueKept, Active
  <1>2. ASSUME NEW p \in Preorder, status[p] # "absent", NEW held, CancelAndRefund(p, held)
        PROVE  QueueKept
    BY <1>2 DEF CancelAndRefund, QueueKept, Active, ActiveStatus, Typed, TypeOK
  <1>3. ASSUME NEW p \in Preorder, NextId(p), NEW u, NEW x, NEW q, Insert(p, u, x, q)
        PROVE  QueueKept
    BY <1>3 DEF Insert, NextId, QueueKept, Active, ActiveStatus, Typed, TypeOK
  <1>4. ASSUME NEW c \in Chat, \/ CloseSession(c) \/ \E u \in User : OpenSession(c, u)
                               \/ \E p \in Preorder : CancelOwnPreorder(c, p)
                               \/ \E p \in Preorder, x \in Product, q \in Quantities :
                                    ConfirmPreorder(c, p, x, q)
        PROVE  QueueKept
    BY <1>1, <1>2, <1>3, <1>4
       DEF OpenSession, CloseSession, CancelOwnPreorder, ConfirmPreorder
  <1>5. ASSUME NEW d \in Deposit, NEW u \in User, NEW x \in Product, NEW q \in Quantities,
               NEW unit \in Prices, PayPreorderByQr(d, u, x, q, unit)
        PROVE  QueueKept
    BY <1>1, <1>3, <1>5 DEF PayPreorderByQr
  <1>6. CASE Shop
    BY <1>1, <1>2, <1>6
       DEF Shop, AdminCancelPreorder, AdjustBalance, ToggleBlock, ChangePrice, SetShelf,
           MoveStock, SyncSupply
  <1>7. ASSUME NEW p \in Preorder, ClaimPreorder(p) PROVE QueueKept
    BY <1>7 DEF ClaimPreorder, QueueKept, Active, ActiveStatus, Typed, TypeOK
  <1>8. CASE Buy
    BY <1>1, <1>8 DEF Buy, BuyRefused, BuyFromStock, BuyOutOfStock, BuyFromSupplier
  <1>9. CASE CompletePreorder
    <2> DEFINE p == worker.id
    <2>1. p \in Preorder /\ status[p] # "absent" /\ UNCHANGED terms
      BY <1>9, WorkerFacts DEF CompletePreorder
    <2>2. status' = status \/ status' = [status EXCEPT ![p] = "completed"]
      BY <1>9 DEF CompletePreorder
    <2> QED BY <2>1, <2>2 DEF QueueKept, Active, ActiveStatus, Typed, TypeOK
  <1>10. CASE CancelPreorder
    BY <1>1, <1>2, <1>10, WorkerFacts DEF CancelPreorder
  <1>11. CASE SetPendingRetry
    BY <1>11, WorkerFacts DEF SetPendingRetry, QueueKept, Active, ActiveStatus, Typed, TypeOK
  <1>12. ASSUME NEW P \in SUBSET Preorder, NEW N \in SUBSET Preorder, RecoverStale(P, N)
         PROVE  QueueKept
    BY <1>12 DEF RecoverStale, QueueKept, Active, ActiveStatus, Typed, TypeOK
  <1>13. ASSUME \/ CheckClaimed \/ WorkerFails \/ SendNotification \/ SendFails
                \/ MarkSent \/ \E p \in Preorder : ClaimNotification(p)
         PROVE  QueueKept
    BY <1>1, <1>13 DEF CheckClaimed, WorkerFails, SendNotification, SendFails, MarkSent,
                       ClaimNotification, vars
  <1>14. UNCHANGED vars => QueueKept
    BY <1>1 DEF vars
  <1> QED BY <1>4, <1>5, <1>6, <1>7, <1>8, <1>9, <1>10, <1>11, <1>12, <1>13, <1>14
          DEF Next, Customer, Worker

\* The worker keeps its row until it has bought, and takes a new one only from
\* the head of a queue.
LEMMA WorkerStep ==
    ASSUME Typed, [Next]_vars, worker'.pc \in {"claimed", "buy"}
    PROVE  \/ worker.pc \in {"claimed", "buy"} /\ worker'.id = worker.id
           \/ \E p \in Preorder : worker'.id = p /\ ClaimPreorder(p)
  <1> USE DEF wallet, book, goods, catalog
  <1>1. ASSUME Customer \/ Shop \/ UNCHANGED vars PROVE worker' = worker
    BY <1>1 DEF Customer, Shop, vars, OpenSession, CloseSession, CancelOwnPreorder,
         ConfirmPreorder, PayPreorderByQr, AdminCancelPreorder, AdjustBalance, ToggleBlock,
         ChangePrice, SetShelf, MoveStock, SyncSupply
  <1>2. ASSUME NEW p \in Preorder, ClaimPreorder(p) PROVE worker'.id = p
    BY <1>2 DEF ClaimPreorder
  <1>3. CASE CheckClaimed
    BY <1>3, GotoTyped, ConcludeTyped DEF CheckClaimed
  <1>4. CASE Buy
    BY <1>4, ConcludeTyped
       DEF Buy, BuyRefused, BuyFromStock, BuyOutOfStock, BuyFromSupplier
  <1>5. ASSUME NEW p \in Preorder, ClaimNotification(p) PROVE FALSE
    BY <1>5 DEF ClaimNotification, Typed, TypeOK, WorkerState
  <1>6. CASE \/ CompletePreorder \/ CancelPreorder \/ SetPendingRetry \/ WorkerFails
             \/ SendNotification \/ SendFails \/ MarkSent
    BY <1>6, GotoTyped DEF CompletePreorder, CancelPreorder, SetPendingRetry, WorkerFails,
                           SendNotification, SendFails, MarkSent
  <1>7. ASSUME NEW P, NEW N, RecoverStale(P, N) PROVE worker' = worker
    BY <1>7 DEF RecoverStale
  <1> QED BY <1>1, <1>2, <1>3, <1>4, <1>5, <1>6, <1>7 DEF Next, Worker

LEMMA InOrderNext == Typed /\ Sound /\ InOrder /\ [Next]_vars => InOrder'
  <1> SUFFICES ASSUME Typed, Sound, InOrder, [Next]_vars PROVE InOrder'
    OBVIOUS
  <1>1. QueueKept
    BY QueueStep
  <1>2. ASSUME NEW p \in Preorder, NEW q \in Preorder, q < p, status'[p] # "absent"
        PROVE  status'[q] # "absent"
    BY <1>1, <1>2 DEF InOrder, QueueKept, NextId
  <1>3. ASSUME worker'.pc \in {"claimed", "buy"}, NEW q \in Preorder,
               q < worker'.id, terms'[q].product = terms'[worker'.id].product
        PROVE  ~Active(q)'
    <2>1. CASE worker.pc \in {"claimed", "buy"} /\ worker'.id = worker.id
      <3>1. worker.id \in Preorder /\ status[worker.id] # "absent" /\ status[q] # "absent"
        BY <1>3, <2>1, WorkerFacts DEF InOrder
      <3>2. Before(q, worker.id)
        BY <1>1, <1>3, <2>1, <3>1 DEF QueueKept, Before
      <3> QED BY <1>1, <2>1, <3>1, <3>2 DEF InOrder, QueueKept
    <2>2. ASSUME NEW p \in Preorder, worker'.id = p, ClaimPreorder(p) PROVE ~Active(q)'
      <3>1. status[p] = "pending" /\ UNCHANGED terms /\ status' = [status EXCEPT ![p] = "processing"]
        BY <2>2 DEF ClaimPreorder
      <3>2. ~Active(q) /\ q # p
        BY <1>3, <2>2, <3>1, PreorderAssumption DEF ClaimPreorder
      <3> QED BY <3>1, <3>2 DEF Active, Typed, TypeOK
    <2> QED BY <1>3, <2>1, <2>2, WorkerStep
  <1> QED BY <1>2, <1>3 DEF InOrder, Before

\* Nobody is served before an earlier customer of the same product.
THEOREM FifoDeliveryAlways == Spec => FifoDelivery
  <1>1. Typed /\ Sound /\ InOrder /\ [Next]_vars =>
          [\A p \in Preorder : delivered'[p] # delivered[p] =>
             \A q \in Preorder : q < p /\ terms[q].product = terms[p].product => ~Active(q)]_vars
    <2> SUFFICES ASSUME Typed, InOrder, [Next]_vars, NEW p \in Preorder,
                        delivered'[p] # delivered[p], NEW q \in Preorder, Before(q, p)
                 PROVE  ~Active(q)
      BY DEF Before
    <2>1. worker.pc = "buy" /\ worker.id = p
      <3> USE DEF wallet, book, goods, catalog
      <3>1. CASE Buy
        <4>1. PICK n, m : delivered' = [delivered EXCEPT ![worker.id] = @ + n + m]
          BY <3>1 DEF Buy, BuyRefused, BuyFromStock, BuyOutOfStock, BuyFromSupplier, Deliver
        <4> QED BY <3>1, <4>1 DEF Buy, Typed, TypeOK
      <3>2. CASE Customer \/ Shop \/ UNCHANGED vars
        BY <3>2 DEF Customer, Shop, vars, OpenSession, CloseSession, CancelOwnPreorder,
             ConfirmPreorder, PayPreorderByQr, AdminCancelPreorder, AdjustBalance,
             ToggleBlock, ChangePrice, SetShelf, MoveStock, SyncSupply
      <3>3. CASE (Worker /\ ~Buy) \/ WorkerFails
        BY <3>3 DEF Worker, ClaimPreorder, ClaimNotification, CheckClaimed,
             CompletePreorder, CancelPreorder, SetPendingRetry, RecoverStale,
             SendNotification, SendFails, MarkSent, WorkerFails
      <3> QED BY <3>1, <3>2, <3>3 DEF Next
    <2> QED BY <2>1 DEF InOrder
  <1>2. Typed /\ Sound /\ InOrder /\ [Next]_vars => (Typed /\ Sound /\ InOrder)'
    BY TypedNext, SoundNext, InOrderNext
  <1>3. Init => Typed /\ Sound /\ InOrder
    BY TypedInit, SoundInit, InOrderInit
  <1> QED BY <1>1, <1>2, <1>3, PTL DEF Spec, FifoDelivery
-----------------------------------------------------------------------------
(***************************************************************************)
(* The books.  Summed over all preorders, one costs a user its amount while *)
(* it is held or delivered, and earns a referrer the commission once it is  *)
(* delivered; a step changes what one preorder counts for, and the ledger   *)
(* by the difference.                                                       *)
(***************************************************************************)
Cost(p, u) == IF p \in Spending(u) THEN Total(p) ELSE 0
Gain(p, u) == IF p \in Earning(u) THEN Commission(Total(p)) ELSE 0
Costs(u) == [p \in Preorder |-> Cost(p, u)]
Gains(u) == [p \in Preorder |-> Gain(p, u)]

Books ==
    \A u \in User :
      /\ IsFiniteSet(Pairs(Preorder, Costs(u))) /\ IsFiniteSet(Pairs(Preorder, Gains(u)))
      /\ posted[u] = inflow[u] - SumOver(Preorder, Costs(u)) + SumOver(Preorder, Gains(u))

LEMMA CostNat ==
    ASSUME Typed, Sound, NEW p \in Preorder, NEW u
    PROVE  Cost(p, u) \in Nat /\ Gain(p, u) \in Nat
  <1>1. CASE terms[p] # NoTerms
    <2>1. Total(p) \in Nat
      BY <1>1, TotalNat DEF Typed
    <2> QED BY <2>1, CommissionNat DEF Cost, Gain
  <1>2. CASE terms[p] = NoTerms
    <2>1. RowSound(p) /\ status[p] = "absent" /\ delivered[p] \in Nat
      BY <1>2 DEF Typed, Sound, RowsInUse, TypeOK
    <2>2. delivered[p] = 0
      BY <2>1 DEF RowSound
    <2> QED BY <1>2, <2>2 DEF Cost, Gain, Spending, Earning
  <1> QED BY <1>1, <1>2

LEMMA BooksAreSums ==
    ASSUME Typed, Sound, NEW u
    PROVE  Spent(u) = SumOver(Preorder, Costs(u)) /\ Earned(u) = SumOver(Preorder, Gains(u))
  <1>1. \A p \in Preorder : Cost(p, u) \in Nat /\ Gain(p, u) \in Nat
    BY CostNat
  <1>2. Spending(u) \subseteq Preorder /\ Earning(u) \subseteq Preorder
    BY DEF Spending, Earning
  <1>3. ASSUME NEW D, D \subseteq Preorder, NEW f, NEW g,
               \A p \in Preorder : g[p] \in Nat /\ (p \notin D => g[p] = 0),
               \A p \in D : f[p] = g[p]
        PROVE  SumOver(D, f) = SumOver(Preorder, g)
    <2>1. Pairs(D, f) = Pairs(Preorder, g)
      BY <1>3, PairsEqual
    <2> QED BY <2>1 DEF SumOver
  <1>4. Spent(u) = SumOver(Preorder, Costs(u))
    <2> DEFINE f == [p \in Spending(u) |-> Total(p)]
    <2>1. /\ \A p \in Preorder : Costs(u)[p] \in Nat /\ (p \notin Spending(u) => Costs(u)[p] = 0)
          /\ \A p \in Spending(u) : f[p] = Costs(u)[p]
      BY <1>1, <1>2 DEF Costs, Cost
    <2> HIDE DEF f
    <2>2. SumOver(Spending(u), f) = SumOver(Preorder, Costs(u))
      BY <1>2, <1>3, <2>1
    <2> QED BY <2>2 DEF Spent, f
  <1>5. Earned(u) = SumOver(Preorder, Gains(u))
    <2> DEFINE f == [p \in Earning(u) |-> Commission(Total(p))]
    <2>1. /\ \A p \in Preorder : Gains(u)[p] \in Nat /\ (p \notin Earning(u) => Gains(u)[p] = 0)
          /\ \A p \in Earning(u) : f[p] = Gains(u)[p]
      BY <1>1, <1>2 DEF Gains, Gain
    <2> HIDE DEF f
    <2>2. SumOver(Earning(u), f) = SumOver(Preorder, Gains(u))
      BY <1>2, <1>3, <2>1
    <2> QED BY <2>2 DEF Earned, f
  <1> QED BY <1>4, <1>5

LEMMA BooksInit == Init => Books
  <1> SUFFICES ASSUME Init, NEW u \in User
               PROVE  /\ IsFiniteSet(Pairs(Preorder, Costs(u)))
                      /\ IsFiniteSet(Pairs(Preorder, Gains(u)))
                      /\ posted[u] = inflow[u] - SumOver(Preorder, Costs(u))
                                     + SumOver(Preorder, Gains(u))
    BY DEF Books
  <1>1. \A p \in Preorder : Costs(u)[p] = 0 /\ Gains(u)[p] = 0
    BY DEF Init, Costs, Gains, Cost, Gain, Spending, Earning
  <1>2. ASSUME NEW f, \A p \in Preorder : f[p] = 0
        PROVE  IsFiniteSet(Pairs(Preorder, f)) /\ SumOver(Preorder, f) = 0
    <2>1. Pairs(Preorder, f) = {}
      BY <1>2 DEF Pairs
    <2> QED BY <2>1, FS_EmptySet DEF SumOver
  <1>3. posted[u] = 0 /\ inflow[u] = 0
    BY DEF Init
  <1> QED BY <1>1, <1>2, <1>3

\* One preorder counts for something else, and the ledgers follow.
Settles(p) ==
    \A u \in User : posted'[u] = posted[u] + (inflow'[u] - inflow[u])
                                 - (Cost(p, u)' - Cost(p, u)) + (Gain(p, u)' - Gain(p, u))

\* What a preorder counts for depends on.
Alike(q) ==
    /\ terms'[q] = terms[q] /\ refunded'[q] = refunded[q]
    /\ delivered'[q] = delivered[q]
    /\ (charged[q] \/ delivered[q] > 0) <=> (charged'[q] \/ delivered'[q] > 0)

LEMMA AlikeCounts ==
    ASSUME NEW q \in Preorder, Alike(q), NEW u
    PROVE  Cost(q, u)' = Cost(q, u) /\ Gain(q, u)' = Gain(q, u)
  <1>1. Total(q)' = Total(q)
    BY DEF Total, Alike
  <1>2. (q \in Spending(u))' <=> q \in Spending(u)
    BY DEF Spending, Alike
  <1>3. (q \in Earning(u))' <=> q \in Earning(u)
    BY DEF Earning, Alike
  <1> QED BY <1>1, <1>2, <1>3 DEF Cost, Gain, Commission

LEMMA BooksKept ==
    ASSUME Typed, Sound, Typed', Sound', Books, NEW p \in Preorder, Settles(p),
           \A q \in Preorder : q # p => Alike(q)
    PROVE  Books'
  <1> SUFFICES ASSUME NEW u \in User
               PROVE  /\ IsFiniteSet(Pairs(Preorder, Costs(u)))'
                      /\ IsFiniteSet(Pairs(Preorder, Gains(u)))'
                      /\ posted'[u] = inflow'[u] - SumOver(Preorder, Costs(u))'
                                      + SumOver(Preorder, Gains(u))'
    BY DEF Books
  <1> DEFINE f == Costs(u)  g == Gains(u)  ff == Costs(u)'  gg == Gains(u)'
  <1>1. /\ \A q \in Preorder : f[q] = Cost(q, u) /\ g[q] = Gain(q, u)
        /\ \A q \in Preorder : ff[q] = Cost(q, u)' /\ gg[q] = Gain(q, u)'
    BY DEF Costs, Gains
  <1>2. \A q \in Preorder : f[q] \in Nat /\ g[q] \in Nat
    BY <1>1, CostNat
  <1>3. \A q \in Preorder : Cost(q, u)' \in Nat /\ Gain(q, u)' \in Nat
    <2> SUFFICES ASSUME NEW q \in Preorder PROVE Cost(q, u)' \in Nat /\ Gain(q, u)' \in Nat
      OBVIOUS
    <2>1. CASE q = p
      <3>1. terms'[p] # NoTerms => Total(p)' \in Nat
        <4>1. ASSUME TypeOK', terms'[p] # NoTerms PROVE Total(p)' \in Nat
          <5>1. terms'[p] \in Terms
            BY <4>1 DEF TypeOK
          <5>2. terms'[p].base \in Nat /\ terms'[p].quantity \in Nat
            BY <5>1, PriceAssumption, QuantityAssumption DEF Terms
          <5> QED BY <5>2, ProductNat DEF Total
        <4> QED BY <4>1 DEF Typed
      <3>2. terms'[p] = NoTerms => Cost(p, u)' = 0 /\ Gain(p, u)' = 0
        <4> SUFFICES ASSUME terms'[p] = NoTerms PROVE Cost(p, u)' = 0 /\ Gain(p, u)' = 0
          OBVIOUS
        <4>1. RowSound(p)' /\ status'[p] = "absent" /\ delivered'[p] \in Nat
          BY DEF Typed, Sound, RowsInUse, TypeOK
        <4>2. delivered'[p] = 0
          BY <4>1 DEF RowSound
        <4> QED BY <4>2 DEF Cost, Gain, Spending, Earning
      <3>3. Total(p)' \in Nat => Commission(Total(p))' \in Nat
        BY CommissionNat DEF Commission
      <3> QED BY <2>1, <3>1, <3>2, <3>3 DEF Cost, Gain
    <2>2. CASE q # p
      BY <1>1, <1>2, <2>2, AlikeCounts
    <2> QED BY <2>1, <2>2
  <1>4. \A q \in Preorder : q # p => ff[q] = f[q] /\ gg[q] = g[q]
    BY <1>1, AlikeCounts
  <1>5. /\ posted'[u] = posted[u] + (inflow'[u] - inflow[u]) - (ff[p] - f[p]) + (gg[p] - g[p])
    BY <1>1 DEF Settles
  <1>6. /\ IsFiniteSet(Pairs(Preorder, f)) /\ IsFiniteSet(Pairs(Preorder, g))
        /\ posted[u] = inflow[u] - SumOver(Preorder, f) + SumOver(Preorder, g)
    BY DEF Books
  <1>7. inflow[u] \in Int /\ inflow'[u] \in Int
    BY DEF Typed, TypeOK
  <1>8. \A q \in Preorder : ff[q] \in Nat /\ gg[q] \in Nat
    BY <1>1, <1>3
  <1>9. /\ SumOver(Preorder, Costs(u))' = SumOver(Preorder, ff)
        /\ SumOver(Preorder, Gains(u))' = SumOver(Preorder, gg)
        /\ Pairs(Preorder, Costs(u))' = Pairs(Preorder, ff)
        /\ Pairs(Preorder, Gains(u))' = Pairs(Preorder, gg)
    BY DEF SumOver, Pairs
  <1> HIDE DEF f, g, ff, gg
  <1>10. /\ IsFiniteSet(Pairs(Preorder, ff)) /\ SumOver(Preorder, f) \in Nat
         /\ SumOver(Preorder, ff) = SumOver(Preorder, f) - f[p] + ff[p]
    BY <1>2, <1>4, <1>6, <1>8, PairsChange
  <1>11. /\ IsFiniteSet(Pairs(Preorder, gg)) /\ SumOver(Preorder, g) \in Nat
         /\ SumOver(Preorder, gg) = SumOver(Preorder, g) - g[p] + gg[p]
    <2>1. /\ \A q \in Preorder : g[q] \in Nat /\ gg[q] \in Nat
          /\ \A q \in Preorder : q # p => gg[q] = g[q]
          /\ IsFiniteSet(Pairs(Preorder, g))
      BY <1>2, <1>4, <1>6, <1>8
    <2> QED BY <2>1, PairsChange
  <1>12. f[p] \in Nat /\ g[p] \in Nat /\ ff[p] \in Nat /\ gg[p] \in Nat
    BY <1>2, <1>8
  <1>13. posted'[u] = inflow'[u] - SumOver(Preorder, ff) + SumOver(Preorder, gg)
    BY ONLY <1>5, <1>6, <1>7, <1>10, <1>11, <1>12
  <1> QED BY <1>9, <1>10, <1>11, <1>13

LEMMA CancelBooks ==
    ASSUME Typed, Sound, Typed', Sound', Books, NEW p \in Preorder, Active(p),
           delivered[p] = 0, NEW held, CancelAndRefund(p, held), UNCHANGED delivered
    PROVE  Books'
  <1>1. \A q \in Preorder : q # p => Alike(q)
    BY DEF CancelAndRefund, Alike, Typed, TypeOK
  <1>2. RowSound(p) /\ status[p] # "absent"
    BY DEF Sound, Active, ActiveStatus
  <1>3. /\ terms[p] # NoTerms /\ terms[p].user \in User /\ Total(p) \in Nat
    BY <1>2, RowFacts
  <1>4. ~refunded[p] /\ <<"preorder_refund", p>> \notin events
    BY <1>2 DEF RowSound, Active, ActiveStatus
  <1>5. /\ terms' = terms /\ charged' = charged /\ inflow' = inflow /\ delivered'[p] = 0
        /\ refunded'[p] = charged[p]
    BY <1>4 DEF CancelAndRefund, Typed, TypeOK
  <1>6. ASSUME NEW u \in User
        PROVE  posted'[u] = IF charged[p] /\ u = terms[p].user THEN posted[u] + Total(p)
                            ELSE posted[u]
    BY <1>4, <1>6 DEF CancelAndRefund, ApplyWalletChange, Typed, TypeOK
  <1>7. ASSUME NEW u \in User
        PROVE  /\ Gain(p, u) = 0 /\ Gain(p, u)' = 0 /\ Cost(p, u)' = 0
               /\ Cost(p, u) = IF charged[p] /\ u = terms[p].user THEN Total(p) ELSE 0
    <2>1. p \notin Earning(u) /\ p \notin Earning(u)' /\ p \notin Spending(u)'
      BY <1>5 DEF Earning, Spending
    <2>2. p \in Spending(u) <=> charged[p] /\ u = terms[p].user
      BY <1>3, <1>4 DEF Spending
    <2> QED BY <2>1, <2>2 DEF Cost, Gain
  <1>8. \A u \in User : posted[u] \in Int /\ inflow[u] \in Int
    BY DEF Typed, TypeOK
  <1>9. Settles(p)
    <2> SUFFICES ASSUME NEW u \in User
                 PROVE  posted'[u] = posted[u] + (inflow'[u] - inflow[u])
                          - (Cost(p, u)' - Cost(p, u)) + (Gain(p, u)' - Gain(p, u))
      BY DEF Settles
    <2>1. inflow'[u] = inflow[u] /\ posted[u] \in Int /\ inflow[u] \in Int
      BY <1>5, <1>8
    <2> QED BY <1>3, <1>6, <1>7, <2>1
  <1> QED BY <1>1, <1>9, BooksKept

\* A new row costs its customer what it is charged, from the wallet or beside it.
LEMMA InsertBooks ==
    ASSUME Typed, Sound, Typed', Sound', Books, NEW p \in Preorder, NextId(p), NEW u \in User,
           NEW x \in Product, NEW n \in Quantities, Insert(p, u, x, n), UNCHANGED delivered,
           \A v \in User : posted'[v] - inflow'[v] =
              posted[v] - inflow[v] - (IF v = u THEN price[x] * n ELSE 0)
    PROVE  Books'
  <1>1. \A q \in Preorder : q # p => Alike(q)
    BY DEF Insert, Alike, Typed, TypeOK
  <1>2. RowSound(p) /\ status[p] = "absent" /\ terms[p] = NoTerms /\ delivered[p] \in Nat
    BY DEF Sound, NextId, Typed, TypeOK, RowsInUse
  <1>3. delivered[p] = 0 /\ ~refunded[p]
    BY <1>2 DEF RowSound
  <1>4. /\ terms'[p] = [user |-> u, product |-> x, quantity |-> n, base |-> price[x]]
        /\ charged'[p] /\ ~refunded'[p] /\ delivered'[p] = 0
    BY <1>3 DEF Insert, Typed, TypeOK
  <1>5. terms'[p] # NoTerms
    <2>1. terms'[p] \in Terms
      BY <1>4 DEF Terms, Typed, TypeOK
    <2> QED BY <2>1, TermsAssumption DEF Terms
  <1>6. Total(p)' = price[x] * n
    BY <1>4 DEF Total
  <1>7. price[x] * n \in Nat
    BY PriceAssumption, QuantityAssumption, ProductNat DEF Typed, TypeOK
  <1>8. ASSUME NEW v \in User
        PROVE  /\ Gain(p, v) = 0 /\ Gain(p, v)' = 0 /\ Cost(p, v) = 0
               /\ Cost(p, v)' = IF v = u THEN price[x] * n ELSE 0
    <2>1. p \notin Earning(v) /\ p \notin Earning(v)' /\ p \notin Spending(v)
      BY <1>2, <1>3, <1>4 DEF Earning, Spending
    <2>2. (p \in Spending(v))' <=> v = u
      BY <1>4, <1>5 DEF Spending
    <2> QED BY <1>6, <2>1, <2>2 DEF Cost, Gain
  <1>9. Settles(p)
    <2> SUFFICES ASSUME NEW v \in User
                 PROVE  posted'[v] = posted[v] + (inflow'[v] - inflow[v])
                          - (Cost(p, v)' - Cost(p, v)) + (Gain(p, v)' - Gain(p, v))
      BY DEF Settles
    <2>1. posted[v] \in Int /\ inflow[v] \in Int /\ posted'[v] \in Int /\ inflow'[v] \in Int
      BY DEF Typed, TypeOK
    <2>2. posted'[v] - inflow'[v] = posted[v] - inflow[v] - Cost(p, v)'
      BY <1>8
    <2>3. Cost(p, v)' \in Nat
      BY <1>7, <1>8
    <2> QED BY <1>8, <2>1, <2>2, <2>3
  <1> QED BY <1>1, <1>9, BooksKept

\* Nothing that counts changes; an adjustment is money from outside.
LEMMA QuietBooks ==
    ASSUME Typed, Sound, Typed', Sound', Books, \A q \in Preorder : Alike(q),
           \A u \in User : posted'[u] - inflow'[u] = posted[u] - inflow[u]
    PROVE  Books'
  <1>1. PICK p \in Preorder : p = worker.id
    BY WorkerFacts
  <1>2. Settles(p)
    <2> SUFFICES ASSUME NEW u \in User
                 PROVE  posted'[u] = posted[u] + (inflow'[u] - inflow[u])
                          - (Cost(p, u)' - Cost(p, u)) + (Gain(p, u)' - Gain(p, u))
      BY DEF Settles
    <2>1. posted[u] \in Int /\ inflow[u] \in Int /\ posted'[u] \in Int /\ inflow'[u] \in Int
      BY DEF Typed, TypeOK
    <2>2. Cost(p, u)' = Cost(p, u) /\ Gain(p, u)' = Gain(p, u)
      BY AlikeCounts
    <2>3. Cost(p, u) \in Nat /\ Gain(p, u) \in Nat
      BY CostNat
    <2> QED BY <2>1, <2>2, <2>3
  <1> QED BY <1>2, BooksKept

\* The delivery: a preorder paid at booking goes on counting, another begins to; the
\* referrer is paid.
LEMMA DeliverBooks ==
    ASSUME Typed, Sound, Typed', Sound', Books, NEW p \in Preorder, p = worker.id,
           worker.pc = "buy", NEW local \in Nat, NEW bought \in Nat,
           Deliver(p, local, bought), local + bought = terms[p].quantity, UNCHANGED book
    PROVE  Books'
  <1> DEFINE buyer == terms[p].user
             amount == Total(p)
             reward == Commission(amount)
             debit == IF worker.charged THEN 0 ELSE amount
             rewarded == Referrer[buyer] # NoUser /\ Referrer[buyer] # buyer /\ reward > 0
  <1>1. /\ status[p] = "processing" /\ delivered[p] = 0 /\ ~refunded[p]
        /\ worker.charged <=> charged[p]
    <2>1. status[p] = "processing" /\ delivered[p] = 0 /\ (worker.charged <=> p \notin Legacy)
      BY DEF Sound, WorkerSound
    <2>2. RowSound(p) /\ charged[p] \in BOOLEAN /\ refunded[p] \in BOOLEAN /\ worker.charged \in BOOLEAN
      BY WorkerFacts DEF Sound, Typed, TypeOK
    <2> QED BY <2>1, <2>2 DEF RowSound
  <1>2. /\ terms[p] # NoTerms /\ buyer \in User /\ amount \in Nat /\ reward \in Nat
        /\ terms[p].quantity \in Nat \ {0} /\ debit \in Nat
    BY <1>1, RowFacts, CommissionNat
  <1>3. delivered'[p] > 0 /\ \A q \in Preorder : q # p => delivered'[q] = delivered[q]
    BY <1>1, <1>2 DEF Deliver, Typed, TypeOK
  <1>4. /\ terms' = terms /\ charged' = charged /\ refunded' = refunded /\ inflow' = inflow
    BY DEF Deliver, book
  <1>5. \A q \in Preorder : q # p => Alike(q)
    BY <1>3, <1>4 DEF Alike
  <1>6. ASSUME NEW v \in User
        PROVE  posted'[v] = posted[v] + ((IF v = buyer THEN -debit ELSE 0)
                                         + (IF rewarded /\ v = Referrer[buyer] THEN reward ELSE 0))
    BY DEF Deliver
  <1>7. ASSUME NEW v \in User
        PROVE  /\ Cost(p, v) = IF v = buyer /\ worker.charged THEN amount ELSE 0
               /\ Cost(p, v)' = IF v = buyer THEN amount ELSE 0
               /\ Gain(p, v) = 0
               /\ Gain(p, v)' = IF v # buyer /\ Referrer[buyer] = v THEN reward ELSE 0
    <2>1. amount' = amount /\ reward' = reward
      BY <1>4 DEF Total, Commission
    <2>2. p \in Spending(v) <=> v = buyer /\ worker.charged
      BY <1>1, <1>2 DEF Spending
    <2>3. (p \in Spending(v))' <=> v = buyer
      BY <1>1, <1>2, <1>3, <1>4 DEF Spending
    <2>4. ~(p \in Earning(v)) /\ ((p \in Earning(v))' <=> v # buyer /\ Referrer[buyer] = v)
      BY <1>1, <1>3, <1>4 DEF Earning
    <2> QED BY <2>1, <2>2, <2>3, <2>4 DEF Cost, Gain
  <1>8. Settles(p)
    <2> SUFFICES ASSUME NEW v \in User
                 PROVE  posted'[v] = posted[v] + (inflow'[v] - inflow[v])
                          - (Cost(p, v)' - Cost(p, v)) + (Gain(p, v)' - Gain(p, v))
      BY DEF Settles
    <2>1. posted[v] \in Int /\ inflow[v] \in Int /\ inflow'[v] = inflow[v]
      BY <1>4 DEF Typed, TypeOK
    <2>2. v # NoUser
      BY ReferrerAssumption
    <2>3. Gain(p, v)' = (IF rewarded /\ v = Referrer[buyer] THEN reward ELSE 0)
      BY <1>2, <1>7, <2>2
    <2>4. Cost(p, v)' - Cost(p, v) = (IF v = buyer THEN debit ELSE 0)
      BY <1>2, <1>7
    <2>5. Gain(p, v) = 0 /\ Gain(p, v)' \in Nat /\ Cost(p, v) \in Nat /\ Cost(p, v)' \in Nat
      BY <1>2, <1>7
    <2> DEFINE gain == IF rewarded /\ v = Referrer[buyer] THEN reward ELSE 0
               loss == IF v = buyer THEN debit ELSE 0
    <2>6. posted'[v] = posted[v] + (-loss + gain) /\ loss \in Nat /\ gain \in Nat
      BY <1>2, <1>6
    <2> PICK b : b = posted[v]
      OBVIOUS
    <2> PICK i : i = inflow[v]
      OBVIOUS
    <2> PICK c : c = Cost(p, v)
      OBVIOUS
    <2> PICK c2 : c2 = Cost(p, v)'
      OBVIOUS
    <2> PICK g2 : g2 = Gain(p, v)'
      OBVIOUS
    <2>7. b \in Int /\ i \in Int /\ c \in Nat /\ c2 \in Nat /\ g2 \in Nat
      BY ONLY <2>1, <2>5, b = posted[v], i = inflow[v], c = Cost(p, v), c2 = Cost(p, v)',
              g2 = Gain(p, v)'
    <2>8. posted'[v] = b + (-loss + g2) /\ c2 - c = loss
      BY ONLY <2>3, <2>4, <2>6, b = posted[v], c = Cost(p, v), c2 = Cost(p, v)',
              g2 = Gain(p, v)' DEF gain, loss
    <2> HIDE DEF gain, loss
    <2>9. posted'[v] = b + (i - i) - (c2 - c) + (g2 - 0)
      BY ONLY <2>6, <2>7, <2>8
    <2> QED BY ONLY <2>1, <2>5, <2>9, b = posted[v], i = inflow[v], c = Cost(p, v),
                    c2 = Cost(p, v)', g2 = Gain(p, v)'
  <1> QED BY <1>5, <1>8, BooksKept

LEMMA BooksNext == Typed /\ Sound /\ Books /\ [Next]_vars => Books'
  <1> SUFFICES ASSUME Typed, Sound, Books, [Next]_vars PROVE Books'
    OBVIOUS
  <1>a. Typed' /\ Sound'
    BY TypedNext, SoundNext
  <1> USE DEF wallet, book, goods, catalog
  <1>b. ASSUME UNCHANGED <<posted, inflow, terms, charged, refunded, delivered>> PROVE Books'
    <2>1. \A q \in Preorder : Alike(q)
      BY <1>b DEF Alike
    <2>2. \A u \in User : posted'[u] - inflow'[u] = posted[u] - inflow[u]
      BY <1>b
    <2> QED BY <1>a, <2>1, <2>2, QuietBooks
  <1>1. ASSUME NEW c \in Chat, CloseSession(c) \/ \E u \in User : OpenSession(c, u) PROVE Books'
    BY <1>1, <1>b DEF OpenSession, CloseSession
  <1>2. ASSUME NEW x, NEW v, \/ ToggleBlock(x) \/ ChangePrice(x, v) \/ SetShelf(x, v)
                             \/ MoveStock(x, v) \/ SyncSupply(x, v)
        PROVE  Books'
    BY <1>2, <1>b DEF ToggleBlock, ChangePrice, SetShelf, MoveStock, SyncSupply
  <1>3. ASSUME NEW u \in User, NEW a \in Int, AdjustBalance(u, a) PROVE Books'
    <2>1. \A q \in Preorder : Alike(q)
      BY <1>3 DEF AdjustBalance, Alike
    <2>2. \A v \in User : posted'[v] - inflow'[v] = posted[v] - inflow[v]
      BY <1>3 DEF AdjustBalance, Typed, TypeOK
    <2> QED BY <1>a, <2>1, <2>2, QuietBooks
  <1>c. ASSUME NEW p \in Preorder, status[p] = "pending", NEW held, CancelAndRefund(p, held),
               UNCHANGED delivered
        PROVE  Books'
    <2>1. RowSound(p) /\ delivered[p] \in Nat
      BY DEF Sound, Typed, TypeOK
    <2>2. Active(p) /\ delivered[p] = 0
      BY <1>c, <2>1 DEF RowSound, Active, ActiveStatus
    <2> QED BY <1>a, <1>c, <2>2, CancelBooks
  <1>4. ASSUME NEW c \in Chat, NEW p \in Preorder, CancelOwnPreorder(c, p) PROVE Books'
    BY <1>4, <1>c DEF CancelOwnPreorder
  <1>5. ASSUME NEW p \in Preorder, AdminCancelPreorder(p) PROVE Books'
    BY <1>5, <1>c DEF AdminCancelPreorder
  <1>6. CASE CancelPreorder
    <2>1. CASE Active(worker.id)
      <3>1. worker.id \in Preorder /\ delivered[worker.id] = 0
        BY <1>6, <2>1, WorkerFacts DEF CancelPreorder, Sound, WorkerSound
      <3> QED BY <1>6, <1>a, <2>1, <3>1, CancelBooks DEF CancelPreorder
    <2>2. CASE ~Active(worker.id)
      BY <1>6, <1>b, <2>2 DEF CancelPreorder
    <2> QED BY <2>1, <2>2
  <1>7. ASSUME NEW c \in Chat, NEW p \in Preorder, NEW x \in Product, NEW n \in Quantities,
               ConfirmPreorder(c, p, x, n)
        PROVE  Books'
    <2> DEFINE u == session[c].user
               cost == price[x] * n
    <2>1. u \in User
      BY <1>7 DEF ConfirmPreorder, Typed, TypeOK, Session
    <2>2. cost \in Nat
      BY PriceAssumption, QuantityAssumption, ProductNat DEF Typed, TypeOK
    <2>3. /\ posted' = [posted EXCEPT ![u] = @ + (-cost)] /\ UNCHANGED <<inflow, delivered>>
          /\ NextId(p) /\ Insert(p, u, x, n)
      BY <1>7 DEF ConfirmPreorder, ApplyWalletChange
    <2>4. \A v \in User : posted'[v] - inflow'[v] =
             posted[v] - inflow[v] - (IF v = u THEN cost ELSE 0)
      <3> HIDE DEF u, cost
      <3> QED BY <2>1, <2>2, <2>3 DEF Typed, TypeOK
    <2> QED BY <1>a, <2>1, <2>3, <2>4, InsertBooks
  <1>8. ASSUME NEW d \in Deposit, NEW u \in User, NEW x \in Product, NEW n \in Quantities,
               NEW unit \in Prices, PayPreorderByQr(d, u, x, n, unit)
        PROVE  Books'
    <2> DEFINE paid == unit * n
    <2>1. paid \in Nat
      BY PriceAssumption, QuantityAssumption, ProductNat
    <2>2. inflow' = [inflow EXCEPT ![u] = @ + paid] /\ UNCHANGED delivered
      BY <1>8 DEF PayPreorderByQr
    <2>3. ASSUME unit = price[x], NEW p \in Preorder, NextId(p), Insert(p, u, x, n),
                 UNCHANGED posted
          PROVE  Books'
      <3>1. \A v \in User : posted'[v] - inflow'[v] =
               posted[v] - inflow[v] - (IF v = u THEN price[x] * n ELSE 0)
        <4>1. paid = price[x] * n
          BY <2>3
        <4> HIDE DEF paid
        <4>2. \A v \in User : posted'[v] - inflow'[v] =
                 posted[v] - inflow[v] - (IF v = u THEN paid ELSE 0)
          BY <2>1, <2>2, <2>3 DEF Typed, TypeOK
        <4> QED BY <4>1, <4>2
      <3> QED BY <1>a, <2>2, <2>3, <3>1, InsertBooks
    <2>4. ASSUME posted' = [posted EXCEPT ![u] = @ + paid], UNCHANGED book PROVE Books'
      <3>1. \A q \in Preorder : Alike(q)
        BY <2>2, <2>4 DEF Alike
      <3>2. \A v \in User : posted'[v] - inflow'[v] = posted[v] - inflow[v]
        <4> HIDE DEF paid
        <4> QED BY <2>1, <2>2, <2>4 DEF Typed, TypeOK
      <3> QED BY <1>a, <3>1, <3>2, QuietBooks
    <2> QED BY <1>8, <2>3, <2>4 DEF PayPreorderByQr, ApplyWalletChange
  <1>9. CASE CompletePreorder
    <2>1. delivered[worker.id] > 0 /\ worker.id \in Preorder /\ delivered[worker.id] \in Nat
      BY <1>9, WorkerFacts DEF CompletePreorder, Sound, WorkerSound, Typed, TypeOK
    <2>2. UNCHANGED <<posted, inflow, terms, refunded, delivered>>
      BY <1>9 DEF CompletePreorder
    <2>3. charged' = charged \/ charged' = [charged EXCEPT ![worker.id] = TRUE]
      BY <1>9 DEF CompletePreorder
    <2>4. \A q \in Preorder : Alike(q)
      BY <2>1, <2>2, <2>3 DEF Alike, Typed, TypeOK
    <2> QED BY <1>a, <2>2, <2>4, QuietBooks
  <1>10. ASSUME NEW P, NEW N, RecoverStale(P, N) PROVE Books'
    <2>1. UNCHANGED <<posted, inflow, terms, refunded, delivered>>
      BY <1>10 DEF RecoverStale
    <2>2. \A q \in Preorder : charged'[q] = (charged[q] \/ (q \in P /\ delivered[q] > 0))
      BY <1>10 DEF RecoverStale
    <2>3. \A q \in Preorder : Alike(q)
      BY <2>1, <2>2 DEF Alike
    <2> QED BY <1>a, <2>1, <2>3, QuietBooks
  <1>11. ASSUME worker.pc = "buy", BuyRefused \/ BuyOutOfStock PROVE Books'
    BY <1>b, <1>11 DEF BuyRefused, BuyOutOfStock
  <1>d. ASSUME worker.pc = "buy"
        PROVE  worker.id \in Preorder /\ status[worker.id] # "absent"
    BY <1>d, WorkerFacts
  <1>12. ASSUME worker.pc = "buy", BuyFromStock PROVE Books'
    <2>1. CASE UNCHANGED <<wallet, goods>>
      BY <1>12, <1>b, <2>1 DEF BuyFromStock
    <2>2. CASE Deliver(worker.id, terms[worker.id].quantity, 0)
      <3>1. terms[worker.id].quantity \in Nat /\ terms[worker.id].quantity + 0 = terms[worker.id].quantity
        BY <1>12, <1>d, RowFacts
      <3> QED BY <1>a, <1>12, <1>d, <2>2, <3>1, DeliverBooks DEF BuyFromStock
    <2> QED BY <1>12, <2>1, <2>2 DEF BuyFromStock
  <1>13. ASSUME worker.pc = "buy", BuyFromSupplier PROVE Books'
    <2> DEFINE x == terms[worker.id].product
               missing == terms[worker.id].quantity - stock[x]
    <2>1. CASE UNCHANGED <<wallet, delivered>>
      BY <1>13, <1>b, <2>1 DEF BuyFromSupplier
    <2>2. CASE Deliver(worker.id, stock[x], missing)
      <3>1. stock[x] \in Nat /\ missing \in Nat /\ stock[x] + missing = terms[worker.id].quantity
        BY <1>13, <1>d, RowFacts DEF BuyFromSupplier
      <3>2. UNCHANGED book
        BY <1>13 DEF BuyFromSupplier
      <3> HIDE DEF missing
      <3> QED BY <1>a, <1>13, <1>d, <2>2, <3>1, <3>2, DeliverBooks
    <2> QED BY <1>13, <2>1, <2>2 DEF BuyFromSupplier
  <1>14. ASSUME CheckClaimed \/ SetPendingRetry \/ WorkerFails
                \/ SendNotification \/ SendFails \/ MarkSent \/ UNCHANGED vars
         PROVE  Books'
    BY <1>b, <1>14 DEF CheckClaimed, SetPendingRetry, WorkerFails,
                       SendNotification, SendFails, MarkSent, vars
  <1>15. ASSUME NEW p, ClaimPreorder(p) \/ ClaimNotification(p) PROVE Books'
    BY <1>b, <1>15 DEF ClaimPreorder, ClaimNotification
  <1> QED
    BY <1>1, <1>2, <1>3, <1>4, <1>5, <1>6, <1>7, <1>8, <1>9, <1>10, <1>11, <1>12,
       <1>13, <1>14, <1>15, AdjustmentAssumption
    DEF Next, Customer, Shop, Worker, Buy

\* No money is made or lost: every ledger is what came in, minus what its preorders
\* hold or cost, plus the commissions.
THEOREM BooksBalanceAlways == Spec => []BooksBalance
  <1>1. Init => Typed /\ Sound /\ Books
    BY TypedInit, SoundInit, BooksInit
  <1>2. (Typed /\ Sound /\ Books) /\ [Next]_vars => (Typed /\ Sound /\ Books)'
    BY TypedNext, SoundNext, BooksNext
  <1>3. Typed /\ Sound /\ Books => BooksBalance
    BY BooksAreSums DEF Books, BooksBalance
  <1> QED BY <1>1, <1>2, <1>3, PTL DEF Spec

-----------------------------------------------------------------------------
(* Preorders implements Escrow: every step of the detailed specification     *)
(* opens, settles or returns one contract, moves money outside the           *)
(* contracts, or changes nothing the customer's books can tell.              *)

StageMap == [p \in Preorder |-> Stage(p)]
DealMap == [p \in Preorder |-> DealOf(p)]

\* The stage of a contract, from the row's status and its orders alone.
View(p) ==
    IF status[p] = "absent" THEN "none"
    ELSE IF delivered[p] > 0 THEN "delivered"
    ELSE IF status[p] = "cancelled" THEN IF p \in Legacy THEN "void" ELSE "returned"
    ELSE IF p \in Legacy THEN "open" ELSE "held"

LEMMA StageIsView == Typed /\ Sound => \A p \in Preorder : Stage(p) = View(p)
  <1> SUFFICES ASSUME Typed, Sound, NEW p \in Preorder PROVE Stage(p) = View(p)
    OBVIOUS
  <1>1. /\ RowSound(p) /\ delivered[p] \in Nat
        /\ (terms[p] = NoTerms <=> status[p] = "absent")
    BY DEF Sound, Typed, TypeOK, RowsInUse
  <1>2. CASE status[p] = "absent"
    BY <1>1, <1>2 DEF Stage, View, RowSound
  <1>3. CASE status[p] # "absent" /\ delivered[p] > 0
    BY <1>1, <1>3 DEF Stage, View, RowSound
  <1>4. CASE status[p] # "absent" /\ delivered[p] = 0
    <2>1. refunded[p] <=> status[p] = "cancelled" /\ p \notin Legacy
      BY <1>1 DEF RowSound
    <2>2. charged[p] <=> p \notin Legacy
      BY <1>1, <1>4 DEF RowSound
    <2>3. CASE status[p] = "cancelled" /\ p \in Legacy
      BY <1>1, <1>4, <2>1, <2>3 DEF Stage, View
    <2>4. CASE status[p] = "cancelled" /\ p \notin Legacy
      BY <1>1, <1>4, <2>1, <2>4 DEF Stage, View
    <2>5. CASE status[p] # "cancelled"
      BY <1>1, <1>4, <2>1, <2>2, <2>5 DEF Stage, View
    <2> QED BY <2>3, <2>4, <2>5
  <1> QED BY <1>1, <1>2, <1>3, <1>4

LEMMA StageIsViewNext == Typed' /\ Sound' => \A p \in Preorder : Stage(p)' = View(p)'
  <1>1. (Typed /\ Sound => \A p \in Preorder : Stage(p) = View(p))'
    BY StageIsView, PTL
  <1> QED BY <1>1

LEMMA RefinesInit == Init => Escrowed!Init
  <1> SUFFICES ASSUME Init PROVE Escrowed!Init
    OBVIOUS
  <1>1. Typed /\ Sound
    BY TypedInit, SoundInit
  <1>2. posted \in [User -> Int]
    BY <1>1 DEF Typed, TypeOK
  <1>3. ASSUME NEW p \in Preorder
        PROVE  /\ StageMap[p] \in {"none", "open"}
               /\ StageMap[p] = "none" <=> DealMap[p] = NoTerms
    <2>1. /\ StageMap[p] = View(p) /\ (status[p] = "absent" <=> terms[p] = NoTerms)
          /\ delivered[p] = 0 /\ status[p] = IF p \in Legacy THEN "pending" ELSE "absent"
      BY <1>1, StageIsView DEF StageMap, Init, Typed, RowsInUse
    <2>2. CASE p \in Legacy
      <3>1. terms[p].user \in User /\ Total(p) \in Nat
        BY <1>1, <2>1, <2>2, RowFacts
      <3>2. DealMap[p] # NoTerms
        BY <2>1, <2>2, <3>1, TermsAssumption DEF DealMap, DealOf
      <3> QED BY <2>1, <2>2, <3>2 DEF View
    <2>3. CASE p \notin Legacy
      BY <2>1, <2>3 DEF View, DealMap, DealOf
    <2> QED BY <2>2, <2>3
  <1>4. StageMap \in [Preorder -> {"none", "open"}]
    BY <1>3 DEF StageMap
  <1> QED BY <1>2, <1>3, <1>4 DEF Escrowed!Init, StageMap, DealMap

-----------------------------------------------------------------------------
(***************************************************************************)
(* The steps.  Each lemma is about one kind of step of the escrow.         *)
(***************************************************************************)
Safe == Typed /\ Sound

\* Rows keep their stage and their terms.
LEMMA KeptMaps ==
    ASSUME Safe, Safe', \A p \in Preorder : View(p)' = View(p), UNCHANGED terms
    PROVE  StageMap' = StageMap /\ DealMap' = DealMap
  <1>1. \A p \in Preorder : Stage(p)' = Stage(p)
    BY StageIsView, StageIsViewNext DEF Safe
  <1>2. \A p \in Preorder : DealOf(p)' = DealOf(p)
    BY DEF DealOf, Total
  <1> QED BY <1>1, <1>2 DEF StageMap, DealMap

LEMMA StutterStep ==
    ASSUME Safe, Safe', \A p \in Preorder : View(p)' = View(p), UNCHANGED <<terms, posted>>
    PROVE  UNCHANGED Escrowed!vars
  BY KeptMaps DEF Escrowed!vars, StageMap, DealMap

LEMMA TransferStep ==
    ASSUME Safe, Safe', UNCHANGED <<terms, status, delivered>>,
           NEW u \in User, \A v \in User \ {u} : posted'[v] = posted[v]
    PROVE  Escrowed!Next
  <1>1. StageMap' = StageMap /\ DealMap' = DealMap
    BY KeptMaps DEF View
  <1>2. Escrowed!Transfer(u)
    BY <1>1 DEF Escrowed!Transfer, Escrowed!OnlyAccount, StageMap, DealMap
  <1> QED BY <1>2 DEF Escrowed!Next

\* A new, paid row.
LEMMA BookStep ==
    ASSUME Safe, Safe', NEW p \in Preorder, NextId(p),
           NEW u \in User, NEW x \in Product, NEW q \in Quantities, Insert(p, u, x, q),
           UNCHANGED delivered,
           \/ UNCHANGED posted
           \/ posted' = [posted EXCEPT ![u] = @ + (-(price[x] * q))]
    PROVE  Escrowed!Next
  <1>1. /\ status[p] = "absent" /\ p \notin Legacy /\ delivered[p] = 0 /\ terms[p] = NoTerms
    <2>1. RowSound(p) /\ delivered[p] \in Nat /\ (terms[p] = NoTerms <=> status[p] = "absent")
      BY DEF Safe, Sound, Typed, TypeOK, RowsInUse
    <2>2. status[p] = "absent"
      BY DEF NextId
    <2> QED BY <2>1, <2>2 DEF RowSound
  <1>2. /\ status' = [status EXCEPT ![p] = "pending"]
        /\ terms' = [terms EXCEPT ![p] = [user |-> u, product |-> x,
                                          quantity |-> q, base |-> price[x]]]
    BY DEF Insert
  <1>3. /\ status'[p] = "pending"
        /\ terms'[p] = [user |-> u, product |-> x, quantity |-> q, base |-> price[x]]
        /\ \A r \in Preorder \ {p} : status'[r] = status[r] /\ terms'[r] = terms[r]
    BY <1>2 DEF Safe, Typed, TypeOK
  <1>4. View(p) = "none" /\ View(p)' = "held" /\ \A r \in Preorder \ {p} : View(r)' = View(r)
    BY <1>1, <1>3 DEF View
  <1>5. StageMap[p] = "none" /\ StageMap' = [StageMap EXCEPT ![p] = "held"]
    BY <1>4, StageIsView, StageIsViewNext DEF Safe, StageMap
  <1>6. terms'[p] # NoTerms
    <2>1. [user |-> u, product |-> x, quantity |-> q, base |-> price[x]] \in Terms
      BY DEF Safe, Typed, TypeOK, Terms
    <2> QED BY <1>3, <2>1, TermsAssumption DEF Terms
  <1>7. /\ DealMap'[p] = [user |-> u, amount |-> price[x] * q]
        /\ \A r \in Preorder \ {p} : DealMap'[r] = DealMap[r]
    BY <1>3, <1>6 DEF DealMap, DealOf, Total
  <1>8. price[x] * q \in Nat
    BY PriceAssumption, QuantityAssumption, ProductNat DEF Safe, Typed, TypeOK
  <1>9. \/ posted'[u] = posted[u] - DealMap'[p].amount /\ \A v \in User \ {u} : posted'[v] = posted[v]
        \/ UNCHANGED posted
    <2> DEFINE cost == price[x] * q
    <2>1. cost \in Nat /\ DealMap'[p].amount = cost
      BY <1>7, <1>8
    <2>2. posted \in [User -> Int]
      BY DEF Safe, Typed, TypeOK
    <2>3. UNCHANGED posted \/ posted' = [posted EXCEPT ![u] = @ + (-cost)]
      OBVIOUS
    <2> HIDE DEF cost
    <2> QED BY <2>1, <2>2, <2>3
  <1>10. Escrowed!Book(p, u)
    BY <1>5, <1>7, <1>9 DEF Escrowed!Book, Escrowed!OnlyAccount, StageMap, DealMap
  <1> QED BY <1>10 DEF Escrowed!Next

\* A cancellation of an open row.
LEMMA ReturnStep ==
    ASSUME Safe, Safe', NEW p \in Preorder, Active(p), delivered[p] = 0, NEW held,
           CancelAndRefund(p, held), UNCHANGED delivered
    PROVE  Escrowed!Next
  <1>1. /\ status[p] # "absent" /\ status[p] # "cancelled" /\ RowSound(p)
    BY DEF Active, ActiveStatus, Safe, Sound
  <1>2. /\ status' = [status EXCEPT ![p] = "cancelled"] /\ UNCHANGED terms
    BY DEF CancelAndRefund
  <1>3. /\ status'[p] = "cancelled" /\ \A r \in Preorder \ {p} : status'[r] = status[r]
    BY <1>2 DEF Safe, Typed, TypeOK
  <1>4. \A r \in Preorder \ {p} : View(r)' = View(r)
    BY <1>2, <1>3 DEF View
  <1>5. DealMap' = DealMap
    BY <1>2 DEF DealMap, DealOf, Total
  <1>6. DealMap[p].user = terms[p].user /\ DealMap[p].amount = Total(p)
    BY <1>1, RowFacts DEF DealMap, DealOf, Safe
  <1>7. CASE p \in Legacy
    <2>1. ~charged[p]
      BY <1>1, <1>7 DEF RowSound
    <2>2. UNCHANGED posted
      BY <2>1 DEF CancelAndRefund
    <2>3. View(p) = "open" /\ View(p)' = "void"
      BY <1>1, <1>3, <1>7 DEF View
    <2>4. StageMap[p] = "open" /\ StageMap' = [StageMap EXCEPT ![p] = "void"]
      BY <1>4, <2>3, StageIsView, StageIsViewNext DEF Safe, StageMap
    <2>5. Escrowed!Return(p)
      BY <1>5, <2>2, <2>4 DEF Escrowed!Return, StageMap, DealMap
    <2> QED BY <2>5 DEF Escrowed!Next
  <1>8. CASE p \notin Legacy
    <2>1. charged[p] /\ ~refunded[p] /\ <<"preorder_refund", p>> \notin events
      BY <1>1, <1>8 DEF RowSound
    <2>2. posted' = [posted EXCEPT ![terms[p].user] = @ + Total(p)]
      BY <2>1 DEF CancelAndRefund, ApplyWalletChange
    <2>3. View(p) = "held" /\ View(p)' = "returned"
      BY <1>1, <1>3, <1>8 DEF View
    <2>4. StageMap[p] = "held" /\ StageMap' = [StageMap EXCEPT ![p] = "returned"]
      BY <1>4, <2>3, StageIsView, StageIsViewNext DEF Safe, StageMap
    <2>5. Escrowed!Return(p)
      BY <1>5, <1>6, <2>2, <2>4 DEF Escrowed!Return, StageMap, DealMap
    <2> QED BY <2>5 DEF Escrowed!Next
  <1> QED BY <1>7, <1>8

\* The purchase of a row that had nothing yet.
LEMMA DeliverStep ==
    ASSUME Safe, Safe', worker.pc = "buy", NEW local \in Nat, NEW bought \in Nat,
           Deliver(worker.id, local, bought), UNCHANGED book,
           local + bought = terms[worker.id].quantity
    PROVE  Escrowed!Next
  <1>0. PICK p \in Preorder : p = worker.id
    BY WorkerFacts DEF Safe
  <1>1. /\ status[p] = "processing" /\ delivered[p] = 0
        /\ (worker.charged <=> p \notin Legacy)
    BY <1>0 DEF Safe, Sound, WorkerSound
  <1> DEFINE u == terms[p].user
             r == Referrer[u]
             reward == Commission(Total(p))
             rewarded == r # NoUser /\ r # u /\ reward > 0
             debit == IF worker.charged THEN 0 ELSE Total(p)
  <1>2. /\ u \in User /\ Total(p) \in Nat /\ reward \in Nat
        /\ terms[p].quantity \in Nat \ {0}
    BY <1>1, RowFacts, CommissionNat DEF Safe
  <1>3. delivered' = [delivered EXCEPT ![p] = @ + local + bought]
    BY <1>0 DEF Deliver
  <1>4. delivered'[p] > 0 /\ \A q \in Preorder \ {p} : delivered'[q] = delivered[q]
    BY <1>0, <1>1, <1>2, <1>3 DEF Safe, Typed, TypeOK
  <1>5. UNCHANGED <<terms, status>>
    BY DEF book
  <1>6. /\ View(p) = (IF p \in Legacy THEN "open" ELSE "held") /\ View(p)' = "delivered"
        /\ \A q \in Preorder \ {p} : View(q)' = View(q)
    BY <1>1, <1>4, <1>5 DEF View
  <1>7. /\ StageMap[p] = (IF p \in Legacy THEN "open" ELSE "held")
        /\ StageMap' = [StageMap EXCEPT ![p] = "delivered"]
    BY <1>6, StageIsView, StageIsViewNext DEF Safe, StageMap
  <1>8. DealMap' = DealMap /\ DealMap[p].user = u /\ DealMap[p].amount = Total(p)
    BY <1>1, <1>5, RowFacts DEF DealMap, DealOf, Total, Safe
  <1>9. \A v \in User : posted'[v] = posted[v] + ((IF v = u THEN -debit ELSE 0)
                                 + (IF rewarded /\ v = r THEN reward ELSE 0))
    BY <1>0 DEF Deliver
  <1>10. posted \in [User -> Int]
    BY DEF Safe, Typed, TypeOK
  <1>11. debit = IF StageMap[p] = "open" THEN Total(p) ELSE 0
    BY <1>1, <1>7
  <1>12. /\ posted'[u] = posted[u] - debit
         /\ \A v \in User \ {u} : posted'[v] >= posted[v]
    <2> HIDE DEF reward, u
    <2>1. debit \in Nat
      BY <1>2
    <2>2. ~(rewarded /\ u = r)
      OBVIOUS
    <2>3. posted'[u] = posted[u] + (-debit + 0)
      BY <1>2, <1>9, <2>2
    <2>4. \A v \in User \ {u} : posted'[v] = posted[v] + (0 + (IF rewarded /\ v = r THEN reward ELSE 0))
      BY <1>9
    <2> HIDE DEF rewarded, debit
    <2> QED BY <1>2, <1>10, <2>1, <2>3, <2>4
  <1>13. Escrowed!Deliver(p)
    BY <1>7, <1>8, <1>11, <1>12 DEF Escrowed!Deliver, StageMap, DealMap
  <1> QED BY <1>13 DEF Escrowed!Next

LEMMA RefinesNext == Safe /\ Safe' /\ [Next]_vars => [Escrowed!Next]_(Escrowed!vars)
  <1> SUFFICES ASSUME Safe, Safe', [Next]_vars
               PROVE  Escrowed!Next \/ UNCHANGED Escrowed!vars
    OBVIOUS
  <1> USE DEF wallet, book, goods, catalog
  <1>1. ASSUME UNCHANGED <<terms, status, delivered, posted>> PROVE UNCHANGED Escrowed!vars
    BY <1>1, StutterStep DEF View
  <1>2. ASSUME NEW p \in Preorder, status[p] = "pending", NEW held, CancelAndRefund(p, held),
               UNCHANGED delivered
        PROVE  Escrowed!Next
    <2>1. delivered[p] = 0
      <3>1. RowSound(p) /\ delivered[p] \in Nat
        BY DEF Safe, Sound, Typed, TypeOK
      <3> QED BY <1>2, <3>1 DEF RowSound
    <2> QED BY <1>2, <2>1, ReturnStep DEF Active, ActiveStatus
  <1>3. ASSUME NEW c \in Chat, NEW p \in Preorder, CancelOwnPreorder(c, p) PROVE Escrowed!Next
    BY <1>2, <1>3 DEF CancelOwnPreorder
  <1>4. ASSUME NEW p \in Preorder, AdminCancelPreorder(p) PROVE Escrowed!Next
    BY <1>2, <1>4 DEF AdminCancelPreorder
  <1>5. ASSUME NEW c \in Chat, NEW p \in Preorder, NEW x \in Product, NEW q \in Quantities,
               ConfirmPreorder(c, p, x, q)
        PROVE  Escrowed!Next
    <2> DEFINE u == session[c].user
    <2>1. u \in User
      BY <1>5 DEF ConfirmPreorder, Safe, Typed, TypeOK, Session
    <2>2. /\ NextId(p) /\ Insert(p, u, x, q) /\ UNCHANGED delivered
          /\ posted' = [posted EXCEPT ![u] = @ + (-(price[x] * q))]
      BY <1>5 DEF ConfirmPreorder, ApplyWalletChange
    <2> QED BY <2>1, <2>2, BookStep
  <1>6. ASSUME NEW d \in Deposit, NEW u \in User, NEW x \in Product, NEW q \in Quantities,
               NEW unit \in Prices, PayPreorderByQr(d, u, x, q, unit)
        PROVE  Escrowed!Next
    <2>1. UNCHANGED delivered
      BY <1>6 DEF PayPreorderByQr
    <2>2. CASE /\ \E p \in Preorder : NextId(p) /\ Insert(p, u, x, q)
               /\ UNCHANGED posted
      BY <2>1, <2>2, BookStep
    <2>3. CASE ApplyWalletChange(u, balance[u], unit * q, <<"deposit", d>>) /\ UNCHANGED book
      <3>1. \A v \in User \ {u} : posted'[v] = posted[v]
        BY <2>3 DEF ApplyWalletChange, Safe, Typed, TypeOK
      <3> QED BY <2>1, <2>3, <3>1, TransferStep
    <2> QED BY <1>6, <2>2, <2>3 DEF PayPreorderByQr
  <1>7. ASSUME NEW u \in User, NEW a \in Int, AdjustBalance(u, a) PROVE Escrowed!Next
    <2>1. \A v \in User \ {u} : posted'[v] = posted[v]
      BY <1>7 DEF AdjustBalance, Safe, Typed, TypeOK
    <2> QED BY <1>7, <2>1, TransferStep DEF AdjustBalance
  <1>8. ASSUME NEW x, NEW v, \/ ToggleBlock(x) \/ ChangePrice(x, v) \/ SetShelf(x, v)
                              \/ MoveStock(x, v) \/ SyncSupply(x, v)
        PROVE  UNCHANGED Escrowed!vars
    BY <1>1, <1>8 DEF ToggleBlock, ChangePrice, SetShelf, MoveStock, SyncSupply
  <1>9. ASSUME NEW c, CloseSession(c) \/ \E u \in User : OpenSession(c, u)
        PROVE  UNCHANGED Escrowed!vars
    BY <1>1, <1>9 DEF OpenSession, CloseSession
  \* The worker's bookkeeping keeps every stage.
  <1>10. ASSUME NEW p \in Preorder, ClaimPreorder(p) PROVE UNCHANGED Escrowed!vars
    <2>1. \A q \in Preorder : View(q)' = View(q)
      BY <1>10 DEF ClaimPreorder, View, Safe, Typed, TypeOK
    <2> QED BY <1>10, <2>1, StutterStep DEF ClaimPreorder
  <1>11. CASE CheckClaimed \/ WorkerFails \/ SendNotification \/ SendFails \/ MarkSent
              \/ \E p \in Preorder : ClaimNotification(p)
    BY <1>1, <1>11 DEF CheckClaimed, WorkerFails, SendNotification, SendFails, MarkSent,
                       ClaimNotification
  <1>12. CASE CompletePreorder
    <2>1. /\ worker.id \in Preorder /\ delivered[worker.id] > 0
          /\ status[worker.id] = "processing"
      BY <1>12, WorkerFacts DEF CompletePreorder, Safe, Sound, WorkerSound, Typed, TypeOK
    <2>2. \A q \in Preorder : View(q)' = View(q)
      BY <1>12, <2>1 DEF CompletePreorder, View, Safe, Typed, TypeOK
    <2> QED BY <1>12, <2>2, StutterStep DEF CompletePreorder
  <1>13. CASE CancelPreorder
    <2>1. PICK p \in Preorder : p = worker.id
      BY WorkerFacts DEF Safe
    <2>2. Active(p) /\ delivered[p] = 0
      BY <1>13, <2>1 DEF CancelPreorder, Safe, Sound, WorkerSound, Active, ActiveStatus
    <2> QED BY <1>13, <2>1, <2>2, ReturnStep DEF CancelPreorder
  <1>14. CASE SetPendingRetry
    <2>1. \A q \in Preorder : View(q)' = View(q)
      BY <1>14, WorkerFacts DEF SetPendingRetry, View, Safe, Typed, TypeOK
    <2> QED BY <1>14, <2>1, StutterStep DEF SetPendingRetry
  <1>15. ASSUME NEW P \in SUBSET Preorder, NEW N \in SUBSET Preorder, RecoverStale(P, N)
         PROVE  UNCHANGED Escrowed!vars
    <2>1. \A q \in Preorder : View(q)' = View(q)
      BY <1>15 DEF RecoverStale, View, Safe, Typed, TypeOK
    <2> QED BY <1>15, <2>1, StutterStep DEF RecoverStale
  <1>16. CASE worker.pc = "buy" /\ (BuyRefused \/ BuyOutOfStock)
    BY <1>1, <1>16 DEF BuyRefused, BuyOutOfStock
  <1>17. CASE worker.pc = "buy" /\ BuyFromStock
    <2>1. CASE UNCHANGED <<posted, delivered>>
      BY <1>1, <1>17, <2>1 DEF BuyFromStock
    <2>2. CASE Deliver(worker.id, terms[worker.id].quantity, 0)
      <3>1. terms[worker.id].quantity \in Nat
        BY <1>17, WorkerFacts, RowFacts DEF Safe
      <3> QED BY <1>17, <2>2, <3>1, DeliverStep DEF BuyFromStock
    <2> QED BY <1>17, <2>1, <2>2 DEF BuyFromStock
  <1>18. CASE worker.pc = "buy" /\ BuyFromSupplier
    <2> DEFINE x == terms[worker.id].product
               missing == terms[worker.id].quantity - stock[x]
    <2>1. CASE UNCHANGED <<posted, delivered>>
      BY <1>1, <1>18, <2>1 DEF BuyFromSupplier
    <2>2. CASE Deliver(worker.id, stock[x], missing)
      <3>1. /\ stock[x] \in Nat /\ missing \in Nat
            /\ stock[x] + missing = terms[worker.id].quantity
        BY <1>18, WorkerFacts, RowFacts DEF BuyFromSupplier, Safe
      <3>2. UNCHANGED book
        BY <1>18 DEF BuyFromSupplier
      <3> HIDE DEF missing
      <3> QED BY <1>18, <2>2, <3>1, <3>2, DeliverStep
    <2> QED BY <1>18, <2>1, <2>2 DEF BuyFromSupplier
  <1>19. CASE UNCHANGED vars
    BY <1>1, <1>19 DEF vars
  <1> QED
    BY <1>3, <1>4, <1>5, <1>6, <1>7, <1>8, <1>9, <1>10, <1>11, <1>12, <1>13, <1>14,
       <1>15, <1>16, <1>17, <1>18, <1>19, AdjustmentAssumption
    DEF Next, Customer, Shop, Worker, Buy

\* In the books, the money of every preorder is held until it is delivered or
\* given back, exactly once and in full.
THEOREM PreordersImplementEscrow == Spec => ImplementsEscrow
  <1>1. Init => Escrowed!Init
    BY RefinesInit
  <1>2. Safe /\ Safe' /\ [Next]_vars => [Escrowed!Next]_(Escrowed!vars)
    BY RefinesNext
  <1>3. Spec => []Safe
    BY RowsSound DEF Safe
  <1> QED BY <1>1, <1>2, <1>3, PTL DEF Spec, ImplementsEscrow, Escrowed!Spec
=============================================================================
