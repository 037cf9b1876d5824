--------------------------- MODULE DepositsProofs ---------------------------
(***************************************************************************)
(* Proofs about Deposits, for any sets of requests, transaction ids,       *)
(* campaigns and checkouts, and any limits.                                *)
(***************************************************************************)
EXTENDS Deposits, FiniteSetTheorems, TLAPS

(***************************************************************************)
(* The inductive invariant has layers, each proved with those above it:    *)
(*   TypeOK                what every variable is a member of;             *)
(*   PaymentsSound         the rows of payments: a transaction id is in    *)
(*                         one row, an approval's row is its request's;    *)
(*   RequestSound(d),      what a request says of itself: its status, its  *)
(*   PlaceSound(d)         reason, its supplier order, its goods, the      *)
(*                         ledger and the place it holds;                  *)
(*   Sale                  each campaign: its counters, the places held,   *)
(*                         the orders written, and that one is open.       *)
(***************************************************************************)
PaymentsSound ==
    /\ \A i, j \in DOMAIN payments : payments[i].tx = payments[j].tx => i = j
    /\ \A i \in DOMAIN payments, d \in Deposit :
         payments[i].tx = AdminTx(d) => payments[i].deposit = d
    /\ OneCredit

\* What a request says of itself, by its status and its supplier order.
Untouched(d) ==
    /\ goods[d] = 0 /\ attempt[d] = "none" /\ d \notin placed
    /\ <<"deposit", d>> \notin events /\ <<"refund", d>> \notin events

Bought(d) ==
    \/ /\ attempt[d] = "none" /\ <<"refund", d>> \notin events
       /\ \/ goods[d] > 0 /\ <<"deposit", d>> \notin events /\ d \notin placed
          \/ goods[d] = 0 /\ <<"deposit", d>> \in events /\ d \notin placed
          \/ goods[d] = 0 /\ <<"deposit", d>> \notin events /\ d \in placed
    \/ /\ attempt[d] # "none" /\ <<"deposit", d>> \notin events /\ d \notin placed
       /\ (goods[d] > 0) <=> (attempt[d] = "succeeded")
       /\ (<<"refund", d>> \in events) <=> (attempt[d] = "failed")

RequestSound(d) ==
    /\ status[d] \in {"absent", "pending"} => reason[d] = "none"
    /\ status[d] = "paid" => reason[d] \in {"none", "supplier_order_failed"}
    /\ status[d] # "absent" => quantity[d] > 0
    /\ status[d] # "paid" => Untouched(d)
    /\ status[d] = "paid" => LeftOpen(d) \/ Bought(d)
    /\ attempt[d] = "processing" => goods[d] = 0

PlaceSound(d) ==
    /\ held[d] > 0 =>
         /\ Kind[d] = "direct_purchase" /\ sale[d] # NoSale
         /\ held[d] = quantity[d] /\ d \notin late
         /\ status[d] = "pending" \/ attempt[d] = "processing"
    /\ d \in late => status[d] = "paid"
    /\ goods[d] > 0 => status[d] = "paid" /\ attempt[d] \in {"none", "succeeded"}
-----------------------------------------------------------------------------
(***************************************************************************)
(* Types.                                                                  *)
(***************************************************************************)
TxIds == Tx \cup {AdminTx(d) : d \in Deposit}

LEMMA RowTyped ==
    ASSUME NEW k \in CampaignRow
    PROVE  /\ k.status \in CampaignStatus /\ k.total \in Nat
           /\ k.sold \in Nat /\ k.reserved \in Nat
  BY DEF CampaignRow

LEMMA CloseTyped ==
    ASSUME NEW k \in CampaignRow
    PROVE  CloseIfFull(k) \in CampaignRow
  BY DEF CloseIfFull, CampaignRow, CampaignStatus

LEMMA ReserveTyped ==
    ASSUME NEW k \in CampaignRow, NEW q \in Nat
    PROVE  AfterReserve(k, q) \in CampaignRow
  <1>1. [k EXCEPT !.reserved = @ + q] \in CampaignRow
    BY DEF CampaignRow
  <1> QED BY <1>1, CloseTyped DEF AfterReserve

LEMMA ConsumeTyped ==
    ASSUME NEW k \in CampaignRow, NEW q \in Nat
    PROVE  AfterConsume(k, q) \in CampaignRow
  <1>1. [k EXCEPT !.sold = @ + q] \in CampaignRow
    BY DEF CampaignRow
  <1> QED BY <1>1, CloseTyped DEF AfterConsume

LEMMA CompleteTyped ==
    ASSUME NEW k \in CampaignRow, NEW q \in Nat
    PROVE  AfterComplete(k, q) \in CampaignRow
  <1> DEFINE moved == IF q <= k.reserved THEN q ELSE k.reserved
  <1>1. moved \in Nat /\ k.reserved - moved \in Nat /\ k.sold + moved \in Nat
    BY RowTyped
  <1>2. [k EXCEPT !.reserved = @ - moved, !.sold = @ + moved] \in CampaignRow
    <2> HIDE DEF moved
    <2> QED BY <1>1 DEF CampaignRow
  <1> QED BY <1>2, CloseTyped DEF AfterComplete

LEMMA ReleaseTyped ==
    ASSUME NEW k \in CampaignRow, NEW q \in Nat
    PROVE  AfterRelease(k, q) \in CampaignRow
  <1> DEFINE n == IF q <= k.reserved THEN k.reserved - q ELSE 0
             s == IF k.status = "completed" /\ k.sold < k.total THEN "active" ELSE k.status
  <1>1. n \in Nat /\ s \in CampaignStatus
    BY RowTyped DEF CampaignStatus
  <1>2. [k EXCEPT !.reserved = n, !.status = s] \in CampaignRow
    <2> HIDE DEF n, s
    <2> QED BY <1>1 DEF CampaignRow
  <1> QED BY <1>2 DEF AfterRelease

LEMMA ReleasePlaceTyped ==
    ASSUME TypeOK, NEW d \in Deposit, ReleasePlace(d)
    PROVE  held' \in [Deposit -> Nat] /\ campaign' \in [Campaign -> CampaignRow]
  <1>1. held' \in [Deposit -> Nat]
    BY DEF ReleasePlace, TypeOK
  <1>2. CASE sale[d] \in Campaign
    BY <1>1, <1>2, ReleaseTyped DEF ReleasePlace, TypeOK
  <1>3. CASE sale[d] = NoSale
    BY <1>1, <1>3, CampaignAssumption DEF ReleasePlace, TypeOK
  <1> QED BY <1>2, <1>3 DEF TypeOK

LEMMA CompletePlaceTyped ==
    ASSUME TypeOK, NEW d \in Deposit, CompletePlace(d)
    PROVE  held' \in [Deposit -> Nat] /\ campaign' \in [Campaign -> CampaignRow]
  <1>1. held' \in [Deposit -> Nat]
    BY DEF CompletePlace, TypeOK
  <1>2. CASE sale[d] \in Campaign
    BY <1>1, <1>2, CompleteTyped DEF CompletePlace, TypeOK
  <1>3. CASE sale[d] = NoSale
    BY <1>1, <1>3, CampaignAssumption DEF CompletePlace, TypeOK
  <1> QED BY <1>2, <1>3 DEF TypeOK

\* Rows that are written over keep the table a table.
LEMMA MarkedTyped ==
    ASSUME TypeOK, NEW t, NEW credit \in Credit
    PROVE  Marked(t, credit) \in Seq(Payment) /\ DOMAIN Marked(t, credit) = DOMAIN payments
  <1>1. Len(payments) \in Nat /\ DOMAIN payments = 1 .. Len(payments)
    BY DEF TypeOK
  <1>2. \A i \in DOMAIN payments : payments[i] \in Payment
    BY DEF TypeOK
  <1>3. \A i \in DOMAIN payments : [payments[i] EXCEPT !.credit = credit] \in Payment
    BY <1>2 DEF Payment
  <1> QED BY <1>1, <1>2, <1>3 DEF Marked

LEMMA RecordTyped ==
    ASSUME TypeOK, NEW t \in TxIds, NEW d \in Deposit, NEW credit \in Credit,
           Record(t, d, credit)
    PROVE  payments' \in Seq(Payment)
  <1>1. [tx |-> t, deposit |-> d, credit |-> credit] \in Payment
    BY DEF Payment, TxIds
  <1> QED BY <1>1, MarkedTyped DEF Record, TypeOK

\* What every variable is a member of, one conjunct for each group.
LEMMA TypedInit == Init => TypeOK
  <1> SUFFICES ASSUME Init PROVE TypeOK
    OBVIOUS
  <1>1. NoCampaign \in CampaignRow
    BY DEF NoCampaign, CampaignRow, CampaignStatus
  <1>2. payments \in Seq(Payment)
    BY DEF Init
  <1> QED BY <1>1, <1>2 DEF Init, TypeOK, DepositStatus, Reason, View

LEMMA SetStatusTyped ==
    ASSUME TypeOK, NEW d \in Deposit, NEW s \in DepositStatus, NEW why \in Reason,
           SetStatus(d, s, why)
    PROVE  /\ status' \in [Deposit -> DepositStatus] /\ reason' \in [Deposit -> Reason]
           /\ due' \in [Deposit -> BOOLEAN] /\ quantity' \in [Deposit -> Nat]
           /\ sale' \in [Deposit -> Campaign \cup {NoSale}]
  BY DEF SetStatus, TypeOK

LEMMA WriteOrdersTyped ==
    ASSUME TypeOK, NEW d \in Deposit, WriteOrders(d)
    PROVE  /\ goods' \in [Deposit -> Nat] /\ saleOrders' \in [Campaign -> Nat]
           /\ late' \subseteq Deposit
           /\ held' \in [Deposit -> Nat] /\ campaign' \in [Campaign -> CampaignRow]
  <1>1. held' \in [Deposit -> Nat] /\ campaign' \in [Campaign -> CampaignRow]
    BY CompletePlaceTyped DEF WriteOrders
  <1>2. quantity[d] \in Nat /\ goods[d] \in Nat /\ goods[d] + quantity[d] \in Nat
    BY DEF TypeOK
  <1>3. goods' \in [Deposit -> Nat]
    BY <1>2 DEF WriteOrders, TypeOK
  <1>4. saleOrders' \in [Campaign -> Nat]
    BY <1>2 DEF WriteOrders, TypeOK
  <1>5. late' \subseteq Deposit
    BY DEF WriteOrders, TypeOK
  <1> QED BY <1>1, <1>3, <1>4, <1>5

\* The processing of a payment, the common part of three actions.
ProcessTypes ==
    /\ status \in [Deposit -> DepositStatus] /\ reason \in [Deposit -> Reason]
    /\ due \in [Deposit -> BOOLEAN] /\ quantity \in [Deposit -> Nat]
    /\ sale \in [Deposit -> Campaign \cup {NoSale}] /\ held \in [Deposit -> Nat]
    /\ payments \in Seq(Payment) /\ events \subseteq {"deposit", "refund"} \X Deposit
    /\ placed \subseteq Deposit /\ goods \in [Deposit -> Nat]
    /\ attempt \in [Deposit -> {"none", "processing", "succeeded", "failed"}]
    /\ campaign \in [Campaign -> CampaignRow] /\ saleOrders \in [Campaign -> Nat]
    /\ overtaken \subseteq Campaign /\ late \subseteq Deposit

LEMMA RejectedTyped ==
    ASSUME TypeOK, NEW t \in TxIds, NEW d \in Deposit, NEW exact \in BOOLEAN,
           NEW manual \in BOOLEAN, Rejected(t, d, exact, manual)
    PROVE  ProcessTypes'
  <1> USE DEF request
  <1>0. /\ events' \subseteq {"deposit", "refund"} \X Deposit
        /\ placed' \subseteq Deposit /\ goods' \in [Deposit -> Nat]
        /\ attempt' \in [Deposit -> {"none", "processing", "succeeded", "failed"}]
        /\ saleOrders' \in [Campaign -> Nat]
        /\ overtaken' \subseteq Campaign /\ late' \subseteq Deposit
    BY DEF Rejected, TypeOK
  <1>1. CASE RejectPaid(t, d, exact)
    <2>1. payments' \in Seq(Payment)
      BY <1>1, RecordTyped DEF RejectPaid, Credit
    <2> QED BY <1>0, <1>1, <2>1 DEF RejectPaid, TypeOK, ProcessTypes
  <1>2. CASE RejectLate(t, d)
    <2>1. payments' \in Seq(Payment)
      BY <1>2, RecordTyped DEF RejectLate, Credit
    <2>2. held' \in [Deposit -> Nat] /\ campaign' \in [Campaign -> CampaignRow]
      BY <1>2, ReleasePlaceTyped DEF RejectLate
    <2>3. CASE SetStatus(d, "failed", "expired")
      <3>1. "failed" \in DepositStatus /\ "expired" \in Reason
        BY DEF DepositStatus, Reason
      <3> QED BY <1>0, <2>1, <2>2, <2>3, <3>1, SetStatusTyped DEF ProcessTypes
    <2>4. CASE UNCHANGED request
      BY <1>0, <2>1, <2>2, <2>4 DEF TypeOK, ProcessTypes
    <2> QED BY <1>2, <2>3, <2>4 DEF RejectLate
  <1>3. CASE RejectClosed(t, d, manual)
    <2>1. payments' \in Seq(Payment)
      BY <1>3, RecordTyped DEF RejectClosed, Credit
    <2>2. held' \in [Deposit -> Nat] /\ campaign' \in [Campaign -> CampaignRow]
      BY <1>3, ReleasePlaceTyped DEF RejectClosed
    <2> QED BY <1>0, <1>3, <2>1, <2>2 DEF RejectClosed, TypeOK, ProcessTypes
  <1>4. CASE RejectAmount(t, d, manual)
    <2>1. payments' \in Seq(Payment)
      BY <1>4, RecordTyped DEF RejectAmount, Credit
    <2> QED BY <1>0, <1>4, <2>1 DEF RejectAmount, TypeOK, ProcessTypes
  <1>5. CASE RejectBlocked(t, d, manual)
    <2>1. payments' \in Seq(Payment)
      BY <1>5, RecordTyped DEF RejectBlocked, Credit
    <2>2. held' \in [Deposit -> Nat] /\ campaign' \in [Campaign -> CampaignRow]
      BY <1>5, ReleasePlaceTyped DEF RejectBlocked
    <2>3. "failed" \in DepositStatus /\ "blocked_user" \in Reason
      BY DEF DepositStatus, Reason
    <2> QED BY <1>0, <1>5, <2>1, <2>2, <2>3, SetStatusTyped DEF RejectBlocked, ProcessTypes
  <1> QED BY <1>1, <1>2, <1>3, <1>4, <1>5 DEF Rejected

LEMMA SettledTyped ==
    ASSUME TypeOK, NEW t \in TxIds, NEW d \in Deposit, NEW exact \in BOOLEAN,
           NEW manual \in BOOLEAN, Settled(t, d, exact, manual)
    PROVE  ProcessTypes'
  <1>1. payments' \in Seq(Payment)
    BY RecordTyped DEF Settled, Credit
  <1>2. /\ status' \in [Deposit -> DepositStatus] /\ reason' \in [Deposit -> Reason]
        /\ due' \in [Deposit -> BOOLEAN] /\ quantity' \in [Deposit -> Nat]
        /\ sale' \in [Deposit -> Campaign \cup {NoSale}]
    <2>1. "paid" \in DepositStatus /\ "none" \in Reason
      BY DEF DepositStatus, Reason
    <2> QED BY <2>1, SetStatusTyped DEF Settled
  <1>3. overtaken' \subseteq Campaign
    BY DEF Settled, TypeOK
  <1>4. CASE Deliver(d)
    BY <1>1, <1>2, <1>3, <1>4, WriteOrdersTyped DEF Deliver, TypeOK, ProcessTypes
  <1>5. CASE DeliverLater(d)
    BY <1>1, <1>2, <1>3, <1>5 DEF DeliverLater, TypeOK, ProcessTypes
  <1>6. CASE CreditWallet(d)
    <2>1. events' \subseteq {"deposit", "refund"} \X Deposit
      BY <1>6 DEF CreditWallet, ToWallet, TypeOK
    <2>2. attempt' \in [Deposit -> {"none", "processing", "succeeded", "failed"}]
      BY <1>6 DEF CreditWallet, TypeOK
    <2>3. CASE ReleasePlace(d)
      BY <1>1, <1>2, <1>3, <1>6, <2>1, <2>2, <2>3, ReleasePlaceTyped
         DEF CreditWallet, TypeOK, ProcessTypes
    <2>4. CASE /\ sale[d] # NoSale
               /\ held' = [held EXCEPT ![d] = 0]
               /\ campaign' = [campaign EXCEPT
                     ![sale[d]] = [AfterRelease(@, held[d]) EXCEPT !.status = "unsafe"]]
      <3>1. sale[d] \in Campaign /\ campaign[sale[d]] \in CampaignRow /\ held[d] \in Nat
        BY <2>4 DEF TypeOK
      <3>2. AfterRelease(campaign[sale[d]], held[d]) \in CampaignRow
        BY <3>1, ReleaseTyped
      <3>3. [AfterRelease(campaign[sale[d]], held[d]) EXCEPT !.status = "unsafe"] \in CampaignRow
        BY <3>2 DEF CampaignRow, CampaignStatus
      <3>4. held' \in [Deposit -> Nat] /\ campaign' \in [Campaign -> CampaignRow]
        BY <2>4, <3>1, <3>3 DEF TypeOK
      <3> QED BY <1>1, <1>2, <1>3, <1>6, <2>1, <2>2, <3>4 DEF CreditWallet, TypeOK, ProcessTypes
    <2> QED BY <1>6, <2>3, <2>4 DEF CreditWallet
  <1>7. CASE PlacePreorder(d)
    BY <1>1, <1>2, <1>3, <1>7 DEF PlacePreorder, ToWallet, TypeOK, ProcessTypes
  <1> QED BY <1>4, <1>5, <1>6, <1>7 DEF Settled

LEMMA ProcessTyped ==
    ASSUME TypeOK, NEW t \in TxIds, NEW d \in Deposit, NEW exact \in BOOLEAN,
           NEW manual \in BOOLEAN, Process(t, d, exact, manual)
    PROVE  ProcessTypes'
  BY RejectedTyped, SettledTyped DEF Process

LEMMA TypedNext == TypeOK /\ [Next]_vars => TypeOK'
  <1> SUFFICES ASSUME TypeOK, [Next]_vars PROVE TypeOK'
    OBVIOUS
  <1> USE DEF request, outcome, flash
  <1>0. CASE UNCHANGED vars
    BY <1>0 DEF vars, TypeOK
  <1>1. ASSUME NEW h \in Chat, NEW c \in Campaign, OpenCheckout(h, c) PROVE TypeOK'
    BY <1>1 DEF OpenCheckout, TypeOK, View
  <1>2. ASSUME NEW h \in Chat, LeaveCheckout(h) PROVE TypeOK'
    BY <1>2 DEF LeaveCheckout, TypeOK, View
  <1>3. ASSUME NEW h \in Chat, NEW d \in Deposit, NEW q \in Quantities,
               CreateFlashDeposit(h, d, q) PROVE TypeOK'
    <2>1. q \in Nat
      BY QuantityAssumption
    <2>2. view[h].id \in Campaign /\ view[h].seen \in CampaignRow
      BY <1>3 DEF CreateFlashDeposit, TypeOK, View
    <2>3. AfterReserve(view[h].seen, q) \in CampaignRow
      BY <2>1, <2>2, ReserveTyped
    <2>4. campaign' \in [Campaign -> CampaignRow]
      <3> DEFINE c == view[h].id
                 s == IF AfterReserve(view[h].seen, q).status = view[h].seen.status
                      THEN campaign[c].status ELSE AfterReserve(view[h].seen, q).status
                 n == AfterReserve(view[h].seen, q).reserved
      <3>1. s \in CampaignStatus /\ n \in Nat
        BY <2>2, <2>3, RowTyped DEF TypeOK
      <3>2. campaign' = [campaign EXCEPT ![c].reserved = n, ![c].status = s]
        BY <1>3 DEF CreateFlashDeposit
      <3>3. campaign[c] \in CampaignRow
        BY <2>2 DEF TypeOK
      <3>4. [campaign[c] EXCEPT !.reserved = n, !.status = s] \in CampaignRow
        <4> HIDE DEF n, s
        <4> QED BY <3>1, <3>3 DEF CampaignRow
      <3>5. campaign' = [campaign EXCEPT ![c] = [campaign[c] EXCEPT !.reserved = n, !.status = s]]
        <4> HIDE DEF n, s
        <4> QED BY <3>2, <2>2 DEF TypeOK
      <3> HIDE DEF n, s, c
      <3> QED BY <3>4, <3>5 DEF TypeOK
    <2>5. /\ status' \in [Deposit -> DepositStatus] /\ quantity' \in [Deposit -> Nat]
          /\ sale' \in [Deposit -> Campaign \cup {NoSale}]
          /\ held' \in [Deposit -> Nat]
      BY <1>3, <2>1, <2>2 DEF CreateFlashDeposit, Insert, TypeOK, DepositStatus
    <2>6. overtaken' \subseteq Campaign /\ view' \in [Chat -> View]
      BY <1>3, <2>2 DEF CreateFlashDeposit, TypeOK, View
    <2> QED BY <1>3, <2>4, <2>5, <2>6 DEF CreateFlashDeposit, Insert, TypeOK
  <1>4. ASSUME NEW d \in Deposit, NEW q \in Quantities, CreateDeposit(d, q) PROVE TypeOK'
    BY <1>4, QuantityAssumption DEF CreateDeposit, Insert, TypeOK, DepositStatus
  <1>5. ASSUME NEW c \in Campaign, NEW q \in Quantities, BuyFromWallet(c, q) PROVE TypeOK'
    <2>1. q \in Nat
      BY QuantityAssumption
    <2>2. AfterConsume(campaign[c], q) \in CampaignRow
      BY <2>1, ConsumeTyped DEF TypeOK
    <2> QED BY <1>5, <2>1, <2>2 DEF BuyFromWallet, TypeOK
  <1>6. ASSUME NEW t \in Tx, NEW d \in Deposit, SubmitTransaction(t, d) PROVE TypeOK'
    <2>1. [tx |-> t, deposit |-> d, credit |-> "submitted"] \in Payment
      BY DEF Payment, Credit
    <2>2. payments' \in Seq(Payment)
      BY <1>6, <2>1 DEF SubmitTransaction, TypeOK
    <2> QED BY <1>6, <2>2 DEF SubmitTransaction, TypeOK
  <1>7. ASSUME NEW t \in Tx, NEW d \in Deposit, NEW exact \in BOOLEAN, Reported(t, d, exact)
        PROVE  TypeOK'
    <2>1. ProcessTypes'
      BY <1>7, ProcessTyped DEF Reported, TxIds
    <2> QED BY <1>7, <2>1 DEF Reported, TypeOK, ProcessTypes
  <1>8. ASSUME NEW t \in Tx, LookupRejects(t) PROVE TypeOK'
    <2>1. payments' \in Seq(Payment)
      BY <1>8, MarkedTyped DEF LookupRejects, Credit
    <2> QED BY <1>8, <2>1 DEF LookupRejects, TypeOK
  <1>9. ASSUME NEW t \in Tx, AbandonLookup(t) PROVE TypeOK'
    BY <1>9 DEF AbandonLookup, TypeOK
  <1>10. ASSUME NEW t \in Tx, NEW u \in Tx, RenameTransaction(t, u) PROVE TypeOK'
    <2>1. Len(payments) \in Nat /\ DOMAIN payments = 1 .. Len(payments)
      BY DEF TypeOK
    <2>2. \A i \in DOMAIN payments : payments[i] \in Payment
      BY DEF TypeOK
    <2>3. \A i \in DOMAIN payments : [payments[i] EXCEPT !.tx = u] \in Payment
      BY <2>2 DEF Payment
    <2>4. payments' \in Seq(Payment)
      BY <1>10, <2>1, <2>2, <2>3 DEF RenameTransaction
    <2> QED BY <1>10, <2>4 DEF RenameTransaction, TypeOK
  <1>11. ASSUME NEW t \in Tx, NEW d \in Deposit, LookupConfirms(t, d) PROVE TypeOK'
    <2>1. ProcessTypes'
      BY <1>11, ProcessTyped DEF LookupConfirms, TxIds
    <2> QED BY <1>11, <2>1 DEF LookupConfirms, TypeOK, ProcessTypes
  <1>12. ASSUME NEW c \in Campaign, NEW n \in Totals, StartFlashSale(c, n) PROVE TypeOK'
    <2>1. [NoCampaign EXCEPT !.status = "active", !.total = n] \in CampaignRow
      BY QuantityAssumption DEF NoCampaign, CampaignRow, CampaignStatus
    <2> QED BY <1>12, <2>1 DEF StartFlashSale, TypeOK
  <1>13. ASSUME NEW c \in Campaign, CancelFlashSale(c) PROVE TypeOK'
    <2>1. [campaign[c] EXCEPT !.status = "cancelled"] \in CampaignRow
      BY DEF TypeOK, CampaignRow, CampaignStatus
    <2> QED BY <1>13, <2>1 DEF CancelFlashSale, TypeOK
  <1>14. ASSUME NEW c \in Campaign, StopUnsafe(c) PROVE TypeOK'
    <2>1. [campaign[c] EXCEPT !.status = "unsafe"] \in CampaignRow
      BY DEF TypeOK, CampaignRow, CampaignStatus
    <2> QED BY <1>14, <2>1 DEF StopUnsafe, TypeOK
  <1>15. ASSUME NEW d \in Deposit, ApproveWallet(d) PROVE TypeOK'
    <2>1. AdminTx(d) \in TxIds /\ "credited" \in Credit /\ "paid" \in DepositStatus /\ "none" \in Reason
      BY DEF TxIds, Credit, DepositStatus, Reason
    <2>2. payments' \in Seq(Payment)
      BY <1>15, <2>1, RecordTyped DEF ApproveWallet
    <2>3. events' \subseteq {"deposit", "refund"} \X Deposit
      BY <1>15 DEF ApproveWallet, ToWallet, TypeOK
    <2>4. /\ status' \in [Deposit -> DepositStatus] /\ reason' \in [Deposit -> Reason]
          /\ due' \in [Deposit -> BOOLEAN] /\ quantity' \in [Deposit -> Nat]
          /\ sale' \in [Deposit -> Campaign \cup {NoSale}]
      BY <1>15, <2>1, SetStatusTyped DEF ApproveWallet
    <2> QED BY <1>15, <2>2, <2>3, <2>4 DEF ApproveWallet, TypeOK
  <1>16. ASSUME NEW d \in Deposit, CancelWallet(d) PROVE TypeOK'
    BY <1>16 DEF CancelWallet, SetStatus, TypeOK, DepositStatus, Reason
  <1>17. ASSUME NEW d \in Deposit, CancelPurchase(d) PROVE TypeOK'
    BY <1>17, ReleasePlaceTyped DEF CancelPurchase, SetStatus, TypeOK, DepositStatus, Reason
  <1>18. ASSUME NEW d \in Deposit, OpenApproval(d) PROVE TypeOK'
    BY <1>18 DEF OpenApproval, SetStatus, TypeOK, DepositStatus, Reason
  <1>19. ASSUME NEW d \in Deposit, FinishApproval(d) PROVE TypeOK'
    <2>1. ProcessTypes'
      BY <1>19, ProcessTyped DEF FinishApproval, TxIds
    <2> QED BY <1>19, <2>1 DEF FinishApproval, TypeOK, ProcessTypes
  <1>20. ASSUME NEW d \in Deposit, AbandonApproval(d) PROVE TypeOK'
    BY <1>20 DEF AbandonApproval, TypeOK
  <1>21. ASSUME NEW d \in Deposit, PassDeadline(d) PROVE TypeOK'
    BY <1>21 DEF PassDeadline, TypeOK
  <1>22. ASSUME NEW d \in Deposit, ExpireDeposit(d) PROVE TypeOK'
    BY <1>22, ReleasePlaceTyped DEF ExpireDeposit, SetStatus, TypeOK, DepositStatus, Reason
  <1>23. ASSUME NEW d \in Deposit, SettleDone(d) PROVE TypeOK'
    BY <1>23, WriteOrdersTyped DEF SettleDone, TypeOK
  <1>24. ASSUME NEW d \in Deposit, SettleFailed(d) PROVE TypeOK'
    <2>1. Len(payments) \in Nat /\ DOMAIN payments = 1 .. Len(payments)
      BY DEF TypeOK
    <2>2. \A i \in DOMAIN payments : payments[i] \in Payment
      BY DEF TypeOK
    <2>4. \A i \in DOMAIN payments : [payments[i] EXCEPT !.credit = "refunded"] \in Payment
      BY <2>2 DEF Payment, Credit
    <2>3. payments' \in Seq(Payment)
      BY <1>24, <2>1, <2>2, <2>4 DEF SettleFailed, MarkRefunded
    <2>5. held' \in [Deposit -> Nat] /\ campaign' \in [Campaign -> CampaignRow]
      BY <1>24, ReleasePlaceTyped DEF SettleFailed
    <2>6. reason' \in [Deposit -> Reason] /\ events' \subseteq {"deposit", "refund"} \X Deposit
          /\ attempt' \in [Deposit -> {"none", "processing", "succeeded", "failed"}]
      BY <1>24 DEF SettleFailed, TypeOK, Reason
    <2> QED BY <1>24, <2>3, <2>5, <2>6 DEF SettleFailed, TypeOK
  <1> QED BY <1>0, <1>1, <1>2, <1>3, <1>4, <1>5, <1>6, <1>7, <1>8, <1>9, <1>10, <1>11,
             <1>12, <1>13, <1>14, <1>15, <1>16, <1>17, <1>18, <1>19, <1>20, <1>21, <1>22,
             <1>23, <1>24
          DEF Next, Customer, Bank, Admin, Background, Webhook, BinanceWebhook

\* Every variable keeps its type: the tables of app/models.py as Deposits has them.
THEOREM DepositsTypeCorrect == Spec => []TypeOK
  <1> QED BY TypedInit, TypedNext, PTL DEF Spec

-----------------------------------------------------------------------------
(***************************************************************************)
(* A payment that was settled stays settled.                               *)
(***************************************************************************)
PaidStays == \A e \in Deposit : status[e] = "paid" => status'[e] = "paid"

LEMMA ProcessKeepsPaid ==
    ASSUME TypeOK, NEW t, NEW d \in Deposit, NEW exact, NEW manual,
           Process(t, d, exact, manual)
    PROVE  PaidStays
  <1> USE DEF request
  <1>1. CASE Rejected(t, d, exact, manual)
    BY <1>1 DEF Rejected, RejectPaid, RejectLate, RejectClosed, RejectAmount, RejectBlocked,
                Payable, SetStatus, TypeOK, PaidStays
  <1>2. CASE Settled(t, d, exact, manual)
    BY <1>2 DEF Settled, SetStatus, TypeOK, PaidStays
  <1> QED BY <1>1, <1>2 DEF Process

LEMMA NextKeepsPaid == TypeOK /\ [Next]_vars => PaidStays
  <1> SUFFICES ASSUME TypeOK, [Next]_vars PROVE PaidStays
    OBVIOUS
  <1> USE DEF request
  <1>0. CASE UNCHANGED vars
    BY <1>0 DEF vars, PaidStays
  <1>1. CASE Customer
    BY <1>1 DEF Customer, OpenCheckout, LeaveCheckout, CreateFlashDeposit, CreateDeposit, Insert,
                BuyFromWallet, SubmitTransaction, TypeOK, PaidStays
  <1>2. CASE Bank
    <2>1. ASSUME NEW t \in Tx, NEW d \in Deposit, NEW exact \in BOOLEAN, Reported(t, d, exact)
          PROVE  PaidStays
      BY <2>1, ProcessKeepsPaid DEF Reported
    <2>2. ASSUME NEW t \in Tx, NEW d \in Deposit, LookupConfirms(t, d)
          PROVE  PaidStays
      BY <2>2, ProcessKeepsPaid DEF LookupConfirms
    <2>3. ASSUME NEW t \in Tx, LookupRejects(t) \/ AbandonLookup(t)
          PROVE  PaidStays
      BY <2>3 DEF LookupRejects, AbandonLookup, PaidStays
    <2>4. ASSUME NEW t \in Tx, NEW u \in Tx, RenameTransaction(t, u)
          PROVE  PaidStays
      BY <2>4 DEF RenameTransaction, PaidStays
    <2> QED BY <1>2, <2>1, <2>2, <2>3, <2>4 DEF Bank, Webhook, BinanceWebhook
  <1>3. CASE Admin
    <2>1. ASSUME NEW d \in Deposit, FinishApproval(d) PROVE PaidStays
      BY <2>1, ProcessKeepsPaid DEF FinishApproval
    <2>2. ASSUME NEW d \in Deposit,
                 \/ ApproveWallet(d) \/ CancelWallet(d) \/ CancelPurchase(d)
                 \/ OpenApproval(d) \/ AbandonApproval(d)
          PROVE  PaidStays
      BY <2>2 DEF ApproveWallet, CancelWallet, CancelPurchase, OpenApproval, AbandonApproval,
                  Expired, SetStatus, TypeOK, PaidStays
    <2>3. ASSUME NEW c \in Campaign, CancelFlashSale(c) \/ \E n \in Totals : StartFlashSale(c, n)
          PROVE  PaidStays
      BY <2>3 DEF CancelFlashSale, StartFlashSale, PaidStays
    <2> QED BY <1>3, <2>1, <2>2, <2>3 DEF Admin
  <1>4. CASE Background
    BY <1>4 DEF Background, StopUnsafe, PassDeadline, ExpireDeposit, SettleDone, SettleFailed,
                SetStatus, TypeOK, PaidStays
  <1> QED BY <1>0, <1>1, <1>2, <1>3, <1>4 DEF Next

-----------------------------------------------------------------------------
(***************************************************************************)
(* The recorded payments.                                                  *)
(***************************************************************************)
Crediting == {"credited", "refunded"}

\* A verdict that credits nothing takes nothing away but a credit.
LEMMA MarkSound ==
    ASSUME TypeOK, PaymentsSound, PaidStays, NEW t, NEW credit \in Credit \ Crediting,
           payments' = Marked(t, credit)
    PROVE  PaymentsSound'
  <1>1. DOMAIN payments' = DOMAIN payments
    BY DEF Marked
  <1>2. \A i \in DOMAIN payments : payments[i] \in Payment
    BY DEF TypeOK
  <1>3. \A i \in DOMAIN payments :
          /\ payments'[i].tx = payments[i].tx /\ payments'[i].deposit = payments[i].deposit
          /\ payments'[i].credit \in Crediting => payments[i].credit \in Crediting
    BY <1>2 DEF Marked, Payment
  <1>4. \A i \in DOMAIN payments : payments[i].deposit \in Deposit
    BY <1>2 DEF Payment
  <1> QED BY <1>1, <1>3, <1>4 DEF PaymentsSound, OneCredit, PaidStays, Crediting

\* A new row, which may credit a request that was not paid.
LEMMA AppendSound ==
    ASSUME TypeOK, PaymentsSound, PaidStays, NEW t, NEW d \in Deposit, NEW credit \in Credit,
           ~Used(t), \A e \in Deposit : t = AdminTx(e) => e = d,
           credit \in Crediting => status[d] # "paid" /\ status'[d] = "paid",
           payments' = Append(payments, [tx |-> t, deposit |-> d, credit |-> credit])
    PROVE  PaymentsSound'
  <1> DEFINE n == Len(payments) + 1
             r == [tx |-> t, deposit |-> d, credit |-> credit]
  <1>1. /\ DOMAIN payments' = DOMAIN payments \cup {n} /\ n \notin DOMAIN payments
        /\ payments'[n] = r
        /\ \A i \in DOMAIN payments : payments'[i] = payments[i]
    BY DEF TypeOK
  <1>2. \A i \in DOMAIN payments : payments[i].tx # t /\ payments[i].deposit \in Deposit
    <2>1. \A i \in DOMAIN payments : payments[i] \in Payment
      BY DEF TypeOK
    <2> QED BY <2>1 DEF Used, Payment
  <1>3. r.tx = t /\ r.deposit = d /\ r.credit = credit
    OBVIOUS
  <1> HIDE DEF n, r
  <1>4. \A i, j \in DOMAIN payments' : payments'[i].tx = payments'[j].tx => i = j
    BY <1>1, <1>2, <1>3 DEF PaymentsSound
  <1>5. \A i \in DOMAIN payments', e \in Deposit :
          payments'[i].tx = AdminTx(e) => payments'[i].deposit = e
    BY <1>1, <1>3 DEF PaymentsSound
  <1>6. \A i \in DOMAIN payments :
          payments[i].credit \in Crediting => status[payments[i].deposit] = "paid"
    BY DEF PaymentsSound, OneCredit, Crediting
  <1>7. OneCredit'
    BY <1>1, <1>2, <1>3, <1>6 DEF PaymentsSound, OneCredit, PaidStays, Crediting
  <1> QED BY <1>4, <1>5, <1>7 DEF PaymentsSound, AdminTx

\* The row of t, which belongs to d, credits d.
LEMMA CreditMarkSound ==
    ASSUME TypeOK, PaymentsSound, PaidStays, NEW t, NEW d \in Deposit,
           \A i \in DOMAIN payments : payments[i].tx = t => payments[i].deposit = d,
           status[d] # "paid", status'[d] = "paid",
           payments' = Marked(t, "credited")
    PROVE  PaymentsSound'
  <1>1. DOMAIN payments' = DOMAIN payments
    BY DEF Marked
  <1>2. \A i \in DOMAIN payments : payments[i] \in Payment
    BY DEF TypeOK
  <1>3. \A i \in DOMAIN payments :
          /\ payments'[i].tx = payments[i].tx /\ payments'[i].deposit = payments[i].deposit
          /\ payments[i].tx # t => payments'[i].credit = payments[i].credit
    BY <1>2 DEF Marked, Payment
  <1>4. \A i \in DOMAIN payments : payments[i].deposit \in Deposit
    BY <1>2 DEF Payment
  <1>5. \A i \in DOMAIN payments :
          payments[i].credit \in Crediting => status[payments[i].deposit] = "paid"
    BY DEF PaymentsSound, OneCredit, Crediting
  <1>6. OneCredit'
    BY <1>1, <1>3, <1>4, <1>5 DEF PaymentsSound, OneCredit, PaidStays, Crediting
  <1> QED BY <1>1, <1>3, <1>6 DEF PaymentsSound, AdminTx

LEMMA RecordSound ==
    ASSUME TypeOK, PaymentsSound, PaidStays, NEW t, NEW d \in Deposit, NEW credit \in Credit,
           \A e \in Deposit : t = AdminTx(e) => e = d,
           \A i \in DOMAIN payments : payments[i].tx = t => payments[i].deposit = d,
           credit \in Crediting => credit = "credited" /\ status[d] # "paid" /\ status'[d] = "paid",
           Record(t, d, credit)
    PROVE  PaymentsSound'
  <1>1. CASE ~Used(t)
    BY <1>1, AppendSound DEF Record
  <1>2. CASE Used(t) /\ credit \in Crediting
    BY <1>2, CreditMarkSound DEF Record
  <1>3. CASE Used(t) /\ credit \notin Crediting
    BY <1>3, MarkSound DEF Record
  <1> QED BY <1>1, <1>2, <1>3

\* The rows of t belong to d when d's payment is processed.
LEMMA ProcessSound ==
    ASSUME TypeOK, PaymentsSound, NEW t, NEW d \in Deposit,
           NEW exact \in BOOLEAN, NEW manual \in BOOLEAN,
           \A e \in Deposit : t = AdminTx(e) => e = d,
           Process(t, d, exact, manual)
    PROVE  PaymentsSound'
  <1>1. PaidStays
    BY ProcessKeepsPaid
  <1>2. \A i \in DOMAIN payments : payments[i].tx = t => payments[i].deposit = d
    BY DEF Process, Accepts
  <1>3. CASE Rejected(t, d, exact, manual)
    <2>1. PICK credit \in Credit \ Crediting : Record(t, d, credit)
      BY <1>3 DEF Rejected, RejectPaid, RejectLate, RejectClosed, RejectAmount, RejectBlocked,
                  Credit, Crediting
    <2> QED BY <1>1, <1>2, <2>1, RecordSound
  <1>4. CASE Settled(t, d, exact, manual)
    <2>1. status[d] # "paid" /\ status'[d] = "paid"
      BY <1>4 DEF Settled, Payable, SetStatus, TypeOK
    <2>2. Record(t, d, "credited") /\ "credited" \in Credit
      BY <1>4 DEF Settled, Credit
    <2> QED BY <1>1, <1>2, <2>1, <2>2, RecordSound
  <1> QED BY <1>3, <1>4 DEF Process

LEMMA PaymentsInit == Init => PaymentsSound
  BY DEF Init, PaymentsSound, OneCredit

LEMMA PaymentsNext == TypeOK /\ PaymentsSound /\ [Next]_vars => PaymentsSound'
  <1> SUFFICES ASSUME TypeOK, PaymentsSound, [Next]_vars PROVE PaymentsSound'
    OBVIOUS
  <1> USE DEF outcome
  <1>p. PaidStays
    BY NextKeepsPaid
  <1>r. \A i \in DOMAIN payments : payments[i] \in Payment
    BY DEF TypeOK
  <1>0. ASSUME UNCHANGED payments PROVE PaymentsSound'
    <2>1. \A i \in DOMAIN payments : payments[i].deposit \in Deposit
      BY <1>r DEF Payment
    <2> QED BY <1>0, <1>p, <2>1 DEF PaymentsSound, OneCredit, PaidStays
  <1>1. ASSUME NEW t \in Tx, NEW d \in Deposit, NEW exact \in BOOLEAN, Reported(t, d, exact)
        PROVE  PaymentsSound'
    <2>1. \A e \in Deposit : t # AdminTx(e)
      BY TxAssumption DEF AdminTx
    <2>2. Process(t, d, exact, FALSE)
      BY <1>1 DEF Reported
    <2> QED BY <2>1, <2>2, ProcessSound
  <1>2. ASSUME NEW t \in Tx, NEW d \in Deposit, LookupConfirms(t, d)
        PROVE  PaymentsSound'
    BY <1>2, ProcessSound, TxAssumption DEF LookupConfirms, AdminTx
  <1>3. ASSUME NEW d \in Deposit, FinishApproval(d) PROVE PaymentsSound'
    <2>1. \A e \in Deposit : AdminTx(d) = AdminTx(e) => e = d
      BY DEF AdminTx
    <2> QED BY <1>3, <2>1, ProcessSound DEF FinishApproval
  <1>4. ASSUME NEW d \in Deposit, ApproveWallet(d) PROVE PaymentsSound'
    <2>1. \A e \in Deposit : AdminTx(d) = AdminTx(e) => e = d
      BY DEF AdminTx
    <2>2. \A i \in DOMAIN payments : payments[i].tx = AdminTx(d) => payments[i].deposit = d
      BY DEF PaymentsSound
    <2>3. status[d] # "paid" /\ status'[d] = "paid"
      BY <1>4 DEF ApproveWallet, SetStatus, TypeOK
    <2>4. Record(AdminTx(d), d, "credited") /\ "credited" \in Credit
      BY <1>4 DEF ApproveWallet, Credit
    <2> QED BY <1>p, <2>1, <2>2, <2>3, <2>4, RecordSound
  <1>5. ASSUME NEW t \in Tx, NEW d \in Deposit, SubmitTransaction(t, d) PROVE PaymentsSound'
    <2>1. "submitted" \in Credit /\ "submitted" \notin Crediting
      BY DEF Credit, Crediting
    <2>2. \A e \in Deposit : t # AdminTx(e)
      BY TxAssumption DEF AdminTx
    <2> QED BY <1>5, <1>p, <2>1, <2>2, AppendSound DEF SubmitTransaction
  <1>6. ASSUME NEW t \in Tx, LookupRejects(t) PROVE PaymentsSound'
    <2>1. "rejected" \in Credit \ Crediting
      BY DEF Credit, Crediting
    <2> QED BY <1>6, <1>p, <2>1, MarkSound DEF LookupRejects
  <1>7. ASSUME NEW t \in Tx, NEW u \in Tx, RenameTransaction(t, u) PROVE PaymentsSound'
    <2>1. DOMAIN payments' = DOMAIN payments
      BY <1>7 DEF RenameTransaction
    <2>2. \A i \in DOMAIN payments :
            /\ payments'[i].tx = IF payments[i].tx = t THEN u ELSE payments[i].tx
            /\ payments'[i].deposit = payments[i].deposit
            /\ payments'[i].credit = payments[i].credit
      BY <1>7, <1>r DEF RenameTransaction, Payment
    <2>3. \A i \in DOMAIN payments : payments[i].tx # u
      BY <1>7 DEF RenameTransaction, Used
    <2>4. \A e \in Deposit : u # AdminTx(e)
      BY TxAssumption DEF AdminTx
    <2>5. \A i \in DOMAIN payments : payments[i].deposit \in Deposit
      BY <1>r DEF Payment
    <2>6. \A i, j \in DOMAIN payments' : payments'[i].tx = payments'[j].tx => i = j
      BY <2>1, <2>2, <2>3 DEF PaymentsSound
    <2>7. \A i \in DOMAIN payments', e \in Deposit :
            payments'[i].tx = AdminTx(e) => payments'[i].deposit = e
      BY <2>1, <2>2, <2>4 DEF PaymentsSound
    <2>8. OneCredit'
      BY <2>1, <2>2, <2>5, <1>p DEF PaymentsSound, OneCredit, PaidStays
    <2> QED BY <2>6, <2>7, <2>8 DEF PaymentsSound, AdminTx
  <1>8. ASSUME NEW d \in Deposit, SettleFailed(d) PROVE PaymentsSound'
    <2>1. DOMAIN payments' = DOMAIN payments
      BY <1>8 DEF SettleFailed, MarkRefunded
    <2>2. \A i \in DOMAIN payments :
            /\ payments'[i].tx = payments[i].tx
            /\ payments'[i].deposit = payments[i].deposit
            /\ payments'[i].credit \in Crediting => payments[i].credit \in Crediting
      BY <1>8, <1>r DEF SettleFailed, MarkRefunded, Payment, Crediting
    <2>3. \A i \in DOMAIN payments : payments[i].deposit \in Deposit
      BY <1>r DEF Payment
    <2>4. OneCredit'
      BY <2>1, <2>2, <2>3, <1>p DEF PaymentsSound, OneCredit, PaidStays, Crediting
    <2> QED BY <2>1, <2>2, <2>4 DEF PaymentsSound, AdminTx
  <1>9. CASE UNCHANGED vars
    BY <1>0, <1>9 DEF vars
  <1>10. CASE Customer
    BY <1>0, <1>5, <1>10 DEF Customer, OpenCheckout, LeaveCheckout, CreateFlashDeposit,
       CreateDeposit, BuyFromWallet
  <1>11. CASE Bank
    BY <1>0, <1>1, <1>2, <1>6, <1>7, <1>11 DEF Bank, Webhook, BinanceWebhook, AbandonLookup
  <1>12. CASE Admin
    BY <1>0, <1>3, <1>4, <1>12 DEF Admin, StartFlashSale, CancelFlashSale, CancelWallet,
       CancelPurchase, OpenApproval, AbandonApproval
  <1>13. CASE Background
    BY <1>0, <1>8, <1>13 DEF Background, StopUnsafe, PassDeadline, ExpireDeposit, SettleDone
  <1> QED BY <1>9, <1>10, <1>11, <1>12, <1>13 DEF Next

\* A request is credited by one transaction at most, whatever webhooks, submitted ids
\* and manual approvals do (services.py, _process_sepay_payment).
THEOREM OneCreditAlways == Spec => []OneCredit
  <1>1. Init => TypeOK /\ PaymentsSound
    BY TypedInit, PaymentsInit
  <1>2. TypeOK /\ PaymentsSound /\ [Next]_vars => (TypeOK /\ PaymentsSound)'
    BY TypedNext, PaymentsNext
  <1>3. TypeOK /\ PaymentsSound => OneCredit
    BY DEF PaymentsSound
  <1> QED BY <1>1, <1>2, <1>3, PTL DEF Spec

-----------------------------------------------------------------------------
(***************************************************************************)
(* The requests.  A step changes one request and leaves the others alone.  *)
(***************************************************************************)
RowSound(e) == RequestSound(e) /\ PlaceSound(e)

Same(e) ==
    /\ status'[e] = status[e] /\ reason'[e] = reason[e] /\ quantity'[e] = quantity[e]
    /\ sale'[e] = sale[e] /\ held'[e] = held[e] /\ goods'[e] = goods[e]
    /\ attempt'[e] = attempt[e]
    /\ (e \in placed') <=> (e \in placed)
    /\ (e \in late') <=> (e \in late)
    /\ (<<"deposit", e>> \in events') <=> (<<"deposit", e>> \in events)
    /\ (<<"refund", e>> \in events') <=> (<<"refund", e>> \in events)

LEMMA SameSound == ASSUME NEW e \in Deposit, RowSound(e), Same(e) PROVE RowSound(e)'
  BY DEF RowSound, Same, RequestSound, PlaceSound, Untouched, Bought, LeftOpen

LEMMA RowInit == Init => \A e \in Deposit : RowSound(e)
  BY DEF Init, RowSound, RequestSound, PlaceSound, Untouched

LEMMA RejectedRow ==
    ASSUME TypeOK, NEW t, NEW d \in Deposit, NEW exact \in BOOLEAN, NEW manual \in BOOLEAN,
           Rejected(t, d, exact, manual), NEW e \in Deposit, RowSound(e)
    PROVE  RowSound(e)'
  <1> USE DEF request
  <1>1. CASE RejectPaid(t, d, exact)
    BY <1>1, SameSound DEF RejectPaid, Rejected, Same
  <1>2. CASE e # d
    BY <1>2, SameSound DEF Rejected, RejectPaid, RejectLate, RejectClosed, RejectAmount,
                           RejectBlocked, ReleasePlace, SetStatus, TypeOK, Same
  <1>3. CASE e = d /\ ~RejectPaid(t, d, exact)
    <2>1. /\ status[d] \in {"pending", "failed"}
          /\ \/ status'[d] = status[d] /\ reason'[d] = reason[d]
             \/ status'[d] = "failed" /\ reason'[d] \in {"expired", "blocked_user"}
          /\ status'[d] = "pending" => held'[d] = held[d] /\ reason'[d] = reason[d]
          /\ held'[d] = 0 \/ (held'[d] = held[d] /\ status'[d] = status[d])
      <3>t. /\ status \in [Deposit -> DepositStatus] /\ reason \in [Deposit -> Reason]
            /\ held \in [Deposit -> Nat]
        BY DEF TypeOK
      <3>1. CASE RejectLate(t, d)
        <4>1. held'[d] = 0
          BY <3>t, <3>1 DEF RejectLate, ReleasePlace
        <4>2. CASE status[d] = "pending" /\ SetStatus(d, "failed", "expired")
          <5>1. status'[d] = "failed" /\ reason'[d] = "expired"
            BY <3>t, <4>2 DEF SetStatus
          <5> QED BY <4>1, <4>2, <5>1
        <4>3. CASE status[d] = "failed" /\ UNCHANGED request
          BY <4>1, <4>3
        <4> QED BY <3>1, <4>2, <4>3 DEF RejectLate
      <3>2. CASE RejectClosed(t, d, manual)
        BY <3>2 DEF RejectClosed, ReleasePlace, TypeOK
      <3>3. CASE RejectAmount(t, d, manual)
        BY <3>3 DEF RejectAmount, Payable
      <3>4. CASE RejectBlocked(t, d, manual)
        <4>1. held'[d] = 0
          BY <3>t, <3>4 DEF RejectBlocked, ReleasePlace
        <4>2. SetStatus(d, "failed", "blocked_user") /\ status[d] \in {"pending", "failed"}
          BY <3>4 DEF RejectBlocked, Payable
        <4>3. status'[d] = "failed" /\ reason'[d] = "blocked_user"
          BY <3>t, <4>2 DEF SetStatus
        <4> QED BY <4>1, <4>2, <4>3
      <3> QED BY <1>3, <3>1, <3>2, <3>3, <3>4 DEF Rejected
    <2>2. /\ quantity'[d] = quantity[d] /\ sale'[d] = sale[d] /\ goods'[d] = goods[d]
          /\ UNCHANGED <<attempt, placed, late, events>>
      BY <1>3 DEF Rejected, RejectLate, RejectClosed, RejectAmount, RejectBlocked, SetStatus
    <2> QED BY <1>3, <2>1, <2>2 DEF RowSound, RequestSound, PlaceSound, Untouched, TypeOK
  <1> QED BY <1>1, <1>2, <1>3

\* What WriteOrders does to the request that is delivered.
LEMMA WriteOrdersRow ==
    ASSUME TypeOK, NEW d \in Deposit, WriteOrders(d)
    PROVE  /\ held'[d] = 0 /\ goods'[d] = goods[d] + quantity[d]
           /\ \A e \in Deposit \ {d} :
                 held'[e] = held[e] /\ goods'[e] = goods[e] /\ ((e \in late') <=> (e \in late))
  BY DEF WriteOrders, CompletePlace, TypeOK

LEMMA SettledRow ==
    ASSUME TypeOK, NEW t, NEW d \in Deposit, NEW exact \in BOOLEAN, NEW manual \in BOOLEAN,
           Settled(t, d, exact, manual), NEW e \in Deposit, RowSound(e)
    PROVE  RowSound(e)'
  <1> USE DEF request
  <1>0. /\ status[d] \in {"pending", "failed"} /\ status'[d] = "paid" /\ reason'[d] = "none"
        /\ quantity' = quantity /\ sale' = sale
        /\ \A f \in Deposit \ {d} : status'[f] = status[f] /\ reason'[f] = reason[f]
    BY DEF Settled, Payable, SetStatus, TypeOK
  <1>1. CASE e # d
    <2>1. CASE Deliver(d)
      BY <1>0, <1>1, <2>1, WriteOrdersRow, SameSound DEF Deliver, Same
    <2>2. CASE DeliverLater(d)
      BY <1>0, <1>1, <2>2, SameSound DEF DeliverLater, Same, TypeOK
    <2>3. CASE CreditWallet(d)
      BY <1>0, <1>1, <2>3, SameSound DEF CreditWallet, ToWallet, ReleasePlace, Same, TypeOK
    <2>4. CASE PlacePreorder(d)
      BY <1>0, <1>1, <2>4, SameSound DEF PlacePreorder, ToWallet, Same
    <2> QED BY <2>1, <2>2, <2>3, <2>4 DEF Settled
  <1>2. CASE e = d
    <2>0. Untouched(d) /\ quantity[d] > 0 /\ quantity[d] \in Nat /\ status'[d] # "absent"
      BY <1>0, <1>2 DEF RowSound, RequestSound, TypeOK
    <2>1. CASE Deliver(d)
      <3>1. held'[d] = 0 /\ goods'[d] > 0 /\ UNCHANGED <<events, placed, attempt>>
        BY <2>0, <2>1, WriteOrdersRow DEF Deliver, Untouched
      <3> QED BY <1>0, <1>2, <2>0, <3>1
              DEF RowSound, RequestSound, PlaceSound, Untouched, Bought
    <2>2. CASE DeliverLater(d)
      <3>1. attempt'[d] = "processing" /\ UNCHANGED <<events, placed, goods, late, held>>
        BY <2>2 DEF DeliverLater, TypeOK
      <3> QED BY <1>0, <1>2, <2>0, <3>1
              DEF RowSound, RequestSound, PlaceSound, Untouched, Bought
    <2>3. CASE CreditWallet(d)
      <3>1. /\ held'[d] = 0 /\ attempt'[d] \in {"none", "processing"}
            /\ <<"deposit", d>> \in events' /\ <<"refund", d>> \notin events'
            /\ UNCHANGED <<placed, goods>>
        BY <2>0, <2>3 DEF CreditWallet, ToWallet, ReleasePlace, Untouched, TypeOK
      <3> QED BY <1>0, <1>2, <2>0, <3>1
              DEF RowSound, RequestSound, PlaceSound, Untouched, Bought, LeftOpen
    <2>4. CASE PlacePreorder(d)
      <3>1. held'[d] = 0
        BY <1>2, <2>4 DEF PlacePreorder, RowSound, PlaceSound, TypeOK
      <3>2. UNCHANGED <<goods, attempt, late>> /\ <<"refund", d>> \notin events'
        BY <2>0, <2>4 DEF PlacePreorder, ToWallet, Untouched
      <3>3. \/ d \in placed' /\ <<"deposit", d>> \notin events'
            \/ d \notin placed' /\ <<"deposit", d>> \in events'
        BY <2>0, <2>4 DEF PlacePreorder, ToWallet, Untouched
      <3> QED BY <1>0, <1>2, <2>0, <3>1, <3>2, <3>3
              DEF RowSound, RequestSound, PlaceSound, Untouched, Bought
    <2> QED BY <2>1, <2>2, <2>3, <2>4 DEF Settled
  <1> QED BY <1>1, <1>2

LEMMA ProcessRow ==
    ASSUME TypeOK, NEW t, NEW d \in Deposit, NEW exact \in BOOLEAN, NEW manual \in BOOLEAN,
           Process(t, d, exact, manual), NEW e \in Deposit, RowSound(e)
    PROVE  RowSound(e)'
  BY RejectedRow, SettledRow DEF Process

LEMMA RowNext == TypeOK /\ [Next]_vars => \A e \in Deposit : RowSound(e) => RowSound(e)'
  <1> SUFFICES ASSUME TypeOK, [Next]_vars, NEW e \in Deposit, RowSound(e) PROVE RowSound(e)'
    OBVIOUS
  <1> USE DEF request, outcome, flash
  <1>0. CASE UNCHANGED vars
    BY <1>0, SameSound DEF vars, Same
  <1>1. ASSUME NEW h \in Chat, NEW d \in Deposit, NEW q \in Quantities,
               CreateFlashDeposit(h, d, q)
        PROVE  RowSound(e)'
    <2>1. q > 0 /\ q \in Nat /\ view[h].id \in Campaign /\ view[h].id # NoSale
      BY <1>1, QuantityAssumption, CampaignAssumption DEF CreateFlashDeposit, TypeOK, View
    <2>2. CASE e # d
      BY <1>1, <2>2, SameSound DEF CreateFlashDeposit, Insert, Same, TypeOK
    <2>3. CASE e = d
      <3>1. /\ status[d] = "absent" /\ status'[d] = "pending" /\ reason'[d] = reason[d]
            /\ quantity'[d] = q /\ held'[d] = q /\ sale'[d] # NoSale
            /\ Kind[d] = "direct_purchase"
            /\ UNCHANGED <<goods, events, placed, attempt, late>>
        BY <1>1, <2>1 DEF CreateFlashDeposit, Insert, TypeOK
      <3>2. d \notin late
        BY <2>3, <3>1 DEF RowSound, PlaceSound
      <3> QED BY <2>1, <2>3, <3>1, <3>2 DEF RowSound, RequestSound, PlaceSound, Untouched
    <2> QED BY <2>2, <2>3
  <1>2. ASSUME NEW d \in Deposit, NEW q \in Quantities, CreateDeposit(d, q)
        PROVE  RowSound(e)'
    <2>1. q > 0 /\ q \in Nat
      BY QuantityAssumption
    <2>2. CASE e # d
      BY <1>2, <2>2, SameSound DEF CreateDeposit, Insert, Same, TypeOK
    <2>3. CASE e = d
      <3>1. /\ status[d] = "absent" /\ status'[d] = "pending" /\ reason'[d] = reason[d]
            /\ quantity'[d] = q /\ UNCHANGED <<held, goods, events, placed, attempt, late>>
        BY <1>2, <2>1 DEF CreateDeposit, Insert, TypeOK
      <3>2. held[d] = 0
        BY <2>3, <3>1 DEF RowSound, RequestSound, PlaceSound, Untouched, TypeOK
      <3> QED BY <2>1, <2>3, <3>1, <3>2 DEF RowSound, RequestSound, PlaceSound, Untouched
    <2> QED BY <2>2, <2>3
  <1>3. CASE \/ \E h \in Chat : LeaveCheckout(h) \/ \E c \in Campaign : OpenCheckout(h, c)
             \/ \E c \in Campaign, q \in Quantities : BuyFromWallet(c, q)
             \/ \E t \in Tx, d \in Deposit : SubmitTransaction(t, d)
    BY <1>3, SameSound DEF LeaveCheckout, OpenCheckout, BuyFromWallet, SubmitTransaction, Same
  <1>4. ASSUME NEW t \in Tx, NEW d \in Deposit, NEW exact \in BOOLEAN, Reported(t, d, exact)
        PROVE  RowSound(e)'
    BY <1>4, ProcessRow DEF Reported
  <1>5. ASSUME NEW t \in Tx, NEW d \in Deposit, LookupConfirms(t, d) PROVE RowSound(e)'
    BY <1>5, ProcessRow DEF LookupConfirms
  <1>6. CASE \/ \E t \in Tx : LookupRejects(t) \/ AbandonLookup(t)
             \/ \E t, u \in Tx : RenameTransaction(t, u)
    BY <1>6, SameSound DEF LookupRejects, AbandonLookup, RenameTransaction, Same
  <1>7. CASE \E c \in Campaign : \/ StopUnsafe(c) \/ CancelFlashSale(c)
                                \/ \E n \in Totals : StartFlashSale(c, n)
    BY <1>7, SameSound DEF StopUnsafe, CancelFlashSale, StartFlashSale, Same
  <1>8. ASSUME NEW d \in Deposit, ApproveWallet(d) PROVE RowSound(e)'
    <2>1. CASE e # d
      BY <1>8, <2>1, SameSound DEF ApproveWallet, ToWallet, SetStatus, TypeOK, Same
    <2>2. CASE e = d
      <3>1. /\ status[d] \in {"pending", "failed"} /\ status'[d] = "paid" /\ reason'[d] = "none"
            /\ events' = events \cup {<<"deposit", d>>}
            /\ UNCHANGED <<quantity, sale, held, goods, placed, attempt, late>>
        BY <1>8 DEF ApproveWallet, ToWallet, SetStatus, TypeOK
      <3>2. held[d] = 0
        BY <1>8, <2>2 DEF ApproveWallet, WalletKind, RowSound, PlaceSound, TypeOK
      <3> QED BY <2>2, <3>1, <3>2 DEF RowSound, RequestSound, PlaceSound, Untouched, Bought
    <2> QED BY <2>1, <2>2
  <1>9. ASSUME NEW d \in Deposit, NEW s \in {"pending", "failed"}, NEW why \in Reason,
               status[d] \in {"pending", "failed"}, SetStatus(d, s, why),
               s = "pending" => why = "none",
               UNCHANGED <<goods, events, placed, attempt, late>>,
               \A f \in Deposit \ {d} : held'[f] = held[f],
               held'[d] = 0 \/ (held'[d] = held[d] /\ (s = "pending" \/ status[d] = "failed"))
        PROVE  RowSound(e)'
    <2>1. CASE e # d
      BY <1>9, <2>1, SameSound DEF SetStatus, TypeOK, Same
    <2>2. CASE e = d
      <3>1. status'[d] = s /\ reason'[d] = why /\ UNCHANGED <<quantity, sale>>
        BY <1>9 DEF SetStatus, TypeOK
      <3> QED BY <1>9, <2>2, <3>1 DEF RowSound, RequestSound, PlaceSound, Untouched
    <2> QED BY <2>1, <2>2
  <1>10. ASSUME NEW d \in Deposit, CancelWallet(d) PROVE RowSound(e)'
    <2>1. "admin_cancelled" \in Reason
      BY DEF Reason
    <2> QED BY <1>9, <1>10, <2>1 DEF CancelWallet, Expired
  <1>11. ASSUME NEW d \in Deposit, CancelPurchase(d) \/ ExpireDeposit(d) PROVE RowSound(e)'
    <2>1. "admin_cancelled" \in Reason /\ "expired" \in Reason
      BY DEF Reason
    <2>2. held'[d] = 0 /\ \A f \in Deposit \ {d} : held'[f] = held[f]
      BY <1>11 DEF CancelPurchase, ExpireDeposit, ReleasePlace, TypeOK
    <2> QED BY <1>9, <1>11, <2>1, <2>2 DEF CancelPurchase, ExpireDeposit, Expired
  <1>12. ASSUME NEW d \in Deposit, OpenApproval(d) PROVE RowSound(e)'
    <2>1. "none" \in Reason
      BY DEF Reason
    <2> QED BY <1>9, <1>12, <2>1 DEF OpenApproval, Expired
  <1>13. ASSUME NEW d \in Deposit, FinishApproval(d) PROVE RowSound(e)'
    BY <1>13, ProcessRow DEF FinishApproval
  <1>14. CASE \E d \in Deposit : AbandonApproval(d) \/ PassDeadline(d)
    BY <1>14, SameSound DEF AbandonApproval, PassDeadline, Same
  <1>15. ASSUME NEW d \in Deposit, SettleDone(d) PROVE RowSound(e)'
    <2>1. CASE e # d
      BY <1>15, <2>1, WriteOrdersRow, SameSound DEF SettleDone, TypeOK, Same
    <2>2. CASE e = d
      <3>1. /\ attempt[d] = "processing" /\ attempt'[d] = "succeeded" /\ status[d] = "paid"
            /\ held'[d] = 0 /\ goods'[d] = goods[d] + quantity[d]
            /\ UNCHANGED <<status, reason, quantity, sale, events, placed>>
        BY <1>15, WriteOrdersRow DEF SettleDone, TypeOK
      <3>2. goods'[d] > 0
        BY <2>2, <3>1 DEF RowSound, RequestSound, TypeOK
      <3> QED BY <2>2, <3>1, <3>2 DEF RowSound, RequestSound, PlaceSound, Bought, LeftOpen
    <2> QED BY <2>1, <2>2
  <1>16. ASSUME NEW d \in Deposit, SettleFailed(d) PROVE RowSound(e)'
    <2>1. /\ attempt[d] = "processing" /\ attempt'[d] = "failed"
          /\ reason'[d] = "supplier_order_failed" /\ held'[d] = 0
          /\ events' = events \cup {<<"refund", d>>}
          /\ UNCHANGED <<status, quantity, sale, goods, placed, late>>
          /\ \A f \in Deposit \ {d} :
                attempt'[f] = attempt[f] /\ reason'[f] = reason[f] /\ held'[f] = held[f]
      BY <1>16 DEF SettleFailed, ReleasePlace, TypeOK
    <2>2. CASE e # d
      BY <2>1, <2>2, SameSound DEF Same
    <2>3. CASE e = d
      <3>1. status[d] = "paid"
        BY <2>1, <2>3 DEF RowSound, RequestSound, Untouched
      <3> QED BY <2>1, <2>3, <3>1 DEF RowSound, RequestSound, PlaceSound, Bought, LeftOpen
    <2> QED BY <2>2, <2>3
  <1> QED BY <1>0, <1>1, <1>2, <1>3, <1>4, <1>5, <1>6, <1>7, <1>8, <1>10, <1>11, <1>12,
             <1>13, <1>14, <1>15, <1>16
          DEF Next, Customer, Bank, Admin, Background, Webhook, BinanceWebhook

\* What a sound request has brought.
LEMMA GainsCounted ==
    ASSUME TypeOK, NEW d \in Deposit, RowSound(d), ~LeftOpen(d)
    PROVE  Cardinality(Gains(d)) = IF status[d] = "paid" THEN 1 ELSE 0
  <1>0. goods[d] \in Nat /\ attempt[d] \in {"none", "processing", "succeeded", "failed"}
    BY DEF TypeOK
  <1>1. CASE status[d] # "paid"
    <2>1. Untouched(d)
      BY <1>1 DEF RowSound, RequestSound
    <2>2. Gains(d) = {}
      <3>1. /\ ~(goods[d] > 0) /\ attempt[d] # "processing" /\ d \notin placed
            /\ <<"deposit", d>> \notin events /\ <<"refund", d>> \notin events
        BY <2>1 DEF Untouched
      <3> QED BY <3>1 DEF Gains
    <2> QED BY <1>1, <2>2, FS_EmptySet
  <1>2. CASE status[d] = "paid"
    <2>0. Bought(d)
      BY <1>2 DEF RowSound, RequestSound
    <2>1. CASE attempt[d] = "none"
      <3>0. /\ <<"refund", d>> \notin events
            /\ \/ goods[d] > 0 /\ <<"deposit", d>> \notin events /\ d \notin placed
               \/ ~(goods[d] > 0) /\ <<"deposit", d>> \in events /\ d \notin placed
               \/ ~(goods[d] > 0) /\ <<"deposit", d>> \notin events /\ d \in placed
        BY <2>0, <2>1 DEF Bought
      <3>1. CASE goods[d] > 0
        <4>1. Gains(d) = {"goods"}
          BY <2>1, <3>0, <3>1 DEF Gains
        <4> QED BY <1>2, <4>1, FS_Singleton
      <3>2. CASE <<"deposit", d>> \in events
        <4>1. Gains(d) = {"wallet"}
          BY <2>1, <3>0, <3>2 DEF Gains
        <4> QED BY <1>2, <4>1, FS_Singleton
      <3>3. CASE d \in placed
        <4>1. Gains(d) = {"preorder"}
          BY <2>1, <3>0, <3>3 DEF Gains
        <4> QED BY <1>2, <4>1, FS_Singleton
      <3> QED BY <3>0, <3>1, <3>2, <3>3
    <2>2. CASE attempt[d] = "processing"
      <3>1. Gains(d) = {"open order"}
        BY <1>0, <2>0, <2>2 DEF Bought, Gains
      <3> QED BY <1>2, <3>1, FS_Singleton
    <2>3. CASE attempt[d] = "succeeded"
      <3>1. Gains(d) = {"goods"}
        BY <1>0, <2>0, <2>3 DEF Bought, Gains
      <3> QED BY <1>2, <3>1, FS_Singleton
    <2>4. CASE attempt[d] = "failed"
      <3>1. Gains(d) = {"refund"}
        BY <1>0, <2>0, <2>4 DEF Bought, Gains
      <3> QED BY <1>2, <3>1, FS_Singleton
    <2> QED BY <1>0, <2>1, <2>2, <2>3, <2>4
  <1> QED BY <1>1, <1>2

Requests == TypeOK /\ \A d \in Deposit : RowSound(d)

LEMMA RequestsAlways == Spec => []Requests
  <1>1. Init => Requests
    BY TypedInit, RowInit DEF Requests
  <1>2. Requests /\ [Next]_vars => Requests'
    BY TypedNext, RowNext DEF Requests
  <1> QED BY <1>1, <1>2, PTL DEF Spec

\* A paid request brings one thing and an unpaid one nothing, except for the orders
\* left open when their money went back (services.py, haji_pending.py).
THEOREM SettledOnceAlways == Spec => []SettledOnce
  <1>1. Requests => SettledOnce
    BY GainsCounted DEF Requests, SettledOnce
  <1> QED BY <1>1, RequestsAlways, PTL

\* A closed request holds no place of a campaign (flash_sales.py).
THEOREM PlaceGivenUpAlways == Spec => []PlaceGivenUp
  <1>1. Requests => PlaceGivenUp
    BY DEF Requests, PlaceGivenUp, RowSound, PlaceSound
  <1> QED BY <1>1, RequestsAlways, PTL

\* A settled payment stays settled, and a transfer does not pay what the admin has
\* cancelled, unless a wallet request is approved after all.
THEOREM SettledForGoodAlways == Spec => SettledForGood
  <1>1. ASSUME Requests, [Next]_vars, NEW d \in Deposit,
               reason[d] = "admin_cancelled", status'[d] = "paid"
        PROVE  WalletKind(d)
    <2> USE DEF request
    <2>0. status[d] = "failed"
      BY <1>1 DEF Requests, TypeOK, DepositStatus, RowSound, RequestSound
    <2>1. \A t, e, exact, manual : Process(t, e, exact, manual) => status'[d] = "failed"
      <3> SUFFICES ASSUME NEW t, NEW e, NEW exact, NEW manual, Process(t, e, exact, manual)
                   PROVE  status'[d] = "failed"
        OBVIOUS
      <3>1. CASE Rejected(t, e, exact, manual)
        BY <1>1, <2>0, <3>1 DEF Requests, TypeOK, Rejected, RejectPaid, RejectLate, RejectClosed,
           RejectAmount, RejectBlocked, SetStatus
      <3>2. CASE Settled(t, e, exact, manual)
        BY <1>1, <2>0, <3>2 DEF Requests, TypeOK, Settled, Payable, SetStatus
      <3> QED BY <3>1, <3>2 DEF Process
    <2>2. CASE \E e \in Deposit : ApproveWallet(e)
      BY <1>1, <2>0, <2>2 DEF ApproveWallet, SetStatus, Requests, TypeOK
    <2>3. CASE UNCHANGED vars
      BY <1>1, <2>0, <2>3 DEF vars
    <2>4. CASE Customer
      BY <1>1, <2>0, <2>4 DEF Customer, OpenCheckout, LeaveCheckout, CreateFlashDeposit,
         CreateDeposit, Insert, BuyFromWallet, SubmitTransaction, Requests, TypeOK
    <2>5. CASE Bank
      BY <1>1, <2>0, <2>1, <2>5 DEF Bank, Webhook, BinanceWebhook, Reported, LookupRejects,
         AbandonLookup, RenameTransaction, LookupConfirms
    <2>6. CASE Admin /\ ~\E e \in Deposit : ApproveWallet(e)
      BY <1>1, <2>0, <2>1, <2>6 DEF Admin, StartFlashSale, CancelFlashSale, CancelWallet,
         CancelPurchase, OpenApproval, FinishApproval, AbandonApproval, SetStatus, Requests, TypeOK
    <2>7. CASE Background
      BY <1>1, <2>0, <2>7 DEF Background, StopUnsafe, PassDeadline, ExpireDeposit, SettleDone,
         SettleFailed, SetStatus, Requests, TypeOK
    <2> QED BY <1>1, <2>2, <2>3, <2>4, <2>5, <2>6, <2>7 DEF Next
  <1>2. Requests /\ [Next]_vars =>
          [\A d \in Deposit :
             /\ status[d] = "paid" => status'[d] = "paid"
             /\ reason[d] = "admin_cancelled" /\ status'[d] = "paid" => WalletKind(d)]_vars
    BY <1>1, NextKeepsPaid DEF Requests, PaidStays
  <1> QED BY <1>2, RequestsAlways, PTL DEF Spec, SettledForGood

-----------------------------------------------------------------------------
LEMMA PlacesArePairs ==
    ASSUME NEW c
    PROVE  PlacesHeld(c) = Pairs(Of(c), held) /\ OrderedLate(c) = Pairs(Of(c) \cap late, goods)
  BY DEF PlacesHeld, OrderedLate

-----------------------------------------------------------------------------
(***************************************************************************)
(* A campaign row after each operation, field by field.                    *)
(***************************************************************************)
Open(k) == k.status = "active" \/ k.reserved > 0

LEMMA ReserveFields ==
    ASSUME NEW k \in CampaignRow, NEW q \in Nat
    PROVE  LET n == AfterReserve(k, q) IN
           n.reserved = k.reserved + q /\ n.sold = k.sold /\ n.total = k.total
  BY RowTyped DEF AfterReserve, CloseIfFull, CampaignRow

LEMMA ConsumeFields ==
    ASSUME NEW k \in CampaignRow, NEW q \in Nat
    PROVE  LET n == AfterConsume(k, q) IN
           n.reserved = k.reserved /\ n.sold = k.sold + q /\ n.total = k.total
  BY RowTyped DEF AfterConsume, CloseIfFull, CampaignRow

LEMMA CompleteFields ==
    ASSUME NEW k \in CampaignRow, NEW q \in Nat, q <= k.reserved
    PROVE  LET n == AfterComplete(k, q) IN
           /\ n.reserved = k.reserved - q /\ n.sold = k.sold + q /\ n.total = k.total
           /\ n.status = "active" => k.status = "active"
  BY RowTyped DEF AfterComplete, CloseIfFull, CampaignRow

LEMMA ReleaseFields ==
    ASSUME NEW k \in CampaignRow, NEW q \in Nat, q <= k.reserved
    PROVE  LET n == AfterRelease(k, q) IN
           n.reserved = k.reserved - q /\ n.sold = k.sold /\ n.total = k.total
  BY RowTyped DEF AfterRelease, CampaignRow

-----------------------------------------------------------------------------
(***************************************************************************)
(* The campaigns.  A step keeps the account of each, and opens none but    *)
(* when it starts.                                                         *)
(***************************************************************************)
Counted(c) ==
    /\ IsFiniteSet(PlacesHeld(c)) /\ IsFiniteSet(OrderedLate(c))
    /\ c \notin overtaken =>
         /\ campaign[c].reserved = Cardinality(PlacesHeld(c))
         /\ campaign[c].sold = saleOrders[c] - Cardinality(OrderedLate(c))
         /\ campaign[c].sold + campaign[c].reserved <= campaign[c].total

Kept(c) ==
    /\ Counted(c)'
    /\ c \notin overtaken' /\ Open(campaign'[c]) => Open(campaign[c])

LEMMA PlacesNext ==
    ASSUME NEW c
    PROVE  /\ PlacesHeld(c)' = Pairs({e \in Deposit : sale'[e] = c}, held')
           /\ OrderedLate(c)' = Pairs({e \in Deposit : sale'[e] = c} \cap late', goods')
  BY DEF PlacesHeld, OrderedLate, Of, Pairs

LEMMA PlacesStill ==
    ASSUME NEW c, sale' = sale
    PROVE  /\ PlacesHeld(c)' = Pairs(Of(c), held')
           /\ OrderedLate(c)' = Pairs(Of(c) \cap late', goods')
  BY DEF PlacesHeld, OrderedLate, Of, Pairs

\* The place of one request is given up.
LEMMA PlaceDropped ==
    ASSUME TypeOK, NEW d \in Deposit, sale' = sale, held' = [held EXCEPT ![d] = 0], NEW c
    PROVE  /\ sale[d] # c => PlacesHeld(c)' = PlacesHeld(c)
           /\ sale[d] = c /\ IsFiniteSet(PlacesHeld(c)) =>
                /\ IsFiniteSet(PlacesHeld(c)') /\ Cardinality(PlacesHeld(c)') \in Nat
                /\ Cardinality(PlacesHeld(c)) = Cardinality(PlacesHeld(c)') + held[d]
  <1> DEFINE g == held'
  <1>1. PlacesHeld(c) = Pairs(Of(c), held) /\ PlacesHeld(c)' = Pairs(Of(c), g)
    BY PlacesArePairs, PlacesStill
  <1>2. /\ \A e \in Of(c) : held[e] \in Nat /\ (e # d => g[e] = held[e])
        /\ g[d] = 0 /\ (sale[d] = c <=> d \in Of(c))
    BY DEF TypeOK, Of
  <1> HIDE DEF g
  <1>3. ASSUME sale[d] # c PROVE Pairs(Of(c), held) = Pairs(Of(c), g)
    <2>1. \A e \in Of(c) : held[e] \in Nat /\ g[e] = held[e]
      BY <1>2, <1>3
    <2> QED BY ONLY <2>1, PairsEqual
  <1>4. ASSUME sale[d] = c, IsFiniteSet(Pairs(Of(c), held))
        PROVE  /\ IsFiniteSet(Pairs(Of(c), g)) /\ Cardinality(Pairs(Of(c), g)) \in Nat
               /\ Cardinality(Pairs(Of(c), held)) = Cardinality(Pairs(Of(c), g)) + held[d]
    <2>1. d \in Of(c)
      BY <1>2, <1>4
    <2> QED BY ONLY <1>2, <1>4, <2>1, PairsDrop
  <1> QED BY <1>1, <1>3, <1>4

\* The counters and places of a campaign stay what they are.
LEMMA QuietKept ==
    ASSUME NEW c \in Campaign, Counted(c),
           campaign'[c].reserved = campaign[c].reserved, campaign'[c].sold = campaign[c].sold,
           campaign'[c].total = campaign[c].total,
           campaign'[c].status = "active" => Open(campaign[c]),
           saleOrders'[c] = saleOrders[c], c \in overtaken => c \in overtaken',
           PlacesHeld(c)' = PlacesHeld(c), OrderedLate(c)' = OrderedLate(c)
    PROVE  Kept(c)
  BY DEF Kept, Counted, Open

LEMMA UnchangedPlaces ==
    ASSUME NEW c, UNCHANGED <<sale, held, goods, late>>
    PROVE  PlacesHeld(c)' = PlacesHeld(c) /\ OrderedLate(c)' = OrderedLate(c)
  BY DEF PlacesHeld, OrderedLate, Of

LEMMA UnchangedKept ==
    ASSUME NEW c \in Campaign, Counted(c), UNCHANGED <<sale, goods, flash>>
    PROVE  Kept(c)
  BY UnchangedPlaces, QuietKept DEF flash, Open

\* A request gives its place back.
LEMMA ReleaseKept ==
    ASSUME TypeOK, NEW d \in Deposit,
           UNCHANGED <<sale, goods, late, saleOrders, overtaken>>,
           held' = [held EXCEPT ![d] = 0],
           \/ held[d] = 0 /\ campaign' = campaign
           \/ /\ sale[d] # NoSale
              /\ \E new \in CampaignRow :
                   /\ campaign' = [campaign EXCEPT ![sale[d]] = new]
                   /\ LET n == AfterRelease(campaign[sale[d]], held[d]) IN
                      /\ new.reserved = n.reserved /\ new.sold = n.sold
                      /\ new.total = n.total
                      /\ new.status \in {n.status, "unsafe"}
                   /\ held[d] > 0 \/ new.status = "unsafe",
           NEW c \in Campaign, Counted(c)
    PROVE  Kept(c)
  <1>1. OrderedLate(c)' = OrderedLate(c)
    BY DEF OrderedLate, Of
  <1>2. CASE sale[d] # c \/ (held[d] = 0 /\ campaign' = campaign)
    <2>1. campaign'[c] = campaign[c]
      BY <1>2, CampaignAssumption DEF TypeOK
    <2>2. PlacesHeld(c)' = PlacesHeld(c)
      BY <1>2, PlaceDropped DEF PlacesHeld, Of, Pairs
    <2> QED BY <1>1, <2>1, <2>2, QuietKept DEF Open
  <1>3. CASE sale[d] = c /\ ~(held[d] = 0 /\ campaign' = campaign)
    <2>1. /\ IsFiniteSet(PlacesHeld(c)') /\ Cardinality(PlacesHeld(c)') \in Nat
          /\ Cardinality(PlacesHeld(c)) = Cardinality(PlacesHeld(c)') + held[d]
      BY <1>3, PlaceDropped DEF Counted
    <2>2. CASE c \in overtaken
      BY <1>1, <2>1, <2>2 DEF Kept, Counted
    <2>3. CASE c \notin overtaken
      <3>0. campaign[c] \in CampaignRow /\ held[d] \in Nat
        BY DEF TypeOK
      <3>1. /\ campaign[c].reserved = Cardinality(PlacesHeld(c)') + held[d]
            /\ held[d] <= campaign[c].reserved
        BY <2>1, <2>3, <3>0 DEF Counted
      <3>2. /\ campaign'[c].reserved = campaign[c].reserved - held[d]
            /\ campaign'[c].sold = campaign[c].sold /\ campaign'[c].total = campaign[c].total
            /\ held[d] > 0 \/ campaign'[c].status = "unsafe"
        <4>1. PICK new \in CampaignRow :
                /\ campaign' = [campaign EXCEPT ![c] = new]
                /\ new.reserved = AfterRelease(campaign[c], held[d]).reserved
                /\ new.sold = AfterRelease(campaign[c], held[d]).sold
                /\ new.total = AfterRelease(campaign[c], held[d]).total
                /\ held[d] > 0 \/ new.status = "unsafe"
          BY <1>3
        <4>2. campaign'[c] = new
          BY <4>1 DEF TypeOK
        <4> QED BY <4>1, <4>2, <3>0, <3>1, ReleaseFields
      <3>3. Open(campaign'[c]) => Open(campaign[c])
        BY <3>0, <3>1, <3>2, <2>1, RowTyped DEF Open
      <3>4. Counted(c)'
        BY <1>1, <2>1, <2>3, <3>0, <3>1, <3>2, RowTyped DEF Counted
      <3> QED BY <3>3, <3>4 DEF Kept
    <2> QED BY <2>2, <2>3
  <1> QED BY <1>2, <1>3

\* The orders of a request are written, once: its place is sold, or there was none.
LEMMA WriteOrdersKept ==
    ASSUME TypeOK, NEW d \in Deposit, WriteOrders(d), RowSound(d), goods[d] = 0,
           UNCHANGED <<sale, overtaken>>, NEW c \in Campaign, Counted(c)
    PROVE  Kept(c)
  <1>0. /\ held' = [held EXCEPT ![d] = 0] /\ goods' = [goods EXCEPT ![d] = quantity[d]]
        /\ held[d] \in Nat /\ quantity[d] \in Nat /\ campaign[c] \in CampaignRow
        /\ saleOrders[c] \in Nat
    <2>1. held[d] \in Nat /\ quantity[d] \in Nat /\ campaign[c] \in CampaignRow
          /\ saleOrders[c] \in Nat
      BY DEF TypeOK
    <2>2. held' = [held EXCEPT ![d] = 0] /\ goods' = [goods EXCEPT ![d] = goods[d] + quantity[d]]
      BY DEF WriteOrders, CompletePlace
    <2>3. goods[d] + quantity[d] = quantity[d]
      BY <2>1
    <2> QED BY <2>1, <2>2, <2>3
  <1>1. CASE sale[d] # c
    <2>1. campaign'[c] = campaign[c] /\ saleOrders'[c] = saleOrders[c]
      BY <1>1, CampaignAssumption DEF WriteOrders, CompletePlace, TypeOK
    <2>2. PlacesHeld(c)' = PlacesHeld(c)
      BY <1>0, <1>1, PlaceDropped
    <2>3. OrderedLate(c)' = OrderedLate(c)
      <3>1. Of(c) \cap late' = Of(c) \cap late
        BY <1>1 DEF Of, WriteOrders
      <3>2. \A e \in Of(c) \cap late : goods[e] \in Nat /\ goods'[e] = goods[e]
        BY <1>0, <1>1 DEF Of, TypeOK
      <3>3. Pairs(Of(c) \cap late, goods) = Pairs(Of(c) \cap late, goods')
        BY <3>2, PairsEqual
      <3> QED BY <3>1, <3>3, PlacesStill, PlacesArePairs
    <2> QED BY <2>1, <2>2, <2>3, QuietKept DEF Open
  <1>2. CASE sale[d] = c
    <2>1. /\ IsFiniteSet(PlacesHeld(c)') /\ Cardinality(PlacesHeld(c)') \in Nat
          /\ Cardinality(PlacesHeld(c)) = Cardinality(PlacesHeld(c)') + held[d]
      BY <1>0, <1>2, PlaceDropped DEF Counted
    <2>2. /\ saleOrders'[c] = saleOrders[c] + quantity[d]
          /\ late' = IF held[d] = 0 THEN late \cup {d} ELSE late
          /\ campaign' = IF held[d] = 0 THEN campaign
                         ELSE [campaign EXCEPT ![c] = AfterComplete(@, held[d])]
      BY <1>2, CampaignAssumption DEF WriteOrders, CompletePlace, TypeOK
    <2>3. /\ OrderedLate(c)' = Pairs(Of(c) \cap late', goods')
          /\ OrderedLate(c) = Pairs(Of(c) \cap late, goods)
          /\ IsFiniteSet(Pairs(Of(c) \cap late, goods))
      BY PlacesStill, PlacesArePairs DEF Counted
    <2> DEFINE g == goods'
    <2>4. /\ \A e \in Of(c) \cap late : goods[e] \in Nat
          /\ \A e \in Of(c) \cap late : e # d => g[e] = goods[e]
          /\ g[d] = quantity[d]
      BY <1>0 DEF Of, TypeOK
    <2>5. CASE held[d] = 0
      <3>1. d \in Of(c) \cap late'
        BY <1>2, <2>2, <2>5 DEF Of
      <3>2. \A e : e # d => (e \in Of(c) \cap late <=> e \in Of(c) \cap late')
        BY <2>2, <2>5
      <3>3. /\ IsFiniteSet(OrderedLate(c)')
            /\ Cardinality(OrderedLate(c)') = Cardinality(OrderedLate(c)) + quantity[d]
        <4> DEFINE L == late'
        <4>1. d \in Of(c) \cap L /\ \A e : e # d => (e \in Of(c) \cap late <=> e \in Of(c) \cap L)
          BY <3>1, <3>2
        <4>2. quantity[d] \in Nat /\ goods[d] = 0
          BY <1>0
        <4>3. IsFiniteSet(Pairs(Of(c) \cap late, goods))
          BY <2>3
        <4> HIDE DEF L, g
        <4>4. /\ IsFiniteSet(Pairs(Of(c) \cap L, g))
              /\ Cardinality(Pairs(Of(c) \cap L, g))
                   = Cardinality(Pairs(Of(c) \cap late, goods)) + quantity[d]
          BY ONLY <2>4, <4>1, <4>2, <4>3, PairsAdd
        <4> QED BY <2>3, <4>4 DEF L, g
      <3>4. Cardinality(OrderedLate(c)) \in Nat
        BY FS_CardinalityType DEF Counted
      <3>5. Counted(c)'
        <4>1. /\ Cardinality(PlacesHeld(c)') = Cardinality(PlacesHeld(c))'
              /\ Cardinality(OrderedLate(c)') = Cardinality(OrderedLate(c))'
          OBVIOUS
        <4> QED BY <1>0, <2>1, <2>2, <2>5, <3>3, <3>4, <4>1, RowTyped DEF Counted
      <3> QED BY <2>2, <2>5, <3>5 DEF Kept, Counted
    <2>6. CASE held[d] > 0
      <3>1. held[d] = quantity[d] /\ d \notin late
        BY <2>6 DEF RowSound, PlaceSound
      <3>2. OrderedLate(c)' = OrderedLate(c)
        <4>1. late' = late
          BY <2>2, <2>6
        <4>2. \A e \in Of(c) \cap late : goods'[e] = goods[e] /\ goods[e] \in Nat
          BY <2>4, <3>1
        <4> QED BY <2>3, <4>1, <4>2, PairsEqual
      <3>3. CASE c \in overtaken
        BY <2>1, <3>2, <3>3 DEF Kept, Counted
      <3>4. CASE c \notin overtaken
        <4>1. /\ campaign[c].reserved = Cardinality(PlacesHeld(c)') + held[d]
              /\ held[d] <= campaign[c].reserved
          BY <2>1, <3>4, <1>0 DEF Counted
        <4>2. campaign'[c] = AfterComplete(campaign[c], held[d])
          BY <2>2, <2>6 DEF TypeOK
        <4>3. /\ campaign'[c].reserved = campaign[c].reserved - held[d]
              /\ campaign'[c].sold = campaign[c].sold + held[d]
              /\ campaign'[c].total = campaign[c].total
              /\ campaign'[c].status = "active" => campaign[c].status = "active"
          BY <1>0, <4>1, <4>2, CompleteFields
        <4>4. Open(campaign'[c]) => Open(campaign[c])
          BY <1>0, <4>1, <4>3, <2>1, RowTyped DEF Open
        <4>5. Cardinality(OrderedLate(c)) \in Nat
          BY FS_CardinalityType DEF Counted
        <4>6. Counted(c)'
          <5>1. Cardinality(PlacesHeld(c)') = Cardinality(PlacesHeld(c))'
            OBVIOUS
          <5> QED BY <1>0, <2>1, <2>2, <3>1, <3>2, <3>4, <4>1, <4>3, <4>5, <5>1, RowTyped
                  DEF Counted
        <4> QED BY <4>4, <4>6 DEF Kept
      <3> QED BY <3>3, <3>4
    <2> QED BY <1>0, <2>5, <2>6
  <1> QED BY <1>1, <1>2

\* A request that is inserted has no place and no orders yet.
Blank(d) == held[d] = 0 /\ goods[d] = 0 /\ d \notin late

LEMMA BlankRow ==
    ASSUME TypeOK, NEW d \in Deposit, RowSound(d), status[d] = "absent"
    PROVE  Blank(d)
  BY DEF Blank, RowSound, RequestSound, PlaceSound, Untouched, TypeOK

LEMMA InsertedElsewhere ==
    ASSUME TypeOK, NEW d \in Deposit, Blank(d), NEW s, sale' = [sale EXCEPT ![d] = s],
           NEW q, held' = [held EXCEPT ![d] = q], UNCHANGED <<goods, late>>, NEW c
    PROVE  /\ OrderedLate(c)' = OrderedLate(c)
           /\ s # c => PlacesHeld(c)' = PlacesHeld(c)
           /\ s = c /\ q \in Nat /\ IsFiniteSet(PlacesHeld(c)) =>
                /\ IsFiniteSet(PlacesHeld(c)')
                /\ Cardinality(PlacesHeld(c)') = Cardinality(PlacesHeld(c)) + q
  <1> DEFINE E == {f \in Deposit : sale'[f] = c}
             g == held'
  <1>0. /\ PlacesHeld(c)' = Pairs(E, g) /\ OrderedLate(c)' = Pairs(E \cap late, goods)
        /\ PlacesHeld(c) = Pairs(Of(c), held) /\ OrderedLate(c) = Pairs(Of(c) \cap late, goods)
    BY PlacesNext, PlacesArePairs
  <1>1. \A e \in Deposit : e # d => (e \in E <=> e \in Of(c)) /\ g[e] = held[e]
    BY DEF Of, TypeOK
  <1>2. E \subseteq Deposit /\ Of(c) \subseteq Deposit /\ (d \in E <=> s = c)
    BY DEF Of, TypeOK
  <1>3. /\ \A e \in Deposit : held[e] \in Nat /\ goods[e] \in Nat
        /\ held[d] = 0 /\ g[d] = q
    BY DEF TypeOK, Blank
  <1> HIDE DEF E
  <1>4. E \cap late = Of(c) \cap late
    BY <1>1, <1>2 DEF Blank
  <1>5. ASSUME s # c PROVE Pairs(E, g) = Pairs(Of(c), held)
    <2>1. \A e \in E : g[e] \in Nat /\ (g[e] > 0 => e \in Of(c) /\ held[e] = g[e])
      BY <1>1, <1>2, <1>3, <1>5
    <2>2. \A e \in Of(c) : held[e] \in Nat /\ (held[e] > 0 => e \in E /\ held[e] = g[e])
      BY <1>1, <1>2, <1>3
    <2> HIDE DEF g
    <2> QED BY ONLY <2>1, <2>2, PairsEqual
  <1>6. ASSUME s = c, q \in Nat, IsFiniteSet(Pairs(Of(c), held))
        PROVE  /\ IsFiniteSet(Pairs(E, g))
               /\ Cardinality(Pairs(E, g)) = Cardinality(Pairs(Of(c), held)) + q
    <2>1. d \in E /\ \A e \in Of(c) : held[e] \in Nat
      BY <1>2, <1>3, <1>6
    <2>2. \A e : e # d => (e \in Of(c) <=> e \in E)
      BY <1>1, <1>2
    <2>3. \A e \in Of(c) : e # d => g[e] = held[e]
      BY <1>1, <1>2
    <2>4. g[d] = q /\ g[d] \in Nat /\ held[d] = 0 /\ IsFiniteSet(Pairs(Of(c), held))
      BY <1>3, <1>6
    <2> HIDE DEF g
    <2>5. /\ IsFiniteSet(Pairs(E, g))
          /\ Cardinality(Pairs(E, g)) = Cardinality(Pairs(Of(c), held)) + g[d]
      BY ONLY <2>1, <2>2, <2>3, <2>4, PairsAdd
    <2> QED BY <2>4, <2>5
  <1> QED BY <1>0, <1>4, <1>5, <1>6

\* A purchase at the sale price reserves its places: when the copy it is checked
\* against is the row, they are there.
LEMMA CreateFlashKept ==
    ASSUME TypeOK, NEW h \in Chat, NEW d \in Deposit, NEW q \in Quantities,
           CreateFlashDeposit(h, d, q), RowSound(d), NEW c \in Campaign, Counted(c)
    PROVE  Kept(c)
  <1> DEFINE b == view[h].id
             seen == view[h].seen
             new == AfterReserve(seen, q)
  <1>0. /\ q \in Nat /\ b \in Campaign /\ seen \in CampaignRow /\ campaign[c] \in CampaignRow
        /\ Blank(d)
    BY QuantityAssumption, BlankRow DEF CreateFlashDeposit, Insert, TypeOK, View
  <1>1. /\ sale' = [sale EXCEPT ![d] = b] /\ held' = [held EXCEPT ![d] = q]
        /\ UNCHANGED <<goods, late, saleOrders>>
    BY DEF CreateFlashDeposit, Insert, outcome
  <1>2. /\ OrderedLate(c)' = OrderedLate(c)
        /\ b # c => PlacesHeld(c)' = PlacesHeld(c)
        /\ b = c => /\ IsFiniteSet(PlacesHeld(c)')
                    /\ Cardinality(PlacesHeld(c)') = Cardinality(PlacesHeld(c)) + q
    BY <1>0, <1>1, InsertedElsewhere DEF Counted
  <1>3. /\ seen.status = "active" /\ Remaining(seen) >= q
        /\ overtaken' = IF campaign[b] = seen THEN overtaken ELSE overtaken \cup {b}
    BY DEF CreateFlashDeposit
  <1>4. CASE b # c
    <2>1. campaign'[c] = campaign[c]
      BY <1>4 DEF CreateFlashDeposit, TypeOK
    <2>2. c \in overtaken => c \in overtaken'
      BY <1>3
    <2> QED BY <1>1, <1>2, <1>4, <2>1, <2>2, QuietKept DEF Open
  <1>5. CASE b = c /\ c \in overtaken'
    BY <1>2, <1>5 DEF Kept, Counted
  <1>6. CASE b = c /\ c \notin overtaken'
    <2>1. campaign[c] = seen /\ c \notin overtaken
      BY <1>3, <1>6
    <2>2. new.reserved = seen.reserved + q
      BY <1>0, ReserveFields
    <2>3. /\ campaign'[c].reserved = new.reserved
          /\ campaign'[c].sold = campaign[c].sold /\ campaign'[c].total = campaign[c].total
      <3> DEFINE s == IF new.status = seen.status THEN campaign[c].status ELSE new.status
                 r == new.reserved
      <3>1. campaign' = [campaign EXCEPT ![c].reserved = r, ![c].status = s]
        BY <1>6 DEF CreateFlashDeposit
      <3> HIDE DEF s, r
      <3>2. /\ campaign'[c].reserved = r /\ campaign'[c].sold = campaign[c].sold
            /\ campaign'[c].total = campaign[c].total
        BY <3>1, <1>0 DEF TypeOK, CampaignRow
      <3> QED BY <3>2 DEF r
    <2>4. Counted(c)'
      <3>1. Cardinality(PlacesHeld(c)') = Cardinality(PlacesHeld(c))'
        OBVIOUS
      <3>2. campaign'[c].sold + campaign'[c].reserved <= campaign'[c].total
        BY <1>0, <1>3, <2>1, <2>2, <2>3, RowTyped DEF Remaining
      <3>3. campaign'[c].reserved = Cardinality(PlacesHeld(c)')
        BY <1>2, <1>6, <2>1, <2>2, <2>3 DEF Counted
      <3>4. campaign'[c].sold = saleOrders'[c] - Cardinality(OrderedLate(c))
        BY <1>1, <2>1, <2>3 DEF Counted
      <3> QED BY <1>2, <1>6, <3>1, <3>2, <3>3, <3>4 DEF Counted
    <2>5. Open(campaign[c])
      BY <1>3, <2>1 DEF Open
    <2> QED BY <2>4, <2>5 DEF Kept
  <1> QED BY <1>4, <1>5, <1>6

LEMMA CreateKept ==
    ASSUME TypeOK, NEW d \in Deposit, NEW q \in Quantities, CreateDeposit(d, q),
           RowSound(d), NEW c \in Campaign, Counted(c)
    PROVE  Kept(c)
  <1>1. Blank(d) /\ NoSale # c
    BY BlankRow, CampaignAssumption DEF CreateDeposit, Insert
  <1>2. /\ sale' = [sale EXCEPT ![d] = NoSale] /\ UNCHANGED <<goods, flash>>
        /\ held' = [held EXCEPT ![d] = 0]
    BY <1>1 DEF CreateDeposit, Insert, outcome, flash, Blank, TypeOK
  <1>3. PlacesHeld(c)' = PlacesHeld(c) /\ OrderedLate(c)' = OrderedLate(c)
    BY <1>1, <1>2, InsertedElsewhere DEF flash
  <1> QED BY <1>2, <1>3, QuietKept DEF flash, Open

LEMMA BuyKept ==
    ASSUME TypeOK, NEW b \in Campaign, NEW q \in Quantities, BuyFromWallet(b, q),
           NEW c \in Campaign, Counted(c)
    PROVE  Kept(c)
  <1> USE DEF request, outcome
  <1>0. UNCHANGED <<sale, held, goods, late, overtaken>> /\ q \in Nat
    BY QuantityAssumption DEF BuyFromWallet
  <1>1. PlacesHeld(c)' = PlacesHeld(c) /\ OrderedLate(c)' = OrderedLate(c)
    BY <1>0, UnchangedPlaces
  <1>2. CASE b # c
    BY <1>0, <1>1, <1>2, QuietKept DEF BuyFromWallet, Open, TypeOK
  <1>3. CASE b = c
    <2>1. /\ campaign'[c] = AfterConsume(campaign[c], q)
          /\ saleOrders'[c] = saleOrders[c] + q
          /\ campaign[c].status = "active" /\ Remaining(campaign[c]) >= q
          /\ campaign[c] \in CampaignRow /\ saleOrders[c] \in Nat
      BY <1>3 DEF BuyFromWallet, TypeOK
    <2>2. /\ campaign'[c].reserved = campaign[c].reserved
          /\ campaign'[c].sold = campaign[c].sold + q
          /\ campaign'[c].total = campaign[c].total
      BY <1>0, <2>1, ConsumeFields
    <2>3. campaign'[c].sold + campaign'[c].reserved <= campaign'[c].total
      BY <1>0, <2>1, <2>2, RowTyped DEF Remaining
    <2>4. Cardinality(OrderedLate(c)) \in Nat
      BY FS_CardinalityType DEF Counted
    <2> QED BY <1>0, <1>1, <2>1, <2>2, <2>3, <2>4, RowTyped DEF Kept, Counted, Open
  <1> QED BY <1>2, <1>3

\* The admin's and the worker's steps on a campaign; a start gives it a total.
LEMMA StopKept ==
    ASSUME TypeOK, NEW b \in Campaign, CancelFlashSale(b) \/ StopUnsafe(b),
           NEW c \in Campaign, Counted(c)
    PROVE  Kept(c)
  <1>1. UNCHANGED <<sale, held, goods, late, overtaken, saleOrders>>
    BY DEF CancelFlashSale, StopUnsafe, request, outcome
  <1>2. PlacesHeld(c)' = PlacesHeld(c) /\ OrderedLate(c)' = OrderedLate(c)
    BY <1>1, UnchangedPlaces
  <1>3. PICK s \in {"cancelled", "unsafe"} : campaign' = [campaign EXCEPT ![b].status = s]
    BY DEF CancelFlashSale, StopUnsafe
  <1>4. /\ campaign'[c].reserved = campaign[c].reserved /\ campaign'[c].sold = campaign[c].sold
        /\ campaign'[c].total = campaign[c].total
        /\ campaign'[c].status = "active" => campaign[c].status = "active"
    BY <1>3 DEF TypeOK, CampaignRow
  <1> QED BY <1>1, <1>2, <1>4, QuietKept DEF Open

LEMMA StartCounted ==
    ASSUME TypeOK, NEW b \in Campaign, NEW n \in Totals, StartFlashSale(b, n),
           NEW c \in Campaign, Counted(c)
    PROVE  Counted(c)' /\ (b # c => campaign'[c] = campaign[c])
  <1>1. UNCHANGED <<sale, held, goods, late, overtaken, saleOrders>>
    BY DEF StartFlashSale, request, outcome
  <1>2. PlacesHeld(c)' = PlacesHeld(c) /\ OrderedLate(c)' = OrderedLate(c)
    BY <1>1, UnchangedPlaces
  <1>3. CASE b # c
    BY <1>1, <1>2, <1>3 DEF StartFlashSale, TypeOK, Counted
  <1>4. CASE b = c
    <2>1. /\ campaign[c].reserved = 0 /\ campaign[c].sold = 0 /\ campaign'[c].reserved = 0
          /\ campaign'[c].sold = 0 /\ campaign'[c].total = n /\ n \in Nat
      BY <1>4, QuantityAssumption DEF StartFlashSale, NoCampaign, TypeOK
    <2> QED BY <1>1, <1>2, <1>4, <2>1 DEF Counted
  <1> QED BY <1>3, <1>4

LEMMA ReleasePlaceKept ==
    ASSUME TypeOK, NEW d \in Deposit, ReleasePlace(d), RowSound(d),
           UNCHANGED <<sale, goods, late, saleOrders, overtaken>>,
           NEW c \in Campaign, Counted(c)
    PROVE  Kept(c)
  <1>1. held' = [held EXCEPT ![d] = 0] /\ held[d] \in Nat
    BY DEF ReleasePlace, TypeOK
  <1>2. CASE held[d] = 0
    <2>1. campaign' = campaign
      BY <1>2 DEF ReleasePlace
    <2> QED BY <1>1, <1>2, <2>1, ReleaseKept
  <1>3. CASE held[d] > 0
    <2>1. sale[d] # NoSale /\ sale[d] \in Campaign
      BY <1>3 DEF RowSound, PlaceSound, TypeOK
    <2>2. AfterRelease(campaign[sale[d]], held[d]) \in CampaignRow
      BY <1>1, <2>1, ReleaseTyped DEF TypeOK
    <2>3. campaign' = [campaign EXCEPT ![sale[d]] = AfterRelease(campaign[sale[d]], held[d])]
      BY <1>3 DEF ReleasePlace
    <2> HIDE DEF ReleasePlace
    <2> QED BY <1>1, <1>3, <2>1, <2>2, <2>3, ReleaseKept
  <1> QED BY <1>1, <1>2, <1>3

LEMMA SettledKept ==
    ASSUME TypeOK, NEW t, NEW d \in Deposit, NEW exact, NEW manual,
           Settled(t, d, exact, manual), RowSound(d), NEW c \in Campaign, Counted(c)
    PROVE  Kept(c)
  <1>0. sale' = sale /\ overtaken' = overtaken /\ status[d] # "paid"
    BY DEF Settled, SetStatus, Payable
  <1>1. CASE Deliver(d)
    <2>1. goods[d] = 0
      BY <1>0 DEF RowSound, RequestSound, Untouched
    <2> QED BY <1>0, <1>1, <2>1, WriteOrdersKept DEF Deliver
  <1>2. CASE DeliverLater(d) \/ PlacePreorder(d)
    BY <1>0, <1>2, UnchangedKept DEF DeliverLater, PlacePreorder, flash
  <1>3. CASE CreditWallet(d)
    <2>0. UNCHANGED <<goods, late, saleOrders>>
      BY <1>3 DEF CreditWallet
    <2>1. CASE ReleasePlace(d)
      BY <1>0, <2>0, <2>1, ReleasePlaceKept
    <2>2. CASE /\ sale[d] # NoSale
               /\ held' = [held EXCEPT ![d] = 0]
               /\ campaign' = [campaign EXCEPT
                     ![sale[d]] = [AfterRelease(@, held[d]) EXCEPT !.status = "unsafe"]]
      <3> DEFINE n == AfterRelease(campaign[sale[d]], held[d])
                 new == [n EXCEPT !.status = "unsafe"]
      <3>1. n \in CampaignRow
        BY <2>2, ReleaseTyped DEF TypeOK
      <3>2. campaign' = [campaign EXCEPT ![sale[d]] = new]
        BY <2>2
      <3>3. /\ new \in CampaignRow /\ new.reserved = n.reserved /\ new.sold = n.sold
            /\ new.total = n.total /\ new.status = "unsafe"
        <4> HIDE DEF n
        <4> QED BY <3>1 DEF CampaignRow, CampaignStatus
      <3> HIDE DEF new
      <3> QED BY <1>0, <2>0, <2>2, <3>2, <3>3, ReleaseKept
    <2> QED BY <1>3, <2>1, <2>2 DEF CreditWallet
  <1> QED BY <1>1, <1>2, <1>3 DEF Settled

LEMMA ProcessKept ==
    ASSUME TypeOK, NEW t, NEW d \in Deposit, NEW exact, NEW manual,
           Process(t, d, exact, manual), RowSound(d), NEW c \in Campaign, Counted(c)
    PROVE  Kept(c)
  <1>1. CASE Rejected(t, d, exact, manual)
    <2>1. UNCHANGED <<sale, goods, late, saleOrders, overtaken>>
      BY <1>1 DEF Rejected, RejectPaid, RejectLate, RejectClosed, RejectAmount, RejectBlocked,
                  SetStatus, request
    <2>2. ReleasePlace(d) \/ UNCHANGED <<held, campaign>>
      BY <1>1 DEF Rejected, RejectPaid, RejectLate, RejectClosed, RejectAmount, RejectBlocked
    <2> QED BY <2>1, <2>2, ReleasePlaceKept, UnchangedKept DEF flash
  <1> QED BY <1>1, SettledKept DEF Process

LEMMA OthersKept ==
    ASSUME TypeOK, [Next]_vars, \A d \in Deposit : RowSound(d),
           ~\E b \in Campaign, n \in Totals : StartFlashSale(b, n),
           NEW c \in Campaign, Counted(c)
    PROVE  Kept(c)
  <1> USE DEF request, outcome, flash
  <1>1. CASE UNCHANGED vars
    BY <1>1, UnchangedKept DEF vars
  <1>2. CASE Customer
    <2>1. CASE \E h \in Chat : LeaveCheckout(h) \/ \E b \in Campaign : OpenCheckout(h, b)
      BY <2>1, UnchangedKept DEF LeaveCheckout, OpenCheckout
    <2>2. CASE \E t \in Tx, d \in Deposit : SubmitTransaction(t, d)
      BY <2>2, UnchangedKept DEF SubmitTransaction
    <2> QED BY <1>2, <2>1, <2>2, CreateFlashKept, CreateKept, BuyKept DEF Customer
  <1>3. CASE Bank
    <2>1. CASE \/ \E t \in Tx : LookupRejects(t) \/ AbandonLookup(t)
               \/ \E t, u \in Tx : RenameTransaction(t, u)
      BY <2>1, UnchangedKept DEF LookupRejects, AbandonLookup, RenameTransaction
    <2>2. CASE \E t \in Tx, d \in Deposit : \E exact, manual : Process(t, d, exact, manual)
      BY <2>2, ProcessKept
    <2> QED BY <1>3, <2>1, <2>2 DEF Bank, Webhook, BinanceWebhook, Reported, LookupConfirms
  <1>4. CASE Admin
    <2>1. ASSUME NEW d \in Deposit,
                 ApproveWallet(d) \/ CancelWallet(d) \/ OpenApproval(d) \/ AbandonApproval(d)
          PROVE  Kept(c)
      BY <2>1, UnchangedKept DEF ApproveWallet, CancelWallet, OpenApproval, AbandonApproval,
                                 SetStatus
    <2>2. ASSUME NEW d \in Deposit, CancelPurchase(d) PROVE Kept(c)
      BY <2>2, ReleasePlaceKept DEF CancelPurchase, SetStatus
    <2>3. ASSUME NEW d \in Deposit, FinishApproval(d) PROVE Kept(c)
      BY <2>3, ProcessKept DEF FinishApproval
    <2> QED BY <1>4, <2>1, <2>2, <2>3, StopKept DEF Admin
  <1>5. CASE Background
    <2>1. ASSUME NEW d \in Deposit, PassDeadline(d) PROVE Kept(c)
      BY <2>1, UnchangedKept DEF PassDeadline
    <2>2. ASSUME NEW d \in Deposit, ExpireDeposit(d) PROVE Kept(c)
      BY <2>2, ReleasePlaceKept DEF ExpireDeposit, SetStatus
    <2>3. ASSUME NEW d \in Deposit, SettleDone(d) PROVE Kept(c)
      <3>1. goods[d] = 0
        BY <2>3 DEF SettleDone, RowSound, RequestSound
      <3> QED BY <2>3, <3>1, WriteOrdersKept DEF SettleDone
    <2>4. ASSUME NEW d \in Deposit, SettleFailed(d) PROVE Kept(c)
      BY <2>4, ReleasePlaceKept DEF SettleFailed
    <2> QED BY <1>5, <2>1, <2>2, <2>3, <2>4, StopKept DEF Background
  <1> QED BY <1>1, <1>2, <1>3, <1>4, <1>5 DEF Next

Sale == (\A c \in Campaign : Counted(c)) /\ OneOpenSale

LEMMA SaleInit == Init => Sale
  <1> SUFFICES ASSUME Init PROVE Sale
    OBVIOUS
  <1>1. \A c \in Campaign : Of(c) = {}
    BY CampaignAssumption DEF Init, Of
  <1>2. \A c \in Campaign : PlacesHeld(c) = {} /\ OrderedLate(c) = {}
    BY <1>1 DEF PlacesHeld, OrderedLate, Pairs
  <1>3. \A c \in Campaign : Counted(c)
    <2> SUFFICES ASSUME NEW c \in Campaign PROVE Counted(c)
      OBVIOUS
    <2>1. IsFiniteSet(PlacesHeld(c)) /\ Cardinality(PlacesHeld(c)) = 0
      BY <1>2, FS_EmptySet
    <2>2. IsFiniteSet(OrderedLate(c)) /\ Cardinality(OrderedLate(c)) = 0
      BY <1>2, FS_EmptySet
    <2>3. campaign[c] = NoCampaign /\ saleOrders[c] = 0
      BY DEF Init
    <2> QED BY <2>1, <2>2, <2>3 DEF Counted, NoCampaign
  <1> QED BY <1>3 DEF Init, Sale, OneOpenSale, NoCampaign

LEMMA SaleNext == Requests /\ Sale /\ [Next]_vars => Sale'
  <1> SUFFICES ASSUME Requests, Sale, [Next]_vars PROVE Sale'
    OBVIOUS
  <1>1. CASE \E b \in Campaign, n \in Totals : StartFlashSale(b, n)
    <2>1. PICK b \in Campaign, n \in Totals : StartFlashSale(b, n)
      BY <1>1
    <2>2. \A c \in Campaign : Counted(c)' /\ (b # c => campaign'[c] = campaign[c])
      BY <2>1, StartCounted DEF Requests, Sale
    <2>3. \A c \in Campaign : b # c => campaign'[c].status # "active" /\ campaign'[c].reserved = 0
      BY <2>1, <2>2 DEF StartFlashSale
    <2>4. OneOpenSale'
      BY <2>3 DEF OneOpenSale
    <2> QED BY <2>2, <2>4 DEF Sale
  <1>2. CASE ~\E b \in Campaign, n \in Totals : StartFlashSale(b, n)
    <2>1. \A c \in Campaign : Kept(c)
      BY <1>2, OthersKept DEF Requests, Sale
    <2>2. overtaken \subseteq overtaken'
      BY <1>2 DEF Next, Customer, Bank, Admin, Background, vars, flash, outcome, request,
         OpenCheckout, LeaveCheckout, CreateFlashDeposit, CreateDeposit, BuyFromWallet,
         SubmitTransaction, Webhook, BinanceWebhook, Reported, Process, Rejected, Settled,
         LookupRejects, AbandonLookup, RenameTransaction, LookupConfirms, CancelFlashSale,
         ApproveWallet, CancelWallet, CancelPurchase, OpenApproval, FinishApproval,
         AbandonApproval, StopUnsafe, PassDeadline, ExpireDeposit, SettleDone, SettleFailed
    <2>3. OneOpenSale'
      BY <2>1, <2>2 DEF Kept, Open, Sale, OneOpenSale
    <2> QED BY <2>1, <2>3 DEF Kept, Sale
  <1> QED BY <1>1, <1>2

LEMMA SaleAlways == Spec => [](Requests /\ Sale)
  <1>1. Init => Sale
    BY SaleInit
  <1>2. Requests /\ Sale /\ [Next]_vars => Sale'
    BY SaleNext
  <1> QED BY <1>1, <1>2, RequestsAlways, PTL DEF Spec

\* A campaign sells and reserves no more than its quota (flash_sales.py), as long as
\* no checkout has written it from an out-of-date copy.
THEOREM WithinQuotaAlways == Spec => []WithinQuota
  <1>1. Requests /\ Sale => WithinQuota
    BY DEF Sale, Counted, WithinQuota
  <1> QED BY <1>1, SaleAlways, PTL

\* The counters of a campaign agree with the places of the requests and with the
\* orders written at its price.
THEOREM PlacesBalanceAlways == Spec => []PlacesBalance
  <1>1. Requests /\ Sale => PlacesBalance
    BY DEF Sale, Counted, PlacesBalance
  <1> QED BY <1>1, SaleAlways, PTL

\* One campaign at most sells or holds places, although a released place reopens one.
THEOREM OneOpenSaleAlways == Spec => []OneOpenSale
  <1>1. Requests /\ Sale => OneOpenSale
    BY DEF Sale
  <1> QED BY <1>1, SaleAlways, PTL
=============================================================================
