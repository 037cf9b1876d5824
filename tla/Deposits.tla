------------------------------- MODULE Deposits -------------------------------
(***************************************************************************)
(* QR payment requests (table deposits): their creation, expiry, payment   *)
(* by webhook, manual approval and cancellation (app/services.py,          *)
(* app/payment_expiry.py), the Flash Sale places they reserve              *)
(* (app/flash_sales.py, app/dashboard.py), the Binance transaction ids     *)
(* customers submit (app/handlers.py) and the supplier orders that are     *)
(* settled after the payment (app/haji_pending.py).                        *)
(*                                                                         *)
(* An action is one committed transaction; the rows it locks are those it  *)
(* changes.  Two things are not atomic: a checkout loads a campaign and    *)
(* later writes it from that copy, and a manual approval of a purchase     *)
(* takes two transactions.  One product is on sale.                        *)
(***************************************************************************)
EXTENDS Integers, Sequences, FiniteSets, Counting

CONSTANTS
    Deposit,      \* ids of payment requests
    Kind,         \* [Deposit -> wallet, binance, direct_purchase, preorder]
    Source,       \* [Deposit -> local, add_team, manual]: who delivers a purchase
    Owner,        \* [Deposit -> customers]
    Tx,           \* provider transaction ids
    Campaign,     \* Flash Sale campaigns, naturals in creation order
    NoSale,       \* a request at the normal price
    Totals,       \* quantities a campaign may offer
    Quantities,   \* quantities of a purchase
    Chat,         \* concurrent checkouts in the bot
    NoView,       \* no checkout in progress
    MaxPending    \* settings.max_pending_deposits

ASSUME KindAssumption ==
    Kind \in [Deposit -> {"wallet", "binance", "direct_purchase", "preorder"}]
ASSUME SourceAssumption == Source \in [Deposit -> {"local", "add_team", "manual"}]
ASSUME CampaignAssumption == Campaign \subseteq Nat /\ NoSale \notin Campaign
ASSUME TxAssumption == \A t \in Tx, d \in Deposit : t # <<"admin", d>>
ASSUME QuantityAssumption ==
    Totals \subseteq Nat \ {0} /\ Quantities \subseteq Nat \ {0}
ASSUME PendingAssumption == MaxPending \in Nat \ {0}

VARIABLES
    status,     \* Deposit.status, "absent" for an unused id
    reason,     \* Deposit.failure_reason
    due,        \* Deposit.expires_at has passed
    quantity,   \* Deposit.quantity
    sale,       \* Deposit.flash_sale_id
    held,       \* Deposit.flash_sale_quantity
    payments,   \* PaymentTransaction rows in id order
    events,     \* WalletTransaction.event_key: "deposit" and "refund" of a deposit
    placed,     \* deposits that became a preorder
    goods,      \* Order rows written for a deposit
    attempt,    \* SupplierPurchaseAttempt.status of a deposit's supplier order
    campaign,   \* FlashSaleCampaign rows
    saleOrders, \* number of Order rows with this flash_sale_id
    view,       \* checkouts: the campaign as it was loaded
    approving,  \* manual approvals between their two transactions
    lookup,     \* submitted Binance ids being looked up
    overtaken,  \* history: campaigns written from an out-of-date copy
    late        \* history: sale orders of deposits whose place was given up

request == <<status, reason, due, quantity, sale>>
outcome == <<payments, events, placed, goods, attempt>>
flash == <<held, campaign, saleOrders, overtaken, late>>
vars == <<request, outcome, flash, view, approving, lookup>>

DepositStatus == {"absent", "pending", "paid", "failed"}
Reason == {"none", "expired", "admin_cancelled", "blocked_user",
           "supplier_order_failed"}
Credit == {"submitted", "credited", "manual_matched", "already_paid",
           "failed_request", "expired", "amount_mismatch", "rejected", "refunded"}
CampaignStatus == {"absent", "active", "completed", "cancelled", "unsafe"}
AdminTx(d) == <<"admin", d>>
Payment == [tx: Tx \cup {AdminTx(d) : d \in Deposit}, deposit: Deposit, credit: Credit]
CampaignRow == [status: CampaignStatus, total: Nat, sold: Nat, reserved: Nat]
View == [id: Campaign, seen: CampaignRow] \cup {NoView}

TypeOK ==
    /\ status \in [Deposit -> DepositStatus]
    /\ reason \in [Deposit -> Reason]
    /\ due \in [Deposit -> BOOLEAN]
    /\ quantity \in [Deposit -> Nat]
    /\ sale \in [Deposit -> Campaign \cup {NoSale}]
    /\ held \in [Deposit -> Nat]
    /\ payments \in Seq(Payment)
    /\ events \subseteq {"deposit", "refund"} \X Deposit
    /\ placed \subseteq Deposit
    /\ goods \in [Deposit -> Nat]
    /\ attempt \in [Deposit -> {"none", "processing", "succeeded", "failed"}]
    /\ campaign \in [Campaign -> CampaignRow]
    /\ saleOrders \in [Campaign -> Nat]
    /\ view \in [Chat -> View]
    /\ approving \subseteq Deposit
    /\ lookup \subseteq Tx
    /\ overtaken \subseteq Campaign
    /\ late \subseteq Deposit
-----------------------------------------------------------------------------
(***************************************************************************)
(* app/flash_sales.py: a campaign row after each operation.                *)
(***************************************************************************)
\* Faulty variant: places reserved by unpaid requests count as free.
RemainingUnsold(k) == k.total - k.sold

Remaining(k) == k.total - k.sold - k.reserved

CloseIfFull(k) == IF Remaining(k) <= 0 THEN [k EXCEPT !.status = "completed"] ELSE k

AfterReserve(k, q) == CloseIfFull([k EXCEPT !.reserved = @ + q])
AfterConsume(k, q) == CloseIfFull([k EXCEPT !.sold = @ + q])

\* Faulty variant: the place stays reserved when it has been sold.
KeepPlace(k, q) == CloseIfFull([k EXCEPT !.sold = @ + q])

AfterComplete(k, q) ==
    LET moved == IF q <= k.reserved THEN q ELSE k.reserved
    IN  CloseIfFull([k EXCEPT !.reserved = @ - moved, !.sold = @ + moved])

AfterRelease(k, q) ==
    [k EXCEPT !.reserved = IF q <= @ THEN @ - q ELSE 0,
              !.status = IF @ = "completed" /\ k.sold < k.total THEN "active" ELSE @]

NoCampaign == [status |-> "absent", total |-> 0, sold |-> 0, reserved |-> 0]

Init ==
    /\ status = [d \in Deposit |-> "absent"]
    /\ reason = [d \in Deposit |-> "none"]
    /\ due = [d \in Deposit |-> FALSE]
    /\ quantity = [d \in Deposit |-> 0]
    /\ sale = [d \in Deposit |-> NoSale]
    /\ held = [d \in Deposit |-> 0]
    /\ payments = <<>> /\ events = {} /\ placed = {}
    /\ goods = [d \in Deposit |-> 0]
    /\ attempt = [d \in Deposit |-> "none"]
    /\ campaign = [c \in Campaign |-> NoCampaign]
    /\ saleOrders = [c \in Campaign |-> 0]
    /\ view = [h \in Chat |-> NoView]
    /\ approving = {} /\ lookup = {} /\ overtaken = {} /\ late = {}
-----------------------------------------------------------------------------
(***************************************************************************)
(* The campaign: the admin, the catalogue, wallet purchases, checkouts.    *)
(***************************************************************************)

\* Faulty variant: only an active campaign is in the way of a new one.
StartBesideReserved(c, n) ==
    /\ campaign[c] = NoCampaign
    /\ \A b \in Campaign : b < c => campaign[b] # NoCampaign
    /\ \A b \in Campaign : campaign[b].status # "active"
    /\ campaign' = [campaign EXCEPT ![c] = [NoCampaign EXCEPT !.status = "active",
                                                              !.total = n]]
    /\ UNCHANGED <<request, outcome, held, saleOrders, overtaken, late, view,
                   approving, lookup>>

\* A campaign starts when no other is active or still has places reserved.
StartFlashSale(c, n) ==
    /\ campaign[c] = NoCampaign
    /\ \A b \in Campaign : b < c => campaign[b] # NoCampaign
    /\ \A b \in Campaign : campaign[b].status # "active" /\ campaign[b].reserved = 0
    /\ campaign' = [campaign EXCEPT ![c] = [NoCampaign EXCEPT !.status = "active",
                                                              !.total = n]]
    /\ UNCHANGED <<request, outcome, held, saleOrders, overtaken, late, view,
                   approving, lookup>>

CancelFlashSale(c) ==
    /\ campaign[c].status = "active"
    /\ campaign' = [campaign EXCEPT ![c].status = "cancelled"]
    /\ UNCHANGED <<request, outcome, held, saleOrders, overtaken, late, view,
                   approving, lookup>>

\* A supplier's price makes the sale a loss, or no cheaper than the normal
\* price: cost_exceeded or price_invalid, here both "unsafe".
StopUnsafe(c) ==
    /\ \/ campaign[c].status = "active"
       \/ campaign[c].status = "completed" /\ campaign[c].reserved > 0
    /\ campaign' = [campaign EXCEPT ![c].status = "unsafe"]
    /\ UNCHANGED <<request, outcome, held, saleOrders, overtaken, late, view,
                   approving, lookup>>

\* A purchase from the wallet or the API at the sale price; the campaign is
\* locked when it is read.
BuyFromWallet(c, q) ==
    /\ campaign[c].status = "active"
    /\ Remaining(campaign[c]) >= q
    /\ campaign' = [campaign EXCEPT ![c] = AfterConsume(@, q)]
    /\ saleOrders' = [saleOrders EXCEPT ![c] = @ + q]
    /\ UNCHANGED <<request, outcome, held, overtaken, late, view, approving, lookup>>

\* A checkout prices the product: the campaign is loaded without a lock.
OpenCheckout(h, c) ==
    /\ view[h] = NoView
    /\ campaign[c].status = "active" /\ Remaining(campaign[c]) > 0
    /\ view' = [view EXCEPT ![h] = [id |-> c, seen |-> campaign[c]]]
    /\ UNCHANGED <<request, outcome, flash, approving, lookup>>

LeaveCheckout(h) ==
    /\ view[h] # NoView
    /\ view' = [view EXCEPT ![h] = NoView]
    /\ UNCHANGED <<request, outcome, flash, approving, lookup>>
-----------------------------------------------------------------------------
(***************************************************************************)
(* Creation and expiry of a request.                                       *)
(***************************************************************************)
UnderLimit(d) ==
    Cardinality({e \in Deposit : Owner[e] = Owner[d] /\ status[e] = "pending" /\ ~due[e]})
      < MaxPending

Insert(d, q, c) ==
    /\ status[d] = "absent"
    /\ UnderLimit(d)
    /\ status' = [status EXCEPT ![d] = "pending"]
    /\ quantity' = [quantity EXCEPT ![d] = q]
    /\ sale' = [sale EXCEPT ![d] = c]
    /\ UNCHANGED <<reason, due>>

CreateDeposit(d, q) ==
    /\ Insert(d, q, NoSale)
    /\ UNCHANGED <<outcome, flash, view, approving, lookup>>

\* A purchase at the sale price reserves its places.  The campaign row is
\* locked, but status and counters are read from the copy the checkout holds,
\* and the columns that differ from that copy are written.
CreateFlashDeposit(h, d, q) ==
    LET c == view[h].id
        seen == view[h].seen
        new == AfterReserve(seen, q) IN
    /\ view[h] # NoView
    /\ Kind[d] = "direct_purchase"
    /\ Insert(d, q, c)
    /\ seen.status = "active" /\ Remaining(seen) >= q
    /\ campaign' = [campaign EXCEPT
                      ![c].reserved = new.reserved,
                      ![c].status = IF new.status = seen.status THEN @ ELSE new.status]
    /\ overtaken' = IF campaign[c] = seen THEN overtaken ELSE overtaken \cup {c}
    /\ held' = [held EXCEPT ![d] = q]
    /\ view' = [view EXCEPT ![h] = NoView]
    /\ UNCHANGED <<outcome, saleOrders, late, approving, lookup>>

\* Five minutes pass.
PassDeadline(d) ==
    /\ status[d] = "pending" /\ ~due[d]
    /\ due' = [due EXCEPT ![d] = TRUE]
    /\ UNCHANGED <<status, reason, quantity, sale, outcome, flash, view, approving,
                   lookup>>

\* release_deposit_flash_sale and complete_deposit_flash_sale.
ReleasePlace(d) ==
    /\ held' = [held EXCEPT ![d] = 0]
    /\ campaign' = IF held[d] = 0 THEN campaign
                   ELSE [campaign EXCEPT ![sale[d]] = AfterRelease(@, held[d])]

CompletePlace(d) ==
    /\ held' = [held EXCEPT ![d] = 0]
    /\ campaign' = IF held[d] = 0 THEN campaign
                   ELSE [campaign EXCEPT ![sale[d]] = AfterComplete(@, held[d])]

SetStatus(d, s, why) ==
    /\ status' = [status EXCEPT ![d] = s]
    /\ reason' = [reason EXCEPT ![d] = why]
    /\ UNCHANGED <<due, quantity, sale>>

\* Faulty variant: the request expires and keeps its place.
ExpireHolding(d) ==
    /\ status[d] = "pending" /\ due[d]
    /\ SetStatus(d, "failed", "expired")
    /\ UNCHANGED <<outcome, flash, view, approving, lookup>>

\* Faulty variant: the status is not read again when the row is locked.
ExpireUnread(d) ==
    /\ status[d] # "absent" /\ due[d]
    /\ ReleasePlace(d)
    /\ SetStatus(d, "failed", "expired")
    /\ UNCHANGED <<outcome, saleOrders, overtaken, late, view, approving, lookup>>

\* expire_pending_deposits.
ExpireDeposit(d) ==
    /\ status[d] = "pending" /\ due[d]
    /\ ReleasePlace(d)
    /\ SetStatus(d, "failed", "expired")
    /\ UNCHANGED <<outcome, saleOrders, overtaken, late, view, approving, lookup>>
-----------------------------------------------------------------------------
(***************************************************************************)
(* Payment: _process_sepay_payment with the transaction id t, for the      *)
(* request d, of the requested amount or another (exact), by webhook or as *)
(* the second transaction of a manual approval.                            *)
(***************************************************************************)
Used(t) == \E i \in DOMAIN payments : payments[i].tx = t

\* An id that was recorded is a duplicate, unless the customer submitted it
\* for this very request.
Accepts(t, d) ==
    \A i \in DOMAIN payments :
      payments[i].tx = t => payments[i].credit = "submitted" /\ payments[i].deposit = d

Credited(d) ==
    \E i \in DOMAIN payments : payments[i].deposit = d /\ payments[i].credit = "credited"

AdminCredited(d) ==
    \E i \in DOMAIN payments : payments[i].tx = AdminTx(d) /\ payments[i].credit = "credited"

\* The verdict on row t, which is new or was submitted.
Marked(t, credit) ==
    [i \in DOMAIN payments |->
       IF payments[i].tx = t THEN [payments[i] EXCEPT !.credit = credit] ELSE payments[i]]

Record(t, d, credit) ==
    payments' = IF Used(t) THEN Marked(t, credit)
                ELSE Append(payments, [tx |-> t, deposit |-> d, credit |-> credit])

\* Faulty variant: only the deadline is looked at.
PayableInTime(d, manual) == manual \/ ~due[d]

\* The request may still be paid.
Payable(d, manual) ==
    \/ status[d] = "pending" /\ (manual \/ ~due[d])
    \/ status[d] = "failed" /\ reason[d] = "expired" /\ manual

\* A second transfer, or the transfer an approval anticipated.
RejectPaid(t, d, exact) ==
    /\ status[d] = "paid"
    /\ Record(t, d, IF exact /\ AdminCredited(d) THEN "manual_matched" ELSE "already_paid")
    /\ UNCHANGED <<request, held, campaign>>

\* After the deadline, whether or not the expiry worker has been here.
RejectLate(t, d) ==
    /\ \/ status[d] = "pending" /\ SetStatus(d, "failed", "expired")
       \/ /\ status[d] = "failed" /\ reason[d] # "admin_cancelled"
          /\ UNCHANGED request
    /\ due[d]
    /\ ReleasePlace(d)
    /\ Record(t, d, "expired")

RejectClosed(t, d, manual) ==
    /\ status[d] = "failed"
    /\ \/ reason[d] = "admin_cancelled"
       \/ manual /\ reason[d] # "expired"
       \/ ~manual /\ ~due[d]
    /\ ReleasePlace(d)
    /\ Record(t, d, "failed_request")
    /\ UNCHANGED request

\* Another amount: the request stays open.
RejectAmount(t, d, manual) ==
    /\ Payable(d, manual)
    /\ Record(t, d, "amount_mismatch")
    /\ UNCHANGED <<request, held, campaign>>

\* An admin has blocked the customer.
RejectBlocked(t, d, manual) ==
    /\ Payable(d, manual)
    /\ SetStatus(d, "failed", "blocked_user")
    /\ ReleasePlace(d)
    /\ Record(t, d, "failed_request")

Rejected(t, d, exact, manual) ==
    /\ \/ RejectPaid(t, d, exact)
       \/ ~manual /\ RejectLate(t, d)
       \/ RejectClosed(t, d, manual)
       \/ ~exact /\ RejectAmount(t, d, manual)
       \/ exact /\ RejectBlocked(t, d, manual)
    /\ UNCHANGED <<events, placed, goods, attempt, saleOrders, overtaken, late>>

\* The money becomes wallet balance, under a unique ledger key.
ToWallet(d) ==
    /\ <<"deposit", d>> \notin events
    /\ events' = events \cup {<<"deposit", d>>}

\* The order lines of a purchase.
WriteOrders(d) ==
    /\ goods' = [goods EXCEPT ![d] = @ + quantity[d]]
    /\ saleOrders' = IF sale[d] = NoSale THEN saleOrders
                     ELSE [saleOrders EXCEPT ![sale[d]] = @ + quantity[d]]
    /\ late' = IF sale[d] # NoSale /\ held[d] = 0 THEN late \cup {d} ELSE late
    /\ CompletePlace(d)

\* The price of the sale still stands: a stopped campaign sells nothing.
SaleStands(d) == sale[d] # NoSale => campaign[sale[d]].status # "unsafe"

Deliver(d) ==
    /\ Kind[d] = "direct_purchase"
    /\ SaleStands(d)
    /\ WriteOrders(d)
    /\ UNCHANGED <<events, placed, attempt>>

\* A supplier order the supplier has taken and will complete later.
DeliverLater(d) ==
    /\ Kind[d] = "direct_purchase" /\ Source[d] = "add_team"
    /\ SaleStands(d)
    /\ attempt' = [attempt EXCEPT ![d] = "processing"]
    /\ UNCHANGED <<events, placed, goods, saleOrders, late, held, campaign>>

\* A wallet top-up, or a purchase that cannot be delivered.  The price may
\* have become unsafe, whatever the campaign's status; and a supplier order
\* that outlasts the time-out stays open although the money is given back.
CreditWallet(d) ==
    /\ Kind[d] # "preorder"
    /\ ToWallet(d)
    /\ \/ /\ ReleasePlace(d)
          /\ UNCHANGED attempt
       \/ /\ sale[d] # NoSale
          /\ held' = [held EXCEPT ![d] = 0]
          /\ campaign' = [campaign EXCEPT
                            ![sale[d]] = [AfterRelease(@, held[d]) EXCEPT !.status = "unsafe"]]
          /\ UNCHANGED attempt
       \/ /\ Kind[d] = "direct_purchase" /\ Source[d] = "manual" /\ SaleStands(d)
          /\ attempt' = [attempt EXCEPT ![d] = "processing"]
          /\ ReleasePlace(d)
    /\ UNCHANGED <<placed, goods, saleOrders, late>>

\* A preorder, or the wallet if it is refused.
PlacePreorder(d) ==
    /\ Kind[d] = "preorder"
    /\ \/ placed' = placed \cup {d} /\ UNCHANGED events
       \/ ToWallet(d) /\ UNCHANGED placed
    /\ UNCHANGED <<goods, attempt, saleOrders, late, held, campaign>>

Settled(t, d, exact, manual) ==
    /\ exact /\ Payable(d, manual)
    /\ Deliver(d) \/ DeliverLater(d) \/ CreditWallet(d) \/ PlacePreorder(d)
    /\ SetStatus(d, "paid", "none")
    /\ Record(t, d, "credited")
    /\ UNCHANGED overtaken

Process(t, d, exact, manual) ==
    /\ Accepts(t, d)
    /\ Rejected(t, d, exact, manual) \/ Settled(t, d, exact, manual)

Reported(t, d, exact) ==
    /\ status[d] # "absent"
    /\ Process(t, d, exact, FALSE)
    /\ UNCHANGED <<view, approving, lookup>>

\* SePay reports a transfer, once or more often; one in dong settles no request
\* in dollars.
Webhook(t, d, exact) == Kind[d] # "binance" /\ Reported(t, d, exact)

\* Binance reports a payment: only a top-up in dollars is looked at.
BinanceWebhook(t, d, exact) == Kind[d] = "binance" /\ Reported(t, d, exact)
-----------------------------------------------------------------------------
(***************************************************************************)
(* A Binance transaction id typed by the customer: recorded, looked up at  *)
(* Binance, then processed or rejected.                                    *)
(***************************************************************************)
SubmitTransaction(t, d) ==
    /\ Kind[d] = "binance" /\ status[d] = "pending"
    /\ ~Used(t)
    /\ payments' = Append(payments, [tx |-> t, deposit |-> d, credit |-> "submitted"])
    /\ lookup' = lookup \cup {t}
    /\ UNCHANGED <<request, events, placed, goods, attempt, flash, view, approving>>

\* Binance knows the transaction under another id.
RenameTransaction(t, u) ==
    /\ t \in lookup /\ ~Used(u)
    /\ payments' = [i \in DOMAIN payments |->
                      IF payments[i].tx = t THEN [payments[i] EXCEPT !.tx = u]
                      ELSE payments[i]]
    /\ lookup' = (lookup \ {t}) \cup {u}
    /\ UNCHANGED <<request, events, placed, goods, attempt, flash, view, approving>>

\* Not found, another amount or recipient, or no answer: the row the handler
\* holds is written, whatever has become of it since.
LookupRejects(t) ==
    /\ t \in lookup
    /\ payments' = Marked(t, "rejected")
    /\ lookup' = lookup \ {t}
    /\ UNCHANGED <<request, events, placed, goods, attempt, flash, view, approving>>

LookupConfirms(t, d) ==
    /\ t \in lookup
    /\ \E i \in DOMAIN payments : payments[i].tx = t /\ payments[i].deposit = d
    /\ Process(t, d, TRUE, FALSE)
    /\ lookup' = lookup \ {t}
    /\ UNCHANGED <<view, approving>>

\* The handler is interrupted, or its id was processed in the meantime.
AbandonLookup(t) ==
    /\ t \in lookup
    /\ lookup' = lookup \ {t}
    /\ UNCHANGED <<request, outcome, flash, view, approving>>
-----------------------------------------------------------------------------
(***************************************************************************)
(* The admin's page of payments.                                           *)
(***************************************************************************)
WalletKind(d) == Kind[d] \in {"wallet", "binance"}
Expired(d) == status[d] = "failed" /\ reason[d] = "expired"

\* approve_wallet_deposit: any request that failed may still be approved.
ApproveWallet(d) ==
    /\ WalletKind(d)
    /\ status[d] \in {"pending", "failed"}
    /\ ~Credited(d)
    /\ ToWallet(d)
    /\ Record(AdminTx(d), d, "credited")
    /\ SetStatus(d, "paid", "none")
    /\ UNCHANGED <<placed, goods, attempt, flash, view, approving, lookup>>

\* cancel_wallet_deposit.
CancelWallet(d) ==
    /\ WalletKind(d) /\ Expired(d)
    /\ ~Credited(d) /\ <<"deposit", d>> \notin events
    /\ SetStatus(d, "failed", "admin_cancelled")
    /\ UNCHANGED <<outcome, flash, view, approving, lookup>>

\* cancel_direct_purchase_deposit.
CancelPurchase(d) ==
    /\ ~WalletKind(d) /\ Expired(d)
    /\ ReleasePlace(d)
    /\ SetStatus(d, "failed", "admin_cancelled")
    /\ UNCHANGED <<outcome, saleOrders, overtaken, late, view, approving, lookup>>

\* approve_direct_purchase_deposit, first transaction: an expired request is
\* opened again.
OpenApproval(d) ==
    /\ ~WalletKind(d)
    /\ status[d] = "pending" \/ Expired(d)
    /\ ~Credited(d)
    /\ SetStatus(d, "pending", "none")
    /\ approving' = approving \cup {d}
    /\ UNCHANGED <<outcome, flash, view, lookup>>

\* Second transaction: a payment of the requested amount.
FinishApproval(d) ==
    /\ d \in approving
    /\ Process(AdminTx(d), d, TRUE, TRUE)
    /\ approving' = approving \ {d}
    /\ UNCHANGED <<view, lookup>>

\* The process ends between the two, or another admin was faster.
AbandonApproval(d) ==
    /\ d \in approving
    /\ approving' = approving \ {d}
    /\ UNCHANGED <<request, outcome, flash, view, lookup>>
-----------------------------------------------------------------------------
(***************************************************************************)
(* haji_pending_worker: supplier orders that were still processing when    *)
(* the payment was settled.                                                *)
(***************************************************************************)
SettleDone(d) ==
    /\ attempt[d] = "processing" /\ status[d] = "paid"
    /\ WriteOrders(d)
    /\ attempt' = [attempt EXCEPT ![d] = "succeeded"]
    /\ UNCHANGED <<request, payments, events, placed, overtaken, view, approving, lookup>>

\* The row found to mark as refunded is the last one of the deposit.
MarkRefunded(d) ==
    [i \in DOMAIN payments |->
       IF /\ payments[i].deposit = d /\ payments[i].credit = "credited"
          /\ \A j \in DOMAIN payments : payments[j].deposit = d => j <= i
         THEN [payments[i] EXCEPT !.credit = "refunded"] ELSE payments[i]]

\* Faulty variant: the money goes back and the order stays open.
RefundOpenOrder(d) ==
    /\ attempt[d] = "processing"
    /\ events' = events \cup {<<"refund", d>>}
    /\ payments' = MarkRefunded(d)
    /\ ReleasePlace(d)
    /\ reason' = [reason EXCEPT ![d] = "supplier_order_failed"]
    /\ UNCHANGED <<attempt, status, due, quantity, sale, placed, goods, saleOrders,
                   overtaken, late, view, approving, lookup>>

\* Faulty variant: the refunded request keeps its place.
RefundHolding(d) ==
    /\ attempt[d] = "processing"
    /\ events' = events \cup {<<"refund", d>>}
    /\ payments' = MarkRefunded(d)
    /\ reason' = [reason EXCEPT ![d] = "supplier_order_failed"]
    /\ attempt' = [attempt EXCEPT ![d] = "failed"]
    /\ UNCHANGED <<status, due, quantity, sale, placed, goods, saleOrders, held,
                   campaign, overtaken, late, view, approving, lookup>>

SettleFailed(d) ==
    /\ attempt[d] = "processing"
    /\ events' = events \cup {<<"refund", d>>}
    /\ payments' = MarkRefunded(d)
    /\ ReleasePlace(d)
    /\ reason' = [reason EXCEPT ![d] = "supplier_order_failed"]
    /\ attempt' = [attempt EXCEPT ![d] = "failed"]
    /\ UNCHANGED <<status, due, quantity, sale, placed, goods, saleOrders,
                   overtaken, late, view, approving, lookup>>
-----------------------------------------------------------------------------
Customer ==
    \/ \E h \in Chat :
         \/ \E c \in Campaign : OpenCheckout(h, c)
         \/ LeaveCheckout(h)
         \/ \E d \in Deposit, q \in Quantities : CreateFlashDeposit(h, d, q)
    \/ \E d \in Deposit, q \in Quantities : CreateDeposit(d, q)
    \/ \E c \in Campaign, q \in Quantities : BuyFromWallet(c, q)
    \/ \E t \in Tx, d \in Deposit : SubmitTransaction(t, d)

Bank ==
    \/ \E t \in Tx, d \in Deposit, exact \in BOOLEAN :
         Webhook(t, d, exact) \/ BinanceWebhook(t, d, exact)
    \/ \E t \in Tx : LookupRejects(t) \/ AbandonLookup(t)
    \/ \E t, u \in Tx : RenameTransaction(t, u)
    \/ \E t \in Tx, d \in Deposit : LookupConfirms(t, d)

Admin ==
    \/ \E c \in Campaign, n \in Totals : StartFlashSale(c, n)
    \/ \E c \in Campaign : CancelFlashSale(c)
    \/ \E d \in Deposit :
         \/ ApproveWallet(d) \/ CancelWallet(d) \/ CancelPurchase(d)
         \/ OpenApproval(d) \/ FinishApproval(d) \/ AbandonApproval(d)

Background ==
    \/ \E c \in Campaign : StopUnsafe(c)
    \/ \E d \in Deposit :
         PassDeadline(d) \/ ExpireDeposit(d) \/ SettleDone(d) \/ SettleFailed(d)

Next == Customer \/ Bank \/ Admin \/ Background

Spec == Init /\ [][Next]_vars

(***************************************************************************)
(* Fairness: time passes, the expiry worker runs every few seconds, and    *)
(* Haji answers for every open order with a final status some day.         *)
(***************************************************************************)
FairSpec ==
    /\ Spec
    /\ \A d \in Deposit :
         /\ WF_vars(PassDeadline(d)) /\ WF_vars(ExpireDeposit(d))
         /\ WF_vars(SettleDone(d) \/ SettleFailed(d))
-----------------------------------------------------------------------------
(***************************************************************************)
(* Properties.                                                             *)
(***************************************************************************)

\* A request is credited by one transaction at most, and only a paid one is:
\* webhooks repeated or crossing each other, submitted ids, and manual
\* approvals race for it.
OneCredit ==
    \A i, j \in DOMAIN payments :
      /\ payments[i].credit \in {"credited", "refunded"}
      /\ payments[j].credit \in {"credited", "refunded"}
      /\ payments[i].deposit = payments[j].deposit
      => i = j /\ status[payments[i].deposit] = "paid"

\* What the customer has for the payment.
Gains(d) ==
    {g \in {"goods", "wallet", "refund", "preorder", "open order"} :
       \/ g = "goods" /\ goods[d] > 0
       \/ g = "wallet" /\ <<"deposit", d>> \in events
       \/ g = "refund" /\ <<"refund", d>> \in events
       \/ g = "preorder" /\ d \in placed
       \/ g = "open order" /\ attempt[d] = "processing"}

\* The money went back to the wallet while the supplier's order stayed open.
LeftOpen(d) == attempt[d] # "none" /\ <<"deposit", d>> \in events

\* A paid request brings one thing - the goods, the wallet balance, a preorder,
\* or an open supplier order that ends as goods or as a refund - and an unpaid
\* one nothing, except for the orders left open.
SettledOnce ==
    \A d \in Deposit : ~LeftOpen(d) =>
      Cardinality(Gains(d)) = IF status[d] = "paid" THEN 1 ELSE 0

\* A closed request holds no place: whichever of the payment, the expiry, the
\* cancellation and the late supplier answer ends it, and however often it is
\* opened again for approval.
PlaceGivenUp ==
    \A d \in Deposit :
      held[d] > 0 => status[d] = "pending" \/ attempt[d] = "processing"

\* At most one campaign sells or has reserved places: a campaign that reopens
\* when a place is released must not meet a successor.
OneOpenSale ==
    \A b, c \in Campaign :
      /\ {b, c} \cap overtaken = {}
      /\ campaign[b].status = "active" \/ campaign[b].reserved > 0
      /\ campaign[c].status = "active" \/ campaign[c].reserved > 0
      => b = c

\* The quota of a campaign, as far as its own counters go.
WithinQuota ==
    \A c \in Campaign \ overtaken : campaign[c].sold + campaign[c].reserved <= campaign[c].total

\* The counters of a campaign agree with the requests and the orders: what is
\* reserved is what open requests hold, place by place, and what is sold is what was
\* ordered, but for the orders of requests whose place had been given up.
Of(c) == {d \in Deposit : sale[d] = c}
PlacesHeld(c) == Pairs(Of(c), held)
OrderedLate(c) == Pairs(Of(c) \cap late, goods)
PlacesBalance ==
    \A c \in Campaign \ overtaken :
      /\ campaign[c].reserved = Cardinality(PlacesHeld(c))
      /\ campaign[c].sold = saleOrders[c] - Cardinality(OrderedLate(c))

\* A payment that was settled stays settled, and a request the admin cancelled
\* is not paid by a transfer.
SettledForGood ==
    [][\A d \in Deposit :
         /\ status[d] = "paid" => status'[d] = "paid"
         /\ reason[d] = "admin_cancelled" /\ status'[d] = "paid" => WalletKind(d)
      ]_vars

\* A reserved place is not lost: it is sold or released.
PlaceReturns == \A d \in Deposit : held[d] > 0 ~> held[d] = 0
=============================================================================
