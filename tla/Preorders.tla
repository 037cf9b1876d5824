------------------------------ MODULE Preorders ------------------------------
(***************************************************************************)
(* Preorders of out-of-stock accounts (app/preorders.py), with the wallet  *)
(* they are paid from (app/wallet_ledger.py), the Telegram sessions that   *)
(* place and cancel them (app/handlers.py), the QR payment that places one *)
(* (app/services.py), the purchase transaction that fulfils them           *)
(* (purchase_product of app/services.py) and the worker that drives them.  *)
(*                                                                         *)
(* One action is one committed database transaction, or one call to        *)
(* Telegram.  Transactions of one user are serialised by the row lock they *)
(* take first (SELECT ... FOR UPDATE), so a transaction is atomic; what is *)
(* not atomic is the Telegram session: it loads the User object, commits,  *)
(* and later computes the new balance from the object it already holds.    *)
(*                                                                         *)
(* Wallets are the VND wallets: preorders are never charged or refunded in *)
(* USD.  Preorder ids follow created_at.                                   *)
(***************************************************************************)
EXTENDS Integers, FiniteSets, Counting

CONSTANTS
    User,               \* Telegram users
    NoUser,             \* no referrer
    Referrer,           \* [User -> User \cup {NoUser}]: User.referred_by_id
    CommissionPercent,  \* settings.referral_commission_percent
    Product,            \* products that can be preordered
    ApiProduct,         \* those sourced from a supplier with idempotent orders
    Preorder,           \* preorder ids, naturals in creation order
    Legacy,             \* preorders that predate payment at booking
    NoTerms,            \* terms of an id that is not used yet
    Deposit,            \* QR payments of kind "preorder"
    Chat,               \* concurrent Telegram update sessions
    Prices,             \* product prices
    Quantities,         \* preorder quantities
    Adjustments,        \* amounts of an admin balance adjustment
    ShelfModes,         \* what an admin may do with a product page
    Blockable,          \* users an admin may block
    MaxBalance,         \* bound: money adjustments bring in, per user
    MaxStock,           \* bound on local stock and on cached supplier stock
    MaxActivePerUser    \* settings.preorder_max_active_per_user

ASSUME PreorderAssumption == Preorder \subseteq Nat
ASSUME LegacyAssumption ==
    Legacy \subseteq Preorder /\ \A p \in Legacy, q \in Preorder \ Legacy : p < q
ASSUME ApiAssumption == ApiProduct \subseteq Product
ASSUME PriceAssumption == Prices \subseteq Nat \ {0}
ASSUME QuantityAssumption == Quantities \subseteq Nat \ {0}
ASSUME AdjustmentAssumption == Adjustments \subseteq Nat \ {0}
ASSUME CommissionAssumption == CommissionPercent \in Nat
ASSUME ReferrerAssumption == /\ NoUser \notin User
                             /\ Referrer \in [User -> User \cup {NoUser}]
ASSUME TermsAssumption ==
    /\ NoTerms \notin [user: User, product: Product,
                       quantity: Quantities, base: Prices]
    /\ NoTerms \notin [user: User, amount: Nat]
ASSUME CatalogAssumption ==
    /\ ShelfModes \subseteq {"active", "hidden", "forced_out"}
    /\ Blockable \subseteq User
ASSUME BoundAssumption ==
    MaxBalance \in Nat /\ MaxStock \in Nat /\ MaxActivePerUser \in Nat

VARIABLES
    balance,    \* User.balance as committed
    posted,     \* sum of WalletTransaction.amount of the user
    events,     \* WalletTransaction.event_key of preorders, orders, deposits
    qrPaid,     \* QR payments of kind "preorder" that were settled
    inflow,     \* history: money of a user that came from outside this module
    overtaken,  \* history: users written from an out-of-date User object
    terms,      \* Preorder.user_id, product_id, quantity, base_unit_price
    status,     \* Preorder.status, "absent" for an unused id
    charged,    \* Preorder.funds_charged
    refunded,   \* Preorder.refunded_at is set
    notify,     \* Preorder.notification_status
    told,       \* history: verdicts Telegram accepted for the customer
    delivered,  \* number of Order rows with this preorder_id
    supplied,   \* accounts in the supplier order placed under the key preorder-<id>
    shelved,    \* preorders whose supplier order was kept as local stock
    price,      \* Product.price
    shelf,      \* active, hidden (inactive or archived), forced_out
    blocked,    \* User.is_blocked
    stock,      \* available InventoryItem rows of the product
    supply,     \* external_stock beyond the local rows, as last synchronised
    session,    \* Telegram sessions: the user and the balance they loaded
    worker      \* preorder_worker: where its loop is

wallet == <<balance, posted, events, qrPaid, inflow, overtaken>>
book == <<terms, status, charged, refunded, notify>>
goods == <<delivered, supplied, shelved, stock, supply>>
catalog == <<price, shelf, blocked>>
vars == <<wallet, book, goods, catalog, told, session, worker>>

Status == {"absent", "pending", "processing", "completed", "cancelled"}
ActiveStatus == {"pending", "processing"}
Notify == {"none", "pending", "sending", "sent", "failed"}
Terms == [user: User, product: Product, quantity: Quantities, base: Prices]
Session == [user: User, balance: Nat] \cup {NoTerms}
WorkerState == [pc: {"idle", "claimed", "buy", "finish", "send", "mark"},
                id: Preorder, charged: BOOLEAN,
                verdict: {"none", "completed", "cancel", "retry"}]

TypeOK ==
    /\ balance \in [User -> Nat]
    /\ posted \in [User -> Int]
    /\ events \subseteq {"preorder_charge", "preorder_refund", "purchase",
                         "referral", "deposit"} \X (Preorder \cup Deposit)
    /\ qrPaid \subseteq Deposit
    /\ inflow \in [User -> Int]
    /\ overtaken \subseteq User
    /\ terms \in [Preorder -> Terms \cup {NoTerms}]
    /\ status \in [Preorder -> Status]
    /\ charged \in [Preorder -> BOOLEAN]
    /\ refunded \in [Preorder -> BOOLEAN]
    /\ notify \in [Preorder -> Notify]
    /\ told \in [Preorder -> SUBSET {"completed", "cancelled"}]
    /\ delivered \in [Preorder -> Nat]
    /\ supplied \in [Preorder -> Nat]
    /\ shelved \subseteq Preorder
    /\ price \in [Product -> Prices]
    /\ shelf \in [Product -> {"active", "hidden", "forced_out"}]
    /\ blocked \subseteq User
    /\ stock \in [Product -> Nat]
    /\ supply \in [Product -> Nat]
    /\ session \in [Chat -> Session]
    /\ worker \in WorkerState
-----------------------------------------------------------------------------
Active(p) == status[p] \in ActiveStatus
Total(p) == terms[p].base * terms[p].quantity
Commission(amount) == (amount * CommissionPercent) \div 100
Larger(a, b) == IF a >= b THEN a ELSE b

\* Stock a product page shows: local rows, or the supplier's if larger.
Available(x) == IF x \in ApiProduct THEN Larger(stock[x], supply[x]) ELSE stock[x]

\* Faulty variant: the balance moves and no ledger row is written.
ApplyUnposted(u, held, amount, event) ==
    /\ held + amount >= 0
    /\ event \notin events
    /\ balance' = [balance EXCEPT ![u] = held + amount]
    /\ events' = events \cup {event}
    /\ overtaken' = IF held = balance[u] THEN overtaken ELSE overtaken \cup {u}
    /\ UNCHANGED posted

\* One wallet mutation computed from the balance the caller holds.
ApplyWalletChange(u, held, amount, event) ==
    /\ held + amount >= 0
    /\ event \notin events
    /\ balance' = [balance EXCEPT ![u] = held + amount]
    /\ posted' = [posted EXCEPT ![u] = @ + amount]
    /\ events' = events \cup {event}
    /\ overtaken' = IF held = balance[u] THEN overtaken ELSE overtaken \cup {u}

Init ==
    /\ balance = [u \in User |-> 0] /\ posted = balance /\ inflow = balance
    /\ events = {} /\ qrPaid = {} /\ overtaken = {}
    /\ terms \in [Preorder -> Terms \cup {NoTerms}]
    /\ \A p \in Preorder : terms[p] = NoTerms <=> p \notin Legacy
    /\ \A p, q \in Legacy : p # q => \/ terms[p].user # terms[q].user
                                     \/ terms[p].product # terms[q].product
    /\ status = [p \in Preorder |-> IF p \in Legacy THEN "pending" ELSE "absent"]
    /\ charged = [p \in Preorder |-> FALSE]
    /\ refunded = [p \in Preorder |-> FALSE]
    /\ notify = [p \in Preorder |-> "none"]
    /\ told = [p \in Preorder |-> {}]
    /\ delivered = [p \in Preorder |-> 0]
    /\ supplied = [p \in Preorder |-> 0]
    /\ shelved = {}
    /\ price \in [Product -> Prices]
    /\ shelf = [x \in Product |-> "active"]
    /\ blocked = {}
    /\ stock = [x \in Product |-> 0]
    /\ supply = [x \in Product |-> 0]
    /\ session = [c \in Chat |-> NoTerms]
    /\ \E p \in Preorder :
         worker = [pc |-> "idle", id |-> p, charged |-> FALSE, verdict |-> "none"]
-----------------------------------------------------------------------------
(***************************************************************************)
(* The customer.                                                           *)
(***************************************************************************)

\* get_or_create_user: the update's session loads the User row and commits;
\* the object stays in the session with the balance it was loaded with.
OpenSession(c, u) ==
    /\ session[c] = NoTerms
    /\ session' = [session EXCEPT ![c] = [user |-> u, balance |-> balance[u]]]
    /\ UNCHANGED <<wallet, book, goods, catalog, told, worker>>

\* The update is over without a wallet operation, or one that was refused.
CloseSession(c) ==
    /\ session[c] # NoTerms
    /\ session' = [session EXCEPT ![c] = NoTerms]
    /\ UNCHANGED <<wallet, book, goods, catalog, told, worker>>

\* The checks of create_preorder, in one conjunction.
Creatable(u, x, limit) ==
    /\ u \notin blocked
    /\ shelf[x] = "active"
    /\ Available(x) = 0
    /\ \A p \in Preorder : Active(p) /\ terms[p].user = u => terms[p].product # x
    /\ Cardinality({p \in Preorder : Active(p) /\ terms[p].user = u}) < limit

\* The id a new row gets.
NextId(p) == status[p] = "absent" /\ \A q \in Preorder : q < p => status[q] # "absent"

\* Faulty variant: the row does not record that it was paid.
InsertUnflagged(p, u, x, q) ==
    /\ terms' = [terms EXCEPT ![p] = [user |-> u, product |-> x,
                                      quantity |-> q, base |-> price[x]]]
    /\ status' = [status EXCEPT ![p] = "pending"]
    /\ UNCHANGED <<charged, refunded, notify>>

\* The row create_preorder inserts.
Insert(p, u, x, q) ==
    /\ terms' = [terms EXCEPT ![p] = [user |-> u, product |-> x,
                                      quantity |-> q, base |-> price[x]]]
    /\ status' = [status EXCEPT ![p] = "pending"]
    /\ charged' = [charged EXCEPT ![p] = TRUE]
    /\ UNCHANGED <<refunded, notify>>

\* The customer confirms at the price now on the product: create_preorder in
\* the update's own session.  The balance check and the debit use the balance
\* the session loaded, although the row is locked by then.
ConfirmPreorder(c, p, x, q) ==
    LET u == session[c].user
        cost == price[x] * q IN
    /\ session[c] # NoTerms
    /\ NextId(p)
    /\ Creatable(u, x, MaxActivePerUser)
    /\ session[c].balance >= cost
    /\ Insert(p, u, x, q)
    /\ ApplyWalletChange(u, session[c].balance, -cost, <<"preorder_charge", p>>)
    /\ session' = [session EXCEPT ![c] = NoTerms]
    /\ UNCHANGED <<qrPaid, inflow, goods, catalog, told, worker>>

\* _cancel_and_refund_locked: the refund is due once, to a row that was paid.
CancelAndRefund(p, held) ==
    /\ IF charged[p] /\ ~refunded[p] /\ <<"preorder_refund", p>> \notin events
         THEN ApplyWalletChange(terms[p].user, held, Total(p),
                                <<"preorder_refund", p>>)
         ELSE UNCHANGED <<balance, posted, events, overtaken>>
    /\ refunded' = [refunded EXCEPT ![p] = @ \/ charged[p]]
    /\ status' = [status EXCEPT ![p] = "cancelled"]
    /\ notify' = [notify EXCEPT ![p] = "pending"]
    /\ UNCHANGED <<qrPaid, inflow, terms, charged>>

\* The customer cancels: same session, same stale balance.
CancelOwnPreorder(c, p) ==
    /\ session[c] # NoTerms
    /\ status[p] = "pending"
    /\ terms[p].user = session[c].user
    /\ CancelAndRefund(p, session[c].balance)
    /\ session' = [session EXCEPT ![c] = NoTerms]
    /\ UNCHANGED <<goods, catalog, told, worker>>

\* A QR payment of kind "preorder" arrives.  The amount was fixed with the QR;
\* if the reservation is refused the money goes to the wallet instead.
PayPreorderByQr(d, u, x, q, unit) ==
    LET placed == unit = price[x] /\ Creatable(u, x, 5) IN
    /\ d \notin qrPaid
    /\ u \notin blocked
    /\ qrPaid' = qrPaid \cup {d}
    /\ inflow' = [inflow EXCEPT ![u] = @ + unit * q]
    /\ \/ /\ placed
          /\ \E p \in Preorder : NextId(p) /\ Insert(p, u, x, q)
          /\ UNCHANGED <<balance, posted, events, overtaken>>
       \/ /\ ~placed
          /\ ApplyWalletChange(u, balance[u], unit * q, <<"deposit", d>>)
          /\ UNCHANGED book
    /\ UNCHANGED <<goods, catalog, told, session, worker>>
-----------------------------------------------------------------------------
(***************************************************************************)
(* The shop: an admin, the catalogue, other customers.                     *)
(***************************************************************************)
AdminCancelPreorder(p) ==
    /\ status[p] = "pending"
    /\ CancelAndRefund(p, balance[terms[p].user])
    /\ UNCHANGED <<goods, catalog, told, session, worker>>

\* A transaction on a session of its own, standing for all those of the shop.
AdjustBalance(u, a) ==
    /\ balance[u] + a >= 0
    /\ inflow[u] + a \in 0..MaxBalance
    /\ balance' = [balance EXCEPT ![u] = @ + a]
    /\ posted' = [posted EXCEPT ![u] = @ + a]
    /\ inflow' = [inflow EXCEPT ![u] = @ + a]
    /\ UNCHANGED <<events, qrPaid, overtaken, book, goods, catalog, told, session, worker>>

ChangePrice(x, new) ==
    /\ price[x] # new
    /\ price' = [price EXCEPT ![x] = new]
    /\ UNCHANGED <<wallet, book, goods, shelf, blocked, told, session, worker>>

SetShelf(x, mode) ==
    /\ shelf[x] # mode
    /\ shelf' = [shelf EXCEPT ![x] = mode]
    /\ UNCHANGED <<wallet, book, goods, price, blocked, told, session, worker>>

ToggleBlock(u) ==
    /\ blocked' = IF u \in blocked THEN blocked \ {u} ELSE blocked \cup {u}
    /\ UNCHANGED <<wallet, book, goods, price, shelf, told, session, worker>>

\* Imported rows arrive, other buyers take rows.
MoveStock(x, n) ==
    /\ stock' = [stock EXCEPT ![x] = n]
    /\ UNCHANGED <<wallet, book, delivered, supplied, shelved, supply,
                   catalog, told, session, worker>>

\* A catalogue synchronisation writes product.external_stock.
SyncSupply(x, n) ==
    /\ x \in ApiProduct
    /\ supply' = [supply EXCEPT ![x] = n]
    /\ UNCHANGED <<wallet, book, delivered, supplied, shelved, stock,
                   catalog, told, session, worker>>
-----------------------------------------------------------------------------
(***************************************************************************)
(* preorder_worker, one sequential loop.                                   *)
(***************************************************************************)
Goto(pc) == worker' = [worker EXCEPT !.pc = pc]
Conclude(v) == worker' = [worker EXCEPT !.pc = "finish", !.verdict = v]

\* Faulty variant: a row in processing does not hold back the next one.
ClaimBehindProcessing(p) ==
    /\ worker.pc = "idle"
    /\ status[p] = "pending"
    /\ \A q \in Preorder :
         status[q] = "pending" /\ terms[q].product = terms[p].product => q >= p
    /\ status' = [status EXCEPT ![p] = "processing"]
    /\ worker' = [pc |-> "claimed", id |-> p, charged |-> charged[p],
                  verdict |-> "none"]
    /\ UNCHANGED <<wallet, terms, charged, refunded, notify, goods, catalog,
                   told, session>>

\* _claim_next_preorder: the head of a product's queue whose retry is due.
ClaimPreorder(p) ==
    /\ worker.pc = "idle"
    /\ status[p] = "pending"
    /\ \A q \in Preorder :
         Active(q) /\ terms[q].product = terms[p].product => q >= p
    /\ status' = [status EXCEPT ![p] = "processing"]
    /\ worker' = [pc |-> "claimed", id |-> p, charged |-> charged[p],
                  verdict |-> "none"]
    /\ UNCHANGED <<wallet, terms, charged, refunded, notify, goods, catalog,
                   told, session>>

Unfit(p) ==
    LET u == terms[p].user  x == terms[p].product IN
    \/ shelf[x] # "active"
    \/ price[x] # terms[p].base
    \/ u \in blocked
    \/ ~charged[p] /\ balance[u] < Total(p)

\* _process_claimed_preorder up to its call of purchase_product.
CheckClaimed ==
    LET p == worker.id  x == terms[p].product IN
    /\ worker.pc = "claimed"
    /\ \/ status[p] # "processing" /\ Goto("idle")
       \/ status[p] = "processing" /\ Unfit(p) /\ Conclude("cancel")
       \/ /\ status[p] = "processing" /\ ~Unfit(p)
          /\ IF stock[x] < terms[p].quantity /\ x \notin ApiProduct
               THEN Conclude("retry") ELSE Goto("buy")
    /\ UNCHANGED <<wallet, book, goods, catalog, told, session>>

(***************************************************************************)
(* The purchase transaction for the claimed preorder: purchase_product with *)
(* preorder_id, a fixed price and wallet_already_charged as claimed.  The   *)
(* preorder row, the user and the product are locked throughout.            *)
(***************************************************************************)

\* Faulty variant: what was paid at booking is debited again.
DeliverAndDebit(p, local, bought) ==
    LET u == terms[p].user  x == terms[p].product IN
    /\ balance[u] >= Total(p)
    /\ balance' = [balance EXCEPT ![u] = @ - Total(p)]
    /\ posted' = [posted EXCEPT ![u] = @ - Total(p)]
    /\ events' = events \cup {<<"purchase", p>>}
    /\ delivered' = [delivered EXCEPT ![p] = @ + local + bought]
    /\ stock' = [stock EXCEPT ![x] = @ - local]
    /\ UNCHANGED <<qrPaid, inflow, overtaken>>

\* The order lines are written: accounts leave the local stock, a preorder
\* that was not paid at booking is debited, the referrer gets the commission.
Deliver(p, local, bought) ==
    LET u == terms[p].user
        x == terms[p].product
        r == Referrer[u]
        reward == Commission(Total(p))
        rewarded == r # NoUser /\ r # u /\ reward > 0
        debit == IF worker.charged THEN 0 ELSE Total(p)
        delta == [v \in User |-> (IF v = u THEN -debit ELSE 0)
                                 + (IF rewarded /\ v = r THEN reward ELSE 0)]
    IN
    /\ balance' = [v \in User |-> balance[v] + delta[v]]
    /\ posted' = [v \in User |-> posted[v] + delta[v]]
    /\ events' = events
                 \cup (IF worker.charged THEN {} ELSE {<<"purchase", p>>})
                 \cup (IF rewarded THEN {<<"referral", p>>} ELSE {})
    /\ delivered' = [delivered EXCEPT ![p] = @ + local + bought]
    /\ stock' = [stock EXCEPT ![x] = @ - local]
    /\ UNCHANGED <<qrPaid, inflow, overtaken>>

\* Answers the transaction gives before it reserves anything.
BuyRefused ==
    LET p == worker.id  x == terms[p].product IN
    /\ \/ /\ \/ status[p] = "cancelled"
             \/ worker.charged /\ (~charged[p] \/ refunded[p])
          /\ Conclude("cancel")
       \/ /\ status[p] # "cancelled" /\ delivered[p] > 0
          /\ Conclude("completed")
       \/ /\ status[p] # "cancelled" /\ delivered[p] = 0
          /\ \/ shelf[x] = "hidden" /\ Conclude("cancel")
             \/ shelf[x] = "forced_out" /\ Conclude("retry")
             \/ /\ shelf[x] = "active" /\ terms[p].user \in blocked
                /\ Conclude("cancel")
    /\ UNCHANGED <<wallet, book, goods, catalog, told, session>>

\* The preorder may be fulfilled as far as row, product and user go.
Buyable(p) ==
    /\ status[p] # "cancelled" /\ delivered[p] = 0
    /\ ~worker.charged \/ (charged[p] /\ ~refunded[p])
    /\ shelf[terms[p].product] = "active"
    /\ terms[p].user \notin blocked

\* Paid at booking, or the wallet covers it now.
Funded(p) == worker.charged \/ balance[terms[p].user] >= Total(p)

\* Enough local rows: they are the whole order.
BuyFromStock ==
    LET p == worker.id  x == terms[p].product  q == terms[p].quantity IN
    /\ Buyable(p)
    /\ stock[x] >= q
    /\ \/ /\ price[x] # terms[p].base \/ ~Funded(p)
          /\ Conclude("cancel")
          /\ UNCHANGED <<wallet, goods>>
       \/ /\ price[x] = terms[p].base /\ Funded(p)
          /\ Deliver(p, q, 0)
          /\ Conclude("completed")
          /\ UNCHANGED <<supplied, shelved, supply>>
    /\ UNCHANGED <<book, catalog, told, session>>

\* Too few local rows of a product the shop stocks itself.
BuyOutOfStock ==
    LET p == worker.id  x == terms[p].product IN
    /\ Buyable(p)
    /\ x \notin ApiProduct /\ stock[x] < terms[p].quantity
    /\ Conclude(IF price[x] = terms[p].base THEN "retry" ELSE "cancel")
    /\ UNCHANGED <<wallet, book, goods, catalog, told, session>>

\* The supplier is asked for the missing accounts after the product is
\* refreshed from it, which may reprice the product.  The order carries the
\* key preorder-<id>, so a repeated call is answered with the first order; an
\* answer with another number of accounts is an incomplete delivery.  A dearer
\* order is kept as local stock and the preorder is cancelled.  An order whose
\* accounts are already local stock breaks a unique key: nothing is committed
\* (WorkerFails).
BuyFromSupplier ==
    LET p == worker.id
        x == terms[p].product
        missing == terms[p].quantity - stock[x]
        answered == IF supplied[p] = 0 THEN missing ELSE supplied[p]
    IN
    /\ Buyable(p)
    /\ x \in ApiProduct /\ missing > 0
    /\ supply' \in [Product -> 0..MaxStock]
    /\ \A y \in Product \ {x} : supply'[y] = supply[y]
    /\ \/ /\ \E new \in Prices :
               /\ price' = [price EXCEPT ![x] = new]
               /\ \/ Conclude("retry")
                  \/ (new # terms[p].base \/ ~Funded(p)) /\ Conclude("cancel")
          /\ UNCHANGED <<wallet, delivered, supplied, shelved, stock>>
       \/ /\ Funded(p) /\ answered # missing
          /\ price' = [price EXCEPT ![x] = terms[p].base]
          /\ supplied' = [supplied EXCEPT ![p] = answered]
          /\ Conclude("retry")
          /\ UNCHANGED <<wallet, delivered, shelved, stock>>
       \/ /\ Funded(p) /\ answered = missing /\ p \notin shelved
          /\ price' = [price EXCEPT ![x] = terms[p].base]
          /\ supplied' = [supplied EXCEPT ![p] = answered]
          /\ Deliver(p, stock[x], missing)
          /\ Conclude("completed")
          /\ UNCHANGED shelved
       \/ /\ Funded(p) /\ answered = missing
          /\ \E new \in Prices : price' = [price EXCEPT ![x] = new]
          /\ supplied' = [supplied EXCEPT ![p] = answered]
          /\ stock' = [stock EXCEPT ![x] = IF p \in shelved THEN @ ELSE @ + missing]
          /\ shelved' = shelved \cup {p}
          /\ Conclude("cancel")
          /\ UNCHANGED <<wallet, delivered>>
    /\ UNCHANGED <<book, shelf, blocked, told, session>>

Buy ==
    /\ worker.pc = "buy"
    /\ BuyRefused \/ BuyFromStock \/ BuyOutOfStock \/ BuyFromSupplier

\* _complete_preorder.
CompletePreorder ==
    LET p == worker.id IN
    /\ worker.pc = "finish" /\ worker.verdict = "completed"
    /\ IF status[p] = "cancelled" THEN UNCHANGED book ELSE
         /\ status' = [status EXCEPT ![p] = "completed"]
         /\ charged' = [charged EXCEPT ![p] = TRUE]
         /\ notify' = [notify EXCEPT ![p] = "pending"]
         /\ UNCHANGED <<terms, refunded>>
    /\ Goto("idle")
    /\ UNCHANGED <<wallet, goods, catalog, told, session>>

\* Faulty variant: the worker closes the row and forgets the refund.
CloseUnrefunded ==
    LET p == worker.id IN
    /\ worker.pc = "finish" /\ worker.verdict = "cancel"
    /\ status' = [status EXCEPT ![p] = "cancelled"]
    /\ notify' = [notify EXCEPT ![p] = "pending"]
    /\ Goto("idle")
    /\ UNCHANGED <<wallet, terms, charged, refunded, goods, catalog, told, session>>

\* _cancel_preorder.
CancelPreorder ==
    LET p == worker.id IN
    /\ worker.pc = "finish" /\ worker.verdict = "cancel"
    /\ IF Active(p) THEN CancelAndRefund(p, balance[terms[p].user])
                    ELSE UNCHANGED <<wallet, book>>
    /\ Goto("idle")
    /\ UNCHANGED <<goods, catalog, told, session>>

\* _set_pending_retry.
SetPendingRetry ==
    LET p == worker.id IN
    /\ worker.pc = "finish" /\ worker.verdict = "retry"
    /\ status' = IF status[p] = "processing"
                   THEN [status EXCEPT ![p] = "pending"] ELSE status
    /\ Goto("idle")
    /\ UNCHANGED <<wallet, terms, charged, refunded, notify, goods, catalog,
                   told, session>>

\* An exception or a restart loses the step in hand; a supplier order already
\* placed by the rolled-back purchase stays placed.
WorkerFails ==
    LET p == worker.id
        missing == terms[p].quantity - stock[terms[p].product] IN
    /\ worker.pc # "idle"
    /\ Goto("idle")
    /\ \/ UNCHANGED supplied
       \/ /\ worker.pc = "buy" /\ Buyable(p) /\ Funded(p)
          /\ terms[p].product \in ApiProduct /\ missing > 0 /\ supplied[p] = 0
          /\ supplied' = [supplied EXCEPT ![p] = missing]
    /\ UNCHANGED <<wallet, book, delivered, shelved, stock, supply, catalog,
                   told, session>>

\* Faulty variants: recovery without a look at the orders, and recovery of
\* those rows only that have orders.
RequeueStale(P, N) ==
    /\ worker.pc = "idle"
    /\ P \cup N # {}
    /\ \A p \in P : status[p] = "processing"
    /\ \A p \in N : notify[p] = "sending"
    /\ status' = [p \in Preorder |-> IF p \in P THEN "pending" ELSE status[p]]
    /\ notify' = [p \in Preorder |-> IF p \in N THEN "failed" ELSE notify[p]]
    /\ UNCHANGED <<wallet, terms, charged, refunded, goods, catalog, told, session, worker>>

CompleteStale(P, N) ==
    /\ worker.pc = "idle"
    /\ P \cup N # {}
    /\ \A p \in P : status[p] = "processing" /\ delivered[p] > 0
    /\ \A p \in N : notify[p] = "sending"
    /\ status' = [p \in Preorder |-> IF p \in P THEN "completed" ELSE status[p]]
    /\ charged' = [p \in Preorder |-> charged[p] \/ p \in P]
    /\ notify' = [p \in Preorder |->
                    IF p \in N THEN "failed" ELSE IF p \in P THEN "pending" ELSE notify[p]]
    /\ UNCHANGED <<wallet, terms, refunded, goods, catalog, told, session, worker>>

\* _recover_stale_preorders: rows left in processing, or in sending, by a
\* failed iteration (P and N: those older than STALE_PROCESSING_SECONDS).
RecoverStale(P, N) ==
    /\ worker.pc = "idle"
    /\ P \cup N # {}
    /\ \A p \in P : status[p] = "processing"
    /\ \A p \in N : notify[p] = "sending"
    /\ status' = [p \in Preorder |->
                    IF p \notin P THEN status[p]
                    ELSE IF delivered[p] > 0 THEN "completed" ELSE "pending"]
    /\ charged' = [p \in Preorder |-> charged[p] \/ (p \in P /\ delivered[p] > 0)]
    /\ notify' = [p \in Preorder |->
                    IF p \in N THEN "failed"
                    ELSE IF p \in P /\ delivered[p] > 0 THEN "pending"
                    ELSE notify[p]]
    /\ UNCHANGED <<wallet, terms, refunded, goods, catalog, told, session, worker>>

\* Faulty variant: a notification that failed is not tried again.
ClaimFirstNotification(p) ==
    /\ worker.pc = "idle"
    /\ status[p] \in {"completed", "cancelled"}
    /\ notify[p] = "pending"
    /\ notify' = [notify EXCEPT ![p] = "sending"]
    /\ worker' = [worker EXCEPT !.pc = "send", !.id = p]
    /\ UNCHANGED <<wallet, terms, status, charged, refunded, goods, catalog,
                   told, session>>

\* _claim_notification.
ClaimNotification(p) ==
    /\ worker.pc = "idle"
    /\ status[p] \in {"completed", "cancelled"}
    /\ notify[p] \in {"pending", "failed"}
    /\ notify' = [notify EXCEPT ![p] = "sending"]
    /\ worker' = [worker EXCEPT !.pc = "send", !.id = p]
    /\ UNCHANGED <<wallet, terms, status, charged, refunded, goods, catalog,
                   told, session>>

\* _send_preorder_notification: Telegram takes the message ...
SendNotification ==
    LET p == worker.id IN
    /\ worker.pc = "send"
    /\ status[p] = "completed" => delivered[p] > 0
    /\ told' = [told EXCEPT ![p] = @ \cup {status[p]}]
    /\ Goto("mark")
    /\ UNCHANGED <<wallet, book, goods, catalog, session>>

\* ... or an error is raised, before or after the customer saw a message ...
SendFails ==
    /\ worker.pc = "send"
    /\ \/ UNCHANGED told
       \/ /\ status[worker.id] = "completed" => delivered[worker.id] > 0
          /\ told' = [told EXCEPT ![worker.id] = @ \cup {status[worker.id]}]
    /\ notify' = [notify EXCEPT ![worker.id] = "failed"]
    /\ Goto("idle")
    /\ UNCHANGED <<wallet, terms, status, charged, refunded, goods, catalog,
                   session>>

\* ... and the row is marked in a transaction of its own.
MarkSent ==
    /\ worker.pc = "mark"
    /\ notify' = [notify EXCEPT ![worker.id] =
                    IF @ = "sending" THEN "sent" ELSE @]
    /\ Goto("idle")
    /\ UNCHANGED <<wallet, terms, status, charged, refunded, goods, catalog,
                   told, session>>
-----------------------------------------------------------------------------
Customer ==
    \/ \E c \in Chat :
         \/ \E u \in User : OpenSession(c, u)
         \/ CloseSession(c)
         \/ \E p \in Preorder : CancelOwnPreorder(c, p)
         \/ \E p \in Preorder, x \in Product, q \in Quantities :
              ConfirmPreorder(c, p, x, q)
    \/ \E d \in Deposit, u \in User, x \in Product, q \in Quantities,
          unit \in Prices : PayPreorderByQr(d, u, x, q, unit)

Shop ==
    \/ \E p \in Preorder : AdminCancelPreorder(p)
    \/ \E u \in User, a \in Adjustments : AdjustBalance(u, a) \/ AdjustBalance(u, -a)
    \/ \E u \in Blockable : ToggleBlock(u)
    \/ \E x \in Product, new \in Prices : ChangePrice(x, new)
    \/ \E x \in Product, mode \in ShelfModes :
         SetShelf(x, mode)
    \/ \E x \in Product, n \in 0..MaxStock : MoveStock(x, n) \/ SyncSupply(x, n)

Worker ==
    \/ \E p \in Preorder : ClaimPreorder(p) \/ ClaimNotification(p)
    \/ CheckClaimed \/ Buy
    \/ CompletePreorder \/ CancelPreorder \/ SetPendingRetry
    \/ \E P, N \in SUBSET Preorder : RecoverStale(P, N)
    \/ SendNotification \/ SendFails \/ MarkSent

Next == Customer \/ Shop \/ Worker \/ WorkerFails

Spec == Init /\ [][Next]_vars

(***************************************************************************)
(* Fairness.  The loop never stops: a step it is at is taken unless the     *)
(* iteration fails (WF); recovery runs at the top of an iteration once a    *)
(* minute, so it is not put off for ever by other work (SF); notifications  *)
(* are claimed in every iteration, and Telegram does not refuse a customer  *)
(* for ever (SF).  Customers and the shop are not fair.                     *)
(***************************************************************************)
FairSpec ==
    /\ Spec
    /\ WF_vars(CheckClaimed) /\ WF_vars(Buy)
    /\ WF_vars(CompletePreorder) /\ WF_vars(CancelPreorder)
    /\ WF_vars(SetPendingRetry)
    /\ \A p \in Preorder :
         /\ SF_vars(\E P, N \in SUBSET Preorder : p \in P /\ RecoverStale(P, N))
         /\ SF_vars(\E P, N \in SUBSET Preorder : p \in N /\ RecoverStale(P, N))
         /\ SF_vars(ClaimNotification(p))
         /\ SF_vars(worker.id = p /\ SendNotification)
         /\ SF_vars(worker.id = p /\ MarkSent)
-----------------------------------------------------------------------------
(***************************************************************************)
(* Properties.                                                             *)
(***************************************************************************)

\* What is delivered is the whole order, was paid once - at booking, or at
\* delivery for a preorder that predates payment at booking - and is never
\* given back: repeated claims, recovery after a failure and cancellations
\* must not deliver, charge or refund a second time.
PaidForOnce ==
    \A p \in Preorder : delivered[p] > 0 =>
      /\ delivered[p] = terms[p].quantity
      /\ ~refunded[p] /\ <<"preorder_refund", p>> \notin events
      /\ <<"purchase", p>> \in events <=> p \in Legacy

\* A cancelled preorder was never delivered, and its money went back exactly
\* when it had been taken: the customer's, the admin's and the worker's
\* cancellation race for the row.
CancelledIsRefunded ==
    \A p \in Preorder : status[p] = "cancelled" =>
      /\ delivered[p] = 0
      /\ refunded[p] <=> p \notin Legacy
      /\ <<"preorder_refund", p>> \in events <=> refunded[p]

\* Orders that exist keep the row on the way to "completed": between the
\* purchase and its completion a failure may strike, and the row must not
\* become cancellable in the gap.
DeliveredIsClosed ==
    \A p \in Preorder : delivered[p] > 0 => status[p] \in {"processing", "completed"}

\* The customer is never told both that the order came and that it was
\* cancelled, and a verdict told stays the state of the row.
OneVerdict == \A p \in Preorder : told[p] \subseteq {status[p]}

\* The wallet of a user whom no outdated session wrote is the sum of its
\* ledger rows.
WalletFollowsLedger == \A u \in User \ overtaken : balance[u] = posted[u]

\* The wallet is the sum of its ledger rows, whoever wrote it.
WalletIsLedger == balance = posted

\* No money is made or lost: a user's ledger adds up to what came in, minus the
\* preorders that are held or delivered, plus the commissions earned on those that
\* others were delivered.  Cancellations by three actors, deliveries, retries and
\* QR payments must neither skip nor repeat an entry.
Spending(u) == {p \in Preorder : /\ terms[p] # NoTerms /\ terms[p].user = u
                                 /\ ~refunded[p]
                                 /\ charged[p] \/ delivered[p] > 0}
Earning(u) == {p \in Preorder : /\ delivered[p] > 0
                                /\ terms[p].user # u /\ Referrer[terms[p].user] = u}
Spent(u) == SumOver(Spending(u), [p \in Spending(u) |-> Total(p)])
Earned(u) == SumOver(Earning(u), [p \in Earning(u) |-> Commission(Total(p))])
BooksBalance == \A u \in User : posted[u] = inflow[u] - Spent(u) + Earned(u)

\* Queue order: nothing is delivered while an earlier preorder of the product
\* is open, through retries, failures and recoveries.
FifoDelivery ==
    [][\A p \in Preorder : delivered'[p] # delivered[p] =>
         \A q \in Preorder : q < p /\ terms[q].product = terms[p].product => ~Active(q)
      ]_vars

\* A claimed preorder does not stay in "processing": it is finished, retried,
\* or recovered after a failure.
ProcessingEnds ==
    \A p \in Preorder : status[p] = "processing" ~> status[p] # "processing"

\* The outcome reaches the customer.
CustomerTold ==
    \A p \in Preorder :
      status[p] \in {"completed", "cancelled"} ~> notify[p] = "sent"
-----------------------------------------------------------------------------
(***************************************************************************)
(* The preorders as an escrow of the customers' money.                     *)
(***************************************************************************)
Stage(p) ==
    IF terms[p] = NoTerms THEN "none"
    ELSE IF refunded[p] THEN "returned"
    ELSE IF delivered[p] > 0 THEN "delivered"
    ELSE IF status[p] = "cancelled" THEN "void"
    ELSE IF charged[p] THEN "held" ELSE "open"

DealOf(p) == IF terms[p] = NoTerms THEN NoTerms
             ELSE [user |-> terms[p].user, amount |-> Total(p)]

Escrowed == INSTANCE Escrow WITH
    Contract <- Preorder, NoDeal <- NoTerms,
    account <- posted,
    stage <- [p \in Preorder |-> Stage(p)],
    deal <- [p \in Preorder |-> DealOf(p)]

\* In the books, the money of every preorder is held until it is delivered or
\* given back, exactly once and in full.
ImplementsEscrow == Escrowed!Spec
=============================================================================
