--------------------------- MODULE SupplierAccount ---------------------------
(***************************************************************************)
(* The shop's prepaid account at a supplier: what is bought from it        *)
(* (app/services.py, app/suppliers.py), the orders whose answer was lost   *)
(* and the worker that finds them again (app/supplier_recovery.py), and    *)
(* the audit of the account's balance (app/supplier_audit.py, app/main.py).*)
(*                                                                         *)
(* A Sumi order has no idempotency key: after a lost answer the shop looks *)
(* for an order it does not know yet.  Le Hai orders are repeated under    *)
(* their key, and an undelivered one is paid back by the supplier.         *)
(*                                                                         *)
(* Purchases, recovery passes and audit rounds of one supplier exclude     *)
(* each other by the asyncio lock of its client (supplier_balance_guard);  *)
(* the supplier, the clock and a crash are excluded by nothing.  A pass    *)
(* reads the supplier's list once, so what the supplier does during it is  *)
(* as good as done after it: only the pass moves while it runs, and it may *)
(* be cut short after any of its transactions.                             *)
(*                                                                         *)
(* Timestamps are kept as what the code compares them for: the instant     *)
(* that is now (events of one instant are within SOURCE_CLOCK_SKEW), the   *)
(* ages of open rows in instants, and the orders of an audited period.     *)
(***************************************************************************)
EXTENDS Integers, Sequences, FiniteSets, Functions, Counting

CONSTANTS
    Key,        \* request keys: preorder-<id>, shop-api-<client>-<id>, warranty-<code>
    Preordered, \* keys of preorders: a stale one is queued for recovery
    Warranty,   \* keys of warranty withdrawals: asked once, never sold
    Goods,      \* a supplier product and a quantity
    Wants,      \* [Key -> Goods]
    Cost,       \* [Goods -> Nat]
    Order,      \* orders at the supplier, naturals in the order they are asked for
    NoOrder,
    Retirable,  \* goods whose product an administrator may take off the supplier
    Window,     \* RECOVERY_WINDOW, in instants
    TopUps,     \* amounts by which the account is topped up, at most once
    Start,      \* where the shop may start: its supplier, the keys that are
                \* over, the goods not sourced there, the orders whose accounts
                \* the supplier will fail to show, whether a top-up is past
    NoBuy, NoPass, Idle

ASSUME KeyAssumption ==
    /\ Key # {} /\ Preordered \subseteq Key /\ Warranty \subseteq Key \ Preordered
ASSUME GoodsAssumption == Wants \in [Key -> Goods] /\ Cost \in [Goods -> Nat \ {0}]
ASSUME OrderAssumption ==
    /\ Order \subseteq Nat \ {0} /\ NoOrder \notin Order /\ Retirable \subseteq Goods
ASSUME StartAssumption ==
    Start \subseteq [provider: {"sumistore", "lehai"}, over: SUBSET Key, retired: SUBSET Goods,
                    scant: SUBSET Order, toppedUp: BOOLEAN]
ASSUME BoundAssumption == Window \in Nat \ {0} /\ TopUps \subseteq Nat \ {0}

VARIABLES
    provider,  \* the supplier of this account
    status,    \* the supplier's side of an order
    asker,     \* the key it was asked for
    billed,    \* the orders in the order of their created_at
    fresh,     \* those of this instant
    scant,     \* orders shown with too few accounts
    funds,     \* the balance of the account
    toppedUp,  \* the account was topped up
    buy,       \* the purchase that holds the guard
    pass,      \* the recovery pass that holds it
    over,      \* keys that are not asked again: delivered, or refused for good
    called,    \* preorders marked supplier_call_started: orders older than that
    rows,      \* InventoryItem rows of an order
    retired,   \* goods whose product is no longer sourced from the supplier
    ledger,    \* SupplierBalanceTransaction
    recovery,  \* SupplierRecoveryRequest
    state,     \* SupplierBalanceState: last_balance and last_purchase_id
    period,    \* orders created since its checked_at
    audited    \* the audit of this instant, or 0

supplier == <<status, asker, billed, fresh, scant, funds, toppedUp>>
shop == <<over, called, rows, retired>>
books == <<ledger, recovery, state, period, audited>>
vars == <<provider, supplier, buy, pass, shop, books>>

Entry == [kind: {"purchase", "suspicious", "recovered", "credit", "refund", "refunded"},
          amount: Int, code: Order \cup {NoOrder}, orders: SUBSET Order,
          age: Nat, alerted: BOOLEAN]
Purchase == [key: Key, order: Order, older: SUBSET Order, found: Order \cup {NoOrder},
             step: {"asked", "doubt", "held"}]
Pass == [step: {"match", "link", "orphans", "rematch", "relink"},
         todo: SUBSET Nat, skipped: SUBSET Order, queued: SUBSET Nat]
Request == [key: Key \cup {NoOrder}, goods: Goods, cause: Nat, link: Nat,
            status: {"pending", "recovered", "expired", "invalid_product"},
            code: Order \cup {NoOrder}, older: SUBSET Order, left: Int, withdraw: BOOLEAN]

TypeOK ==
    /\ provider \in {"sumistore", "lehai"}
    /\ status \in [Order -> {"none", "asked", "refused", "billed", "listed", "repaid"}]
    /\ asker \in [Order -> Key]
    /\ billed \in Seq(Order) /\ IsInjective(billed)
    /\ fresh \subseteq Range(billed) /\ scant \subseteq Order
    /\ funds \in Int /\ toppedUp \in BOOLEAN
    /\ buy \in Purchase \cup {NoBuy}
    /\ pass \in Pass \cup {NoPass}
    /\ over \subseteq Key
    /\ called \in [Preordered -> (SUBSET Order) \cup {Idle}]
    /\ rows \in [Order -> {"none", "stock", "sold", "withdrawn"}]
    /\ retired \subseteq Goods
    /\ ledger \in Seq(Entry)
    /\ recovery \in Seq(Request)
    /\ \A i, j \in DOMAIN recovery : recovery[i].key = recovery[j].key /\ i # j
                                       => recovery[i].key = NoOrder
    /\ state \in [balance: Int, last: 0..Len(ledger), known: BOOLEAN]
    /\ period \subseteq Range(billed) /\ audited \in 0..Len(ledger)
-----------------------------------------------------------------------------
GoodsOf(o) == Wants[asker[o]]
Price(o) == Cost[GoodsOf(o)]
Made(o) == status[o] \in {"billed", "listed"}
Listed == {o \in Order : status[o] = "listed"}
Held == {o \in Order : rows[o] # "none"}

\* The order of created_at.
Before(o, q) == \E m, n \in DOMAIN billed : m < n /\ billed[m] = o /\ billed[n] = q
IsFirst(o, S) == o \in S /\ \A q \in S \ {o} : Before(o, q)

\* supplier_balance_guard: the asyncio lock of the client.
GuardFree == buy = NoBuy /\ pass = NoPass

\* _known_supplier_order_codes, and the three queries of _execute_supplier_purchase.
KnownOrders ==
    ({ledger[i].code : i \in DOMAIN ledger} \cup {recovery[i].code : i \in DOMAIN recovery}
     \cup Held) \ {NoOrder}

\* Orders created before this instant.
OlderOrders == Range(billed) \ fresh

\* The SupplierRecoveryRequest rows of the three places that add one; left:
\* the instants until expires_at.
NewRequest(k, g, cause, code, older, left) ==
    [key |-> k, goods |-> g, cause |-> cause, link |-> 0, status |-> "pending",
     code |-> code, older |-> older, left |-> left, withdraw |-> k \in Warranty]

\* queue_supplier_recovery: one request per key, whatever became of it.
QueueRecovery(k, older, left) ==
    recovery' =
      IF (\E i \in DOMAIN recovery : recovery[i].key = k) \/ Wants[k] \in retired
      THEN recovery
      ELSE Append(recovery, NewRequest(k, Wants[k], 0, NoOrder, older, left))

\* SupplierBalanceTransaction rows.
NewEntry(kind, amount, code, orders) ==
    [kind |-> kind, amount |-> amount, code |-> code, orders |-> orders,
     age |-> 0, alerted |-> FALSE]
-----------------------------------------------------------------------------
(***************************************************************************)
(* Purchases.                                                              *)
(***************************************************************************)
\* A key is asked again for the same order where the supplier honours keys.
IsOrderOf(o, k) ==
    LET earlier == {q \in Order : asker[q] = k /\ status[q] \notin {"none", "refused"}}
        unused  == {q \in Order : status[q] = "none"}
    IN IF provider = "lehai" /\ earlier # {} THEN o \in earlier /\ \A q \in earlier : q <= o
       ELSE o \in unused /\ \A q \in unused : o <= q

InStock(g) == \E o \in Held : rows[o] = "stock" /\ GoodsOf(o) = g
RecoveryPending(k) ==
    \E i \in DOMAIN recovery : recovery[i].key = k /\ recovery[i].status = "pending"

\* buy_supplier_product up to the request.  Accounts in stock are sold
\* before any are bought; a key whose recovery is pending is refused.
Ask(k) == \E o \in Order :
    /\ GuardFree /\ k \notin over /\ Wants[k] \notin retired
    /\ k \in Preordered => called[k] = Idle
    /\ k \notin Warranty => ~InStock(Wants[k])
    /\ provider = "sumistore" => ~RecoveryPending(k)
    /\ IsOrderOf(o, k) /\ status[o] # "repaid"
    /\ status' = IF status[o] = "none" THEN [status EXCEPT ![o] = "asked"] ELSE status
    /\ asker' = [asker EXCEPT ![o] = k]
    /\ buy' = [key |-> k, order |-> o, older |-> OlderOrders, found |-> NoOrder, step |-> "asked"]
    /\ called' = IF k \in Preordered THEN [called EXCEPT ![k] = OlderOrders] ELSE called
    /\ UNCHANGED <<provider, billed, fresh, scant, funds, toppedUp, pass, over, rows, retired, books>>

Asked == buy # NoBuy /\ buy.step = "asked"
Doubt == buy # NoBuy /\ buy.step = "doubt"
HasOrder == buy # NoBuy /\ buy.step = "held"

Goes(step, o) ==
    /\ buy' = [buy EXCEPT !.step = step, !.found = o]
    /\ UNCHANGED <<provider, supplier, pass, shop, books>>

\* The transaction of the purchase ends and the guard is free.  A key is
\* asked again unless it is over; a warranty withdrawal gets a new code.
EndPurchase(done) ==
    /\ buy' = NoBuy
    /\ over' = IF done \/ buy.key \in Warranty THEN over \cup {buy.key} ELSE over
    /\ called' = IF buy.key \in Preordered THEN [called EXCEPT ![buy.key] = Idle] ELSE called
    /\ UNCHANGED <<provider, asker, billed, fresh, scant, funds, toppedUp, pass, retired,
                   state, period, audited>>

AnswerDelivered ==
    Asked /\ Made(buy.order) /\ buy.order \notin scant /\ Goes("held", buy.order)

\* A time-out, an unreadable answer, or too few accounts.
AnswerLost == Asked /\ Goes("doubt", NoOrder)

\* An error that says that nothing was sold.
AnswerRefused ==
    /\ Asked /\ status[buy.order] = "asked"
    /\ status' = [status EXCEPT ![buy.order] = "refused"]
    /\ EndPurchase(FALSE)
    /\ UNCHANGED <<rows, ledger, recovery>>

\* SumistoreClient.recover_recent_purchase: the earliest order of these
\* goods that is not older than the request and that the shop does not know.
RecentOrders ==
    {o \in Listed \ (KnownOrders \cup buy.older) : GoodsOf(o) = Wants[buy.key]}

FindRecent ==
    /\ Doubt /\ provider = "sumistore"
    /\ \E o \in Order : IsFirst(o, RecentOrders) /\ o \notin scant /\ Goes("held", o)

\* Le Hai answers the repeated key with the order it made.
AskAgain ==
    /\ Doubt /\ provider = "lehai" /\ Made(buy.order) /\ buy.order \notin scant
    /\ Goes("held", buy.order)

\* Nothing was found in time, or the list could not be read.
GiveUp ==
    /\ Doubt
    /\ IF provider = "sumistore" THEN QueueRecovery(buy.key, buy.older, Window)
       ELSE UNCHANGED recovery
    /\ EndPurchase(FALSE)
    /\ UNCHANGED <<status, rows, ledger>>

\* The sale is committed with record_supplier_purchase: the accounts are
\* sold, withdrawn for a warranty, or kept as stock when the sale is refused
\* after all (preserve_supplier_purchase_for_resale).  The unique key of the
\* rows would fail a transaction that stores an order twice.
Conclude(fate) ==
    /\ rows[buy.found] = "none"
    /\ rows' = [rows EXCEPT ![buy.found] = fate]
    /\ ledger' = Append(ledger, NewEntry("purchase", 0 - Price(buy.found), buy.found, {}))
    /\ EndPurchase(TRUE)
    /\ UNCHANGED <<status, recovery>>

Deliver == HasOrder /\ Conclude(IF buy.key \in Warranty THEN "withdrawn" ELSE "sold")
KeepAsStock == HasOrder /\ Conclude("stock")

\* reserve_available_inventory.
SellStock(k, o) ==
    /\ GuardFree /\ k \notin over \cup Warranty
    /\ k \in Preordered => called[k] = Idle
    /\ rows[o] = "stock" /\ GoodsOf(o) = Wants[k]
    /\ rows' = [rows EXCEPT ![o] = "sold"]
    /\ over' = over \cup {k}
    /\ UNCHANGED <<provider, supplier, buy, pass, called, retired, books>>

\* preorders._recover_stale_preorders: a preorder whose worker died during
\* the call.  The request lasts ten minutes, less than any window.
RecoverStale(k) ==
    /\ pass = NoPass /\ called[k] # Idle /\ (buy # NoBuy => buy.key # k)
    /\ IF provider = "sumistore" THEN QueueRecovery(k, called[k], 0) ELSE UNCHANGED recovery
    /\ called' = [called EXCEPT ![k] = Idle]
    /\ UNCHANGED <<provider, supplier, buy, pass, over, rows, retired, ledger, state, period,
                   audited>>
-----------------------------------------------------------------------------
(***************************************************************************)
(* The recovery worker.                                                    *)
(***************************************************************************)
Active(r) == r.status = "pending" /\ r.left >= 0
IsSuspicious(i) == ledger[i].kind = "suspicious"
RecentAudits == {i \in DOMAIN ledger : IsSuspicious(i) /\ ledger[i].age <= Window}

\* The sums of total_cost over requests and over orders.
WorthOf(T) == SumOver(T, [i \in T |-> Cost[recovery[i].goods]])
PriceOf(S) == SumOver(S, [o \in S |-> Price(o)])

\* recover_pending_sumistore_orders up to its list of orders.
BeginPass ==
    LET todo == {i \in DOMAIN recovery : Active(recovery[i])} IN
    /\ GuardFree /\ provider = "sumistore"
    /\ recovery' = [i \in DOMAIN recovery |->
                      IF recovery[i].status = "pending" /\ i \notin todo
                      THEN [recovery[i] EXCEPT !.status = "expired"] ELSE recovery[i]]
    /\ \/ pass' = NoPass  \* nothing to do, or the list cannot be read
       \/ /\ todo \cup RecentAudits # {}
          /\ pass' = [step |-> "match", todo |-> todo, skipped |-> {}, queued |-> {}]
    /\ UNCHANGED <<provider, supplier, buy, shop, ledger, state, period, audited>>

Matching == pass # NoPass /\ pass.step \in {"match", "rematch"}
Linking == pass # NoPass /\ pass.step \in {"link", "relink"}
Orphans == pass # NoPass /\ pass.step = "orphans"

\* pending.order_by(started_at): a request that began later has no fewer older
\* orders; orphaned orders, and audits, are taken by id.
StartedBefore(i, j) ==
    LET older == Cardinality(recovery[i].older)  newer == Cardinality(recovery[j].older)
    IN IF pass.step = "match" /\ older # newer THEN older < newer ELSE i < j
IsNext(i) == i \in pass.todo /\ \A j \in pass.todo \ {i} : StartedBefore(i, j)

\* Faulty variant: only the orders taken in this pass are excluded.
Untaken == Listed \ pass.skipped

Unknown == Listed \ (KnownOrders \cup pass.skipped)

\* _recover_requests: the orders a request may be given.  It has not
\* expired, so no listed order is later than its expires_at.
MatchesOf(r) ==
    IF r.code # NoOrder THEN {r.code} \cap Listed
    ELSE {o \in Unknown \ r.older : GoodsOf(o) = r.goods}

\* _store_recovered_order.
StoreRecovered(i, o) ==
    LET r == recovery[i] IN
    IF r.goods \in retired
    THEN recovery' = [recovery EXCEPT ![i].status = "invalid_product"] /\ UNCHANGED rows
    ELSE /\ rows' = IF rows[o] # "none" THEN rows
                    ELSE [rows EXCEPT ![o] = IF r.withdraw THEN "withdrawn" ELSE "stock"]
         /\ recovery' = [recovery EXCEPT ![i].status = "recovered", ![i].code = o]

MatchNext ==
    /\ Matching
    /\ \E i \in DOMAIN recovery :
         LET found == MatchesOf(recovery[i])
             next == [pass EXCEPT !.todo = @ \ {i}] IN
         /\ IsNext(i)
         /\ \/ found = {} /\ pass' = next /\ UNCHANGED <<rows, recovery>>
            \/ \E o \in found :
                 /\ IsFirst(o, found)
                 /\ IF o \in scant  \* fetch_order raises: the pass is over
                      THEN pass' = NoPass /\ UNCHANGED <<rows, recovery>>
                      ELSE /\ StoreRecovered(i, o)
                           /\ pass' = [next EXCEPT !.skipped = @ \cup {o}]
    /\ UNCHANGED <<provider, supplier, buy, over, called, retired, ledger, state, period, audited>>

\* One transaction links all open audits; it is taken one audit at a time, and
\* nothing comes between.
EndMatching ==
    /\ Matching /\ pass.todo = {}
    /\ pass' = [pass EXCEPT !.step = IF @ = "match" THEN "link" ELSE "relink",
                            !.todo = {i \in DOMAIN ledger : IsSuspicious(i)}]
    /\ UNCHANGED <<provider, supplier, buy, shop, books>>

\* Faulty variant: a recovery that explained an earlier audit explains another one.
ExplainingAgain(a) ==
    {i \in DOMAIN recovery : recovery[i].status = "recovered" /\ recovery[i].code \in ledger[a].orders}

\* _link_recovered_audits: an audit is explained by all the recovered orders
\* of its period that explain no earlier one.
Explaining(a) ==
    {i \in DOMAIN recovery : /\ recovery[i].status = "recovered" /\ recovery[i].link = 0
                             /\ recovery[i].code \in ledger[a].orders}

OnlyCode(codes) ==
    IF \E o \in codes : codes = {o} THEN CHOOSE o \in codes : TRUE ELSE NoOrder

LinkOne(a) ==
    LET found == Explaining(a) IN
    IF WorthOf(found) # 0 - ledger[a].amount THEN UNCHANGED <<ledger, recovery>>
    ELSE /\ ledger' = [ledger EXCEPT ![a].kind = "recovered",
                                     ![a].code = OnlyCode({recovery[i].code : i \in found})]
         /\ recovery' = [i \in DOMAIN recovery |->
                           IF i \in found THEN [recovery[i] EXCEPT !.link = a] ELSE recovery[i]]

LinkRecovered ==
    /\ Linking
    /\ \E a \in DOMAIN ledger :
         /\ IsNext(a) /\ LinkOne(a)
         /\ pass' = [pass EXCEPT !.todo = @ \ {a}]
    /\ UNCHANGED <<provider, supplier, buy, shop, state, period, audited>>

EndLinking ==
    /\ Linking /\ pass.todo = {}
    /\ pass' = IF pass.step = "relink" THEN NoPass
               ELSE [pass EXCEPT !.step = "orphans", !.todo = RecentAudits]
    /\ UNCHANGED <<provider, supplier, buy, shop, books>>

\* _queue_orphaned_audit_orders: the unknown orders of an audit's period are
\* queued when together they cost what is missing.
OrphansOf(a) == {o \in Unknown \cap ledger[a].orders : GoodsOf(o) \notin retired}

QueueOne(a) ==
    LET found == OrphansOf(a)
        next == [pass EXCEPT !.todo = @ \ {a}]
        ids == Len(recovery) + 1 .. Len(recovery) + Cardinality(found) IN
    IF found = {} \/ found \cap scant # {} \/ PriceOf(found) # 0 - ledger[a].amount
    THEN recovery' = recovery /\ pass' = next
    ELSE \E codes \in [ids -> found] :
           /\ \A m, n \in ids : m < n => Before(codes[m], codes[n])
           /\ recovery' = [n \in 1 .. Len(recovery) + Cardinality(found) |->
                 IF n \in ids
                 THEN NewRequest(NoOrder, GoodsOf(codes[n]), a, codes[n], {}, Window)
                 ELSE recovery[n]]
           /\ pass' = [next EXCEPT !.queued = @ \cup ids]

QueueOrphans ==
    /\ Orphans
    /\ \E a \in DOMAIN ledger : IsNext(a) /\ QueueOne(a)
    /\ UNCHANGED <<provider, supplier, buy, shop, ledger, state, period, audited>>

\* The orders queued by this pass are stored by this pass.
EndOrphans ==
    /\ Orphans /\ pass.todo = {}
    /\ pass' = IF pass.queued = {} THEN NoPass
               ELSE [pass EXCEPT !.step = "rematch", !.todo = pass.queued]
    /\ UNCHANGED <<provider, supplier, buy, shop, books>>

\* A request to the supplier fails, or the process stops.
AbortPass ==
    /\ pass # NoPass /\ ~Linking /\ pass' = NoPass
    /\ UNCHANGED <<provider, supplier, buy, shop, books>>
-----------------------------------------------------------------------------
(***************************************************************************)
(* The audit worker: reconcile_supplier_balance under the guard, then      *)
(* notify_unresolved_supplier_alerts.                                      *)
(***************************************************************************)
Grace == IF provider = "lehai" THEN 2 * Window ELSE Window
Purchases == {i \in DOMAIN ledger : ledger[i].kind = "purchase"}

Debits(T) == SumOver(T, [i \in T |-> 0 - ledger[i].amount])
Unexplained == funds - state.balance + Debits({i \in Purchases : i > state.last})

\* match_supplier_refund: the newest open audit of the same amount, or else
\* the newest ones that add up to it: from the newest on, an audit is taken that
\* is not more than what those taken before it leave.
IsTaken(T, open, amount) ==
    \A i \in open : i \in T <=> 0 - ledger[i].amount <= amount - Debits({j \in T : j > i})

RefundedBy(amount) ==
    LET open == {i \in DOMAIN ledger : IsSuspicious(i) /\ ledger[i].age <= 2 * Window}
        exact == {i \in open : 0 - ledger[i].amount = amount}
    IN IF provider # "lehai" THEN {}
       ELSE IF exact # {} THEN {i \in exact : \A j \in exact : j <= i}
       ELSE UNION {T \in SUBSET open : IsTaken(T, open, amount) /\ Debits(T) = amount}

Reconciled ==
    LET delta == Unexplained
        refunded == RefundedBy(delta)
        closed == [i \in DOMAIN ledger |->
                     IF i \in refunded THEN [ledger[i] EXCEPT !.kind = "refunded"] ELSE ledger[i]]
    IN IF ~state.known \/ delta = 0 THEN ledger
       ELSE IF delta < 0 THEN Append(ledger, NewEntry("suspicious", delta, NoOrder, period))
       ELSE Append(closed, NewEntry(IF refunded = {} THEN "credit" ELSE "refund", delta, NoOrder, {}))

\* Faulty variant: a request that has expired still counts as hope.
AlertDueIfNoHope(book, i) ==
    /\ book[i].kind = "suspicious" /\ ~book[i].alerted /\ book[i].age > Grace
    /\ provider = "sumistore" =>
         \A n \in DOMAIN recovery :
            recovery[n].status = "pending" => recovery[n].link # i /\ recovery[n].cause # i

\* pending_unresolved_supplier_alerts and mark_supplier_alerted.
AlertDue(book, i) ==
    /\ book[i].kind = "suspicious" /\ ~book[i].alerted /\ book[i].age > Grace
    /\ provider = "sumistore" =>
         \A n \in DOMAIN recovery :
            Active(recovery[n]) => recovery[n].link # i /\ recovery[n].cause # i
Alerted(book) == [i \in DOMAIN book |->
                    IF AlertDue(book, i) THEN [book[i] EXCEPT !.alerted = TRUE] ELSE book[i]]

\* Faulty variant: the balance is read while a purchase is under way.
AuditUnguarded(told) ==
    /\ pass = NoPass
    /\ ledger' = IF told THEN Alerted(Reconciled) ELSE Reconciled
    /\ \E n \in Purchases \cup {0} :
         /\ \A i \in Purchases : i <= n
         /\ state' = [balance |-> funds, last |-> n, known |-> TRUE]
    /\ period' = fresh
    /\ audited' = IF Len(ledger') > Len(ledger) THEN Len(ledger') ELSE audited
    /\ UNCHANGED <<provider, supplier, buy, pass, shop, recovery>>

\* One round of supplier_audit_worker.  told: Telegram took the messages.
Audit(told) ==
    /\ GuardFree
    /\ ledger' = IF told THEN Alerted(Reconciled) ELSE Reconciled
    /\ \E n \in Purchases \cup {0} :
         /\ \A i \in Purchases : i <= n
         /\ state' = [balance |-> funds, last |-> n, known |-> TRUE]
    /\ period' = fresh
    /\ audited' = IF Len(ledger') > Len(ledger) THEN Len(ledger') ELSE audited
    /\ UNCHANGED <<provider, supplier, buy, pass, shop, recovery>>
-----------------------------------------------------------------------------
(***************************************************************************)
(* The supplier, the administrator, the clock and the process.             *)
(***************************************************************************)
\* The supplier takes the money for a request, perhaps long after the shop
\* stopped waiting, and later shows the order in its list.  The order is
\* also within the skew of an audit of the same instant.
Bill(o) ==
    /\ pass = NoPass /\ status[o] = "asked"
    /\ status' = [status EXCEPT ![o] = "billed"]
    /\ billed' = Append(billed, o) /\ fresh' = fresh \cup {o} /\ period' = period \cup {o}
    /\ funds' = funds - Price(o)
    /\ ledger' = IF audited = 0 THEN ledger ELSE [ledger EXCEPT ![audited].orders = @ \cup {o}]
    /\ UNCHANGED <<provider, asker, scant, toppedUp, buy, pass, shop, recovery, state, audited>>

List(o) ==
    /\ pass = NoPass /\ provider = "sumistore" /\ status[o] = "billed"
    /\ status' = [status EXCEPT ![o] = "listed"]
    /\ UNCHANGED <<provider, asker, billed, fresh, scant, funds, toppedUp, buy, pass, shop, books>>

\* Le Hai pays an order back that it did not deliver.
Repay(o) ==
    /\ provider = "lehai" /\ status[o] = "billed" /\ rows[o] = "none"
    /\ buy # NoBuy => buy.order # o
    /\ status' = [status EXCEPT ![o] = "repaid"] /\ funds' = funds + Price(o)
    /\ UNCHANGED <<provider, asker, billed, fresh, scant, toppedUp, buy, pass, shop, books>>

TopUp(amount) ==
    /\ pass = NoPass /\ ~toppedUp
    /\ toppedUp' = TRUE /\ funds' = funds + amount
    /\ UNCHANGED <<provider, status, asker, billed, fresh, scant, buy, pass, shop, books>>

RetireProduct(g) ==
    /\ pass = NoPass /\ g \notin retired /\ retired' = retired \cup {g}
    /\ UNCHANGED <<provider, supplier, buy, pass, over, called, rows, books>>

\* Only open rows age, and no further than the code compares.
Older(e) == IF e.kind = "suspicious" /\ ~e.alerted /\ e.age <= Grace
            THEN [e EXCEPT !.age = @ + 1] ELSE e
Nearer(r) == IF Active(r) THEN [r EXCEPT !.left = @ - 1] ELSE r
Tick ==
    /\ pass = NoPass
    /\ fresh' = {} /\ audited' = 0
    /\ ledger' = [i \in DOMAIN ledger |-> Older(ledger[i])]
    /\ recovery' = [i \in DOMAIN recovery |-> Nearer(recovery[i])]
    /\ UNCHANGED <<provider, status, asker, billed, scant, funds, toppedUp, buy, pass, shop,
                   state, period>>

\* Uncommitted rows and the guard go with the process.
Crash ==
    /\ buy # NoBuy /\ buy' = NoBuy
    /\ over' = IF buy.key \in Warranty THEN over \cup {buy.key} ELSE over
    /\ UNCHANGED <<provider, supplier, pass, called, rows, retired, books>>
-----------------------------------------------------------------------------
Init ==
    /\ \E s \in Start : /\ provider = s.provider /\ over = s.over /\ retired = s.retired
                       /\ scant = s.scant /\ toppedUp = s.toppedUp
    /\ status = [o \in Order |-> "none"]
    /\ asker = [o \in Order |-> CHOOSE k \in Key : TRUE]
    /\ billed = <<>> /\ fresh = {}
    /\ funds = 0
    /\ buy = NoBuy /\ pass = NoPass
    /\ called = [k \in Preordered |-> Idle]
    /\ rows = [o \in Order |-> "none"] 
    /\ ledger = <<>> /\ recovery = <<>>
    /\ state \in [balance: {0}, last: {0}, known: {FALSE}]
    /\ period = {} /\ audited = 0

PurchaseStep ==
    \/ AnswerDelivered \/ AnswerLost \/ AnswerRefused
    \/ FindRecent \/ AskAgain \/ GiveUp \/ Deliver \/ KeepAsStock

PassStep ==
    \/ MatchNext \/ EndMatching \/ LinkRecovered \/ EndLinking
    \/ QueueOrphans \/ EndOrphans \/ AbortPass

Next ==
    \/ \E k \in Key : Ask(k)
    \/ PurchaseStep
    \/ \E k \in Key, o \in Order : SellStock(k, o)
    \/ \E k \in Preordered : RecoverStale(k)
    \/ BeginPass \/ PassStep
    \/ \E told \in BOOLEAN : Audit(told)
    \/ \E o \in Order : Bill(o) \/ List(o) \/ Repay(o)
    \/ \E amount \in TopUps : TopUp(amount)
    \/ \E g \in Retirable : RetireProduct(g)
    \/ Tick \/ Crash

Spec == Init /\ [][Next]_vars

\* Every request has a time-out, so a purchase and a pass end.  Time passes
\* between them, and the audit worker's loop is granted the lock in its turn
\* and, however often the supplier or Telegram fail it, not always in vain.
FairSpec ==
    /\ Spec /\ WF_vars(PurchaseStep) /\ WF_vars(PassStep)
    /\ SF_vars(Tick) /\ SF_vars(Audit(TRUE))
-----------------------------------------------------------------------------
(***************************************************************************)
(* Properties.                                                             *)
(***************************************************************************)
Bought(o) == {i \in Purchases : ledger[i].code = o}
Recovered(o) == {i \in DOMAIN recovery : recovery[i].status = "recovered" /\ recovery[i].code = o}

\* An order at the supplier is brought into the shop once: by the purchase
\* that asked for it or took it for its own, or by one recovery request.
\* While a purchase waits to commit an order, nobody else stores or claims
\* it, so the unique key of the rows never fails the sale of goods paid for
\* (supplier_balance_guard around purchase_product and around
\* recover_pending_sumistore_orders, _known_supplier_order_codes).
OneFate ==
    /\ \A o \in Order :
         /\ Cardinality(Bought(o)) + Cardinality(Recovered(o)) <= 1
         /\ o \in Held <=> Bought(o) \cup Recovered(o) # {}
    /\ HasOrder => buy.found \notin KnownOrders

\* A debit that the audit calls recovered is worth what its recovered
\* orders cost, and no order explains two debits (_link_recovered_audits).
RecoveredBalances ==
    \A a \in DOMAIN ledger :
      LET linked == {i \in DOMAIN recovery : recovery[i].link = a}
      IN IF ledger[a].kind = "recovered" THEN WorthOf(linked) = 0 - ledger[a].amount
         ELSE linked = {}

\* The audit never reports the money of a purchase that the shop is making
\* or has recorded: what it finds missing is covered by orders billed since
\* its last round that no purchase accounts for (reconcile_supplier_balance
\* under the guard; tests/test_supplier_audit.py, "simultaneous purchases do
\* not create false alerts").
NoFalseAlert ==
    [][\A i \in DOMAIN ledger' \ DOMAIN ledger :
         ledger'[i].kind = "suspicious" =>
           LET lost == {o \in period : Bought(o) = {} /\ (buy # NoBuy => buy.order # o)}
           IN 0 - ledger'[i].amount <= PriceOf(lost)]_vars

\* Money that left the account without a purchase is explained or reported:
\* a recovery request that is never answered does not hold the alert back
\* for ever (pending_unresolved_supplier_alerts).
SuspicionEnds ==
    \A i \in 1..Cardinality(Order) :
      (i \in DOMAIN ledger /\ ledger[i].kind = "suspicious")
        ~> (i \in DOMAIN ledger /\ (ledger[i].kind # "suspicious" \/ ledger[i].alerted))
=============================================================================
