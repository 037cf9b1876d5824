---------------------------- MODULE SupplierSync ----------------------------
(***************************************************************************)
(* One product that Le Hai sells to the shop, and Canboso and Haji beside  *)
(* it: how its price, its stock and the alerts about it follow what the    *)
(* suppliers say.                                                          *)
(*                                                                         *)
(* src/app/lehai_suppliers.py      refresh_lehai_product and its helpers   *)
(* src/app/suppliers.py            routes, the rest after a failed request *)
(* src/app/services.py             the same refresh within a purchase      *)
(*                                                                         *)
(* The suppliers are an environment: accounts, the shop's money with them  *)
(* (counted in accounts, as the code divides the balance by the price) and *)
(* their failures.  The clients keep in memory whom not to ask for a while *)
(* (rests) and whom not to buy from (blocked); the rest is in the          *)
(* database.  The clients' snapshots, reused for a minute, are left out: a *)
(* refresh sees the supplier as it is.  Le Hai sells the product under an  *)
(* alias, the case its circuit breaker is for.                             *)
(***************************************************************************)
EXTENDS Notices, Counting

CONSTANTS
    Quote      \* what an account costs at each supplier

Supplier == {"lehai", "canboso", "haji"}
Second == {"canboso", "haji"}

ASSUME QuoteAssumption == Quote \in [Supplier -> Price]

\* the product's refresh is the one of this module, not the one of Notices
ASSUME SellerAssumption ==
    \A s \in Scene : /\ s.clients \subseteq Supplier /\ "lehai" \in s.clients
                     /\ s.off \subseteq Supplier
                     /\ s.seller \in [Supplier -> [wallet: Nat, goods: Nat, owes: {0}]]
                     /\ "refreshes" \in DOMAIN s.left /\ s.left.refreshes = 0

VARIABLES
    clients,   \* suppliers the shop has a client for, Le Hai among them
    off,       \* suppliers switched off for the product
    seller,    \* supplier -> [wallet, goods, owes]
    rests,     \* suppliers not to be asked for a while (refresh_backoff_until)
    blocked,   \* suppliers not to be bought from, as the clients remember
    failed,    \* the row of a purchase that Le Hai failed with HTTP 5xx says so, and
               \* is less than ten minutes old
    breaker,   \* what told last of such a failure: history of the ten minutes
    seen,      \* supplier -> [wallet, armed, news] as the last refresh left it
    books,     \* supplier -> [last, bought]: the audited balance, purchases since
    debits,    \* suspicious debits of Le Hai, the newest first, 0 when settled
    refunds,   \* refunds of Le Hai the audit has recorded
    moved,     \* how Le Hai's money moved since it was last read
    gpt,       \* GPT Plus has an alert in line
    asked      \* supplier -> purchases it was asked for
sync == <<clients, off, seller, rests, blocked, failed, breaker, seen, books, debits,
          refunds, moved, gpt, asked>>
all == <<vars, sync>>

Effective(s) == Min({seller[s].goods, seller[s].wallet})

-----------------------------------------------------------------------------
(* What the suppliers answer.  st is [p, rows, off, seen, gpt]: what a       *)
(* transaction has made of the product so far.                               *)

State == [p |-> product, rows |-> notices, off |-> off, seen |-> seen, gpt |-> gpt]
Open(st) == clients \ st.off

\* a refresh goes to every open supplier, or to Le Hai alone
Several(st, fetched) == fetched \/ Open(st) \cap Second # {}

\* fetch_one; ans is what a supplier would answer: "ok", "missing" (it has no such
\* product) or "down"
Reply(s, ans) ==
    IF s \in rests THEN "rests"
    ELSE IF s = "canboso" /\ s \in blocked THEN "down"
    ELSE ans[s]
Routes(st, ans) == {s \in Open(st) : Reply(s, ans) = "ok"}

\* Faulty variant: only the client's memory tells
BlockedInMemory == "lehai" \in blocked

\* The ten minutes after Le Hai failed a purchase: the row says so ("open"); it was
\* written over, and only the client remembers ("bare"); the process restarted after
\* that, and nothing tells of the failure any more ("lost").
Breaker == {"closed", "open", "bare", "lost"}

\* a purchase from Le Hai is blocked: its client remembers, or the database does
\* (purchase_is_blocked, restore_recent_sale_purchase_backoff)
Blocked == "lehai" \in blocked \/ failed
Restored == IF Blocked THEN blocked \cup {"lehai"} ELSE blocked

-----------------------------------------------------------------------------
(* What a refresh concludes from a balance *)

\* debits that add up to an amount, the newest that fits first
Greedy(amount) ==
    LET Take(acc, i) == IF debits[i] <= acc.rest
                        THEN [rest |-> acc.rest - debits[i], of |-> acc.of \cup {i}] ELSE acc
    IN FoldLeft(Take, [rest |-> amount, of |-> {}], [i \in DOMAIN debits |-> i])

\* Faulty variant: only a refund the audit has recorded counts
RecordedRefund(was, now) ==
    [amount |-> now - was, before |-> was, after |-> now] \in refunds

\* _balance_increase_is_api_refund
IsRefund(was, now) ==
    \/ [amount |-> now - was, before |-> was, after |-> now] \in refunds
    \/ \E i \in DOMAIN debits : debits[i] = now - was
    \/ Greedy(now - was).rest = 0

\* the balance of Le Hai is higher than it was seen, and not by a refund
ToppedUp(st) ==
    LET was == st.seen["lehai"].wallet
        now == seller["lehai"].wallet
    IN was >= 0 /\ now > was /\ ~IsRefund(was, now)

\* _track_secondary_supplier_state
Tracked(st, s) ==
    LET old == st.seen[s]
        w == seller[s].wallet
    IN [wallet |-> w, news |-> FALSE,
        armed |-> old.armed \/ w > old.wallet \/ old.news \/ w > books[s].last]

\* Faulty variant: a top-up is announced with whatever stock there is
ReadyAnyway(st, s, total) == Tracked(st, s).armed /\ Effective(s) > 0

\* a top-up of s is announced now: stock came with it
Ready(st, s, total) ==
    Tracked(st, s).armed /\ Effective(s) > 0 /\ total > st.p.supply

\* the cost the public price follows (0: it stays)
Anchor(st, routes) ==
    IF "canboso" \in routes
    THEN IF "haji" \in routes
            /\ (Effective("canboso") = 0 \/ Quote["haji"] > Quote["canboso"])
         THEN Quote["haji"] ELSE Quote["canboso"]
    ELSE IF "canboso" \notin st.off THEN 0
    ELSE Min({Quote[s] : s \in routes})

-----------------------------------------------------------------------------
(* The refresh *)

\* no stock at the suppliers
Emptied(st) == ApplySupplierStock([st EXCEPT !.p.gone = 0], 0, TRUE)

\* the suppliers do not say: the stock they had
Kept(st) == [st EXCEPT !.p.gone = 0]

\* _route_lehai_topup_alert_to_gpt_plus; the product's own alerts are taken back
Route(st) == [st EXCEPT !.gpt = TRUE, !.rows = Superseded(@, Automatic(@, {"pending"}))]

\* the routes that answered become price and stock; toGpt: GPT Plus would be bought
\* from Le Hai
Publish(st, routes, cost, toGpt) ==
    LET total == SumOver(routes, [s \in Supplier |-> Effective(s)])
        topped == "lehai" \in routes /\ ToppedUp(st)
        ready == {s \in routes \cap Second : Ready(st, s, total)}
        priced == IF cost = 0 THEN st ELSE ApplySupplierPrice(st, cost)
        stocked == ApplySupplierStock([priced EXCEPT !.p.gone = 0], total,
                     st.p.mode = "always" \/ ready # {} \/ (topped /\ ~toGpt))
        routed == IF topped /\ toGpt THEN Route(stocked) ELSE stocked
    IN [routed EXCEPT !.seen =
          [s \in Supplier |->
              IF s \notin routes THEN @[s]
              ELSE IF s = "lehai" THEN [@[s] EXCEPT !.wallet = seller[s].wallet]
              ELSE [Tracked(st, s) EXCEPT !.armed = @ /\ s \notin ready]]]

\* refresh_lehai_product with several suppliers
RefreshRoutes(st, ans, toGpt) ==
    LET routes == Routes(st, ans)
    IN IF routes # {} THEN Publish(st, routes, Anchor(st, routes), toGpt)
       ELSE IF Open(st) # {} /\ \A s \in Open(st) : Reply(s, ans) = "missing"
       THEN Emptied(st)
       ELSE Kept(st)

\* refresh_lehai_product with Le Hai alone
RefreshLeHai(st, ans, toGpt) ==
    IF "lehai" \in st.off THEN [st EXCEPT !.p.gone = st.p.supply]
    ELSE IF Blocked THEN Emptied(st)
    ELSE CASE Reply("lehai", ans) = "ok" -> Publish(st, {"lehai"}, Quote["lehai"], toGpt)
           [] Reply("lehai", ans) = "missing" -> Emptied(st)
           [] OTHER -> Kept(st)

\* refresh_lehai_product
Refresh(st, fetched, ans, toGpt) ==
    LET now == Release(st)
    IN IF st.off = Supplier THEN Emptied(now)
       ELSE IF Several(st, fetched) THEN RefreshRoutes(now, ans, toGpt)
       ELSE RefreshLeHai(now, ans, toGpt)

\* mark_supplier_refresh_failure, clear_supplier_refresh_failure
Rests(st, fetched, ans) ==
    LET who == IF Several(st, fetched) THEN Open(st)
               ELSE IF Blocked THEN {} ELSE Open(st) \cap {"lehai"}
    IN rests \cup {s \in who : Reply(s, ans) # "ok"}

\* the transaction of a refresh that began with st, and ends with end
Refreshed(st, end, fetched, ans) ==
    /\ Commit(end.p, end.rows, {})
    /\ seen' = end.seen
    /\ gpt' = end.gpt
    /\ rests' = Rests(st, fetched, ans)
    /\ Calm

\* what is new in Le Hai's money after a refresh: nothing, when it was read
Since(end) == IF end.seen["lehai"].wallet = seller["lehai"].wallet THEN {} ELSE moved

Troubles(ans) == Cardinality({s \in Supplier : ans[s] # "ok"})

-----------------------------------------------------------------------------
(* The shop *)

\* sync_lehai_products, for this product
SyncProduct(ans, toGpt) ==
    \E end \in {Refresh(State, FALSE, ans, toGpt)} :
       /\ product.active
       /\ Refreshed(State, end, FALSE, ans)
       /\ moved' = Since(end)
       /\ left' = [left EXCEPT !.errors = @ - Troubles(ans)]
       /\ blocked' = IF Several(State, FALSE) \/ "lehai" \in off THEN blocked ELSE Restored
       /\ UNCHANGED <<clients, off, seller, failed, breaker, books, debits, refunds, asked>>

\* the cheapest supplier with stock, the first of equals by its place
\* (supplier_route_sort_key, plan_supplier_routes)
Place == [canboso |-> 1, lehai |-> 2, haji |-> 3]
Before(s, t) == Quote[s] < Quote[t] \/ (Quote[s] = Quote[t] /\ Place[s] <= Place[t])
Plan(ans) ==
    LET stocked == {s \in Routes(State, ans) : Effective(s) > 0}
    IN {s \in stocked : \A t \in stocked : Before(s, t)}

\* an account of a supplier is wanted
Wanted == product.active /\ ~product.forced /\ product.local = 0 /\ left.buys > 0
Alone == Open(State) \cap Second = {}

\* Le Hai is blocked and there is no other supplier: nobody is asked
BuyBlocked ==
    LET end == Emptied(State)
    IN /\ Wanted /\ Blocked /\ Alone
       /\ Spend("buys")
       /\ Commit(end.p, end.rows, {})
       /\ Calm
       /\ blocked' = Restored
       /\ UNCHANGED <<clients, off, seller, rests, failed, breaker, seen, books, debits,
                      refunds, moved, gpt, asked>>

\* a purchase that asks for the routes and ends there: none has stock, or the customer
\* cannot pay
BuyNothing(ans, toGpt) ==
    LET end == Refresh(State, TRUE, ans, toGpt)
    IN /\ Wanted /\ ~(Blocked /\ Alone)
       /\ Refreshed(State, end, TRUE, ans)
       /\ moved' = Since(end)
       /\ left' = [left EXCEPT !.errors = @ - Troubles(ans), !.buys = @ - 1]
       /\ blocked' = Restored
       /\ UNCHANGED <<clients, off, seller, failed, breaker, books, debits, refunds, asked>>

\* The cheapest is Le Hai, which is blocked: its client refuses, and the purchase ends
\* as out of stock.  The refusal is written into the row of the purchase's key
\* (buy_supplier_product); again: that is the row of the purchase that failed, as a
\* preorder or a partner comes back with the key.
BuyFromBlocked(ans, toGpt, again) ==
    LET end == Refresh(State, TRUE, ans, toGpt)
    IN /\ Wanted /\ Blocked /\ ~Alone
       /\ "lehai" \in Plan(ans)
       /\ again => failed
       /\ Refreshed(State, end, TRUE, ans)
       /\ moved' = Since(end)
       /\ left' = [left EXCEPT !.errors = @ - Troubles(ans), !.buys = @ - 1]
       /\ blocked' = Restored
       /\ failed' = (failed /\ ~again)
       /\ breaker' = IF again THEN "bare" ELSE breaker
       /\ UNCHANGED <<clients, off, seller, books, debits, refunds, asked>>

\* what a client remembers when its purchase ends so: Haji's remembers nothing
Remembered(s, fate) == IF fate = "refused" THEN {s} \ {"haji"} ELSE {}

\* a purchase that asks supplier s to sell: it sells, refuses (Le Hai with HTTP
\* 5xx, Canboso as out of stock), or takes the money and does not answer
BuyFrom(s, ans, toGpt, fate) ==
    LET end == Refresh(State, TRUE, ans, toGpt)
        trouble == Troubles(ans) + IF fate = "sold" THEN 0 ELSE 1
    IN /\ Wanted /\ ~(Blocked /\ (Alone \/ s = "lehai"))
       /\ s \in Plan(ans)
       /\ fate = "lost" => s = "lehai" /\ seller[s].owes = 0
       /\ left.errors >= trouble
       /\ Refreshed(State, [end EXCEPT !.p.gone = IF fate = "sold" THEN @ + 1 ELSE @],
                    TRUE, ans)
       /\ left' = [left EXCEPT !.errors = @ - trouble, !.buys = @ - 1]
       /\ asked' = [asked EXCEPT ![s] = @ + 1]
       /\ seller' = IF fate = "refused" THEN seller
                    ELSE [seller EXCEPT ![s] =
                            [wallet |-> @.wallet - 1, goods |-> @.goods - 1,
                             owes |-> IF fate = "lost" THEN 1 ELSE @.owes]]
       /\ books' = [books EXCEPT ![s].bought = IF fate = "sold" THEN @ + 1 ELSE @]
       /\ failed' = (failed \/ (s = "lehai" /\ fate = "refused"))
       /\ breaker' = IF s = "lehai" /\ fate = "refused" THEN "open" ELSE breaker
       /\ blocked' = Restored \cup Remembered(s, fate)
       /\ moved' = Since(end) \cup (IF s = "lehai" /\ fate = "sold" THEN {"bought"} ELSE {})
       /\ UNCHANGED <<clients, off, debits, refunds>>

\* update_product switches a supplier on or off (Haji has no switch): the stock it had is
\* forgotten, those that are on are asked at once, and a price that falls by it is told
SwitchSupplier(s, ans) ==
    LET st == [State EXCEPT
                  !.p.supply = 0, !.p.gone = 0, !.p.known = FALSE,
                  !.off = (off \ {s}) \cup ({s} \ off),
                  !.seen["lehai"].wallet = -1]
        end == QueueAdminDrop(Refresh(st, FALSE, ans, FALSE), product.price)
    IN /\ left.switches > 0 /\ s # "haji"
       /\ left' = [left EXCEPT !.switches = @ - 1, !.errors = @ - Troubles(ans)]
       /\ off' = st.off
       /\ Refreshed(st, end, FALSE, ans)
       /\ moved' = Since(end)
       /\ blocked' = IF Several(st, FALSE) \/ "lehai" \in st.off THEN blocked ELSE Restored
       /\ UNCHANGED <<clients, seller, failed, breaker, books, debits, refunds, asked>>

-----------------------------------------------------------------------------
(* The suppliers, the audit, time *)

Elsewhere == UNCHANGED <<product, notices, mail, told, excused, clients, off, gpt, asked>> /\ Calm

\* the operator tops up a balance
TopUp(s) ==
    /\ s \in clients
    /\ Spend("topups")
    /\ seller' = [seller EXCEPT ![s].wallet = @ + 1]
    /\ moved' = IF s = "lehai" THEN moved \cup {"topup"} ELSE moved
    /\ Elsewhere
    /\ UNCHANGED <<rests, blocked, failed, breaker, seen, books, debits, refunds>>

\* Le Hai gives back what it took for an order it did not make: "repaid" when the audit
\* has found that debit and nothing else has happened since
Repay ==
    /\ seller["lehai"].owes > 0
    /\ seller' = [seller EXCEPT !["lehai"].wallet = @ + 1, !["lehai"].owes = 0]
    /\ moved' = moved \cup
                  {IF /\ 1 \in ToSet(debits)
                      /\ books["lehai"] = [last |-> seller["lehai"].wallet, bought |-> 0]
                   THEN "repaid" ELSE "early"}
    /\ Elsewhere
    /\ UNCHANGED <<left, rests, blocked, failed, breaker, seen, books, debits, refunds>>

\* a supplier gets accounts
Restock(s) ==
    /\ s \in clients
    /\ Spend("restocks")
    /\ seller' = [seller EXCEPT ![s].goods = @ + 1]
    /\ Elsewhere
    /\ UNCHANGED <<rests, blocked, failed, breaker, seen, books, debits, refunds, moved>>

\* match_supplier_refund: the debits a credit of this amount settles
Settled(amount) ==
    LET same == {i \in DOMAIN debits : debits[i] = amount}
    IN IF same # {} THEN {Min(same)}
       ELSE IF Greedy(amount).rest = 0 THEN Greedy(amount).of ELSE {}

\* reconcile_supplier_balance
Audit(s) ==
    LET now == seller[s].wallet
        extra == now - books[s].last + books[s].bought
        settled == IF s = "lehai" /\ extra > 0 THEN Settled(extra) ELSE {}
    IN /\ s \in clients
       /\ now # books[s].last \/ books[s].bought > 0
       /\ books' = [books EXCEPT ![s] = [last |-> now, bought |-> 0]]
       /\ debits' = IF s = "lehai" /\ extra < 0 THEN <<-extra>> \o debits
                    ELSE [i \in DOMAIN debits |-> IF i \in settled THEN 0 ELSE debits[i]]
       /\ refunds' = IF settled = {} THEN refunds
                     ELSE refunds \cup {[amount |-> extra, before |-> books[s].last,
                                         after |-> now]}
       /\ seen' = [seen EXCEPT ![s].news = @ \/ (s # "lehai" /\ extra > 0)]
       /\ Elsewhere
       /\ UNCHANGED <<left, seller, rests, blocked, failed, breaker, moved>>

\* Faulty variant: a supplier that failed rests until the process ends, Le Hai excepted
ElapseLeHai ==
    /\ rests # {} \/ "canboso" \in blocked
    /\ rests' = rests \ {"lehai"}
    /\ blocked' = blocked \ {"canboso"}
    /\ Elsewhere
    /\ UNCHANGED <<left, seller, failed, breaker, seen, books, debits, refunds, moved>>

\* the rest after a failed request is over, and Canboso's after a refused purchase
Elapse ==
    /\ rests # {} \/ "canboso" \in blocked
    /\ rests' = {}
    /\ blocked' = blocked \ {"canboso"}
    /\ Elsewhere
    /\ UNCHANGED <<left, seller, failed, breaker, seen, books, debits, refunds, moved>>

\* SALE_PURCHASE_BACKOFF_SECONDS, whether or not anything still tells of the failure
BreakerEnds ==
    /\ breaker # "closed"
    /\ breaker' = "closed"
    /\ failed' = FALSE
    /\ blocked' = blocked \ {"lehai"}
    /\ Elsewhere
    /\ UNCHANGED <<left, seller, rests, seen, books, debits, refunds, moved>>

\* GPT Plus's alert is sent
TellGpt ==
    /\ gpt
    /\ gpt' = FALSE
    /\ UNCHANGED <<vars, clients, off, seller, rests, blocked, failed, breaker, seen, books,
                   debits, refunds, moved, asked>>

\* the clients forget what they had in memory
Restart ==
    /\ Crash
    /\ rests' = {} /\ blocked' = {}
    /\ breaker' = IF breaker = "bare" THEN "lost" ELSE breaker
    /\ UNCHANGED <<clients, off, seller, failed, seen, books, debits, refunds, moved, gpt,
                   asked>>

-----------------------------------------------------------------------------
(* The specification *)

SyncInit ==
    \E s \in Scene :
        /\ InitWith(s)
        /\ clients = s.clients /\ off = s.off
        /\ seller = s.seller
        /\ rests = {} /\ blocked = {} /\ failed = FALSE /\ breaker = "closed"
        /\ seen = [x \in Supplier |-> [wallet |-> s.seller[x].wallet, armed |-> FALSE,
                                       news |-> FALSE]]
        /\ books = [x \in Supplier |-> [last |-> s.seller[x].wallet, bought |-> 0]]
        /\ debits = <<>> /\ refunds = {} /\ moved = {}
        /\ gpt = FALSE
        /\ asked = [x \in Supplier |-> 0]

AllWell == [s \in Supplier |-> "ok"]
Answers ==
    {ans \in [Supplier -> {"ok", "missing", "down"}] :
        /\ Troubles(ans) <= left.errors
        /\ \A s \in Supplier \ clients : ans[s] = "ok"}

Synced ==
    \E ans \in Answers :
        \/ \E toGpt \in {FALSE, left.gpt > 0 /\ ToppedUp(State)} :
              \/ SyncProduct(ans, toGpt)
              \/ BuyNothing(ans, toGpt)
              \/ \E again \in BOOLEAN : BuyFromBlocked(ans, toGpt, again)
              \/ \E s \in clients, fate \in {"sold", "refused", "lost"} :
                    BuyFrom(s, ans, toGpt, fate)
        \/ \E s \in clients : SwitchSupplier(s, ans)
Sellers ==
    \/ Repay
    \/ \E s \in clients : TopUp(s) \/ Restock(s) \/ Audit(s)
ClientStep == Elapse \/ BreakerEnds \/ TellGpt

SyncNext ==
    \/ (Outside \/ BroadcastStep \/ AlertStep \/ TimePasses) /\ UNCHANGED sync
    \/ Synced \/ BuyBlocked \/ Sellers \/ ClientStep \/ Restart

SyncSpec == SyncInit /\ [][SyncNext]_all

\* The worker of the products asks again and again and is answered in the end, and
\* the times during which a supplier is not asked pass.
FairSyncSpec ==
    /\ SyncSpec
    /\ WF_all(SyncProduct(AllWell, FALSE))
    /\ WF_all(Elapse) /\ WF_all(BreakerEnds)

-----------------------------------------------------------------------------
(* What must hold *)

\* a supplier whose answer may announce a top-up
MayArm(s) ==
    \/ seen[s].armed \/ seen[s].news
    \/ seller[s].wallet > Min({seen[s].wallet, books[s].last})

\* When all that happened to Le Hai's money is that it gave back a debit the audit
\* had found, customers are not told of new stock, although the shop can buy more
\* than before: the refresh tells a refund from a top-up, whether the audit or the
\* refresh comes first (_balance_increase_is_api_refund).
RefundIsQuiet ==
    [][ /\ moved = {"repaid"} /\ product.mode = "balance"
        /\ seen["lehai"].wallet < seller["lehai"].wallet
        /\ \A s \in Second : ~MayArm(s)
        => \A i \in DOMAIN notices' \ DOMAIN notices :
               notices'[i].kind = "stock" => notices'[i].by # "supplier" ]_all

\* the alert of the product's stock is in line, or there is to be none
Heard == \/ With(notices, "stock", {"pending", "sending"}) # {} \/ gpt
         \/ product.forced \/ product.mode \in {"disabled", "off"}

\* A top-up of Canboso or Haji that waits to be announced is not forgotten before
\* customers are told of the stock it brought, whether the audit, a purchase or the
\* worker sees it first
\* (test_canboso_topup_stays_armed_until_supplier_stock_returns).
TopUpStays ==
    [][ off' = off /\ product.known
        => \A s \in Second : MayArm(s) /\ ~MayArm(s)' => Heard' ]_all

\* For ten minutes after Le Hai failed a purchase with HTTP 5xx it is not asked for
\* another, although the process restarts in between ("Restore a still-active breaker
\* after an application restart"), the suppliers are switched off and on, or the same
\* purchase comes back.  Excepted is the one case in which nothing tells of the failure
\* any more: a purchase with the same key was refused, which writes over the row, and
\* the process restarted after that.
BreakerHolds ==
    [][ (breaker \in {"open", "bare"}) => asked'["lehai"] = asked["lehai"] ]_all

Sellable == \E s \in clients \ off : Effective(s) > 0

\* Accounts that can be bought are on sale in the end, whatever supplier failed,
\* rested, was blocked or restarted on the way.
StockIsShown == <>[](product.active /\ Sellable) => <>[](Stock(product) > 0)

\* Every variable has a value of its kind.
SyncTypeOK ==
    /\ TypeOK
    /\ "lehai" \in clients /\ clients \subseteq Supplier /\ off \subseteq Supplier
    /\ \A s \in Supplier :
          /\ \A f \in DOMAIN seller[s] : seller[s][f] \in Nat
          /\ seen[s].wallet \in Nat \cup {-1} /\ seen[s].armed \in BOOLEAN
          /\ seen[s].news \in BOOLEAN
          /\ books[s].last \in Nat /\ books[s].bought \in Nat
          /\ asked[s] \in Nat
    /\ rests \subseteq clients /\ blocked \subseteq {"lehai", "canboso"}
    /\ failed \in BOOLEAN /\ breaker \in Breaker /\ gpt \in BOOLEAN
    /\ debits \in Seq(Nat)
    /\ \A r \in refunds : r.amount > 0
    /\ moved \subseteq {"topup", "repaid", "early", "bought"}

=============================================================================
