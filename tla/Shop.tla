-------------------------------- MODULE Shop --------------------------------
(***************************************************************************)
(* Selling one product: the purchase transaction of the bot and of the     *)
(* Shop API, the idempotency keys of its partners, the purchases paid by   *)
(* QR, the prices, the routes to the suppliers and the shop's own stock.   *)
(*                                                                         *)
(* src/app/services.py         pricing, _purchase_product, process_payment *)
(* src/app/suppliers.py        routes, their plan, the refresh of prices   *)
(* src/app/public_api.py       create_order                                *)
(* src/app/warehouse_api.py, inventory_import.py, inventory_dedup.py       *)
(*                                                                         *)
(* The product is a Sumistore product with Le Hai as the other route.      *)
(* A purchase locks the buyer, then the product, and keeps both locks while*)
(* it waits for suppliers: whatever else writes the product or its rows    *)
(* waits, but partners, suppliers and crashes do not.  Money is in         *)
(* thousands of dong; dollars, flash sales and commissions are in other    *)
(* modules or left out.                                                    *)
(***************************************************************************)
EXTENDS Integers, Sequences, FiniteSets, FiniteSetsExt, Counting

CONSTANTS
    Customer,    \* users who buy
    ApiKey,      \* Idempotency-Keys of partners
    BotKey,      \* presses of the bot's buy button
    QrKey,       \* purchases paid by QR
    Handler,     \* handlers that serve requests at the same time
    Account,     \* accounts the warehouse imports
    Batch,       \* import requests of the warehouse
    Body,        \* what each key asks: [user, quantity, max, coupon]
    Load,        \* what each batch imports: [accounts, cost, lock]
    Profit,      \* Customer -> the seller price's profit at first, 0 without one
    Profits,     \* profits the administrator enters, 0 for an empty field
    CouponOff,   \* the fixed discount of the coupon
    Tier,        \* the quantity discount: [least, off]
    Markup,      \* Product.supplier_markup
    Cost,        \* prices a supplier may ask
    Catalog0,    \* Provider -> [cost, stock] at first
    Wallet0,     \* Customer -> balance at first
    MaxRuns,     \* Key -> runs begun under the key
    Scene        \* what one behaviour may have: [keys, changes, grants,
                 \* crashes, external, tier]

Key == ApiKey \cup BotKey \cup QrKey
Provider == {"sumistore", "lehai"}
None == "none"

ASSUME KeyAssumption ==
    /\ IsFiniteSet(Key) /\ None \notin Key
    /\ ApiKey \cap BotKey = {} /\ QrKey \cap (ApiKey \cup BotKey) = {}
    /\ \A k \in Key :
          /\ Body[k].user \in Customer /\ Body[k].quantity \in Nat \ {0}
          /\ Body[k].max \in Nat /\ Body[k].coupon \in BOOLEAN
    /\ MaxRuns \in [Key -> Nat]

ASSUME PriceAssumption ==
    /\ Cost \subseteq Nat \ {0} /\ Markup \in Nat
    /\ Profit \in [Customer -> Nat] /\ Profits \subseteq Nat
    /\ CouponOff \in Nat /\ Tier.least \in Nat /\ Tier.off \in Nat
    /\ Catalog0 \in [Provider -> [cost : Cost, stock : Nat]]
    /\ Wallet0 \in [Customer -> Nat]
    /\ \A s \in Scene : s.external \in BOOLEAN /\ s.tier \in {"on", "off", "gone"}

\* an account the warehouse imports is none that a supplier delivers: those are
\* pairs of an order and a position in it
ASSUME AccountAssumption ==
    /\ Account \cap (Nat \X Nat) = {} /\ None \notin Account
    /\ \A b \in Batch :
          /\ Load[b].accounts \subseteq Account /\ IsFiniteSet(Load[b].accounts)
          /\ Load[b].cost \in Nat /\ Load[b].lock \in BOOLEAN

VARIABLES
    product,   \* [price, cost, locked, active, external]
    catalog,   \* Provider -> [cost, stock], as the supplier knows it
    placed,    \* orders the suppliers took, in order
    inv,       \* the table of inventory rows: id -> row; the older row has the lower id
    wallet,    \* Customer -> balance
    debit,     \* Key -> what the purchases under the key took
    shown,     \* BotKey -> the total on the seller's button, 0 without one
    request,   \* ApiKey -> the row of the idempotency key; QrKey -> the payment request,
               \* [status, amount, pricing, locked]
    loaded,    \* Batch -> the row of the import request
    terms,     \* what the administrator grants: [profit, on: the seller prices,
               \* coupon, tier: "on", "off" or "gone", counted, archived]
    run,       \* Handler -> what the handler is doing
    runs,      \* Key -> purchases begun under the key
    raced,     \* keys claimed again while a run of theirs was alive
    left       \* changes, grants and crashes still to come
vars == <<product, catalog, placed, inv, wallet, debit, shown, request, loaded,
          terms, run, runs, raced, left>>

-----------------------------------------------------------------------------
(* Stock *)

Row(acct, cost, status) ==
    [acct |-> acct, cost |-> cost, status |-> status, key |-> None,
     amount |-> 0, again |-> FALSE, rule |-> FALSE]

Accounts(o) == {<<o, i>> : i \in 1 .. placed[o].quantity}
Rows == DOMAIN inv
Available == {i \in Rows : inv[i].status = "available"}
\* reserve_available_inventory: the oldest free rows; whoever else takes rows
\* holds the product, so that SKIP LOCKED skips none
Reserve(n) ==
    {i \in Available : Cardinality({j \in Available : j < i}) < n}
SoldUnder(k) == {i \in Rows : inv[i].key = k}
Recorded(a) == {i \in Rows : inv[i].acct = a}
\* a deleted row is gone from the table
IsHeld(a) == \E i \in Recorded(a) : inv[i].status # "deleted"

Least(a, b) == IF a < b THEN a ELSE b
Most(a, b) == IF a > b THEN a ELSE b

\* new rows get ids after all others, in the order of their places; place and row
\* are functions on what is filed.  Ids only tell which row is older: like those of
\* a database sequence they may leave gaps
Filed(rows, place, row) ==
    LET last == Max(DOMAIN rows \cup {0})
        new == {last + place[g] : g \in DOMAIN place}
    IN [i \in DOMAIN rows \cup new |->
          IF i \in DOMAIN rows THEN rows[i]
          ELSE row[CHOOSE g \in DOMAIN place : last + place[g] = i]]

-----------------------------------------------------------------------------
(* Routes *)

\* Faulty variant: the dearest route first
DearBefore(r, s) ==
    \/ r.cost > s.cost
    \/ r.cost = s.cost /\ r.provider = "sumistore" /\ s.provider = "lehai"

\* supplier_route_sort_key
RouteBefore(r, s) ==
    \/ r.cost < s.cost
    \/ r.cost = s.cost /\ r.provider = "sumistore" /\ s.provider = "lehai"

RoutesOf(up) == [p \in up |-> [provider |-> p, cost |-> catalog[p].cost,
                               stock |-> catalog[p].stock]]

\* what the routes ahead of p leave for p
Part(routes, n, p) ==
    LET ahead == {q \in DOMAIN routes : RouteBefore(routes[q], routes[p])}
        stock == [q \in ahead |-> routes[q].stock]
    IN Least(routes[p].stock, Most(0, n - SumOver(ahead, stock)))

\* plan_supplier_routes: the cheapest routes first, or nothing at all; the plan has
\* the providers it buys from as its domain
PlanRoutes(routes, n) ==
    LET part == [p \in DOMAIN routes |-> Part(routes, n, p)]
        parts == IF n > 0 /\ SumOver(DOMAIN routes, part) = n
                 THEN {p \in DOMAIN routes : part[p] > 0} ELSE {}
    IN [p \in parts |-> [provider |-> p, cost |-> routes[p].cost, quantity |-> part[p]]]

Released(p) == [p EXCEPT !.locked = FALSE, !.price = p.cost + Markup]
\* release_price_lock_if_inventory_empty
ReleaseIfEmpty(p, rows) ==
    IF p.locked /\ \A i \in DOMAIN rows : rows[i].status # "available"
    THEN Released(p) ELSE p

\* apply_supplier_price
ApplySupplierPrice(p, cost) ==
    [p EXCEPT !.cost = cost, !.price = IF p.locked THEN @ ELSE cost + Markup]

\* refresh_external_product, with the answers of the providers in up
Refresh(p, up) ==
    LET q == ReleaseIfEmpty(p, inv)
        priced == {r \in up : catalog[r].stock > 0}
    IN IF priced = {} THEN q
       ELSE ApplySupplierPrice(q, Min({catalog[r].cost : r \in priced}))

-----------------------------------------------------------------------------
(* Prices *)

\* supplier_sale_price
SupplierSalePrice(p, cost) == IF p.locked THEN p.price ELSE cost + Markup

\* seller_unit_price; 0 stands for None
SellerUnitPrice(cost, profit, public) ==
    IF cost > 0 /\ profit > 0 /\ cost + profit < public THEN cost + profit ELSE 0

\* current_seller_source_cost
SourceCost(p) == IF Available # {} THEN inv[Min(Available)].cost ELSE p.cost

\* regular_unit_price_components
RegularPrice(price, couponOff, tierOff) ==
    LET c == Most(0, Least(couponOff, price - 1))
    IN price - c - Most(0, Least(tierOff, price - c - 1))

\* resolve_discount_code: the coupon is for one purchase of a customer
CouponUsed(u) == \E k \in Key : Body[k].user = u /\ Body[k].coupon
                                 /\ SoldUnder(k) # {}

PublicPricing == [error |-> None, profit |-> 0, coupon |-> 0, tier |-> 0]
Refusal(code) == [PublicPricing EXCEPT !.error = code]

\* the quantity discount
TierOff(n) == IF terms.tier = "on" /\ n >= Tier.least THEN Tier.off ELSE 0

\* product_pricing
Pricing(p, k) ==
    LET b == Body[k]
        profit == IF terms.on[b.user] THEN terms.profit[b.user] ELSE 0
    IN IF SellerUnitPrice(SourceCost(p), profit, p.price) > 0
       THEN IF b.coupon THEN Refusal("coupon_seller_price")
            ELSE [PublicPricing EXCEPT !.profit = profit]
       ELSE IF b.coupon /\ terms.coupon # "on" THEN Refusal("coupon_inactive")
       ELSE IF b.coupon /\ CouponUsed(b.user) THEN Refusal("coupon_already_used")
       ELSE [PublicPricing EXCEPT
                !.coupon = IF b.coupon THEN CouponOff ELSE 0,
                !.tier = TierOff(b.quantity)]

IsSeller(pr) == pr.profit > 0
UnitPrice(pr, cost, public) ==
    IF IsSeller(pr) THEN SellerUnitPrice(cost, pr.profit, public)
    ELSE RegularPrice(public, pr.coupon, pr.tier)

\* seller_inventory_prices: the price of each of the rows
LocalPrices(p, pr, rows) == [i \in rows |-> UnitPrice(pr, inv[i].cost, p.price)]

\* price_supplier_plan: the price of an account of each part
RoutePrices(p, pr, plan) ==
    [r \in DOMAIN plan |->
        UnitPrice(pr, plan[r].cost, SupplierSalePrice(p, plan[r].cost))]

Amounts(prices) == {prices[i] : i \in DOMAIN prices}
TotalOf(local, route, plan) ==
    SumOver(DOMAIN local, local)
    + SumOver(DOMAIN route, [r \in DOMAIN route |-> route[r] * plan[r].quantity])

\* the prices of a purchase; a seller price that is not one for every account
\* gives way to the public price
Quote(p, k, rows, plan) ==
    LET asked == Pricing(p, k)
        pr == IF /\ IsSeller(asked)
                 /\ \/ 0 \in Amounts(LocalPrices(p, asked, rows))
                    \/ 0 \in Amounts(RoutePrices(p, asked, plan))
              THEN PublicPricing ELSE asked
        local == LocalPrices(p, pr, rows)
        route == RoutePrices(p, pr, plan)
    IN [pricing |-> pr, local |-> local, route |-> route,
        total |-> TotalOf(local, route, plan)]

-----------------------------------------------------------------------------
(* The idempotency key of a partner *)

Rest == [pc |-> "idle"]
Alive(k) == {h \in Handler : run[h].pc # "idle" /\ run[h].key = k}
IsBuying == \E h \in Handler : run[h].pc = "buying"

Start(h, k) ==
    /\ run[h].pc = "idle"
    /\ runs[k] < MaxRuns[k]
    /\ run' = [run EXCEPT ![h] = [pc |-> "claimed", key |-> k]]
    /\ runs' = [runs EXCEPT ![k] = @ + 1]
    /\ raced' = IF Alive(k) = {} THEN raced ELSE raced \cup {k}

\* the write of error_code changes nothing, and updated_at with it, when the
\* request was recovered before
Reclaimed(r) ==
    IF r.error = "STALE_REQUEST_RECOVERED" THEN r
    ELSE [r EXCEPT !.error = "STALE_REQUEST_RECOVERED", !.fresh = TRUE]

\* Faulty variant: a stale request is claimed without a look at its orders
CreateUnread(h, k) ==
    /\ \/ /\ request[k].status = None
          /\ request' = [request EXCEPT ![k] =
                            [status |-> "processing", error |-> None, fresh |-> TRUE]]
       \/ /\ request[k].status = "processing" /\ ~request[k].fresh
          /\ request' = [request EXCEPT ![k] = Reclaimed(@)]
    /\ Start(h, k)
    /\ UNCHANGED <<product, catalog, placed, inv, wallet, debit, shown, loaded, terms, left>>

\* POST /orders: the branches that go on to the purchase.  The others answer
\* with the orders of the key or with a conflict and change nothing
CreateOrder(h, k) ==
    /\ \/ /\ request[k].status = None
          /\ product.active
          /\ request' = [request EXCEPT ![k] =
                            [status |-> "processing", error |-> None, fresh |-> TRUE]]
       \/ /\ SoldUnder(k) = {}
          /\ request[k].status = "review"
          /\ request' = [request EXCEPT ![k] =
                            [status |-> "processing", error |-> None, fresh |-> TRUE]]
       \/ /\ SoldUnder(k) = {}
          /\ request[k].status = "processing"
          /\ ~request[k].fresh
          /\ request' = [request EXCEPT ![k] = Reclaimed(@)]
    /\ Start(h, k)
    /\ UNCHANGED <<product, catalog, placed, inv, wallet, debit, shown, loaded, terms, left>>

\* API_PROCESSING_RECOVERY_AFTER passes
GrowStale(k) ==
    /\ request[k].status = "processing" /\ request[k].fresh
    /\ request' = [request EXCEPT ![k].fresh = FALSE]
    /\ UNCHANGED <<product, catalog, placed, inv, wallet, debit, shown, loaded, terms,
                   run, runs, raced, left>>

\* multi_supplier_quote
CheckoutPlan(k) ==
    PlanRoutes(RoutesOf(IF product.external THEN Provider ELSE {}),
               Body[k].quantity - Cardinality(Reserve(Body[k].quantity)))

\* product_checkout_quote
CheckoutQuote(k) ==
    Quote(product, k, Reserve(Body[k].quantity), CheckoutPlan(k))

\* the shop and the suppliers have what k asks for
InStock(k) ==
    \/ Cardinality(Available) >= Body[k].quantity
    \/ DOMAIN CheckoutPlan(k) # {}

\* the button of a seller shows the total that will be asked
ShowTotal(k) ==
    /\ runs[k] = 0 /\ product.active
    /\ IsSeller(Pricing(product, k))
    /\ InStock(k)
    /\ shown' = [shown EXCEPT ![k] = CheckoutQuote(k).total]
    /\ UNCHANGED <<product, catalog, placed, inv, wallet, debit, request, loaded, terms,
                   run, runs, raced, left>>

\* buy: in the bot, or sellerbuy: by one who has been shown the total
PressBuy(h, k) ==
    /\ runs[k] = 0
    /\ product.active
    /\ IsSeller(Pricing(product, k)) => shown[k] > 0
    /\ Start(h, k)
    /\ UNCHANGED <<product, catalog, placed, inv, wallet, debit, shown, request,
                   loaded, terms, left>>

-----------------------------------------------------------------------------
(* The purchase *)

Ended(h, code) ==
    run' = [run EXCEPT ![h] = [pc |-> "answer", key |-> run[h].key, result |-> code]]

\* the total a seller confirmed, and the dearest account a partner accepts
Agreed(k) == k \in BotKey /\ shown[k] > 0
TotalMoved(k, total) == Agreed(k) /\ total # shown[k]
TooDear(k, amounts) == k \in ApiKey /\ \E x \in amounts : x > Body[k].max

\* the rows of the shop that are sold under k
SoldRows(k, local, rule) ==
    [i \in Rows |->
        IF i \in DOMAIN local
        THEN [inv[i] EXCEPT !.status = "sold", !.key = k, !.rule = rule,
                            !.amount = local[i]]
        ELSE inv[i]]

\* the goods of the parts that are paid for: <<r, j>> is account j of the order at r
Goods(plan, paid) == Pairs(DOMAIN paid, [r \in DOMAIN paid |-> plan[r].quantity])
AccountOf(paid, g) == <<paid[g[1]], g[2]>>

\* ... and their order: the parts one after the other
Place(plan, goods) ==
    [g \in goods |->
        LET ahead == {r \in DOMAIN plan : RouteBefore(plan[r], plan[g[1]])}
        IN SumOver(ahead, [r \in ahead |-> plan[r].quantity]) + g[2]]

\* the accounts of the suppliers become rows as they are sold
SoldGoods(k, goods, orders, paid, route, rule) ==
    [g \in goods |->
        [Row(AccountOf(paid, g), orders[paid[g[1]]].cost, "sold")
            EXCEPT !.key = k, !.rule = rule, !.amount = route[g[1]]]]

\* preserve_supplier_purchase_for_resale for every part of the purchase
Kept(plan, orders, paid) ==
    LET goods == {g \in Goods(plan, paid) : ~IsHeld(AccountOf(paid, g))}
    IN Filed(inv, Place(plan, goods),
             [g \in goods |->
                Row(AccountOf(paid, g), orders[paid[g[1]]].cost, "available")])

\* payment, rows and product in one commit; what is paid by QR is not in the wallet
Complete(h, p, plan, orders, paid, route, quote) ==
    LET k == run[h].key
        rule == IsSeller(quote.pricing)
        goods == Goods(plan, paid)
        rest == Filed(SoldRows(k, quote.local, rule), Place(plan, goods),
                      SoldGoods(k, goods, orders, paid, route, rule))
    IN /\ inv' = rest
       /\ product' = ReleaseIfEmpty(p, rest)
       /\ wallet' = IF k \in QrKey THEN wallet
                    ELSE [wallet EXCEPT ![Body[k].user] = @ - quote.total]
       /\ request' = IF k \in QrKey THEN [request EXCEPT ![k].status = "delivered"]
                     ELSE request
       /\ debit' = [debit EXCEPT ![k] = @ + quote.total]
       /\ Ended(h, "completed")

\* nothing is sold: what was paid by QR goes to the wallet
NotSold(h, code) ==
    LET k == run[h].key
    IN /\ Ended(h, code)
       /\ wallet' = IF k \in QrKey
                    THEN [wallet EXCEPT ![Body[k].user] = @ + request[k].amount]
                    ELSE wallet
       /\ request' = IF k \in QrKey THEN [request EXCEPT ![k].status = "credited"]
                     ELSE request
       /\ UNCHANGED debit

\* the rows of the shop, then the suppliers for the rest; up: the providers
\* that answer the fetch of the routes
Sources(k, up) ==
    LET rows == Reserve(Body[k].quantity)
        need == Body[k].quantity - Cardinality(rows)
        asks == product.external /\ need > 0
        plan == PlanRoutes(RoutesOf(IF asks THEN up ELSE {}), need)
    IN [rows |-> rows, need |-> need, plan |-> plan,
        p |-> IF asks THEN Refresh(product, up) ELSE product,
        error |-> IF asks /\ up = {} THEN "supplier_unavailable"
                  ELSE IF asks /\ DOMAIN plan = {} THEN "out_of_stock"
                  ELSE None]

\* the refusals before anything is bought
Refused(k, src, q) ==
    IF ~product.active THEN "not_found"
    ELSE IF src.error # None THEN src.error
    ELSE IF q.pricing.error # None THEN q.pricing.error
    ELSE IF ~product.external /\ src.need > 0 THEN "out_of_stock"
    ELSE IF TotalMoved(k, q.total) \/ TooDear(k, Amounts(q.local) \cup Amounts(q.route))
    THEN "price_changed"
    ELSE IF wallet[Body[k].user] < q.total THEN "insufficient"
    ELSE None

NothingPaid == [r \in {} |-> 0]

\* the product is bought from the shop's rows, or the plan of the suppliers begins
Proceed(h, src, q) ==
    IF src.need = 0
    THEN Complete(h, src.p, src.plan, placed, NothingPaid, q.route, q)
    ELSE /\ run' = [run EXCEPT ![h] =
                      [pc |-> "buying", key |-> run[h].key, p |-> src.p,
                       plan |-> src.plan, paid |-> NothingPaid, quote |-> q]]
         /\ UNCHANGED <<product, inv, wallet, debit, request>>

\* _purchase_product up to the first call of a supplier
Purchase(h, up) ==
    LET k == run[h].key
        src == Sources(k, up)
        q == Quote(src.p, k, src.rows, src.plan)
        code == Refused(k, src, q)
    IN /\ run[h].pc = "claimed" /\ run[h].key \notin QrKey
       /\ ~IsBuying
       /\ IF code # None
          THEN /\ product' = IF product.active THEN src.p ELSE product
               /\ NotSold(h, code)
               /\ UNCHANGED inv
          ELSE Proceed(h, src, q)
       /\ UNCHANGED <<catalog, placed, shown, loaded, terms, runs, raced, left>>

-----------------------------------------------------------------------------
(* A purchase paid by QR *)

\* directpay: the checkout's total is what is to be paid
CreateRequest(k) ==
    LET quote == CheckoutQuote(k)
    IN /\ request[k].status = None
       /\ runs[k] < MaxRuns[k]
       /\ product.active /\ quote.pricing.error = None
       /\ InStock(k)
       /\ request' = [request EXCEPT ![k] =
                         [status |-> "open", amount |-> quote.total,
                          pricing |-> quote.pricing, locked |-> product.locked]]
       /\ UNCHANGED <<product, catalog, placed, inv, wallet, debit, shown, loaded, terms, run,
                      runs, raced, left>>

\* the payment is reported, again when the last report ended in an exception
Pay(h, k) ==
    /\ request[k].status = "open" /\ Alive(k) = {}
    /\ Start(h, k)
    /\ UNCHANGED <<product, catalog, placed, inv, wallet, debit, shown, request, loaded, terms, left>>

\* what was promised: the seller's profit and the coupon of the request, and the
\* quantity discount of today
Promised(k) ==
    LET pr == request[k].pricing
    IN IF IsSeller(pr) THEN pr
       ELSE [pr EXCEPT !.tier = TierOff(Body[k].quantity)]

\* the shop's own rows are sold at the amount that was paid, in equal parts
PaidQuote(k, src) ==
    LET pr == Promised(k)
        local == IF src.need = 0 /\ ~IsSeller(pr)
                 THEN [i \in src.rows |-> request[k].amount \div Body[k].quantity]
                 ELSE LocalPrices(src.p, pr, src.rows)
        route == RoutePrices(src.p, pr, src.plan)
    IN [pricing |-> pr, local |-> local, route |-> route,
        total |-> IF src.need = 0 /\ ~IsSeller(pr) THEN request[k].amount
                  ELSE TotalOf(local, route, src.plan)]

\* the product may still be sold on the terms of the request
Unlocked(k) ==
    /\ product.active
    /\ request[k].locked = product.locked
    /\ ~(request[k].pricing.coupon > 0 /\ CouponUsed(Body[k].user))

\* Faulty variant: the amount is not compared with today's prices
HoldsAnyway(k, q) == 0 \notin Amounts(q.local) \cup Amounts(q.route)

\* ... and everything it needs is there, at the amount that was paid
Holds(k, q) ==
    /\ 0 \notin Amounts(q.local) \cup Amounts(q.route)
    /\ q.total = request[k].amount

\* process_payment for a direct purchase, up to the first call of a supplier
Fulfil(h, up) ==
    LET k == run[h].key
        src == Sources(k, up)
        q == PaidQuote(k, src)
        there == src.error = None /\ (product.external \/ src.need = 0)
    IN /\ run[h].pc = "claimed" /\ run[h].key \in QrKey
       /\ ~IsBuying
       /\ IF Unlocked(k) /\ there /\ Holds(k, q) THEN Proceed(h, src, q)
          ELSE /\ product' = IF Unlocked(k) THEN src.p ELSE product
               /\ NotSold(h, "fallback")
               /\ UNCHANGED inv
       /\ UNCHANGED <<catalog, placed, shown, loaded, terms, runs, raced, left>>

-----------------------------------------------------------------------------
(* The suppliers sell *)

\* supplier_plan_request_key
PlanKey(h) ==
    <<run[h].key, IF Cardinality(DOMAIN run[h].plan) = 1 THEN 0
                  ELSE Cardinality(DOMAIN run[h].paid) + 1>>

\* the part that is bought next: the first of the plan that is not paid for
Due(h) ==
    LET open == DOMAIN run[h].plan \ DOMAIN run[h].paid
    IN {r \in open : \A s \in open \ {r} : RouteBefore(run[h].plan[r], run[h].plan[s])}

\* the supplier's order under the key: Le Hai repeats its answer, Sumistore is
\* not asked again while a recovery of the key is pending
OrdersUnder(p, key) == {o \in DOMAIN placed : placed[o].provider = p /\ placed[o].key = key}
AwaitsRecovery(key) == \E o \in OrdersUnder("sumistore", key) : placed[o].queued

NewOrder(h, r, adrift) ==
    [provider |-> r, key |-> PlanKey(h), quantity |-> run[h].plan[r].quantity,
     cost |-> catalog[r].cost, adrift |-> adrift, queued |-> adrift /\ r = "sumistore"]

Take(h, r) ==
    /\ catalog[r].stock >= run[h].plan[r].quantity
    /\ catalog' = [catalog EXCEPT ![r].stock = @ - run[h].plan[r].quantity]

\* the orders that have an account in no row yet
Adrift(orders, taken) ==
    [o \in DOMAIN orders |->
        IF o \in taken /\ \E j \in 1 .. orders[o].quantity : Recorded(<<o, j>>) = {}
        THEN [orders[o] EXCEPT !.adrift = TRUE] ELSE orders[o]]
Landed(orders, taken) ==
    [o \in DOMAIN orders |->
        IF o \in taken THEN [orders[o] EXCEPT !.adrift = FALSE] ELSE orders[o]]
OrdersOf(paid) == {paid[r] : r \in DOMAIN paid}

\* the parts whose accounts cost more than the route said
Dearer(h, orders, paid) ==
    {r \in DOMAIN paid : orders[paid[r]].cost > run[h].plan[r].cost}

\* a seller's prices follow what the supplier asked in the end
FinalPrices(h, orders, paid) ==
    LET q == run[h].quote
    IN [r \in DOMAIN paid |->
          IF IsSeller(q.pricing) /\ run[h].key \notin QrKey
          THEN SellerUnitPrice(orders[paid[r]].cost, q.pricing.profit,
                               SupplierSalePrice(run[h].p, orders[paid[r]].cost))
          ELSE q.route[r]]

\* Faulty variant: the price the supplier asked in the end is not checked again
SellerTrusted(h, orders, paid) == FALSE

\* ... and the purchase is refused when they moved against the agreement
SellerRefused(h, orders, paid) ==
    LET k == run[h].key
        q == run[h].quote
        route == FinalPrices(h, orders, paid)
        total == TotalOf(q.local, route, run[h].plan)
    IN /\ IsSeller(q.pricing) /\ k \notin QrKey
       /\ \/ 0 \in Amounts(route)
          \/ TooDear(k, Amounts(route))
          \/ TotalMoved(k, total)
          \/ ~Agreed(k) /\ total > q.total

\* the sale is off: the accounts become stock, the supplier's price is taken over
KeepParts(h, orders, paid) ==
    LET r == run[h]
        dearer == Dearer(h, orders, paid)
        first == {s \in dearer : \A d \in dearer \ {s} : RouteBefore(r.plan[s], r.plan[d])}
    IN /\ inv' = Kept(r.plan, orders, paid)
       /\ placed' = Landed(orders, OrdersOf(paid))
       /\ product' = IF "sumistore" \in first
                     THEN ApplySupplierPrice(r.p, orders[paid["sumistore"]].cost) ELSE r.p
       /\ NotSold(h, "price_changed")

\* what becomes of the parts once all are paid for
Conclude(h, orders, paid) ==
    LET r == run[h]
    IN IF Dearer(h, orders, paid) # {} \/ SellerRefused(h, orders, paid)
       THEN KeepParts(h, orders, paid)
       ELSE IF \E g \in Goods(r.plan, paid) : IsHeld(AccountOf(paid, g))
       THEN \* uq_inventory_supplier_source: the whole transaction is undone
            /\ placed' = Adrift(orders, OrdersOf(paid))
            /\ Ended(h, "exception")
            /\ UNCHANGED <<product, inv, wallet, debit, request>>
       ELSE /\ placed' = Landed(orders, OrdersOf(paid))
            /\ Complete(h, r.p, r.plan, orders, paid, FinalPrices(h, orders, paid), r.quote)

\* the part r is paid by the order o: on to the next one, or to the end of the purchase
Paid(h, r, o, orders) ==
    LET paid == [s \in DOMAIN run[h].paid \cup {r} |->
                    IF s = r THEN o ELSE run[h].paid[s]]
    IN IF DOMAIN paid # DOMAIN run[h].plan
       THEN /\ run' = [run EXCEPT ![h].paid = paid]
            /\ placed' = orders
            /\ UNCHANGED <<product, inv, wallet, debit, request>>
       ELSE Conclude(h, orders, paid)

\* a supplier may be asked for the order of the part: Le Hai has none under the key,
\* Sumistore none that awaits its recovery
Unasked(h, r) ==
    IF r = "lehai" THEN OrdersUnder("lehai", PlanKey(h)) = {} ELSE ~AwaitsRecovery(PlanKey(h))

Deliver(h) ==
    /\ run[h].pc = "buying"
    /\ \E r \in Due(h) :
         \/ /\ r = "lehai"
            /\ \E o \in OrdersUnder("lehai", PlanKey(h)) :
                  /\ placed[o].quantity = run[h].plan[r].quantity
                  /\ Paid(h, r, o, placed)
            /\ UNCHANGED catalog
         \/ /\ Unasked(h, r)
            /\ Take(h, r)
            /\ Paid(h, r, Len(placed) + 1, Append(placed, NewOrder(h, r, FALSE)))
    /\ UNCHANGED <<shown, loaded, terms, runs, raced, left>>

\* Faulty variant: the parts already paid for are forgotten
FailForgetting(h, orders, code) ==
    /\ placed' = orders
    /\ product' = run[h].p
    /\ NotSold(h, code)
    /\ UNCHANGED <<inv, shown, loaded, terms, runs, raced, left>>

\* execute_supplier_route_plan and the caller: what is paid becomes stock
Fail(h, orders, code) ==
    /\ inv' = Kept(run[h].plan, orders, run[h].paid)
    /\ placed' = Landed(orders, OrdersOf(run[h].paid))
    /\ product' = run[h].p
    /\ NotSold(h, code)
    /\ UNCHANGED <<shown, loaded, terms, runs, raced, left>>

\* INSUFFICIENT_STOCK, or the shop's balance at the supplier is short
Refuse(h) ==
    /\ run[h].pc = "buying"
    /\ Fail(h, placed, "out_of_stock")
    /\ UNCHANGED catalog

\* an error without an order, a key whose recovery is pending, or an order
\* repeated under the key with another quantity
Unavailable(h) ==
    /\ run[h].pc = "buying"
    /\ Fail(h, placed, "supplier_unavailable")
    /\ UNCHANGED catalog

\* the supplier takes the order and its answer is lost
AnswerLost(h) ==
    /\ run[h].pc = "buying"
    /\ \E r \in Due(h) :
          /\ Unasked(h, r)
          /\ Take(h, r)
          /\ Fail(h, Append(placed, NewOrder(h, r, TRUE)), "supplier_unavailable")

\* an exception: the transaction is undone
Raise(h) ==
    /\ run[h].pc \in {"claimed", "buying"}
    /\ left.crashes > 0
    /\ left' = [left EXCEPT !.crashes = @ - 1]
    /\ placed' = IF run[h].pc = "buying" THEN Adrift(placed, OrdersOf(run[h].paid)) ELSE placed
    /\ Ended(h, "exception")
    /\ UNCHANGED <<product, catalog, inv, wallet, debit, shown, request, loaded, terms,
                   runs, raced>>

\* the handler writes the outcome to the row of the key, which it does not lock
Answer(h) ==
    LET k == run[h].key
        r == run[h].result
        status == IF r = "completed" THEN "completed"
                  ELSE IF r \in {"supplier_unavailable", "exception"} THEN "review"
                  ELSE "failed"
    IN /\ run[h].pc = "answer"
       /\ request' = IF k \in ApiKey
                     THEN [request EXCEPT ![k] =
                             [status |-> status, fresh |-> TRUE,
                              error |-> IF r = "completed" THEN @.error ELSE r]]
                     ELSE request
       /\ run' = [run EXCEPT ![h] = Rest]
       /\ UNCHANGED <<product, catalog, placed, inv, wallet, debit, shown, loaded, terms,
                      runs, raced, left>>

OrdersInHand ==
    UNION {OrdersOf(run[h].paid) : h \in {g \in Handler : run[g].pc = "buying"}}

\* the process stops: the open transactions are undone
Crash ==
    /\ left.crashes > 0
    /\ \E h \in Handler : run[h].pc # "idle"
    /\ left' = [left EXCEPT !.crashes = @ - 1]
    /\ placed' = Adrift(placed, OrdersInHand)
    /\ run' = [h \in Handler |-> Rest]
    /\ UNCHANGED <<product, catalog, inv, wallet, debit, shown, request, loaded, terms,
                   runs, raced>>

-----------------------------------------------------------------------------
(* The warehouse, the workers and the suppliers *)

\* the recovery worker stores an order whose answer was lost
RecoverOrder(o) ==
    /\ placed[o].queued /\ ~IsBuying
    /\ LET n == placed[o].quantity
       IN inv' = Filed(inv, [j \in 1 .. n |-> j],
                       [j \in 1 .. n |-> Row(<<o, j>>, placed[o].cost, "available")])
    /\ placed' = [placed EXCEPT ![o].adrift = FALSE, ![o].queued = FALSE]
    /\ UNCHANGED <<product, catalog, wallet, debit, shown, request, loaded, terms, run,
                   runs, raced, left>>

\* filter_duplicate_inventory
Accepted(accounts, again) ==
    {a \in accounts :
        IsHeld(a) => again /\ \A i \in Available : inv[i].acct # a}

\* the orders in which the lines of a file may stand
Lines(accounts) ==
    {place \in [accounts -> 1 .. Cardinality(accounts)] :
        \A a, b \in accounts : place[a] = place[b] => a = b}
Stored(place, cost, again) ==
    Filed(inv, place,
          [a \in DOMAIN place |-> [Row(a, cost, "available") EXCEPT !.again = again]])

\* POST /inventory/import: claim, rows and answer are one commit; a repeated
\* key is answered from its row
ImportBatch(b) ==
    /\ loaded[b] = None /\ ~IsBuying
    /\ LET new == Accepted(Load[b].accounts, FALSE)
       IN IF product.active
          THEN /\ \E place \in Lines(new) : inv' = Stored(place, Load[b].cost, FALSE)
               /\ product' = [product EXCEPT !.locked = @ \/ (Load[b].lock /\ product.external)]
               /\ loaded' = [loaded EXCEPT ![b] = "completed"]
          ELSE /\ loaded' = [loaded EXCEPT ![b] = "failed"]
               /\ UNCHANGED <<inv, product>>
    /\ UNCHANGED <<catalog, placed, wallet, debit, shown, request, terms, run, runs,
                   raced, left>>

Change ==
    /\ left.changes > 0
    /\ left' = [left EXCEPT !.changes = @ - 1]

\* the administrator imports an account again after it was sold or withdrawn
ImportAgain(a) ==
    /\ product.active /\ ~IsBuying
    /\ Change
    /\ Accepted({a}, TRUE) # {}
    /\ \E place \in Lines({a}) : inv' = Stored(place, product.cost, TRUE)
    /\ UNCHANGED <<product, catalog, placed, wallet, debit, shown, request, loaded, terms,
                   run, runs, raced>>

\* withdraw_inventory from the shop's own rows
Withdraw ==
    /\ Available # {} /\ ~IsBuying
    /\ Change
    /\ inv' = [i \in Rows |->
                 IF i \in Reserve(1) THEN [inv[i] EXCEPT !.status = "withdrawn"]
                 ELSE inv[i]]
    /\ product' = ReleaseIfEmpty(product, inv')
    /\ UNCHANGED <<catalog, placed, wallet, debit, shown, request, loaded, terms, run, runs,
                   raced>>

\* delete_inventory_item: a row that is not sold
Delete ==
    /\ Available # {} /\ ~IsBuying
    /\ Change
    /\ \E i \in Available : inv' = [inv EXCEPT ![i].status = "deleted"]
    /\ product' = IF product.external THEN ReleaseIfEmpty(product, inv') ELSE product
    /\ UNCHANGED <<catalog, placed, wallet, debit, shown, request, loaded, terms, run, runs,
                   raced>>

\* update_product: the product is hidden or shown
SwitchProduct ==
    /\ ~IsBuying /\ ~terms.archived
    /\ Change
    /\ product' = [product EXCEPT !.active = ~@]
    /\ UNCHANGED <<catalog, placed, inv, wallet, debit, shown, request, loaded, terms, run,
                   runs, raced>>

\* sync_sumistore_products
Sync(up) ==
    /\ product.active /\ product.external /\ ~IsBuying
    /\ product' = Refresh(product, up)
    /\ product' # product
    /\ UNCHANGED <<catalog, placed, inv, wallet, debit, shown, request, loaded, terms, run,
                   runs, raced, left>>

\* the supplier changes the price
Reprice(p, c) ==
    /\ c # catalog[p].cost
    /\ Change
    /\ catalog' = [catalog EXCEPT ![p].cost = c]
    /\ UNCHANGED <<product, placed, inv, wallet, debit, shown, request, loaded, terms, run,
                   runs, raced>>

-----------------------------------------------------------------------------
(* The administrator changes the terms: prices of sellers, discounts, the product *)

offers == <<product, catalog, placed, inv, wallet, debit, shown, request, loaded, run,
            runs, raced>>

Grant ==
    /\ left.grants > 0
    /\ left' = [left EXCEPT !.grants = @ - 1]

\* an order or a payment request names the seller price of u, or the coupon
Referenced(u) ==
    \/ \E i \in Rows : inv[i].rule /\ Body[inv[i].key].user = u
    \/ \E k \in QrKey : Body[k].user = u /\ IsSeller(request[k].pricing)
CouponNamed ==
    \/ \E u \in Customer : CouponUsed(u)
    \/ \E k \in QrKey : request[k].pricing.coupon > 0

\* rows that an open purchase holds: a wallet purchase its seller price, any its coupon
RuleHeld(u) ==
    \E h \in Handler : /\ run[h].pc = "buying" /\ run[h].key \notin QrKey
                      /\ Body[run[h].key].user = u /\ terms.on[u]
CouponHeld == \E h \in Handler : run[h].pc = "buying" /\ run[h].quote.pricing.coupon > 0

\* a profit that leaves the seller's price below everybody's
Grantable(n) == SellerUnitPrice(SourceCost(product), n, product.price) > 0

Withdrawn(u) ==
    IF Referenced(u) THEN [terms EXCEPT !.on[u] = FALSE]
    ELSE [terms EXCEPT !.on[u] = FALSE, !.profit[u] = 0]

\* save_seller_price: an empty field takes the price away
SaveSellerPrice(u, n, on) ==
    /\ product.active /\ ~IsBuying
    /\ Grant
    /\ IF n = 0 THEN ~on /\ terms.profit[u] > 0 /\ terms' = Withdrawn(u)
       ELSE /\ Grantable(n)
            /\ terms' = [terms EXCEPT !.profit[u] = n, !.on[u] = on]
    /\ terms' # terms
    /\ UNCHANGED offers

ToggleSellerPrice(u) ==
    /\ terms.profit[u] > 0 /\ ~RuleHeld(u)
    /\ ~terms.on[u] => Grantable(terms.profit[u])
    /\ Grant
    /\ terms' = [terms EXCEPT !.on[u] = ~@]
    /\ UNCHANGED offers

DeleteSellerPrice(u) ==
    /\ terms.profit[u] > 0 /\ ~RuleHeld(u)
    /\ Grant
    /\ terms' = Withdrawn(u)
    /\ terms' # terms
    /\ UNCHANGED offers

\* create_fixed_quantity_discount
CreateTier ==
    /\ terms.tier = "gone" /\ ~terms.archived /\ Tier.off < product.price
    /\ Grant
    /\ terms' = [terms EXCEPT !.tier = "on"]
    /\ UNCHANGED offers

Toggled(state) == IF state = "on" THEN "off" ELSE "on"

ToggleTier ==
    /\ terms.tier # "gone"
    /\ Grant
    /\ terms' = [terms EXCEPT !.tier = Toggled(@)]
    /\ UNCHANGED offers

DeleteTier ==
    /\ terms.tier # "gone"
    /\ Grant
    /\ terms' = [terms EXCEPT !.tier = "gone"]
    /\ UNCHANGED offers

ToggleDiscount ==
    /\ terms.coupon # "gone" /\ ~CouponHeld
    /\ Grant
    /\ terms' = [terms EXCEPT !.coupon = Toggled(@)]
    /\ UNCHANGED offers

\* delete_discount counts what names the code, and deletes it later without a lock:
\* a payment request made in between loses its code (ON DELETE SET NULL)
CountDiscount ==
    /\ terms.coupon # "gone" /\ ~terms.counted
    /\ Grant
    /\ terms' = IF CouponNamed THEN [terms EXCEPT !.coupon = "off"]
                ELSE [terms EXCEPT !.counted = TRUE]
    /\ CouponNamed => ~CouponHeld
    /\ UNCHANGED offers

DeleteDiscount ==
    /\ terms.counted /\ ~CouponHeld
    /\ terms' = [terms EXCEPT !.coupon = "gone", !.counted = FALSE]
    /\ request' = [k \in DOMAIN request |->
                     IF k \in QrKey THEN [request[k] EXCEPT !.pricing.coupon = 0]
                     ELSE request[k]]
    /\ UNCHANGED <<product, catalog, placed, inv, wallet, debit, shown, loaded, run,
                   runs, raced, left>>

\* delete_product, of a product with a history: its free rows go, its codes are off,
\* its sellers' prices stay; without a history all of it goes
DeleteProduct ==
    LET named == \/ \E i \in Rows : inv[i].key # None
                 \/ \E k \in QrKey : request[k].status # None
        off(state) == IF ~named THEN "gone" ELSE IF state = "gone" THEN "gone" ELSE "off"
    IN /\ ~terms.archived /\ ~IsBuying
       /\ Grant
       /\ product' = [product EXCEPT !.active = FALSE]
       /\ inv' = [i \in Rows |->
                    IF inv[i].status = "available" \/ (~named /\ inv[i].status = "withdrawn")
                    THEN [inv[i] EXCEPT !.status = "deleted"] ELSE inv[i]]
       /\ terms' = [terms EXCEPT !.archived = TRUE, !.coupon = off(@), !.tier = off(@)]
       /\ UNCHANGED <<catalog, placed, wallet, debit, shown, request, loaded, run, runs,
                      raced>>

-----------------------------------------------------------------------------
(* The specification *)

Init ==
    /\ catalog = Catalog0
    /\ placed = <<>>
    /\ inv = [i \in {} |-> Row(None, 0, None)]
    /\ wallet = Wallet0
    /\ debit = [k \in Key |-> 0]
    /\ shown = [k \in BotKey |-> 0]
    /\ request = [k \in ApiKey \cup QrKey |->
                    IF k \in ApiKey THEN [status |-> None, error |-> None, fresh |-> TRUE]
                    ELSE [status |-> None, amount |-> 0, pricing |-> PublicPricing,
                          locked |-> FALSE]]
    /\ loaded = [b \in Batch |-> None]
    /\ run = [h \in Handler |-> Rest]
    /\ \E s \in Scene :
          /\ runs = [k \in Key |-> IF k \in s.keys THEN 0 ELSE MaxRuns[k]]
          /\ left = [changes |-> s.changes, grants |-> s.grants, crashes |-> s.crashes]
          /\ terms = [profit |-> Profit, on |-> [u \in Customer |-> Profit[u] > 0],
                      coupon |-> "on", tier |-> s.tier, counted |-> FALSE, archived |-> FALSE]
          /\ LET cost == Min({Catalog0[p].cost : p \in Provider})
             IN product = [price |-> cost + Markup, cost |-> cost, locked |-> FALSE,
                           active |-> TRUE, external |-> s.external]
    /\ raced = {}

Next ==
    \/ \E h \in Handler, k \in ApiKey : CreateOrder(h, k)
    \/ \E k \in ApiKey : GrowStale(k)
    \/ \E k \in BotKey : ShowTotal(k)
    \/ \E h \in Handler, k \in BotKey : PressBuy(h, k)
    \/ \E h \in Handler, up \in SUBSET Provider : Purchase(h, up)
    \/ \E k \in QrKey : CreateRequest(k)
    \/ \E h \in Handler, k \in QrKey : Pay(h, k)
    \/ \E h \in Handler, up \in SUBSET Provider : Fulfil(h, up)
    \/ \E h \in Handler : Deliver(h) \/ Refuse(h) \/ Unavailable(h) \/ AnswerLost(h)
                          \/ Raise(h) \/ Answer(h)
    \/ Crash
    \/ \E o \in DOMAIN placed : RecoverOrder(o)
    \/ \E b \in Batch : ImportBatch(b)
    \/ \E a \in Account : ImportAgain(a)
    \/ Withdraw
    \/ Delete
    \/ SwitchProduct
    \/ \E up \in SUBSET Provider : Sync(up)
    \/ \E p \in Provider, c \in Cost : Reprice(p, c)
    \/ \E u \in Customer :
         \/ \E n \in Profits, on \in BOOLEAN : SaveSellerPrice(u, n, on)
         \/ ToggleSellerPrice(u)
         \/ DeleteSellerPrice(u)
    \/ CreateTier \/ ToggleTier \/ DeleteTier
    \/ ToggleDiscount \/ CountDiscount \/ DeleteDiscount
    \/ DeleteProduct

Spec == Init /\ [][Next]_vars

-----------------------------------------------------------------------------
(* Properties *)

\* Types: no wallet below zero, a price to ask, and a row is sold exactly when
\* it belongs to an order.
TypeOK ==
    /\ \A u \in Customer : wallet[u] >= 0
    /\ product.price > 0
    /\ \A i \in Rows : inv[i].status \in {"available", "sold", "withdrawn", "deleted"}
    /\ \A i \in Rows : (inv[i].key # None) <=> inv[i].status = "sold"

\* However often a partner repeats a key, and wherever the process stops, the
\* key is delivered whole or not at all, once; an answer "completed" has its
\* accounts, an answer "failed" cost nothing.  Keys claimed again while an
\* earlier run still worked (create_order cannot tell) are excepted.
OrderedOnce ==
    \A k \in ApiKey \ raced :
        LET n == Cardinality(SoldUnder(k))
        IN /\ n \in {0, Body[k].quantity}
           /\ request[k].status = "completed" => n > 0
           /\ request[k].status = "failed" => n = 0 /\ debit[k] = 0

\* Whatever the administrator changes meanwhile, a seller pays the total on the button
\* or nothing ("Only this exact total will be charged."), no account costs a partner
\* more than max_unit_price, none is sold at a seller's price without a profit, and
\* what is taken is the sum of the orders; a seller who has agreed on no total and
\* whose supplier turns out cheaper pays the total quoted first (payment_amount is
\* not lowered).
AmountsOf(k) == SumOver(SoldUnder(k), [i \in SoldUnder(k) |-> inv[i].amount])
ChargedAsAgreed ==
    \A k \in Key :
        /\ Agreed(k) => debit[k] \in {0, shown[k]}
        /\ k \in ApiKey => \A i \in SoldUnder(k) : inv[i].amount <= Body[k].max
        /\ \A i \in SoldUnder(k) : inv[i].rule => inv[i].amount > inv[i].cost
        /\ IF k \in QrKey \/ (~Agreed(k) /\ \E i \in SoldUnder(k) : inv[i].rule)
           THEN debit[k] >= AmountsOf(k)
           ELSE debit[k] = AmountsOf(k)

\* What is paid by QR ends as the whole order or as money in the wallet, never as
\* both, whichever part of it had been bought when a supplier failed or the process
\* stopped, and however often the payment is reported; the accounts of an order are
\* booked at the amount that was paid, up to the remainder of a division.
CreditedTo(u) == {k \in QrKey : Body[k].user = u /\ request[k].status = "credited"}
Credited(u) == SumOver(CreditedTo(u), [k \in CreditedTo(u) |-> request[k].amount])
Spent(u) == SumOver({k \in Key \ QrKey : Body[k].user = u}, debit)
PaidByQr ==
    /\ \A k \in QrKey :
          /\ SoldUnder(k) # {} <=> request[k].status = "delivered"
          /\ SoldUnder(k) # {} =>
                /\ Cardinality(SoldUnder(k)) = Body[k].quantity
                /\ debit[k] = request[k].amount
                /\ AmountsOf(k) \in (debit[k] - Body[k].quantity + 1) .. debit[k]
    /\ \A u \in Customer : wallet[u] = Wallet0[u] + Credited(u) - Spent(u)

\* Whatever a supplier was paid for is in the shop's rows, once, sold or kept for
\* sale, unless its answer was lost or the transaction was undone; and an account
\* is in stock twice only after it was deleted, or consumed and imported again on
\* purpose.
EachAccountOnce ==
    /\ \A o \in DOMAIN placed :
          placed[o].adrift \/ o \in OrdersInHand \/ \A a \in Accounts(o) : Recorded(a) # {}
    /\ \A i, j \in Rows :
          i < j /\ inv[i].acct = inv[j].acct =>
              \/ inv[i].status = "deleted"
              \/ inv[j].again /\ inv[i].status \in {"sold", "withdrawn"}

\* Reference for plan_supplier_routes: every way to take n accounts from the routes
Allocations(routes, n) ==
    {f \in [DOMAIN routes -> 0 .. n] :
        /\ \A r \in DOMAIN routes : f[r] <= routes[r].stock
        /\ SumOver(DOMAIN routes, f) = n}
CostOf(routes, f) == SumOver(DOMAIN f, [r \in DOMAIN f |-> f[r] * routes[r].cost])

\* The greedy plan covers the quantity exactly when the suppliers can, and no
\* other split over the routes costs less.
PlanIsCheapest ==
    \A up \in SUBSET Provider, n \in {Body[k].quantity : k \in Key} :
        LET routes == RoutesOf(up)
            plan == PlanRoutes(routes, n)
            ways == Allocations(routes, n)
        IN IF DOMAIN plan = {} THEN ways = {}
           ELSE SumOver(DOMAIN plan, [r \in DOMAIN plan |-> plan[r].cost * plan[r].quantity])
                = Min({CostOf(routes, f) : f \in ways})
=============================================================================
