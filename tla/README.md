# A TLA+ model of the account shop

This directory is a verification development for the Telegram shop in `src/`
(a bot, a customer API, an admin dashboard and background workers around one
PostgreSQL database).  It models the parts in which money, stock and promises
to customers can go wrong under concurrency, failure and delay, checks them with
TLC on small instances and proves the central facts for all instances with
TLAPS.

## 1. The system

One process runs an aiogram bot, a FastAPI application (webhooks, shop API,
warehouse API, dashboard) and a dozen worker loops on one asyncio event loop;
they share state only through the database, apart from a few in-process locks.
A transaction is atomic and takes row locks with `SELECT ... FOR UPDATE`.  What
a transaction *reads* is another matter: sessions are opened with
`expire_on_commit=False` (`database.py:52`), and a row that is already in a
session is not read again by a later locked select unless the statement says
`populate_existing`.  Much of what is hard in this code comes from there, from
calls to suppliers and Telegram between two transactions, and from workers that
come back to a row later.

| Part | State | Operations | What makes it correct |
|---|---|---|---|
| Wallet ledger (`wallet_ledger.py`) | `users.balance`, `wallet_transactions` with a unique `event_key` | `apply_wallet_change` | balance = sum of the ledger; an event is posted once |
| Preorders (`preorders.py`) | `preorders` rows: pending, processing, completed, cancelled; flags for charge, refund, notification | book (bot, QR), cancel (customer, admin, worker), claim, fulfil, retry, recover, notify | paid once; ends as goods or refund; queue order; everyone is told |
| Payment requests (`services.py`, `payment_expiry.py`) | `deposits`, `payment_transactions` | create, expire, webhook, approve, cancel | one credit per request; one outcome per payment |
| Flash sales (`flash_sales.py`) | campaign status, total, sold, reserved | start, cancel, reserve, sell, complete, release, stop | quota; one sale at a time; reserved places come back |
| Haji pending (`haji_pending.py`) | `supplier_purchase_attempts` left processing | settle as goods or as refund | one of the two, once |
| Binance (`binance_pay.py`, `handlers.py`) | submitted transaction ids | submit, look up, rename, process | an id is used once |
| Purchases (`services.py`) | stock rows, orders, attempts, coupons | buy from stock, from one supplier, from several; from the wallet or paid by QR | goods and money move together; the price agreed is the price taken; what a supplier sold is never lost |
| Referral (`partner_services.py`) | commissions | award | once per order |
| Supplier price changes (`price_alerts.py`) | price, lock, alerts | apply, lock, release | no sale at a loss; one alert that tells the price of today |
| SMS rentals (`sms_rentals.py`) | rentals: requesting, pending, unknown, success, refunded | rent, poll, refund, review | charged once, refunded at most once, never both code and refund |
| Shop API (`public_api.py`) | `api_order_requests` by idempotency key | order, replay | one purchase per key |
| Warehouse API (`warehouse_api.py`, `inventory_import.py`, `inventory_dedup.py`) | import requests, fingerprints | import | a stock line enters once |
| Supplier recovery (`supplier_recovery.py`) | `supplier_recovery_requests` | queue, match, link, adopt orphaned orders | a paid order whose answer was lost enters the shop once |
| Supplier audit (`supplier_audit.py`) | `supplier_balance_states`, `supplier_balance_transactions` | reconcile, match refunds, alert | missing money is explained or reported, never falsely |
| Supplier clients (`suppliers.py`, `lehai_suppliers.py`, `canboso_suppliers.py`, `haji_suppliers.py`) | in memory: rests, breakers, blocks; in the database: balances seen, armed top-ups | fetch, buy, refresh a product | who failed is left alone for its time, and asked again after it |
| Broadcasts (`broadcasts.py`, `admin.py`) | `broadcast_logs`, `broadcast_deliveries` | draft, confirm, claim, send, save, recover | every recipient once; a broadcast ends |
| Alerts (`broadcasts.py`, `stock_alerts.py`, `price_alerts.py`) | price, stock and flash-sale alerts and their deliveries | queue, follow, supersede, claim, send | one alert in line, up to date; closed only when all have their end |
| Rate limits (`rate_limit.py`) | counters in Redis | hit | bounded requests per window |
| Routing and prices (`suppliers.py`, `services.py`) | none | sort routes, split a quantity, price it | quantity covered, never below cost |
| Handlers, dashboard, texts, start-up, deployment | none of their own | | |

How they interact: a purchase, a preorder, a payment request and an SMS rental
all lock the customer's row and post to the ledger; a purchase and a payment
request move the counters of a campaign; a payment request becomes a purchase, a
preorder or a wallet credit; a purchase whose supplier is slow is settled later
by the Haji worker or the recovery worker; a purchase pays a commission to a
third customer; imports and price changes start alerts, alerts become deliveries;
purchases, recovery and audit share a supplier's prepaid account, and exclude each
other by an asyncio lock per client (`supplier_balance_guard`); the refresh of a
product turns what suppliers say into prices, stock and alerts.

Hard behaviours, with their lines, are listed under `hazards` in `PROJECT.json`:
outdated copies of rows, approvals in two transactions, crashes between a
supplier's answer and its commit, replays under the same key, notifications
claimed and never sent, orders that outlast a time-out.

## 2. The modules

| Module | Role |
|---|---|
| `Preorders` | preorders, wallet, purchases made for them, commissions |
| `Escrow` | what a preorder promises, as a specification of its own |
| `MCPreorders` | TLC instances of `Preorders` |
| `PreordersProofs` | types, the inductive invariant, seven properties, and that `Preorders` implements `Escrow`, proved |
| `Deposits` | payment requests, flash-sale places, Binance ids, pending supplier orders |
| `MCDeposits` | TLC instances of `Deposits` |
| `DepositsProofs` | types, the inductive invariant and seven properties, proved |
| `SmsRentals` | phone numbers rented for one code: charge, request, poll, refund, review, maintenance |
| `MCSmsRentals` | TLC instances of `SmsRentals` |
| `SmsRentalsProofs` | types, the inductive invariant and seven properties, proved |
| `Shop` | purchases from the bot, the Shop API and by QR; idempotency keys, prices, routes, the shop's rows |
| `MCShop` | TLC scenes of `Shop` |
| `ShopProofs` | types, the inductive invariant and its five properties, proved |
| `SupplierAccount` | the prepaid account at Sumi or Le Hai: purchases, lost answers, recovery, audit |
| `MCSupplierAccount` | TLC instances of `SupplierAccount` |
| `SupplierAccountProofs` | types, the inductive invariant and three properties, proved |
| `Notices` | broadcasts, and the alerts of one product: what puts them in line, both workers |
| `MCNotices` | TLC scenes of `Notices` |
| `NoticesProofs` | types, the inductive invariant and three properties, proved |
| `SupplierSync` | extends `Notices`: Le Hai, Canboso and Haji as suppliers of that product, the refresh, top-ups and refunds |
| `MCSupplierSync` | TLC scenes of `SupplierSync` |
| `SupplierSyncProofs` | types, the inductive invariant and three action properties, proved |
| `Counting` | sums over sets as numbers of pairs, and lemmas about them, for the proofs |

Definitions called "Faulty variant" are plausible bugs of the definition that
follows them.  They take no part in the specifications: replacing the definition
by its variant breaks the property named beside it in `PROJECT.json`, which shows
that the property depends on that code.

### Preorders

A variable is a column or a table of the code: `status`, `terms` (customer,
product, quantity, price), `charged` (`funds_charged`), `balance`, `posted` and
`events` (the ledger and its unique keys), `stock` (local accounts), `supply` (the
supplier's cached stock), `shelf` and `price` (the product page).  `session` is the
copy of the customer that a bot handler loaded before its lock; `worker` is where
the worker's loop is between the transactions of one preorder.  An action is one committed transaction; the
worker's chain claim - check - buy - conclude is several, so that the customer,
the admin, the sale of the same stock and a crash come between.  The supplier is
an environment that delivers, refuses or fails; under an idempotency key it
answers a repeated order with the same delivery.

History variables (`overtaken`, `inflow`, `told`) only record what happened, for
the properties to speak of.

`Escrow` has one step per promise - hold, release for goods, give back - and
`ImplementsEscrow` is its specification under the refinement mapping at the end
of `Preorders`: crashes, retries, notifications and stale recovery are stutters.

### Deposits

The ladder of `_process_sepay_payment` is kept branch by branch (`RejectPaid`,
`RejectLate`, `RejectClosed`, `RejectAmount`, `RejectBlocked`, then `Settled`);
`exact` stands for a transfer of the requested amount and `manual` for the second
transaction of an approval.  A paid request becomes goods, an open supplier
order, wallet credit or a preorder; the many reasons for which a purchase is not
delivered (stock, repricing, a coupon used up) lead to the same two outcomes and
are one choice; `Shop` models how that choice is made.  `view` is a checkout's copy of a campaign: `CreateFlashDeposit`
locks the row and still computes from that copy, as `create_deposit` does, and
writes the columns that differ from it.  `overtaken` records the campaigns that
were written from a copy that was out of date, `late` the sale orders of requests
whose place had been given up before; properties that cannot hold in these two
cases exclude them by name; section 5 says what happens then.

One product is on sale; customers matter only through the limit on pending
requests.  Amounts are exact or not; the money of a request is one unit.

### SmsRentals

`status`, `sale`, `numbered`, `http500`, `completed`, `alerted` are columns of
`sms_rentals` (status, sale amount, whether a number is stored, whether the last
error is the one that RentSim's HTTP 500 leaves, whether the code is stored,
whether an admin was told).  `age` keeps of the clock what the code compares it
with: younger than the cooldown, older, older than the recovery and alert
times.  `net` and `events` are the ledger of a rental; `balance` the wallet.

`rent_sms_number` holds the maintenance lock of the process from the charge to
the conclusion, so one request is out at a time: `call` is that request, and each
stretch of the function between two awaits that matter is an action - `StartRental`
(snapshot, guards, charge), `ProviderRents` or `ProviderFails` (the answer),
`Retry`, `CheckBalance`, `CancelDearer`, then one of `ConcludeError`,
`ConcludeDearer`, `ConcludeRented`.  `poll` is, for each provider's worker, the
answer it has fetched and not yet written.  The worker, the operator, time and a
crash come between any two of them.

The providers are the environment: `order`, `made`, `paid` and `funds` are their
books.  An order may be made and its answer lost; AutoSMS may charge another price
than its list; an order gets a code or ends; a crash may strike after
the provider has received the request, which then still makes its order.  One thing is assumed of RentSim because the code says it
of RentSim: a request answered with HTTP 500 has made no order.  RentSim answers
the request itself with a code sometimes, AutoSMS never does.  `Legacy` names the
rentals that an earlier release left unknown after an HTTP 500, which
`ReconcileHttp500` exists for.

`RefundVerified` is `refund_sms_rental`, with the precondition its comment states
("after its own status is verified"): the operator has seen at the provider that
the order is over or does not exist, and the rental is not being requested.
Other business of a wallet (purchases, top-ups) is left out: the operations here
read the row under its lock in a session of their own.

### Shop

`product`, `inv`, `wallet`, `request`, `loaded` are the product's row, the table of its
inventory rows by id, the customers' balances, the rows of idempotency
keys and of payment requests, and of import requests; `debit` is what the ledger
took under a key, `shown` the total on a seller's button.  `catalog` and `placed`
are the suppliers' books: prices, stock and the orders they took.  `run` is what a
handler is doing: `claimed` (a key or a payment is taken), `buying` (the purchase
transaction is open and waits for a supplier), `answer` (its outcome is not yet
written to the row of the key).

`_purchase_product` holds the buyer's and the product's lock from its start, so
everything before the first supplier is one action (`Purchase`: the oldest free
rows, the routes of the suppliers that answer, prices, refusals), and then each
supplier's answer is one (`Deliver`, `Refuse`, `Unavailable`, `AnswerLost`); the
last ends in `Complete`, in `KeepParts` (the sale is refused after the supplier was
paid: what was bought becomes stock) or in `Fail`.  `Fulfil` is the same for a
payment by QR: the amount paid is compared with the prices, coupons and locks of
the moment the payment arrives.  `Raise` and `Crash` undo the transaction, also
after suppliers were paid: `adrift` orders are those that no row of the shop
knows.  `CreateOrder` is the ladder of `POST /orders`; `raced` names the keys that
were claimed while an earlier run of theirs was alive.

New rows are said by what they hold and in which order they come (`Filed`): the goods
of a purchase are pairs of a supplier and a position in its order (`Goods`, `Place`),
the lines of an import its accounts.  A plan, its prices and the orders that are paid
are functions on the suppliers of the plan; `Due` is the one that is asked next.

The prices (`Pricing`, `Quote`, `UnitPrice`, `RegularPrice`, `SellerUnitPrice`) and
the plan over the routes (`PlanRoutes`, what the cheaper routes leave for each) are
operators; `PlanIsCheapest` checks the
plan against all ways to split a quantity.  `ImportBatch` is the warehouse's
idempotent import with the filter of duplicates, `ImportAgain` the administrator's
second import of an account, `Withdraw` and `Delete` take rows out of sale.

`terms` is what the administrator grants: each seller's price (the profit, and
whether it is on), the coupon and the quantity discount (`on`, `off`, `gone`).
`SaveSellerPrice`, `ToggleSellerPrice` and `DeleteSellerPrice` keep a price that an
order or a payment request names (`Referenced`; `rule` in a row says that it was sold
at one) and only switch it off; `CreateTier`, `ToggleTier`, `DeleteTier`,
`ToggleDiscount` are single commits without a lock, and `delete_discount` is two
steps, `CountDiscount` and `DeleteDiscount`, with whatever happens in between.
`RuleHeld` and `CouponHeld` are the rows that an open purchase has locked: the
administrator's write waits for it.  `DeleteProduct` archives a product with a history
and deletes one without.  Percentages, the dates and the total number of uses of a
code, and new codes are left out.

### SupplierAccount

One supplier's account, seen from both sides.  `status`, `asker`, `billed`, `scant`,
`funds` are the supplier's: an order is asked for, refused or billed, perhaps long
after the shop stopped waiting, and listed later still.  `ledger`, `state`, `period`
are the audit's tables, `recovery` the requests, `rows` what the shop holds of an
order.  `buy` and `pass` hold the guard: a purchase (`Ask`, then an answer, a doubt,
a second look, an end) or a pass of the recovery worker, one action per
transaction (`MatchNext`, `LinkRecovered`, `QueueOrphans`, `EndOrphans`), which may
be cut short after any of them.  Timestamps are kept as what the code compares them
for, as the head of the module says.  At Sumi there are no keys and the shop looks
for orders it does not know; at Le Hai a repeated key answers with the same order,
and undelivered orders are paid back.

### Notices

A row of `notices` is a broadcast, a price alert, a stock alert or a campaign's
announcement; `mail` are its delivery rows, `told` the messages a user really got.
What puts an alert in line is written as operators on a product and its rows
(`ApplySupplierPrice`, `ApplySupplierStock`, `QueueInventory`, `QueueAdminDrop`,
`Release`, `StopUnsafe`), because a refresh or an import applies several of them in
one transaction.  `desk` is each worker's place in its loop.  The worker of the
broadcasts claims under a row lock (`ClaimBroadcast`); the one of the alerts reads
and judges without a lock (`LookAtAlerts`) and writes later what it decided
(`WriteClaim`), so that edits, refreshes and the other supersessions come between.
A batch is claimed, sent, answered and saved user by user; Telegram refuses, loses
an answer, or says that the user is gone; a worker stumbles (`Stumble`), the
process ends (`Crash`), and `Recover` puts what was cut off back in line.
`RecoverFails` is the failure of that recovery, which the code only logs.

### SupplierSync

`Notices` with the suppliers behind one of its products.  `RefreshProduct` gives way
to `SyncProduct`, `BuyNothing`, `BuyFrom`, `BuyFromBlocked`, `BuyBlocked` and
`SwitchSupplier`, which all run `refresh_lehai_product` (`Refresh`, over `RefreshLeHai`
and `RefreshRoutes`).  `BuyFromBlocked` is the purchase whose cheapest route is a Le Hai
that is blocked: the client refuses, and the refusal is written into the row of the
purchase's key.  When the key is that of the purchase that failed - a preorder's or a
partner's, which come back - the row no longer tells of the failure.  A switch (Haji has
none) also tells customers of a price that fell by it (`QueueAdminDrop`).
`rests` and `blocked` are what the clients keep in memory and lose in a `Restart`;
`failed` is a row in the database that tells of Le Hai's failure, from which its breaker
is restored; `breaker` is a history variable: whether the row tells of it ("open"), the
memory alone ("bare"), or nothing any more ("lost"), until the ten minutes are over;
`seen` is what the last refresh stored of balances and armed top-ups, `books`,
`debits` and `refunds` what the audit has found; a settled debit stays in its place as
0, which no refund's amount is and which a search passes over.  `moved` is a history variable: what
happened to Le Hai's money since a refresh last looked.  `SellerAssumption` says what a
scene starts from: Le Hai has a client, nothing is owed yet, and the refresh of
`Notices` takes no part.  The windows of 48 hours in which a debit may be settled are
longer than a scene.

## 3. The runs

| Run | Instance | Shows |
|---|---|---|
| `preorders_local` | 2 customers (one earns commissions), 2 preorders, local stock, one open chat | `WalletFollowsLedger`, `BooksBalance`, `FifoDelivery`, `ImplementsEscrow` |
| `preorders_api` | 1 customer, a supplier product with two prices, a legacy unpaid row, a QR payment, blocking | `PaidForOnce`, `CancelledIsRefunded` |
| `preorders_live` | a legacy preorder and one paid by QR, with failures at every step, under `FairSpec` | `ProcessingEnds`, `CustomerTold` |
| `preorders_stale` | one chat and one concurrent change | the violation of `WalletIsLedger` |
| `deposits_pay` | a Binance top-up, a supplier purchase and a preorder of one customer, 2 transaction ids | `OneCredit`, `SettledOnce`, `SettledForGood` |
| `deposits_sale` | 2 purchases (deferred and by-hand supplier), 2 successive campaigns of one place, one checkout | `PlaceGivenUp`, `OneOpenSale` |
| `deposits_quota` | the same on one campaign of two places, under `FairSpec` | `WithinQuota`, `PlacesBalance`, `PlaceReturns` |
| `sms_rentals` | one customer, a rental of RentSim (new, or left by an earlier release) and one of AutoSMS, two prices, one retry, under `FairSpec` | `NetIsSale`, `OneUnsettled`, `OneOrder`, `RefundedIsOver`, `MaintenanceIsQuiet`, `RequestIsFollowed`, `PendingSettles` |
| `supplier_account` | 2 orders; a preorder at Sumi, a warranty withdrawal with a top-up, a preorder or an API key at Le Hai, under `FairSpec` | `OneFate`, `RecoveredBalances`, `NoFalseAlert`, `SuspicionEnds` |
| `shop_orders` | scenes of dealing (pairs of API keys, bot buttons and QR purchases of two customers, one of them a seller, with up to two changes from outside and one crash) and of granting (one key, or both QR purchases, while the administrator changes the terms once or twice) | `OrderedOnce`, `ChargedAsAgreed`, `EachAccountOnce`, `PaidByQr`, `PlanIsCheapest` |
| `notices` | five scenes: a broadcast to 2 users with failures; stock, prices, a campaign, imports of one product with one user, under `FairSpec` | `ToldOnce`, `SentIsDone`, `OnePending`, `NewsEnds` |
| `supplier_sync` | five scenes: Le Hai's lost orders and refunds; its failure, a purchase that comes back and a restart; money and accounts that come one after the other; suppliers switched off and on; a price that falls by a switch, under `FairSyncSpec` | `RefundIsQuiet`, `TopUpStays`, `BreakerHolds`, `StockIsShown` |

The type invariants take part in no run: each is proved (section 4).

Why the bounds are enough.  Every conflict in this code is between at most two
rows of a kind and one row they share: two preorders in a queue, two requests for
a place, two campaigns of a product, two transaction ids for a request, a buyer
and the referrer.  Prices and balances take the one or two values that separate
"enough" from "not enough"; `MaxBalance` and `MaxStock` bound what comes in from
outside.  Failures, retries and price changes are not bounded; ids are never reused, so a run of `Deposits`
stops when its ids are used up, which is why its configurations switch off the
deadlock check (the program itself always has another id).  Transaction ids are
interchangeable: `deposits_pay` uses that symmetry, and no liveness property is
checked there; so does `shop_orders` for its handlers.

The newer modules are bounded by scenes: a scene is an initial state together with
how often each thing from outside may happen (`left`).  All combinations at once
would be too many, and what does not touch the same row cannot interfere: a scene
of `Shop` pairs the keys that share a customer, a coupon, a row or a supplier's
account; a scene of `Notices` has one source of alerts and everything that
supersedes it; a scene of `SupplierSync` one mechanism and the failures it exists
for.  Two handlers are enough for a key claimed again while its run is alive, two
accounts for a plan over both suppliers, two orders for one that is taken for
another, a `Window` of one instant for "before, within, after".  What the scenes do
not bound are the workers' steps, lost answers of a purchase and the supplier's
delays.  A scene ends when nothing more may happen, hence no deadlock check.
`uq_inventory_supplier_source` is never hit in `shop_orders`: it takes a supplier's
account that the shop already holds, which a supplier's stock of two does not give.

Fairness.  `Preorders!FairSpec` asks three things: a step the worker's loop is at
is taken unless the iteration fails (weak); recovery, which runs at the top of an
iteration once a minute, and the claim of notifications, which every iteration
makes, are not put off for ever by other work (strong); Telegram does not refuse a
message for ever (strong).  Failures may strike any number of times, and nothing
is asked of customers, admins or suppliers.
`Deposits!FairSpec` lets time pass, the expiry worker run (it loops every few
seconds and skips only locked rows) and Haji give a final answer to each open
order; a request that is reopened again and again does not matter, because the
place is given up the first time.
`SmsRentals!FairSpec`: time passes; the worker, which loops every few seconds,
marks old requests and alerts admins (weak: the loop restarts by itself, and
nothing but these steps disables them for good); it fetches a code for a pending
rental, and writes what it fetched, again and again until it succeeds (strong:
errors and crashes may strike any number of times, but not every time); an answer
that changes nothing is passed over (weak).  Nothing is asked of providers,
customers or the operator, so a number whose code never comes may wait until the
admin is told.
`SupplierAccount!FairSpec`: a purchase and a recovery pass end (each request of the
clients has a time-out; weak); time passes between them, and the audit worker,
which waits for the same lock and is served in its turn, has a round in which
neither the supplier nor Telegram fails it, again and again (strong, since
purchases and passes take the lock in between).  Nothing is asked of the recovery
worker: a request that is never answered must not hold an alert back.
`Notices!FairSpec`: each worker's loop goes on (weak), and time passes.  Failures are
counted by the scene.  `SupplierSync!FairSyncSpec`: the product worker, which asks
about once a minute, is answered in the end, and the rests, the block and the breaker
have their end (weak, none of them is disabled for good by anything but itself).

## 4. The proofs

`PreordersProofs` proves `TypeCorrect` (`TypeOK` is inductive together with the
types of the rows), and `RowsSound`: the conjunction `Typed /\ Sound` is
inductive.  The properties themselves are not: that a preorder with goods is
processing or completed, say, survives stale recovery only because recovery
looks for the orders first, and survives the worker's retry only because a worker
that will retry holds a row without orders.  `Sound` states these links - between a
row's status, its charge, its ledger events, its orders (`RowSound`) and the step
at which the worker holds it (`WorkerSound`).  From it follow
`PaidForOnce`, `CancelledIsRefunded`, `DeliveredIsClosed`, `OneVerdict`,
`WalletFollowsLedger` and the action property `FifoDelivery`, each for any sets of
customers, products, preorders, prices and bounds that satisfy the assumptions in
`Preorders` (sets of naturals for amounts, distinct markers for "none").

`PreordersImplementEscrow`, at the end of the module, proves that `Preorders`
implements `Escrow`, one step per action, from the same invariant.

`SmsRentalsProofs` proves `TypeOK` and `Sound` inductive for any sets of
customers and rentals, any prices, any number of retries.  None of the properties
is inductive alone.  That a rental makes one order survives a retry only because
the request that is retried was answered with HTTP 500 and has made none
(`CallSound`); that a refunded rental holds no order survives the worker's refund
only because the answer it fetched is still true when it is written (`PollSound`);
that a settled rental stays settled survives the late answer of line 578 only
because nothing but a crash, which also drops the request, lets anyone settle a
rental whose request is out; and that a customer has one unsettled rental, when
`StartRental` looks at the newest one alone, needs that older ones are settled
already (`InOrder`).  `RowSound` links the ledger of a rental to its status.  From
these follow `NetIsSale`, `OneUnsettled`, `OneOrder`, `RefundedIsOver`,
`MaintenanceIsQuiet` and the action property `OutcomeStands`.  The assumptions are
those of the module: amounts are naturals, prices positive, ids naturals, and at
most one legacy rental per customer, its oldest, is unknown at first.

`Counting` is what the proofs about sums rest on.  A sum over a set is written as the
number of the pairs of a member and one of its units (`SumOver`), which is what the
model's folds would add up to, without recursion; its lemmas say what one member
more, one less or one changed does to that number, and that the pairs are finite.
Induction over sets is out of the prover's reach, so finiteness is proved from the
smallest counterexample.  `BooksBalance` is proved with it over one more conjunct of
the invariant of `Preorders` (`Books`): only the preorder that a step is about changes
what it costs its customer or earns its referrer.

`DepositsProofs` has three layers.  `PaymentsSound`: a transaction id is in one row,
an approval's row is its own request's, and one row at most credits a request, since a
row that does leaves the request paid and a paid request is never unpaid
(`PaidStays`).  `RequestSound` and `PlaceSound` say for each request what it may
have brought (goods, credit, a preorder, an open order of a supplier) and whether it
may hold a place; with them `SettledOnce`, `PlaceGivenUp` and the action property
`SettledForGood` follow.  `Counted` is the account of a campaign that no outdated copy
overwrote: the reserved places are those its requests hold, the sold ones the orders
at its price less those made late, and together they are within the total.  It is
inductive only with the layer above it, because a place may be counted off once only
if the request that held it says so.  From it follow `WithinQuota`, `PlacesBalance` and
`OneOpenSale`.

`SupplierAccountProofs`: `OneFate` needs to be known of every order at once that no
two rows claim it (`FateSound`), that what the shop knows has been billed and that a
key is over once its order is known (`KnownSound`), and that an open purchase holds an
order that nobody knows yet (`BuySound`); the last survives the recovery worker only
because a pass excludes a purchase (`PassSound`).  `RecoveredBalances` is inductive
with the range of the links (`LinkSound`).  `NoFalseAlert` is about two rounds of the
audit: between them the balance falls by no more than the orders cost that were
billed since and not yet entered (`MoneySound`), so what a round finds missing is
covered by the orders that no purchase accounts for.

`NoticesProofs` splits the steps in two.  Whatever happens outside the workers -
edits, imports, refreshes, sales, campaigns - is composed from operators on rows, and
each is shown to make only what `Follows` allows: old rows keep their kind and are at
most superseded, new ones have not begun, and nothing is put in line beside another
of its kind.  `Follows` composes, so a transaction of any number of them is covered.
A worker's step is about one desk: `MovesTo` says what it may make of a row, `StepOf`
that it leaves the other worker's rows, deliveries and desk alone.  What the
properties need of a desk is that its job is of its own kind and that a manual alert
read as pending is pending still when the claim is written, though other alerts may
have been superseded meanwhile (`DeskFits`), and that a result not yet saved belongs to
a delivery that says "sending" (`BatchFits`).  `ToldOnce`, `SentIsDone` and
`OnePending` follow; the last is carried as "no two of a kind" (`OneInLine`), which
needs no cardinality.

`SupplierSyncProofs` builds on it.  A refresh is composed from the same operators, so
`Leaves` says once what it may leave behind, whichever suppliers answered: rows that
`Follow` the old ones, a stock within bounds, what was seen of each supplier
(`SeenAfter`), no new stock alert unless a top-up was concluded, and an alert in line
when one was announced.  `Asks` is that for a whole transaction, with what it may do to
the suppliers' money; the product worker, a purchase with its five ends and a switch
of a supplier are all shown to be such steps, so the properties look at one kind of
step instead of six.  `RefundIsQuiet` needs to know of Le Hai's balance, when it has
grown since it was seen and only by a repayment, that this is one account which is
still an open debit, or which the audit has recorded between exactly these two
balances (`MoneyTold`): the audit may run before the refresh, after it or not at all.
That order is also what `TopUpStays` is about, where the audit hides a top-up from the
balances it compares and must leave word of it (`AuditArms`).  `BreakerHolds` needs
that while the failure is told, its row or the process's memory tells of it
(`BreakerSound`), so that Le Hai is blocked whenever a purchase could ask it: a refused
purchase puts the block into memory before it writes over the row.

`ShopProofs` has one invariant below the others.  `Core` is inductive as a whole:
`Typed`; `Deals`, what holds while a handler waits for a supplier - one handler at a
time buys, the rows it will sell are free, its plan covers the rest of the quantity,
each part paid for has its order, and its prices are those that were agreed and that
can be paid (`Deal`); and `Keys`, which ties a key's sold rows to the handlers that
serve it (`Alone`) and to its row (`Ordered` for a partner's key, `Promise` for a
payment).  None of the three is inductive by itself.  A wallet stays at zero or more
only because a purchase in hand can be paid, and a purchase in hand stays payable only
because nobody else takes from the wallet meanwhile; `OrderedOnce` says nothing of the
handlers, and survives a repeated key only because a live run leaves the row in
"processing", and only a stale row is claimed again - by a second handler, which is
what `raced` records, or after the first has gone.
The many steps are sorted first: `Begins` and `GoesOn` are what `Purchase`, `Fulfil`,
`Deliver`, `Refuse`, `Unavailable` and `AnswerLost` come down to, `KeyStep`,
`TableStep` and `OtherStep` the rest, so that each layer looks at few kinds of steps.
`CanSell` is what a purchase must be to end in `Complete`, whether it comes from the
shelf or from two suppliers, from the wallet or by QR.

Two layers stand on `Core`.  `Stocked` is about rows and orders: a row of a supplier's
account belongs to an order (`Sourced`), an order that awaits its recovery is in no row
yet (`Awaited`) - without which the recovery worker could store it twice - and with
`Covered` and `Single` it is `EachAccountOnce`.  `Money` is about sums: what is taken
under a key against what was agreed and what the rows are booked at (`Charged`), and
each wallet as what it was, what was credited and what was spent (`Balanced`); a sale
changes one summand of each.  `ChargedAsAgreed` and `PaidByQr` follow; the last part of
`PaidByQr`, the remainder of a division, needs only that equal parts are each the
quotient.  `CheapestPlan` is about the plan itself: with two routes, what the greedy
plan gives is a way to take the quantity when there is one (`PlanIsGreedy`), and moving
accounts from the cheaper route to the dearer never pays (`CheaperFirst`,
`GreedyCheapest`).

Each module's proofs hold for any values of its constants under the assumptions it
names: sets of naturals for amounts, distinct markers for "none", ids that are not
confused with markers (`KindAssumption` to `PendingAssumption` in `Deposits`,
`SceneAssumption` in `Notices`, `QuoteAssumption` and `SellerAssumption` in
`SupplierSync`).  TLC evaluates them in every run.  They are proved for
every instance, so `OneVerdict`, `DeliveredIsClosed` and `OutcomeStands` take part in
no run.

Every invariant and every action property of a passing run is proved, and so is the
refinement `ImplementsEscrow`.  Only model-checked: liveness, which is outside this
prover's reach - `ProcessingEnds`, `CustomerTold`, `PlaceReturns`, `RequestIsFollowed`,
`PendingSettles`, `SuspicionEnds`, `NewsEnds`, `StockIsShown`.  `WalletIsLedger` is the
property that `preorders_stale` finds violated.

## 5. Where the code and its words part

One disagreement is kept as a run, `preorders_stale`: a booking in the bot computes
the balance from a user it loaded before the lock, and a change made in between is
lost, although `wallet_ledger.py:18` says "atomically".

The others were met while the modules were written.  The models contain the
behaviour, and the properties except it by name where they would fail.

Payments and rentals
- `services.py:3064`: a checkout reserves places from the copy of a campaign that it
  loaded before the lock, so two customers take the last place
  (`Deposits!CreateFlashDeposit`, excepted by `overtaken`).
- `haji_pending.py:127`: a purchase whose order outlasts the time-out is credited to
  the wallet; when the order fails later, the worker pays the amount again, and when
  it completes the customer has both (`Deposits!LeftOpen`).
- `sms_rentals.py:578`: a provider that answers the request with the code itself has
  the status set to success before `_complete_sms_success`, which then returns: the
  code is never stored.

Shop
- `public_api.py:847`: "Let the partner safely retry" - a key is taken again after
  the recovery window whether or not its first run is still at work; both may buy
  (`Shop!raced`).
- `services.py:3949` and `:4105`: when the shop's own rows cover a seller's QR order
  but not at the promised price, the supplier path is entered with nothing to buy.
- A seller's QR order whose price gives way to the public price is compared with a
  total that has the quantity discount in it, and is never delivered as paid.
- `dashboard.py:2921`: an "unused" code (line 2946) is counted and deleted in two steps without a
  lock.  A payment request made in between loses its code: it is served from the
  shop's own rows at the amount paid, otherwise the amount is credited
  (`Shop!CountDiscount`).
- `services.py:2643`: a seller who has seen no total (the price was granted between the
  press and the purchase) pays the total quoted first even when the supplier turns out
  cheaper; the orders carry the lower prices (excepted in `ChargedAsAgreed`).
- `services.py:4577`: the amount paid is divided by the number of accounts; the
  remainder is in no order (bounded in `PaidByQr`).

The supplier's account
- An order billed late may be taken by another purchase of the same goods, after the
  audit has flagged its money: an alert first, a credit without a cause afterwards.
- A top-up in the same period hides a lost order from the audit; only the
  recovery request finds it.
- An error in the fetch of one order ends the whole recovery pass, for every request
  after it.
- A second failure under a key whose request is closed is not queued
  (`supplier_recovery.py:74`); the audit reports its money instead.

Broadcasts and alerts
- `broadcasts.py:698`: "the worker will retry" - when the recovery after a failure
  fails too, the rows stay in sending until the next start (`Notices!Outage`).
- `broadcasts.py:950`: the claim reads the first 50 candidates; 50 that wait keep the
  others out.
- `admin.py:627`: a second confirmation that has read the draft before the first
  forgets it queues the broadcast twice.
- `broadcasts.py:565`: a result "gone" saved after the user has pressed /start again
  marks the user as unreachable.

Suppliers of a product
- A refund is taken for a top-up when a purchase was made in the same period, or when
  two refunds come between two reads: customers are told of stock that is not new
  (`RefundIsQuiet` speaks of the undisturbed case).
- A balance above the last audited one arms a top-up again after it was announced.
- Canboso's announced top-up is superseded when one of Le Hai is routed to GPT Plus
  in the same refresh (`lehai_suppliers.py:1046`); an armed top-up is lost on the
  first refresh after a switch.
- `lehai_suppliers.py:871`: with several suppliers, one that fails for a moment loses
  its stock from the shop, where the comment at 1101 keeps it; the comment at 970 and
  the branches at 1001 disagree about which supplier sets the price.
- While Le Hai's breaker is open and Le Hai is the cheapest route, purchases are
  refused although Canboso has stock.  Such a refusal is written into the row of the
  purchase's key (`services.py:217` and `:233`); when that is the row of the failure
  itself, as with a preorder or a partner's key that comes back, its `SUPPLIER_HTTP_5xx`
  is gone, `lehai_suppliers.py:452` finds nothing after a restart, and Le Hai is asked
  again within the ten minutes, although the docstring at 444 says "Restore a
  still-active breaker after an application restart" (`SupplierSync!BuyFromBlocked`;
  `BreakerHolds` excepts it as "lost").

## 6. Not modelled

- Dollar wallets, prices and Binance amounts in dollars: the same code paths with
  other columns.
- In `Shop`: flash sales and commissions (in `Deposits` and `Preorders`), the rest of a
  supplier after a failure (in `SupplierSync`), authentication and rate limits, the
  hand-run supplier and warranty withdrawals (in `Deposits` and `SupplierAccount`), a
  second checkout within 30 seconds that reuses its QR.
- In `SupplierAccount`: the script that recovers one order by its code
  (`deploy/recover_sumi_orders.py`) and the backfill of refunds from history.
- In `SupplierSync`: snapshots reused for a minute, the shop page's own refresh, a form
  that switches several suppliers or edits other fields of the product at once.
- In `SupplierAccount`: an order refused with an error outside the recoverable ones
  (`AnswerRefused`) is taken to have sold nothing, as the supplier's answer says.
- Rate limits: fixed windows in Redis; a request is counted against the first rules
  even when a later one refuses it, and twice the limit passes at a window's edge, as
  fixed windows do.
- Crashes between a submitted Binance id and its look-up leave the id used for good
  (`handlers.py:3557`); `AbandonLookup` models it, nothing is promised about it.
- HTTP clients, signatures, parsing, message texts, pages, reports, login, schema
  creation, configuration, deployment scripts and the customer's import tool: straight-line
  input and output.  A deadlock of two transactions is broken by PostgreSQL, which
  aborts one: that is `Raise` or a crash here.

## 7. Plan

What the models could still take in, in the order of what it would show: dollar
wallets and prices beside those in dong, in `Shop` and `Deposits`; flash-sale prices
within the purchase transaction of `Shop`, now in `Deposits` alone; a total number of
uses of a code; a third route (Canboso) in the plan over the suppliers, for which
`GreedyCheapest` would need an exchange argument over any number of routes.
