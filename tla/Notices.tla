------------------------------ MODULE Notices -------------------------------
(***************************************************************************)
(* What the shop tells its customers: the broadcasts of the administrator  *)
(* and the alerts about prices, stock and flash sales of one product.      *)
(*                                                                         *)
(* src/app/broadcasts.py                       both workers                *)
(* src/app/stock_alerts.py, price_alerts.py    what puts an alert in line  *)
(* src/app/admin.py, dashboard.py              what the administrator does *)
(*                                                                         *)
(* A notice is a row (BroadcastLog, ProductPriceAlert, ProductStockAlert,  *)
(* FlashSaleCampaign); its mail are the delivery rows, one for a user.     *)
(* The worker of the broadcasts claims a notice under a row lock.  The     *)
(* worker of the alerts reads its candidates without a lock, decides, and  *)
(* writes what it decided: other transactions come in between.             *)
(***************************************************************************)
EXTENDS Integers, Sequences, FiniteSets, SequencesExt, FiniteSetsExt

CONSTANTS
    User,      \* customers, a range of integers: rows are made in this order
    Price,     \* prices of the product
    MaxStock,  \* most accounts a supplier or the shop has
    Scene      \* what one behaviour begins with, and what may happen in it

ASSUME NoticesAssumption == User \subseteq Nat /\ MaxStock \in Nat /\ Price \subseteq Nat \ {0}

AlertKind == {"flash", "sale", "stock"}
ProductRow ==
    [cost: Price, markup: Nat, price: Nat, locked: BOOLEAN, supply: Nat,
     known: BOOLEAN, gone: Nat, local: 0 .. MaxStock, active: BOOLEAN, forced: BOOLEAN,
     mode: {"disabled", "off", "balance", "always"}, saleOn: BOOLEAN]
NoticeRow ==
    [kind: AlertKind \cup {"broadcast"}, by: {"admin", "manual", "inventory", "supplier"},
     before: Int, after: Int, begun: BOOLEAN,
     status: {"queued", "pending", "sending", "completed", "sent", "superseded"},
     cool: BOOLEAN, served: BOOLEAN, live: BOOLEAN]
Delivery == [User -> {"none", "pending", "sending", "sent", "failed"}]
DeskRow ==
    [pc: {"look", "write", "check", "claim", "batch", "broken", "down"}, job: Nat,
     drop: SUBSET Nat, seen: Nat,
     batch: [User -> {"none", "asked", "ok", "failed", "gone", "saved"}]]

\* a scene says what the product is, who may be written to, and how often things happen
ASSUME SceneAssumption ==
    \A s \in Scene : /\ s.product \in ProductRow /\ s.product.gone <= s.product.supply
                     /\ s.started \subseteq User /\ s.left \in [DOMAIN s.left -> Nat]

VARIABLES
    product,   \* [cost, markup, price, locked, supply, known, gone, local, active, forced,
               \*  mode, saleOn]
    notices,   \* the rows, in the order of their ids
    mail,      \* notice -> user -> the delivery row
    told,      \* notice -> user -> messages the user received
    excused,   \* notice -> user -> answers lost and deliveries interrupted
    started,   \* users the bot may write to (User.has_started)
    draft,     \* a broadcast that waits for the administrator's confirmation
    pressed,   \* confirmations that have read the draft
    desk,      \* Worker -> what the worker is doing
    left       \* what may still happen
vars == <<product, notices, mail, told, excused, started, draft, pressed, desk, left>>

Worker == {"broadcasts", "alerts"}
NoMail == [u \in User |-> "none"]
Desk(pc) == [pc |-> pc, job |-> 0, drop |-> {}, seen |-> 0, batch |-> NoMail]

Of(kind) == IF kind = "broadcast" THEN "broadcasts" ELSE "alerts"
\* external_stock: what is left of the supplier's accounts (supply when it was last
\* asked, if that is known, and gone since then), and the shop's own
Stock(p) == p.supply - p.gone + p.local
With(rows, kind, statuses) ==
    {i \in DOMAIN rows : rows[i].kind = kind /\ rows[i].status \in statuses}
Automatic(rows, statuses) ==
    {i \in With(rows, "stock", statuses) : rows[i].by # "manual"}
ManualActive(rows) ==
    With(rows, "stock", {"pending", "sending"}) # Automatic(rows, {"pending", "sending"})
Superseded(rows, set) ==
    [i \in DOMAIN rows |->
        IF i \in set THEN [rows[i] EXCEPT !.status = "superseded"] ELSE rows[i]]

Notice(kind, by, before, after) ==
    [kind |-> kind, by |-> by, before |-> before, after |-> after, begun |-> FALSE,
     status |-> IF kind = "broadcast" THEN "queued" ELSE "pending",
     cool |-> FALSE, served |-> FALSE, live |-> kind = "flash"]

Spend(what) ==
    /\ left[what] > 0
    /\ left' = [left EXCEPT ![what] = @ - 1]

\* a transaction that ends with these rows; new rows have the mail of these users
Commit(p, rows, to) ==
    LET Pad(seq, f) == seq \o [i \in 1 .. Len(rows) - Len(seq) |-> f]
    IN /\ product' = p
       /\ notices' = rows
       /\ mail' = Pad(mail, [u \in User |-> IF u \in to THEN "pending" ELSE "none"])
       /\ told' = Pad(told, [u \in User |-> 0])
       /\ excused' = Pad(excused, [u \in User |-> 0])

-----------------------------------------------------------------------------
(* What puts an alert in line: operators from [p, rows] to [p, rows] *)

\* stop_unsafe_flash_sale; before is the cost the campaign began with
Unsafe(p, r) ==
    /\ r.live
    /\ \/ p.cost > r.after /\ p.cost > r.before
       \/ r.after >= p.price
StopUnsafe(s) ==
    [s EXCEPT !.rows = [i \in DOMAIN s.rows |->
        IF Unsafe(s.p, s.rows[i])
        THEN [s.rows[i] EXCEPT !.live = FALSE,
                !.status = IF @ \in {"pending", "sending"} THEN "superseded" ELSE @]
        ELSE s.rows[i]]]

\* release_price_lock_if_inventory_empty
Release(s) ==
    IF s.p.locked /\ s.p.local = 0
    THEN LET q == StopUnsafe([s EXCEPT !.p.locked = FALSE,
                                       !.p.price = s.p.cost + s.p.markup])
         IN [q EXCEPT !.rows = Superseded(@, With(@, "sale", {"pending"}))]
    ELSE s

\* the price alert in line tells of the lower price, or is superseded
Follow(rows, price, by) ==
    LET last == Max(With(rows, "sale", {"pending"}))
    IN IF price < rows[last].before
       THEN [rows EXCEPT ![last] = [rows[last] EXCEPT !.after = price,
                                      !.by = IF by = "admin" THEN by ELSE @]]
       ELSE Superseded(rows, {last})

\* apply_supplier_price
ApplySupplierPrice(s, cost) ==
    LET price == cost + s.p.markup
        q == StopUnsafe([s EXCEPT !.p.cost = cost,
                                  !.p.price = IF s.p.locked THEN @ ELSE price])
        pending == With(q.rows, "sale", {"pending"})
    IN [q EXCEPT !.rows =
          IF s.p.locked \/ s.p.forced THEN Superseded(@, pending)
          ELSE IF ~s.p.saleOn THEN Superseded(@, With(@, "sale", {"pending", "sending"}))
          ELSE IF pending # {} THEN Follow(@, price, "supplier")
          ELSE IF price < s.p.price
          THEN Append(@, Notice("sale", "supplier", s.p.price, price))
          ELSE @]

\* queue_admin_price_drop
QueueAdminDrop(s, before) ==
    IF \/ ~s.p.active \/ s.p.forced \/ Stock(s.p) = 0 \/ ~s.p.saleOn
       \/ s.p.price >= before
    THEN s
    ELSE [s EXCEPT !.rows =
            IF With(@, "sale", {"pending"}) # {} THEN Follow(@, s.p.price, "admin")
            ELSE Append(@, Notice("sale", "admin", before, s.p.price))]

\* Faulty variant: only an alert of the same stock counts as the one that waits
ApplyStockUnseen(s, n, notify) ==
    LET before == s.p.supply
    IN [s EXCEPT !.p.supply = n, !.p.known = TRUE,
          !.rows = IF notify /\ n > before /\ s.p.mode \notin {"disabled", "off"}
                      /\ ~\E i \in Automatic(@, {"pending"}) : @[i].after = n
                   THEN Append(@, Notice("stock", "supplier", before, n)) ELSE @]

\* apply_supplier_stock
ApplySupplierStock(s, n, notify) ==
    LET before == s.p.supply
        q == Release([s EXCEPT !.p.supply = n, !.p.known = TRUE])
        rows == q.rows
        pending == Automatic(rows, {"pending"})
        last == Max(pending)
    IN [q EXCEPT !.rows =
          IF q.p.forced \/ q.p.mode \in {"disabled", "off"} THEN Superseded(rows, pending)
          ELSE IF ManualActive(rows) \/ \E i \in pending : rows[i].by = "inventory" THEN rows
          ELSE IF pending # {}
          THEN IF n = 0 THEN Superseded(rows, {last})
               ELSE IF n = before THEN rows
               ELSE [rows EXCEPT ![last] = [rows[last] EXCEPT !.before = before, !.after = n]]
          ELSE IF notify /\ s.p.known /\ n > before
          THEN Append(rows, Notice("stock", "supplier", before, n))
          ELSE rows]

\* queue_inventory_stock_alert
QueueInventory(s, before) ==
    LET rows == s.rows
        pending == With(rows, "stock", {"pending"})
        last == Max(pending)
    IN IF s.p.forced \/ s.p.mode = "disabled" \/ ManualActive(rows) THEN s
       ELSE [s EXCEPT !.rows =
               IF pending # {}
               THEN [rows EXCEPT ![last] =
                       [rows[last] EXCEPT !.by = "inventory", !.before = before,
                                          !.after = Stock(s.p)]]
               ELSE Append(rows, Notice("stock", "inventory", before, Stock(s.p)))]

-----------------------------------------------------------------------------
(* The administrator, the suppliers, the customers *)

\* stage_broadcast
StageBroadcast ==
    /\ started # {}
    /\ ~draft
    /\ Spend("drafts")
    /\ draft' = TRUE
    /\ UNCHANGED <<product, notices, mail, told, excused, started, pressed, desk>>

\* the confirmation is pressed, and the draft is read
PressConfirm ==
    /\ draft
    /\ Spend("presses")
    /\ pressed' = pressed + 1
    /\ UNCHANGED <<product, notices, mail, told, excused, started, draft, desk>>

\* confirm_broadcast forgets the draft; queue_broadcast adds the row and its mail
QueueBroadcast ==
    /\ pressed > 0
    /\ pressed' = pressed - 1
    /\ draft' = FALSE
    /\ Commit(product, Append(notices, Notice("broadcast", "admin", 0, 0)), started)
    /\ UNCHANGED <<started, desk, left>>

Calm == UNCHANGED <<started, draft, pressed, desk>>

\* refresh_external_product
RefreshProduct(cost, n, notify) ==
    LET now == Release([p |-> product, rows |-> notices])
        s == ApplySupplierStock([ApplySupplierPrice(now, cost) EXCEPT !.p.gone = 0], n, notify)
        moves == IF cost = product.cost THEN 0 ELSE 1
    IN /\ cost # product.cost \/ n # product.supply
       /\ product.active
       /\ left.refreshes > 0 /\ left.moves >= moves
       /\ left' = [left EXCEPT !.refreshes = @ - 1, !.moves = @ - moves]
       /\ Commit(s.p, s.rows, {})
       /\ Calm

\* import_inventory
Import(lock, announce) ==
    LET q == [p |-> [product EXCEPT !.local = @ + 1, !.gone = 0, !.locked = @ \/ lock],
              rows |-> IF lock THEN Superseded(notices, With(notices, "sale", {"pending"}))
                       ELSE notices]
        s == IF announce THEN QueueInventory(q, Stock(product)) ELSE q
    IN /\ product.active /\ product.local < MaxStock
       /\ Spend("imports")
       /\ Commit(s.p, s.rows, {})
       /\ Calm

\* a row of the shop is sold; when it goes to a preorder, the alert is kept
\* (record_preorder_stock_fulfillment)
SellLocal(preorder) ==
    LET pending == Automatic(notices, {"pending"})
        s == Release([p |-> [product EXCEPT !.local = @ - 1],
                      rows |-> IF preorder /\ pending # {}
                               THEN [notices EXCEPT ![Max(pending)].served = TRUE]
                               ELSE notices])
    IN /\ product.active /\ product.local > 0 /\ ~product.forced
       /\ Spend("sales")
       /\ Commit(s.p, s.rows, {})
       /\ Calm

\* queue_manual_stock_alert
QueueManual ==
    /\ product.active /\ ~ManualActive(notices)
    /\ Spend("manuals")
    /\ Commit(product, Append(notices, Notice("stock", "manual", Stock(product),
                                              Stock(product))), {})
    /\ Calm

\* update_product, one field at a time; a new price becomes a new markup
EditProduct(price, active, mode, saleOn) ==
    LET p == [product EXCEPT !.active = active, !.mode = mode, !.saleOn = saleOn,
                 !.price = price,
                 !.markup = IF price = product.price THEN @
                            ELSE Max({0, price - product.cost})]
        off == (IF saleOn THEN {} ELSE With(notices, "sale", {"pending", "sending"}))
               \cup (IF mode # "disabled" THEN {}
                     ELSE Automatic(notices, {"pending", "sending"}))
        s == QueueAdminDrop(StopUnsafe([p |-> p, rows |-> Superseded(notices, off)]),
                            product.price)
    IN /\ Spend("edits")
       /\ Cardinality({f \in DOMAIN p : f # "markup" /\ p[f] # product[f]}) = 1
       /\ Commit(s.p, s.rows, {})
       /\ Calm

\* toggle_product_stock_zero
TakeOff ==
    LET off == With(notices, "sale", {"pending", "sending"})
               \cup With(notices, "flash", {"pending", "sending"})
               \cup Automatic(notices, {"pending", "sending"})
    IN /\ ~product.forced
       /\ Spend("toggles")
       /\ Commit([product EXCEPT !.forced = TRUE], Superseded(notices, off), {})
       /\ Calm

Restore ==
    /\ product.forced
    /\ Spend("toggles")
    /\ Commit([product EXCEPT !.forced = FALSE], notices, {})
    /\ Calm

\* create_flash_sale
StartFlash ==
    /\ product.active /\ ~product.forced /\ Stock(product) > 0
    /\ Min(Price) < product.price
    /\ ~\E i \in DOMAIN notices : notices[i].live
    /\ Spend("flashes")
    /\ Commit(product, Append(notices, Notice("flash", "admin", product.cost, Min(Price))), {})
    /\ Calm

\* the last place is sold, or the administrator cancels the campaign
EndFlash(i, cancel) ==
    /\ notices[i].live
    /\ Spend("ends")
    /\ Commit(product,
              [notices EXCEPT ![i] = [notices[i] EXCEPT !.live = FALSE,
                 !.status = IF cancel /\ @ \in {"pending", "sending"}
                            THEN "superseded" ELSE @]], {})
    /\ Calm

\* /start
StartBot(u) ==
    /\ u \notin started
    /\ Spend("starts")
    /\ started' = started \cup {u}
    /\ UNCHANGED <<product, notices, mail, told, excused, draft, pressed, desk>>

-----------------------------------------------------------------------------
(* The claims *)

\* _claim_broadcast
ClaimBroadcast ==
    LET due == With(notices, "broadcast", {"queued", "sending"})
    IN /\ desk["broadcasts"].pc = "look"
       /\ due # {}
       /\ Commit(product, [notices EXCEPT ![Min(due)] =
                              [@ EXCEPT !.status = "sending", !.begun = TRUE]], {})
       /\ desk' = [desk EXCEPT !["broadcasts"].pc = "claim", !["broadcasts"].job = Min(due)]
       /\ UNCHANGED <<started, draft, pressed, left>>

\* _claim_sale_alert
SaleVerdict(n) ==
    IF \/ ~product.active \/ ~product.saleOn
       \/ product.locked /\ n.by # "admin"
       \/ product.price # n.after
    THEN "drop"
    ELSE IF product.forced \/ Stock(product) = 0 THEN "wait"
    ELSE "take"

\* the latest stock alert before i that was sent or is being sent
Cooling(i) ==
    LET previous == {j \in With(notices, "stock", {"sending", "sent"}) : j < i}
    IN /\ previous # {}
       /\ notices[Max(previous)].status = "sending" \/ notices[Max(previous)].cool

CurrentStock(n) == IF n.by = "manual" THEN n.after ELSE Stock(product)

\* _claim_stock_alert
StockVerdict(i) ==
    LET n == notices[i]
    IN IF \/ ~product.active
          \/ n.by # "manual" /\ (product.mode = "disabled" \/ product.forced)
          \/ n.by = "supplier" /\ product.mode = "off"
          \/ n.by # "manual" /\ CurrentStock(n) = 0 /\ ~n.served
       THEN "drop"
       ELSE IF n.by # "supplier" \/ product.mode # "always" THEN "take"
       ELSE IF Cooling(i) THEN "wait"
       ELSE IF n.after <= n.before THEN "drop" ELSE "take"

\* _claim_flash_sale
FlashVerdict(n) == IF ~n.live \/ ~product.active THEN "drop" ELSE "take"

Verdict(i) ==
    CASE notices[i].kind = "sale" -> SaleVerdict(notices[i])
      [] notices[i].kind = "stock" -> StockVerdict(i)
      [] notices[i].kind = "flash" -> FlashVerdict(notices[i])

Taken(kind) == {i \in With(notices, kind, {"pending"}) : Verdict(i) = "take"}
Dropped(kind) ==
    {i \in With(notices, kind, {"pending"}) :
        Verdict(i) = "drop" /\ \A j \in Taken(kind) : i < j}

\* the stock the alert is to tell, when the row has another (0: it is not written)
Fresh(n) ==
    LET stock == Max({CurrentStock(n), 1}) IN IF stock = n.after THEN 0 ELSE stock

\* the candidates are read, without a lock, and judged
LookAtAlerts(kind) ==
    LET first == IF Taken(kind) = {} THEN 0 ELSE Min(Taken(kind))
    IN /\ desk["alerts"].pc = "look"
       /\ Taken(kind) \cup Dropped(kind) # {}
       /\ desk' = [desk EXCEPT !["alerts"] =
                     [Desk("write") EXCEPT !.job = first, !.drop = Dropped(kind),
                        !.seen = IF kind = "stock" /\ first > 0 THEN Fresh(notices[first])
                                 ELSE 0]]
       /\ UNCHANGED <<product, notices, mail, told, excused, started, draft, pressed, left>>

\* _ensure_product_alert_deliveries: the mail of an alert, made once
Mailed(i) ==
    IF mail[i] # NoMail THEN mail
    ELSE [mail EXCEPT ![i] = [u \in User |-> IF u \in started THEN "pending" ELSE "none"]]

\* what was decided is written over what the rows are by now
WriteClaim ==
    LET d == desk["alerts"]
        rows == Superseded(notices, d.drop)
    IN /\ d.pc = "write"
       /\ desk' = [desk EXCEPT !["alerts"] =
                     IF d.job = 0 THEN Desk("look") ELSE [Desk("check") EXCEPT !.job = d.job]]
       /\ notices' = IF d.job = 0 THEN rows
                     ELSE [rows EXCEPT ![d.job] =
                             [rows[d.job] EXCEPT !.status = "sending", !.begun = TRUE,
                                       !.after = IF d.seen > 0 THEN d.seen ELSE @]]
       /\ mail' = IF d.job = 0 THEN mail ELSE Mailed(d.job)
       /\ UNCHANGED <<product, told, excused, started, draft, pressed, left>>

-----------------------------------------------------------------------------
(* The deliveries *)

Goto(w, pc) ==
    desk' = [desk EXCEPT ![w] = IF pc = "look" THEN Desk(pc)
                                ELSE [@ EXCEPT !.pc = pc, !.batch = NoMail]]
Waiting(i) == {u \in User : mail[i][u] = "pending"}
Unfinished(i) == {u \in User : mail[i][u] \in {"pending", "sending"}}

\* before each batch: the alert is still being sent, the campaign still runs
CheckAlert ==
    LET i == desk["alerts"].job
        n == notices[i]
    IN /\ desk["alerts"].pc = "check"
       /\ IF n.kind # "flash"
          THEN /\ Goto("alerts", IF n.status = "sending" THEN "claim" ELSE "look")
               /\ UNCHANGED notices
          ELSE IF n.live /\ n.status # "superseded"
          THEN Goto("alerts", "claim") /\ UNCHANGED notices
          ELSE /\ Goto("alerts", "look")
               /\ notices' = IF n.status \in {"pending", "sending"}
                             THEN Superseded(notices, {i}) ELSE notices
       /\ UNCHANGED <<product, mail, told, excused, started, draft, pressed, left>>

\* Faulty variant: the batch stays pending until its results are known
BatchUnmarked(w) ==
    LET i == desk[w].job
        users == {u \in Waiting(i) : Cardinality({v \in Waiting(i) : v < u}) < left.batch}
    IN /\ desk[w].pc = "claim"
       /\ users # {}
       /\ desk' = [desk EXCEPT ![w].pc = "batch",
                      ![w].batch = [u \in User |-> IF u \in users THEN "asked" ELSE "none"]]
       /\ UNCHANGED <<product, notices, mail, told, excused, started, draft, pressed, left>>

\* _claim_delivery_batch, _claim_product_alert_delivery_batch
ClaimBatch(w) ==
    LET i == desk[w].job
        users == {u \in Waiting(i) : Cardinality({v \in Waiting(i) : v < u}) < left.batch}
    IN /\ desk[w].pc = "claim"
       /\ users # {}
       /\ mail' = [mail EXCEPT ![i] =
                     [u \in User |-> IF u \in users THEN "sending" ELSE @[u]]]
       /\ desk' = [desk EXCEPT ![w].pc = "batch",
                      ![w].batch = [u \in User |-> IF u \in users THEN "asked" ELSE "none"]]
       /\ UNCHANGED <<product, notices, told, excused, started, draft, pressed, left>>

\* _send_with_retry: Telegram takes the message, refuses it, says that the user
\* is gone, or fails until the attempts are used up
Send(w, u, result) ==
    LET i == desk[w].job
    IN /\ desk[w].pc = "batch" /\ desk[w].batch[u] = "asked"
       /\ desk' = [desk EXCEPT ![w].batch[u] = result]
       /\ IF result = "ok" THEN told' = [told EXCEPT ![i][u] = @ + 1] /\ UNCHANGED left
                           ELSE UNCHANGED told /\ Spend("refusals")
       /\ UNCHANGED <<product, notices, mail, excused, started, draft, pressed>>

\* Telegram takes the message and its answer is lost: it is sent again
LoseAnswer(w, u) ==
    LET i == desk[w].job
    IN /\ desk[w].pc = "batch" /\ desk[w].batch[u] = "asked"
       /\ Spend("faults")
       /\ told' = [told EXCEPT ![i][u] = @ + 1]
       /\ excused' = [excused EXCEPT ![i][u] = @ + 1]
       /\ UNCHANGED <<product, notices, mail, started, draft, pressed, desk>>

\* _save_delivery_result, _save_product_alert_delivery_result
Save(w, u) ==
    LET i == desk[w].job
        result == desk[w].batch[u]
    IN /\ desk[w].pc = "batch" /\ result \in {"ok", "failed", "gone"}
       /\ desk' = [desk EXCEPT ![w].batch[u] = "saved"]
       /\ mail' = [mail EXCEPT ![i][u] =
                     IF @ # "sending" THEN @ ELSE IF result = "ok" THEN "sent" ELSE "failed"]
       /\ started' = IF result = "gone" THEN started \ {u} ELSE started
       /\ UNCHANGED <<product, notices, told, excused, draft, pressed, left>>

\* Faulty variant: only what waits is counted as unfinished
SyncWaiting(w) ==
    LET i == desk[w].job
        done == Waiting(i) = {}
        final == IF notices[i].kind = "broadcast" THEN "completed" ELSE "sent"
    IN /\ \/ desk[w].pc = "claim" /\ Waiting(i) = {}
          \/ desk[w].pc = "batch" /\ \E u \in User : desk[w].batch[u] = "saved"
       /\ notices' = IF done THEN [notices EXCEPT ![i].status = final,
                                     ![i].cool = notices[i].kind = "stock"] ELSE notices
       /\ Goto(w, IF done THEN "look" ELSE "check")
       /\ UNCHANGED <<product, mail, told, excused, started, draft, pressed, left>>

\* _sync_broadcast_progress, _sync_product_alert_progress; the next batch, or
\* the next notice
Sync(w) ==
    LET i == desk[w].job
        done == Unfinished(i) = {}
        again == IF w = "alerts" THEN "check" ELSE "claim"
        final == IF notices[i].kind = "broadcast" THEN "completed" ELSE "sent"
    IN /\ \/ desk[w].pc = "claim" /\ Waiting(i) = {}
          \/ desk[w].pc = "batch" /\ \A u \in User : desk[w].batch[u] \in {"none", "saved"}
       /\ notices' = IF done
                     THEN [notices EXCEPT ![i] =
                             [@ EXCEPT !.status = final, !.cool = notices[i].kind = "stock"]]
                     ELSE notices
       /\ Goto(w, IF done \/ desk[w].pc = "claim" THEN "look" ELSE again)
       /\ UNCHANGED <<product, mail, told, excused, started, draft, pressed, left>>

-----------------------------------------------------------------------------
(* Failures *)

\* a transaction fails, or the worker is interrupted in one: what is in flight
\* is cancelled
Stumble(w) ==
    /\ desk[w].pc \notin {"down", "broken"}
    /\ desk[w].job > 0
    /\ Spend("faults")
    /\ desk' = [desk EXCEPT ![w] = Desk("broken")]
    /\ UNCHANGED <<product, notices, mail, told, excused, started, draft, pressed>>

Crash ==
    /\ \E w \in Worker : desk[w].pc # "down"
    /\ Spend("faults")
    /\ desk' = [w \in Worker |-> Desk("down")]
    /\ pressed' = 0
    /\ UNCHANGED <<product, notices, mail, told, excused, started, draft>>

\* Faulty variant: the deliveries that were cut off stay marked as sending
RecoverRows(w) ==
    LET own == {i \in DOMAIN notices : Of(notices[i].kind) = w}
        cut(i) == {u \in User : mail[i][u] = "sending"}
    IN /\ desk[w].pc \in {"down", "broken"}
       /\ notices' = [i \in DOMAIN notices |->
                        IF i \in own /\ notices[i].status = "sending"
                        THEN [notices[i] EXCEPT !.status =
                                IF w = "broadcasts" THEN "queued" ELSE "pending"]
                        ELSE notices[i]]
       /\ Goto(w, "look")
       /\ UNCHANGED <<product, mail, told, excused, started, draft, pressed, left>>

\* recover_interrupted_broadcasts, recover_interrupted_product_alerts
Recover(w) ==
    LET own == {i \in DOMAIN notices : Of(notices[i].kind) = w}
        cut(i) == {u \in User : mail[i][u] = "sending"}
    IN /\ desk[w].pc \in {"down", "broken"}
       /\ notices' = [i \in DOMAIN notices |->
                        IF i \in own /\ notices[i].status = "sending"
                        THEN [notices[i] EXCEPT !.status =
                                IF w = "broadcasts" THEN "queued" ELSE "pending"]
                        ELSE notices[i]]
       /\ mail' = [i \in DOMAIN mail |->
                     [u \in User |-> IF i \in own /\ u \in cut(i) THEN "pending"
                                     ELSE mail[i][u]]]
       /\ excused' = [i \in DOMAIN mail |->
                        [u \in User |-> IF i \in own /\ u \in cut(i) THEN excused[i][u] + 1
                                        ELSE excused[i][u]]]
       /\ Goto(w, "look")
       /\ UNCHANGED <<product, told, started, draft, pressed, left>>

\* "Could not persist ... failure state; the worker will retry"
RecoverFails(w) ==
    /\ desk[w].pc = "broken"
    /\ Spend("outages")
    /\ Goto(w, "look")
    /\ UNCHANGED <<product, notices, mail, told, excused, started, draft, pressed>>

\* STOCK_ALERT_COOLDOWN passes
CoolDown(i) ==
    /\ notices[i].cool
    /\ notices' = [notices EXCEPT ![i].cool = FALSE]
    /\ UNCHANGED <<product, mail, told, excused, started, draft, pressed, desk, left>>

-----------------------------------------------------------------------------
(* The specification *)

InitWith(s) ==
    /\ notices = <<>> /\ mail = <<>> /\ told = <<>> /\ excused = <<>>
    /\ draft = FALSE /\ pressed = 0
    /\ desk = [w \in Worker |-> Desk("look")]
    /\ left = s.left
    /\ started = s.started
    /\ product = s.product

Init == \E s \in Scene : InitWith(s)

Outside ==
    \/ StageBroadcast \/ PressConfirm
    \/ \E c \in Price, n \in 0 .. MaxStock,
         notify \in IF product.mode = "balance" THEN BOOLEAN ELSE {TRUE} :
          RefreshProduct(c, n, notify)
    \/ \E lock, announce \in BOOLEAN : Import(lock, announce)
    \/ \E preorder \in BOOLEAN : SellLocal(preorder)
    \/ QueueManual
    \/ \E c \in Price, active, saleOn \in BOOLEAN, mode \in {"disabled", "off", "always"} :
          EditProduct(c, active, mode, saleOn)
    \/ TakeOff \/ Restore \/ StartFlash
    \/ \E i \in DOMAIN notices, cancel \in BOOLEAN : EndFlash(i, cancel)
    \/ \E u \in User : StartBot(u)
    \/ \E w \in Worker : Stumble(w) \/ RecoverFails(w)
    \/ \E w \in Worker, u \in User : LoseAnswer(w, u)

Answer(w) == \E u \in User : Save(w, u) \/ \E r \in {"ok", "failed", "gone"} : Send(w, u, r)
BroadcastStep ==
    \/ ClaimBroadcast
    \/ ClaimBatch("broadcasts") \/ Answer("broadcasts") \/ Sync("broadcasts")
    \/ Recover("broadcasts")
AlertStep ==
    \/ \E kind \in AlertKind : LookAtAlerts(kind)
    \/ WriteClaim \/ CheckAlert
    \/ ClaimBatch("alerts") \/ Answer("alerts") \/ Sync("alerts")
    \/ Recover("alerts")
TimePasses == QueueBroadcast \/ \E i \in DOMAIN notices : CoolDown(i)

Next == Outside \/ Crash \/ BroadcastStep \/ AlertStep \/ TimePasses

Spec == Init /\ [][Next]_vars

\* The workers are loops of their own, a call to Telegram ends, and time passes.
FairSpec ==
    Spec /\ WF_vars(BroadcastStep) /\ WF_vars(AlertStep) /\ WF_vars(TimePasses)
-----------------------------------------------------------------------------
(* What must hold *)

\* Every variable has a value of its kind.
TypeOK ==
    /\ product \in ProductRow /\ product.gone <= product.supply
    /\ notices \in Seq(NoticeRow) /\ mail \in Seq(Delivery)
    /\ told \in Seq([User -> Nat]) /\ excused \in Seq([User -> Nat])
    /\ Len(mail) = Len(notices) /\ Len(told) = Len(notices) /\ Len(excused) = Len(notices)
    /\ \A i \in DOMAIN notices :
          notices[i].status \in IF notices[i].kind = "broadcast"
                               THEN {"queued", "sending", "completed"}
                               ELSE {"pending", "sending", "sent", "superseded"}
    /\ started \subseteq User /\ draft \in BOOLEAN /\ pressed \in Nat
    /\ desk \in [Worker -> DeskRow] /\ left \in [DOMAIN left -> Nat]

\* A user gets a message once, and once more for each answer that was lost and
\* each delivery that was interrupted; the row says "sent" only of a message the
\* user has, "failed" and "pending" only of one the user has not, or has by an
\* answer that was lost (_claim_delivery_batch, recover_interrupted_broadcasts).
ToldOnce ==
    \A i \in DOMAIN mail, u \in User :
        /\ told[i][u] <= excused[i][u] + (IF mail[i][u] \in {"sent", "sending"} THEN 1 ELSE 0)
        /\ mail[i][u] = "sent" => told[i][u] > 0

\* A notice is closed as sent only when every delivery of it has an end, in
\* whatever order batches, failures, recoveries and restarts came
\* (_sync_broadcast_progress, _sync_product_alert_progress).
SentIsDone ==
    \A i \in DOMAIN notices :
        notices[i].status \in {"sent", "completed"} => Unfinished(i) = {}

\* What waits of one kind is one row that is kept up to date: one alert of the
\* price and one automatic alert of the stock that no worker has begun, and one
\* manual alert at a time ("Keep one queued event", apply_supplier_stock).
OnePending ==
    LET fresh(set) == {i \in set : ~notices[i].begun}
    IN /\ Cardinality(fresh(With(notices, "sale", {"pending"}))) <= 1
       /\ Cardinality(fresh(Automatic(notices, {"pending"}))) <= 1
       /\ Cardinality(With(notices, "stock", {"pending", "sending"})
                       \ Automatic(notices, {"pending", "sending"})) <= 1

\* a worker failed, and so did what it does about a failure
Outage == left.outages = 0

InLine(i) == notices[i].status \notin {"sent", "superseded", "completed"}
WaitsForStock(i) == notices[i].kind = "sale" /\ (product.forced \/ Stock(product) = 0)

\* Once nothing more happens outside, whatever was put in line is sent or taken
\* back, whatever a worker was doing when it failed or the process ended: only the
\* alert of a price waits for stock (broadcast_worker, sale_alert_worker).
NewsEnds == <>[](Outage \/ \A i \in DOMAIN notices : InLine(i) => WaitsForStock(i))
=============================================================================
