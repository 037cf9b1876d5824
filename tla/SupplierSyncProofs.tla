-------------------------- MODULE SupplierSyncProofs --------------------------
(***************************************************************************)
(* The suppliers of a product: what their refreshes keep of the notices,    *)
(* and what they may tell customers, for any suppliers, scenes and prices.  *)
(***************************************************************************)
EXTENDS SupplierSync, NoticesProofs

(***************************************************************************)
(* A transaction's state, and the part of it that the operators of Notices  *)
(* work on.                                                                 *)
(***************************************************************************)
SeenRow == [wallet: Nat \cup {-1}, armed: BOOLEAN, news: BOOLEAN]
SyncStates ==
    [p: ProductRow, rows: Seq(NoticeRow), off: SUBSET Supplier,
     seen: [Supplier -> SeenRow], gpt: BOOLEAN]
Core(s) == [p |-> s.p, rows |-> s.rows]
Around(s, c) == [s EXCEPT !.p = c.p, !.rows = c.rows]

\* the supplier, the mode and the switch of a product stay
SameTerms(p, q) ==
    /\ q.supply = p.supply /\ q.gone = p.gone /\ q.known = p.known
    /\ q.mode = p.mode /\ q.forced = p.forced

LEMMA CoreIs ==
    ASSUME NEW s \in SyncStates
    PROVE  Core(s) \in States /\ Core(s).p = s.p /\ Core(s).rows = s.rows
  BY DEF SyncStates, States, Core

LEMMA AroundIs ==
    ASSUME NEW s \in SyncStates, NEW c \in States
    PROVE  LET t == Around(s, c) IN
           /\ t \in SyncStates /\ t.p = c.p /\ t.rows = c.rows
           /\ t.off = s.off /\ t.seen = s.seen /\ t.gpt = s.gpt
           /\ Core(t) = c
  BY DEF SyncStates, States, Core, Around

\* States with the same fields are the same.
LEMMA SameState ==
    ASSUME NEW s \in SyncStates, NEW t \in SyncStates,
           s.p = t.p, s.rows = t.rows, s.off = t.off, s.seen = t.seen, s.gpt = t.gpt
    PROVE  s = t
  BY DEF SyncStates

LEMMA UnsafeCore ==
    ASSUME NEW s \in SyncStates
    PROVE  StopUnsafe(s) = Around(s, StopUnsafe(Core(s)))
  <1>1. PICK c : c = Core(s)
    OBVIOUS
  <1>2. c \in States /\ c.p = s.p /\ c.rows = s.rows
    BY <1>1, CoreIs
  <1>3. PICK new : new =
             [i \in DOMAIN s.rows |->
                IF Unsafe(s.p, s.rows[i])
                THEN [s.rows[i] EXCEPT !.live = FALSE,
                        !.status = IF @ \in {"pending", "sending"} THEN "superseded" ELSE @]
                ELSE s.rows[i]]
    OBVIOUS
  <1>4. StopUnsafe(s) = [s EXCEPT !.rows = new]
    BY <1>3 DEF StopUnsafe
  <1>5. StopUnsafe(c) = [c EXCEPT !.rows = new]
    BY <1>2, <1>3 DEF StopUnsafe
  <1>6. StopUnsafe(c).p = s.p /\ StopUnsafe(c).rows = new
    BY <1>2, <1>5 DEF States
  <1> QED BY <1>1, <1>4, <1>6 DEF Around, SyncStates

LEMMA ReleaseCore ==
    ASSUME NEW s \in SyncStates, RowsSound(s.rows)
    PROVE  Release(s) = Around(s, Release(Core(s)))
  <1>1. PICK c : c = Core(s)
    OBVIOUS
  <1>2. c \in States /\ c.p = s.p /\ c.rows = s.rows /\ s.p \in ProductRow
    BY <1>1, CoreIs DEF SyncStates
  <1>3. CASE ~(s.p.locked /\ s.p.local = 0)
    <2>1. Release(s) = s
      BY <1>3 DEF Release
    <2>2. Release(c) = c
      BY <1>2, <1>3 DEF Release
    <2> QED BY <1>1, <1>2, <2>1, <2>2 DEF Around, SyncStates
  <1>4. CASE s.p.locked /\ s.p.local = 0
    <2>1. PICK p : p = [s.p EXCEPT !.locked = FALSE, !.price = s.p.cost + s.p.markup]
      OBVIOUS
    <2>2. PICK t : t = [s EXCEPT !.p = p]
      OBVIOUS
    <2>3. PICK d : d = [c EXCEPT !.p = p]
      OBVIOUS
    <2>4. p \in ProductRow
      <3>1. s.p.cost + s.p.markup \in Nat
        BY <1>2, ProductFields
      <3> QED BY <1>2, <2>1, <3>1 DEF ProductRow
    <2>5. t \in SyncStates /\ t = [s EXCEPT !.p.locked = FALSE, !.p.price = s.p.cost + s.p.markup]
      BY <2>1, <2>2, <2>4 DEF SyncStates
    <2>6. d \in States /\ d = [c EXCEPT !.p.locked = FALSE, !.p.price = c.p.cost + c.p.markup]
      BY <1>2, <2>1, <2>3, <2>4 DEF States
    <2>7. Core(t) = d /\ t.off = s.off /\ t.seen = s.seen /\ t.gpt = s.gpt
      BY <1>1, <2>2, <2>3, <2>4 DEF Core, SyncStates
    <2>8. PICK q, e : q = StopUnsafe(t) /\ e = StopUnsafe(d)
      OBVIOUS
    <2>9. e \in States
      BY <1>2, <2>3, <2>6, <2>8, UnsafeContinues DEF Continues, States
    <2>10. /\ q \in SyncStates /\ q.p = e.p /\ q.rows = e.rows
           /\ q.off = s.off /\ q.seen = s.seen /\ q.gpt = s.gpt
      <3>1. q = Around(t, StopUnsafe(Core(t)))
        BY <2>5, <2>8, UnsafeCore
      <3>2. q = Around(t, e)
        BY <2>7, <2>8, <3>1
      <3> QED BY <2>5, <2>7, <2>9, <3>2, AroundIs
    <2>11. PICK rows : rows = Superseded(q.rows, With(q.rows, "sale", {"pending"}))
      OBVIOUS
    <2>12. Release(s) = [q EXCEPT !.rows = rows]
      BY <1>4, <2>5, <2>8, <2>11 DEF Release
    <2>13. Release(c) = [e EXCEPT !.rows = rows]
      BY <1>2, <1>4, <2>6, <2>8, <2>10, <2>11 DEF Release
    <2>14. Release(c).p = e.p /\ Release(c).rows = rows
      BY <2>9, <2>13 DEF States
    <2> QED BY <1>1, <2>10, <2>12, <2>14 DEF Around, SyncStates
  <1> QED BY <1>3, <1>4

\* The price: what Notices says of it holds here.
LEMMA PriceCore ==
    ASSUME NEW s \in SyncStates, RowsSound(s.rows), NEW cost \in Price
    PROVE  ApplySupplierPrice(s, cost) = Around(s, ApplySupplierPrice(Core(s), cost))
  <1>1. PICK c : c = Core(s)
    OBVIOUS
  <1>2. c \in States /\ c.p = s.p /\ c.rows = s.rows /\ s.p \in ProductRow
    BY <1>1, CoreIs DEF SyncStates
  <1>3. PICK price : price = cost + s.p.markup
    OBVIOUS
  <1>4. PICK p : p = [s.p EXCEPT !.cost = cost, !.price = IF s.p.locked THEN @ ELSE price]
    OBVIOUS
  <1>5. p \in ProductRow
    <2>1. price \in Nat
      BY <1>2, <1>3, ProductFields, PriceNat
    <2> QED BY <1>2, <1>4, <2>1 DEF ProductRow
  <1>6. PICK t : t = [s EXCEPT !.p = p]
    OBVIOUS
  <1>7. PICK d : d = [c EXCEPT !.p = p]
    OBVIOUS
  <1>8. t \in SyncStates
        /\ t = [s EXCEPT !.p.cost = cost, !.p.price = IF s.p.locked THEN @ ELSE price]
    BY <1>4, <1>5, <1>6 DEF SyncStates
  <1>9. d \in States
        /\ d = [c EXCEPT !.p.cost = cost, !.p.price = IF c.p.locked THEN @ ELSE price]
    BY <1>2, <1>4, <1>5, <1>7 DEF States
  <1>10. Core(t) = d /\ d.rows = s.rows /\ t.off = s.off /\ t.seen = s.seen /\ t.gpt = s.gpt
    BY <1>1, <1>2, <1>5, <1>6, <1>7 DEF Core, SyncStates
  <1>11. PICK q, e : q = StopUnsafe(t) /\ e = StopUnsafe(d)
    OBVIOUS
  <1>12. e \in States
    BY <1>9, <1>10, <1>11, UnsafeContinues DEF Continues
  <1>13. /\ q \in SyncStates /\ q.p = e.p /\ q.rows = e.rows
         /\ q.off = s.off /\ q.seen = s.seen /\ q.gpt = s.gpt
    <2>1. q = Around(t, StopUnsafe(Core(t)))
      BY <1>8, <1>11, UnsafeCore
    <2>2. q = Around(t, e)
      BY <1>10, <1>11, <2>1
    <2> QED BY <1>8, <1>10, <1>12, <2>2, AroundIs
  <1>14. PICK pending : pending = With(q.rows, "sale", {"pending"})
    OBVIOUS
  <1>15. PICK rows : rows =
          IF s.p.locked \/ s.p.forced THEN Superseded(q.rows, pending)
          ELSE IF ~s.p.saleOn
          THEN Superseded(q.rows, With(q.rows, "sale", {"pending", "sending"}))
          ELSE IF pending # {} THEN Follow(q.rows, price, "supplier")
          ELSE IF price < s.p.price
          THEN Append(q.rows, Notice("sale", "supplier", s.p.price, price))
          ELSE q.rows
    OBVIOUS
  <1>16. ApplySupplierPrice(s, cost) = [q EXCEPT !.rows = rows]
    BY <1>3, <1>8, <1>11, <1>14, <1>15 DEF ApplySupplierPrice
  <1>17. ApplySupplierPrice(c, cost) = [e EXCEPT !.rows = rows]
    BY <1>2, <1>3, <1>9, <1>11, <1>13, <1>14, <1>15 DEF ApplySupplierPrice
  <1>18. ApplySupplierPrice(c, cost).p = e.p /\ ApplySupplierPrice(c, cost).rows = rows
    BY <1>12, <1>17 DEF States
  <1> QED BY <1>1, <1>13, <1>16, <1>18 DEF Around, SyncStates

LEMMA StockCore ==
    ASSUME NEW s \in SyncStates, RowsSound(s.rows), NEW n \in Nat, NEW notify
    PROVE  ApplySupplierStock(s, n, notify) = Around(s, ApplySupplierStock(Core(s), n, notify))
  <1>1. PICK c : c = Core(s)
    OBVIOUS
  <1>2. c \in States /\ c.p = s.p /\ c.rows = s.rows /\ s.p \in ProductRow
    BY <1>1, CoreIs DEF SyncStates
  <1>3. PICK p : p = [s.p EXCEPT !.supply = n, !.known = TRUE]
    OBVIOUS
  <1>4. p \in ProductRow
    BY <1>2, <1>3 DEF ProductRow
  <1>5. PICK t : t = [s EXCEPT !.p = p]
    OBVIOUS
  <1>6. PICK d : d = [c EXCEPT !.p = p]
    OBVIOUS
  <1>7. t \in SyncStates /\ t = [s EXCEPT !.p.supply = n, !.p.known = TRUE] /\ t.rows = s.rows
    BY <1>3, <1>4, <1>5 DEF SyncStates
  <1>8. d \in States /\ d = [c EXCEPT !.p.supply = n, !.p.known = TRUE] /\ d.rows = s.rows
    BY <1>2, <1>3, <1>4, <1>6 DEF States
  <1>9. Core(t) = d /\ t.off = s.off /\ t.seen = s.seen /\ t.gpt = s.gpt
    BY <1>1, <1>2, <1>4, <1>5, <1>6 DEF Core, SyncStates
  <1>10. PICK q, e : q = Release(t) /\ e = Release(d)
    OBVIOUS
  <1>11. e \in States
    BY <1>8, <1>10, ReleaseContinues DEF Continues
  <1>12. /\ q \in SyncStates /\ q.p = e.p /\ q.rows = e.rows
         /\ q.off = s.off /\ q.seen = s.seen /\ q.gpt = s.gpt
    <2>1. q = Around(t, Release(Core(t)))
      BY <1>7, <1>10, ReleaseCore
    <2>2. q = Around(t, e)
      BY <1>9, <1>10, <2>1
    <2> QED BY <1>7, <1>9, <1>11, <2>2, AroundIs
  <1>13. PICK pending : pending = Automatic(q.rows, {"pending"})
    OBVIOUS
  <1>14. PICK rows : rows =
          IF q.p.forced \/ q.p.mode \in {"disabled", "off"} THEN Superseded(q.rows, pending)
          ELSE IF ManualActive(q.rows) \/ \E i \in pending : q.rows[i].by = "inventory"
          THEN q.rows
          ELSE IF pending # {}
          THEN IF n = 0 THEN Superseded(q.rows, {Max(pending)})
               ELSE IF n = s.p.supply THEN q.rows
               ELSE [q.rows EXCEPT ![Max(pending)] =
                       [q.rows[Max(pending)] EXCEPT !.before = s.p.supply, !.after = n]]
          ELSE IF notify /\ s.p.known /\ n > s.p.supply
          THEN Append(q.rows, Notice("stock", "supplier", s.p.supply, n))
          ELSE q.rows
    OBVIOUS
  <1>15. ApplySupplierStock(s, n, notify) = [q EXCEPT !.rows = rows]
    BY <1>7, <1>10, <1>13, <1>14 DEF ApplySupplierStock
  <1>16. ApplySupplierStock(c, n, notify) = [e EXCEPT !.rows = rows]
    BY <1>2, <1>8, <1>10, <1>12, <1>13, <1>14 DEF ApplySupplierStock
  <1>17. ApplySupplierStock(c, n, notify).p = e.p /\ ApplySupplierStock(c, n, notify).rows = rows
    BY <1>11, <1>16 DEF States
  <1> QED BY <1>1, <1>12, <1>15, <1>17 DEF Around, SyncStates

LEMMA AdminDropCore ==
    ASSUME NEW s \in SyncStates, NEW before
    PROVE  QueueAdminDrop(s, before) = Around(s, QueueAdminDrop(Core(s), before))
  <1>1. PICK c : c = Core(s)
    OBVIOUS
  <1>2. c \in States /\ c.p = s.p /\ c.rows = s.rows
    BY <1>1, CoreIs
  <1>3. PICK none : none <=> \/ ~s.p.active \/ s.p.forced \/ Stock(s.p) = 0 \/ ~s.p.saleOn
                             \/ s.p.price >= before
    OBVIOUS
  <1>4. PICK rows : rows =
          IF With(s.rows, "sale", {"pending"}) # {} THEN Follow(s.rows, s.p.price, "admin")
          ELSE Append(s.rows, Notice("sale", "admin", before, s.p.price))
    OBVIOUS
  <1>5. QueueAdminDrop(s, before) = IF none THEN s ELSE [s EXCEPT !.rows = rows]
    BY <1>3, <1>4 DEF QueueAdminDrop
  <1>6. QueueAdminDrop(c, before) = IF none THEN c ELSE [c EXCEPT !.rows = rows]
    BY <1>2, <1>3, <1>4 DEF QueueAdminDrop
  <1>7. CASE none
    BY <1>1, <1>2, <1>5, <1>6, <1>7 DEF Around, SyncStates
  <1>8. CASE ~none
    <2>1. QueueAdminDrop(c, before).p = s.p /\ QueueAdminDrop(c, before).rows = rows
      BY <1>2, <1>6, <1>8 DEF States
    <2> QED BY <1>1, <1>5, <1>8, <2>1 DEF Around, SyncStates
  <1> QED BY <1>7, <1>8

-----------------------------------------------------------------------------
(***************************************************************************)
(* What is in line after an operator, beyond what Continues says.           *)
(***************************************************************************)
\* no alert of the stock is new
NoStock(rows, new) == \A i \in DOMAIN new \ DOMAIN rows : new[i].kind # "stock"

LEMMA NoStockOn ==
    ASSUME NEW a, NEW b, NEW c, NoStock(a, b), NoStock(b, c), Follows(b, c), b \in Seq(NoticeRow)
    PROVE  NoStock(a, c)
  <1> SUFFICES ASSUME NEW i \in DOMAIN c \ DOMAIN a PROVE c[i].kind # "stock"
    BY DEF NoStock
  <1>1. CASE i \in DOMAIN b
    <2>1. b[i].kind # "stock" /\ i \in 1 .. Len(b)
      BY <1>1 DEF NoStock
    <2> QED BY <2>1 DEF Follows, RowFollows
  <1>2. CASE i \notin DOMAIN b
    BY <1>2 DEF NoStock
  <1> QED BY <1>1, <1>2

LEMMA SameRows ==
    ASSUME NEW rows, NEW new, DOMAIN new = DOMAIN rows
    PROVE  NoStock(rows, new)
  BY DEF NoStock

LEMMA UnsafeStays ==
    ASSUME NEW s \in States
    PROVE  DOMAIN StopUnsafe(s).rows = DOMAIN s.rows /\ StopUnsafe(s).p = s.p
  <1>1. PICK new : new =
             [i \in DOMAIN s.rows |->
                IF Unsafe(s.p, s.rows[i])
                THEN [s.rows[i] EXCEPT !.live = FALSE,
                        !.status = IF @ \in {"pending", "sending"} THEN "superseded" ELSE @]
                ELSE s.rows[i]]
    OBVIOUS
  <1>2. StopUnsafe(s) = [s EXCEPT !.rows = new]
    BY <1>1 DEF StopUnsafe
  <1>3. StopUnsafe(s).rows = new /\ StopUnsafe(s).p = s.p
    BY <1>2 DEF States
  <1> QED BY <1>1, <1>3

LEMMA ReleaseStays ==
    ASSUME NEW s \in States, RowsSound(s.rows)
    PROVE  DOMAIN Release(s).rows = DOMAIN s.rows /\ SameTerms(s.p, Release(s).p)
  <1>1. CASE ~(s.p.locked /\ s.p.local = 0)
    BY <1>1 DEF Release, SameTerms
  <1>2. CASE s.p.locked /\ s.p.local = 0
    <2>1. PICK p : p = [s.p EXCEPT !.locked = FALSE, !.price = s.p.cost + s.p.markup]
      OBVIOUS
    <2>2. s.p \in ProductRow
      BY DEF States
    <2>3. p \in ProductRow /\ SameTerms(s.p, p)
      <3>1. s.p.cost + s.p.markup \in Nat
        BY <2>2, ProductFields
      <3> QED BY <2>1, <2>2, <3>1 DEF ProductRow, SameTerms
    <2>4. PICK t : t = [s EXCEPT !.p = p]
      OBVIOUS
    <2>5. t \in States /\ t.rows = s.rows /\ t.p = p
          /\ t = [s EXCEPT !.p.locked = FALSE, !.p.price = s.p.cost + s.p.markup]
      BY <2>1, <2>3, <2>4 DEF States
    <2>6. PICK q : q = StopUnsafe(t)
      OBVIOUS
    <2>7. q \in States /\ DOMAIN q.rows = DOMAIN s.rows /\ q.p = p
      <3>1. q \in States
        BY <2>5, <2>6, UnsafeContinues DEF Continues
      <3> QED BY <2>5, <2>6, <3>1, UnsafeStays
    <2>8. PICK rows : rows = Superseded(q.rows, With(q.rows, "sale", {"pending"}))
      OBVIOUS
    <2>9. Release(s) = [q EXCEPT !.rows = rows]
      BY <1>2, <2>5, <2>6, <2>8 DEF Release
    <2>10. Release(s).p = p /\ Release(s).rows = rows
      BY <2>7, <2>9 DEF States
    <2>11. DOMAIN rows = DOMAIN q.rows
      BY <2>8 DEF Superseded
    <2> QED BY <2>3, <2>7, <2>10, <2>11
  <1> QED BY <1>1, <1>2

LEMMA PriceStays ==
    ASSUME NEW s \in States, RowsSound(s.rows), NEW cost \in Price
    PROVE  /\ NoStock(s.rows, ApplySupplierPrice(s, cost).rows)
           /\ SameTerms(s.p, ApplySupplierPrice(s, cost).p)
  <1>1. PICK price : price = cost + s.p.markup
    OBVIOUS
  <1>2. PICK p : p = [s.p EXCEPT !.cost = cost, !.price = IF s.p.locked THEN @ ELSE price]
    OBVIOUS
  <1>3. p \in ProductRow /\ SameTerms(s.p, p)
    <2>1. s.p \in ProductRow
      BY DEF States
    <2>2. price \in Nat
      BY <1>1, <2>1, ProductFields, PriceNat
    <2> QED BY <1>2, <2>1, <2>2 DEF ProductRow, SameTerms
  <1>4. PICK t : t = [s EXCEPT !.p = p]
    OBVIOUS
  <1>5. t \in States /\ t.rows = s.rows /\ t.p = p
        /\ t = [s EXCEPT !.p.cost = cost, !.p.price = IF s.p.locked THEN @ ELSE price]
    BY <1>2, <1>3, <1>4 DEF States
  <1>6. PICK q : q = StopUnsafe(t)
    OBVIOUS
  <1>7. q \in States /\ DOMAIN q.rows = DOMAIN s.rows /\ q.p = p /\ q.rows \in Seq(NoticeRow)
    <2>1. q \in States
      BY <1>5, <1>6, UnsafeContinues DEF Continues
    <2> QED BY <1>5, <1>6, <2>1, UnsafeStays DEF States
  <1>8. PICK pending : pending = With(q.rows, "sale", {"pending"})
    OBVIOUS
  <1>9. PICK new : new = Append(q.rows, Notice("sale", "supplier", s.p.price, price))
    OBVIOUS
  <1>10. PICK rows :
           /\ ApplySupplierPrice(s, cost) = [q EXCEPT !.rows = rows]
           /\ \/ \E set : rows = Superseded(q.rows, set)
              \/ rows = Follow(q.rows, price, "supplier")
              \/ rows = new
              \/ rows = q.rows
    BY <1>1, <1>5, <1>6, <1>8, <1>9 DEF ApplySupplierPrice
  <1>11. ApplySupplierPrice(s, cost).p = p /\ ApplySupplierPrice(s, cost).rows = rows
    BY <1>7, <1>10 DEF States
  <1>12. NoStock(s.rows, rows)
    <2>1. \A set : DOMAIN Superseded(q.rows, set) = DOMAIN q.rows
      BY DEF Superseded
    <2>2. DOMAIN Follow(q.rows, price, "supplier") = DOMAIN q.rows
      BY <2>1 DEF Follow
    <2>3. NoStock(q.rows, new)
      <3>1. PICK n : n = Notice("sale", "supplier", s.p.price, price)
        OBVIOUS
      <3>2. n.kind = "sale"
        BY <3>1 DEF Notice
      <3>3. new = Append(q.rows, n)
        BY <1>9, <3>1
      <3>4. \A i \in DOMAIN new : i \in DOMAIN q.rows \/ new[i] = n
        BY <1>7, <3>3
      <3> QED BY <3>2, <3>4 DEF NoStock
    <2>4. DOMAIN rows = DOMAIN s.rows \/ rows = new
      BY <1>7, <1>10, <2>1, <2>2
    <2>5. NoStock(s.rows, new)
      BY <1>7, <2>3 DEF NoStock
    <2> QED BY <2>4, <2>5, SameRows
  <1> QED BY <1>3, <1>11, <1>12

\* A price that fell is told as a sale, never as new stock.
LEMMA AdminDropStays ==
    ASSUME NEW s \in States, NEW before
    PROVE  NoStock(s.rows, QueueAdminDrop(s, before).rows) /\ QueueAdminDrop(s, before).p = s.p
  <1>1. PICK n : n = Notice("sale", "admin", before, s.p.price)
    OBVIOUS
  <1>2. PICK rows : rows =
          IF With(s.rows, "sale", {"pending"}) # {} THEN Follow(s.rows, s.p.price, "admin")
          ELSE Append(s.rows, n)
    OBVIOUS
  <1>3. QueueAdminDrop(s, before) = s \/ QueueAdminDrop(s, before) = [s EXCEPT !.rows = rows]
    BY <1>1, <1>2 DEF QueueAdminDrop
  <1>4. NoStock(s.rows, rows)
    <2>1. CASE With(s.rows, "sale", {"pending"}) # {}
      <3>1. DOMAIN Follow(s.rows, s.p.price, "admin") = DOMAIN s.rows
        BY DEF Follow, Superseded
      <3> QED BY <1>2, <2>1, <3>1, SameRows
    <2>2. CASE With(s.rows, "sale", {"pending"}) = {}
      <3>1. rows = Append(s.rows, n) /\ s.rows \in Seq(NoticeRow)
        BY <1>2, <2>2 DEF States
      <3>2. \A i \in DOMAIN rows : i \in DOMAIN s.rows \/ rows[i] = n
        BY <3>1
      <3>3. n.kind = "sale"
        BY <1>1 DEF Notice
      <3> QED BY <3>2, <3>3 DEF NoStock
    <2> QED BY <2>1, <2>2
  <1>5. NoStock(s.rows, s.rows)
    BY SameRows
  <1> QED BY <1>3, <1>4, <1>5 DEF States

\* somebody is told, or there is nothing to tell
InLineOf(p, rows) ==
    \/ With(rows, "stock", {"pending", "sending"}) # {}
    \/ p.forced \/ p.mode \in {"disabled", "off"}

\* Stock that has come is in line to be told, when it is asked for; otherwise
\* nothing is put in line.
LEMMA StockStays ==
    ASSUME NEW s \in States, RowsSound(s.rows), NEW n \in Nat, NEW notify \in BOOLEAN
    PROVE  LET t == ApplySupplierStock(s, n, notify) IN
           /\ t.p.mode = s.p.mode /\ t.p.forced = s.p.forced
           /\ ~notify \/ ~(n > s.p.supply) => DOMAIN t.rows = DOMAIN s.rows
           /\ notify /\ s.p.known /\ n > s.p.supply => InLineOf(t.p, t.rows)
  <1>1. s.p \in ProductRow /\ s.p.supply \in Nat
    <2>1. s.p \in ProductRow
      BY DEF States
    <2> QED BY <2>1, ProductFields
  <1>2. PICK p : p = [s.p EXCEPT !.supply = n, !.known = TRUE]
    OBVIOUS
  <1>3. p \in ProductRow /\ p.mode = s.p.mode /\ p.forced = s.p.forced
    BY <1>1, <1>2 DEF ProductRow
  <1>4. PICK t : t = [s EXCEPT !.p = p]
    OBVIOUS
  <1>5. t \in States /\ t.rows = s.rows /\ t.p = p
        /\ t = [s EXCEPT !.p.supply = n, !.p.known = TRUE]
    BY <1>2, <1>3, <1>4 DEF States
  <1>6. PICK q : q = Release(t)
    OBVIOUS
  <1>7. /\ q \in States /\ q.rows \in Seq(NoticeRow) /\ DOMAIN q.rows = DOMAIN s.rows
        /\ q.p.mode = s.p.mode /\ q.p.forced = s.p.forced
    <2>1. Continues(t, q)
      BY <1>5, <1>6, ReleaseContinues
    <2>2. DOMAIN q.rows = DOMAIN t.rows /\ SameTerms(t.p, q.p)
      BY <1>5, <1>6, ReleaseStays
    <2> QED BY <1>3, <1>5, <2>1, <2>2 DEF Continues, States, SameTerms
  <1>8. PICK pending : pending = Automatic(q.rows, {"pending"})
    OBVIOUS
  <1>9. PICK last : last = Max(pending)
    OBVIOUS
  <1>10. PICK r : r = [q.rows[last] EXCEPT !.before = s.p.supply, !.after = n]
    OBVIOUS
  <1>11. pending # {} => last \in pending /\ last \in DOMAIN q.rows
    <2>1. pending \in SUBSET DOMAIN q.rows
      BY <1>8 DEF Automatic, With
    <2> QED BY <1>7, <1>9, <2>1, LastOf
  <1>12. PICK new : new = Append(q.rows, Notice("stock", "supplier", s.p.supply, n))
    OBVIOUS
  <1>13. PICK silent, heard :
           /\ silent = (q.p.forced \/ q.p.mode \in {"disabled", "off"})
           /\ heard = (ManualActive(q.rows) \/ \E i \in pending : q.rows[i].by = "inventory")
    OBVIOUS
  <1>14. PICK rows : rows =
          IF q.p.forced \/ q.p.mode \in {"disabled", "off"} THEN Superseded(q.rows, pending)
          ELSE IF ManualActive(q.rows) \/ \E i \in pending : q.rows[i].by = "inventory"
          THEN q.rows
          ELSE IF pending # {}
          THEN IF n = 0 THEN Superseded(q.rows, {last})
               ELSE IF n = s.p.supply THEN q.rows ELSE [q.rows EXCEPT ![last] = r]
          ELSE IF notify /\ s.p.known /\ n > s.p.supply THEN new
          ELSE q.rows
    OBVIOUS
  <1>15. /\ ApplySupplierStock(s, n, notify) = [q EXCEPT !.rows = rows]
         /\ silent => rows = Superseded(q.rows, pending)
         /\ ~silent /\ heard => rows = q.rows
         /\ ~silent /\ ~heard /\ pending # {} =>
              rows = IF n = 0 THEN Superseded(q.rows, {last})
                     ELSE IF n = s.p.supply THEN q.rows ELSE [q.rows EXCEPT ![last] = r]
         /\ ~silent /\ ~heard /\ pending = {} =>
              rows = IF notify /\ s.p.known /\ n > s.p.supply THEN new ELSE q.rows
    <2>1. ApplySupplierStock(s, n, notify) = [q EXCEPT !.rows = rows]
      BY <1>5, <1>6, <1>8, <1>9, <1>10, <1>12, <1>14 DEF ApplySupplierStock
    <2> QED BY <1>13, <1>14, <2>1
  <1>16. ApplySupplierStock(s, n, notify).p = q.p /\ ApplySupplierStock(s, n, notify).rows = rows
    BY <1>7, <1>15 DEF States
  <1>17. ASSUME ~notify \/ ~(n > s.p.supply) PROVE DOMAIN rows = DOMAIN s.rows
    <2>1. \A set : DOMAIN Superseded(q.rows, set) = DOMAIN q.rows
      BY DEF Superseded
    <2> QED BY <1>7, <1>15, <1>17, <2>1
  <1>18. ASSUME notify, s.p.known, n > s.p.supply PROVE InLineOf(q.p, rows)
    <2>1. CASE silent
      BY <1>13, <2>1 DEF InLineOf
    <2>2. CASE ~silent /\ heard
      <3>1. rows = q.rows
        BY <1>15, <2>2
      <3>2. With(q.rows, "stock", {"pending", "sending"}) # {}
        <4>1. CASE ManualActive(q.rows)
          BY <4>1 DEF ManualActive, Automatic
        <4>2. CASE \E i \in pending : q.rows[i].by = "inventory"
          BY <1>8, <4>2 DEF Automatic, With
        <4> QED BY <1>13, <2>2, <4>1, <4>2
      <3> QED BY <3>1, <3>2 DEF InLineOf
    <2>3. CASE ~silent /\ ~heard /\ pending # {}
      <3>1. rows = [q.rows EXCEPT ![last] = r]
        BY <1>1, <1>15, <1>18, <2>3
      <3>2. q.rows[last] \in NoticeRow /\ last \in DOMAIN q.rows
        BY <1>7, <1>11, <2>3
      <3>3. q.rows[last].kind = "stock" /\ q.rows[last].status = "pending"
        BY <1>8, <1>11, <2>3 DEF Automatic, With
      <3>4. r.kind = "stock" /\ r.status = "pending"
        BY <1>10, <3>2, <3>3 DEF NoticeRow
      <3>5. rows[last] = r /\ last \in DOMAIN rows
        BY <3>1, <3>2
      <3> QED BY <3>4, <3>5 DEF InLineOf, With
    <2>4. CASE ~silent /\ ~heard /\ pending = {}
      <3>1. rows = new
        BY <1>15, <1>18, <2>4
      <3>2. PICK a : a = Notice("stock", "supplier", s.p.supply, n)
        OBVIOUS
      <3>3. a.kind = "stock" /\ a.status = "pending"
        BY <3>2 DEF Notice
      <3>4. PICK k : k = Len(q.rows) + 1
        OBVIOUS
      <3>5. rows = Append(q.rows, a)
        BY <1>12, <3>1, <3>2
      <3>6. rows[k] = a /\ k \in DOMAIN rows
        BY <1>7, <3>4, <3>5
      <3> QED BY <3>3, <3>6 DEF InLineOf, With
    <2> QED BY <2>1, <2>2, <2>3, <2>4
  <1> QED BY <1>7, <1>16, <1>17, <1>18
-----------------------------------------------------------------------------
(***************************************************************************)
(* The operators on a transaction's state.                                  *)
(***************************************************************************)
\* t continues s: the rows follow, and only the product's figures differ
Leads(s, t) ==
    /\ t \in SyncStates /\ RowsSound(t.rows) /\ Follows(s.rows, t.rows)
    /\ t.off = s.off /\ t.seen = s.seen /\ t.gpt = s.gpt
    /\ t.p.mode = s.p.mode /\ t.p.forced = s.p.forced

LEMMA LeadsOn ==
    ASSUME NEW s \in SyncStates, NEW t, NEW u, Leads(s, t), Leads(t, u)
    PROVE  Leads(s, u)
  <1>1. s.rows \in Seq(NoticeRow)
    BY DEF SyncStates
  <1>2. Follows(s.rows, u.rows)
    BY <1>1, FollowsOn DEF Leads
  <1> QED BY <1>2 DEF Leads

LEMMA ReleaseLeads ==
    ASSUME NEW s \in SyncStates, RowsSound(s.rows), NEW t, t = Release(s)
    PROVE  Leads(s, t) /\ SameTerms(s.p, t.p) /\ NoStock(s.rows, t.rows)
  <1>1. PICK c : c = Core(s)
    OBVIOUS
  <1>2. c \in States /\ c.p = s.p /\ c.rows = s.rows
    BY <1>1, CoreIs
  <1>3. PICK d : d = Release(c)
    OBVIOUS
  <1>4. d \in States /\ Follows(s.rows, d.rows) /\ RowsSound(d.rows)
    <2>1. Continues(c, d)
      BY <1>2, <1>3, ReleaseContinues
    <2> QED BY <1>2, <2>1, SoundFollows DEF Continues
  <1>5. DOMAIN d.rows = DOMAIN s.rows /\ SameTerms(s.p, d.p)
    BY <1>2, <1>3, ReleaseStays
  <1>6. t = Around(s, d)
    BY <1>1, <1>3, ReleaseCore
  <1>7. /\ t \in SyncStates /\ t.p = d.p /\ t.rows = d.rows
        /\ t.off = s.off /\ t.seen = s.seen /\ t.gpt = s.gpt
    BY <1>4, <1>6, AroundIs
  <1>8. NoStock(s.rows, t.rows)
    BY <1>5, <1>7, SameRows
  <1> QED BY <1>4, <1>5, <1>7, <1>8 DEF Leads, SameTerms

LEMMA PriceLeads ==
    ASSUME NEW s \in SyncStates, RowsSound(s.rows), NEW cost \in Price,
           NEW t, t = ApplySupplierPrice(s, cost)
    PROVE  Leads(s, t) /\ SameTerms(s.p, t.p) /\ NoStock(s.rows, t.rows)
  <1>1. PICK c : c = Core(s)
    OBVIOUS
  <1>2. c \in States /\ c.p = s.p /\ c.rows = s.rows
    BY <1>1, CoreIs
  <1>3. PICK d : d = ApplySupplierPrice(c, cost)
    OBVIOUS
  <1>4. d \in States /\ Follows(s.rows, d.rows) /\ RowsSound(d.rows)
    <2>1. Continues(c, d)
      BY <1>2, <1>3, PriceContinues
    <2> QED BY <1>2, <2>1, SoundFollows DEF Continues
  <1>5. NoStock(s.rows, d.rows) /\ SameTerms(s.p, d.p)
    BY <1>2, <1>3, PriceStays
  <1>6. t = Around(s, d)
    BY <1>1, <1>3, PriceCore
  <1>7. /\ t \in SyncStates /\ t.p = d.p /\ t.rows = d.rows
        /\ t.off = s.off /\ t.seen = s.seen /\ t.gpt = s.gpt
    BY <1>4, <1>6, AroundIs
  <1> QED BY <1>4, <1>5, <1>7 DEF Leads, SameTerms

LEMMA StockLeads ==
    ASSUME NEW s \in SyncStates, RowsSound(s.rows), NEW n \in Nat, NEW notify \in BOOLEAN,
           NEW t, t = ApplySupplierStock(s, n, notify)
    PROVE  /\ Leads(s, t) /\ t.p.supply = n /\ t.p.gone = s.p.gone
           /\ ~notify \/ ~(n > s.p.supply) => NoStock(s.rows, t.rows)
           /\ notify /\ s.p.known /\ n > s.p.supply => InLineOf(t.p, t.rows)
  <1>1. PICK c : c = Core(s)
    OBVIOUS
  <1>2. c \in States /\ c.p = s.p /\ c.rows = s.rows /\ RowsSound(c.rows)
    BY <1>1, CoreIs
  <1>3. PICK d : d = ApplySupplierStock(c, n, notify)
    OBVIOUS
  <1>4. d \in States /\ Follows(c.rows, d.rows) /\ d.p.gone = c.p.gone /\ d.p.supply = n
    BY <1>2, <1>3, StockContinues
  <1>5. RowsSound(d.rows)
    BY <1>2, <1>4, SoundFollows
  <1>6. /\ d.p.mode = c.p.mode /\ d.p.forced = c.p.forced
        /\ ~notify \/ ~(n > c.p.supply) => DOMAIN d.rows = DOMAIN c.rows
        /\ notify /\ c.p.known /\ n > c.p.supply => InLineOf(d.p, d.rows)
    BY <1>2, <1>3, StockStays
  <1>7. t = Around(s, d)
    BY <1>1, <1>3, StockCore
  <1>8. /\ t \in SyncStates /\ t.p = d.p /\ t.rows = d.rows
        /\ t.off = s.off /\ t.seen = s.seen /\ t.gpt = s.gpt
    BY <1>4, <1>7, AroundIs
  <1> QED BY <1>2, <1>4, <1>5, <1>6, <1>8, SameRows DEF Leads

\* What was sold since the suppliers were asked is forgotten.
LEMMA GoneLeads ==
    ASSUME NEW s \in SyncStates, RowsSound(s.rows), NEW n \in Nat,
           NEW t, t = [s EXCEPT !.p.gone = n]
    PROVE  /\ Leads(s, t) /\ t.rows = s.rows /\ t.p.gone = n
           /\ t.p.supply = s.p.supply /\ t.p.known = s.p.known
  <1>1. s.p \in ProductRow /\ s.rows \in Seq(NoticeRow)
    BY DEF SyncStates
  <1>2. PICK p : p = [s.p EXCEPT !.gone = n]
    OBVIOUS
  <1>3. /\ p \in ProductRow /\ p.gone = n /\ p.supply = s.p.supply /\ p.known = s.p.known
        /\ p.mode = s.p.mode /\ p.forced = s.p.forced
    BY <1>1, <1>2 DEF ProductRow
  <1>4. t = [s EXCEPT !.p = p]
    BY <1>2
  <1>5. /\ t \in SyncStates /\ t.p = p /\ t.rows = s.rows
        /\ t.off = s.off /\ t.seen = s.seen /\ t.gpt = s.gpt
    BY <1>3, <1>4 DEF SyncStates
  <1>6. Follows(s.rows, t.rows)
    BY <1>1, <1>5, FollowsItself
  <1> QED BY <1>3, <1>5, <1>6 DEF Leads

-----------------------------------------------------------------------------
(***************************************************************************)
(* What a refresh leaves.                                                   *)
(***************************************************************************)
SellersTyped ==
    /\ clients \subseteq Supplier
    /\ seller \in [Supplier -> [wallet: Nat, goods: Nat, owes: Nat]]
    /\ books \in [Supplier -> [last: Nat, bought: Nat]]

Total(routes) == SumOver(routes, [s \in Supplier |-> Effective(s)])
Announced(st, routes) == {s \in routes \cap Second : Ready(st, s, Total(routes))}
Topped(st, routes) == "lehai" \in routes /\ ToppedUp(st)
SeenAfter(st, routes) ==
    [s \in Supplier |->
        IF s \notin routes THEN st.seen[s]
        ELSE IF s = "lehai" THEN [st.seen[s] EXCEPT !.wallet = seller[s].wallet]
        ELSE [Tracked(st, s) EXCEPT !.armed = @ /\ s \notin Announced(st, routes)]]

\* end is what a refresh that these suppliers answered leaves of st
Leaves(st, end, routes) ==
    /\ routes \subseteq Supplier
    /\ end \in SyncStates /\ RowsSound(end.rows) /\ Follows(st.rows, end.rows)
    /\ end.off = st.off /\ end.p.gone <= end.p.supply
    /\ end.seen = SeenAfter(st, routes)
    /\ st.p.mode # "always" /\ Announced(st, routes) = {} /\ ~Topped(st, routes)
         => NoStock(st.rows, end.rows)
    /\ st.p.known /\ Announced(st, routes) # {} => InLineOf(end.p, end.rows) \/ end.gpt

LEMMA LessOfTwo ==
    ASSUME NEW a \in Int, NEW b \in Int
    PROVE  Min({a, b}) = IF a <= b THEN a ELSE b
  <1>1. PICK m : m = IF a <= b THEN a ELSE b
    OBVIOUS
  <1>2. m \in {a, b} /\ \A y \in {a, b} : m <= y
    BY <1>1
  <1>3. PICK x \in {a, b} : x = Min({a, b}) /\ \A y \in {a, b} : x <= y
    BY <1>2 DEF Min
  <1>4. x <= m /\ m <= x /\ x \in Int /\ m \in Int
    BY <1>2, <1>3
  <1> QED BY <1>1, <1>3, <1>4

LEMMA EffectiveNat ==
    ASSUME SellersTyped, NEW s \in Supplier
    PROVE  /\ Effective(s) \in Nat
           /\ Effective(s) <= seller[s].wallet /\ Effective(s) <= seller[s].goods
           /\ seller[s].wallet \in Nat /\ seller[s].goods \in Nat
  <1>1. seller[s].wallet \in Nat /\ seller[s].goods \in Nat
    BY DEF SellersTyped
  <1>2. PICK a, b : a = seller[s].goods /\ b = seller[s].wallet
    OBVIOUS
  <1>3. Effective(s) = Min({a, b}) /\ a \in Nat /\ b \in Nat
    BY <1>1, <1>2 DEF Effective
  <1>4. Min({a, b}) = IF a <= b THEN a ELSE b
    BY <1>3, LessOfTwo
  <1> QED BY <1>1, <1>2, <1>3, <1>4

\* What the suppliers have together is at least what each of them has.
LEMMA TotalNat ==
    ASSUME SellersTyped, NEW routes \in SUBSET Supplier
    PROVE  Total(routes) \in Nat /\ \A s \in routes : Effective(s) <= Total(routes)
  <1>1. PICK f : f = [s \in Supplier |-> Effective(s)]
    OBVIOUS
  <1>2. Total(routes) = SumOver(routes, f)
    BY <1>1 DEF Total
  <1>3. \A s \in routes : f[s] = Effective(s) /\ f[s] \in Nat
    BY <1>1, EffectiveNat
  <1>4. IsFiniteSet(routes)
    <2>1. IsFiniteSet({"lehai"} \cup {"canboso"} \cup {"haji"})
      BY FS_Singleton, FS_Union
    <2>2. Supplier = {"lehai"} \cup {"canboso"} \cup {"haji"}
      BY DEF Supplier
    <2> QED BY <2>1, <2>2, FS_Subset
  <1>5. IsFiniteSet(Pairs(routes, f)) /\ SumOver(routes, f) \in Nat
    BY <1>3, <1>4, PairsFinite
  <1>6. ASSUME NEW s \in routes PROVE f[s] <= SumOver(routes, f)
    <2>1. PICK C : C = {s} \X (1 .. f[s])
      OBVIOUS
    <2>2. IsFiniteSet(C) /\ Cardinality(C) = f[s]
      BY <1>3, <2>1, Column
    <2>3. C \subseteq Pairs(routes, f)
      BY <2>1 DEF Pairs
    <2>4. Cardinality(C) <= Cardinality(Pairs(routes, f))
      BY <1>5, <2>3, FS_Subset
    <2> QED BY <2>2, <2>4 DEF SumOver
  <1> QED BY <1>2, <1>3, <1>5, <1>6

LEMMA TrackedIs ==
    ASSUME SellersTyped, NEW st \in SyncStates, NEW s \in Supplier
    PROVE  /\ Tracked(st, s) \in SeenRow
           /\ Tracked(st, s).wallet = seller[s].wallet /\ Tracked(st, s).news = FALSE
           /\ Tracked(st, s).armed <=>
                \/ st.seen[s].armed \/ st.seen[s].news
                \/ seller[s].wallet > st.seen[s].wallet
                \/ seller[s].wallet > books[s].last
  <1>1. st.seen[s] \in SeenRow /\ seller[s].wallet \in Nat
    BY EffectiveNat DEF SyncStates
  <1>2. st.seen[s].armed \in BOOLEAN /\ st.seen[s].news \in BOOLEAN
    BY <1>1 DEF SeenRow
  <1> QED BY <1>1, <1>2 DEF Tracked, SeenRow

LEMMA SeenTyped ==
    ASSUME SellersTyped, NEW st \in SyncStates, NEW routes \in SUBSET Supplier
    PROVE  SeenAfter(st, routes) \in [Supplier -> SeenRow]
  <1> SUFFICES ASSUME NEW s \in Supplier PROVE SeenAfter(st, routes)[s] \in SeenRow
    BY DEF SeenAfter
  <1>1. st.seen[s] \in SeenRow /\ Tracked(st, s) \in SeenRow /\ seller[s].wallet \in Nat
    BY TrackedIs, EffectiveNat DEF SyncStates
  <1>2. PICK x, y : /\ x = [st.seen[s] EXCEPT !.wallet = seller[s].wallet]
                    /\ y = [Tracked(st, s) EXCEPT !.armed = @ /\ s \notin Announced(st, routes)]
    OBVIOUS
  <1>3. x \in SeenRow
    BY <1>1, <1>2 DEF SeenRow
  <1>4. y \in SeenRow
    BY <1>1, <1>2 DEF SeenRow
  <1> QED BY <1>1, <1>2, <1>3, <1>4 DEF SeenAfter

\* Who did not answer is not looked at.
LEMMA NobodySeen ==
    ASSUME NEW st \in SyncStates
    PROVE  SeenAfter(st, {}) = st.seen /\ Announced(st, {}) = {} /\ ~Topped(st, {})
  BY DEF SeenAfter, Announced, Topped, SyncStates

LEMMA KeptLeaves ==
    ASSUME NEW st \in SyncStates, RowsSound(st.rows)
    PROVE  Leaves(st, Kept(st), {})
  <1>1. PICK t : t = [st EXCEPT !.p.gone = 0]
    OBVIOUS
  <1>2. Leads(st, t) /\ t.rows = st.rows /\ t.p.gone = 0
    BY <1>1, GoneLeads
  <1>3. t.p.supply \in Nat
    BY <1>2, ProductFields DEF Leads, SyncStates
  <1>4. NoStock(st.rows, t.rows)
    BY <1>2, SameRows
  <1>5. Kept(st) = t
    BY <1>1 DEF Kept
  <1> QED BY <1>2, <1>3, <1>4, <1>5, NobodySeen DEF Leaves, Leads

LEMMA EmptiedLeaves ==
    ASSUME NEW st \in SyncStates, RowsSound(st.rows)
    PROVE  Leaves(st, Emptied(st), {})
  <1>1. PICK t : t = [st EXCEPT !.p.gone = 0]
    OBVIOUS
  <1>2. Leads(st, t) /\ t.rows = st.rows /\ t.p.gone = 0 /\ t \in SyncStates /\ RowsSound(t.rows)
    <2>1. Leads(st, t) /\ t.rows = st.rows /\ t.p.gone = 0
      BY <1>1, GoneLeads
    <2> QED BY <2>1 DEF Leads
  <1>3. PICK q : q = ApplySupplierStock(t, 0, TRUE)
    OBVIOUS
  <1>4. t.p.supply \in Nat
    BY <1>2, ProductFields DEF SyncStates
  <1>5. /\ Leads(t, q) /\ q.p.supply = 0 /\ q.p.gone = t.p.gone
        /\ ~(0 > t.p.supply) => NoStock(t.rows, q.rows)
    <2>1. PICK n, y : n = 0 /\ y = TRUE
      OBVIOUS
    <2>2. n \in Nat /\ y \in BOOLEAN /\ q = ApplySupplierStock(t, n, y)
      BY <1>3, <2>1
    <2>3. /\ Leads(t, q) /\ q.p.supply = n /\ q.p.gone = t.p.gone
          /\ ~y \/ ~(n > t.p.supply) => NoStock(t.rows, q.rows)
      BY <1>2, <2>2, StockLeads
    <2> QED BY <2>1, <2>3
  <1>6. NoStock(st.rows, q.rows)
    BY <1>2, <1>4, <1>5
  <1>7. Leads(st, q)
    BY <1>2, <1>5, LeadsOn
  <1>8. Emptied(st) = q
    BY <1>1, <1>3 DEF Emptied
  <1>9. q.p.gone <= q.p.supply
    BY <1>2, <1>5
  <1> QED BY <1>6, <1>7, <1>8, <1>9, NobodySeen DEF Leaves, Leads

LEMMA PricedLeads ==
    ASSUME NEW st \in SyncStates, RowsSound(st.rows), NEW cost \in Price \cup {0},
           NEW t, t = IF cost = 0 THEN st ELSE ApplySupplierPrice(st, cost)
    PROVE  Leads(st, t) /\ SameTerms(st.p, t.p) /\ NoStock(st.rows, t.rows)
  <1>1. CASE cost = 0
    <2>1. t = st /\ st.rows \in Seq(NoticeRow)
      BY <1>1 DEF SyncStates
    <2>2. Follows(st.rows, t.rows)
      BY <2>1, FollowsItself
    <2> QED BY <2>1, <2>2, SameRows DEF Leads, SameTerms
  <1>2. CASE cost # 0
    <2>1. cost \in Price /\ t = ApplySupplierPrice(st, cost)
      BY <1>2
    <2> QED BY <2>1, PriceLeads
  <1> QED BY <1>1, <1>2

\* GPT Plus is told instead: the product's own alerts are taken back.
LEMMA RouteLeaves ==
    ASSUME NEW st \in SyncStates, RowsSound(st.rows), NEW t, t = Route(st)
    PROVE  /\ t \in SyncStates /\ RowsSound(t.rows) /\ Follows(st.rows, t.rows)
           /\ DOMAIN t.rows = DOMAIN st.rows
           /\ t.p = st.p /\ t.off = st.off /\ t.seen = st.seen /\ t.gpt = TRUE
  <1>1. PICK rows : rows = Superseded(st.rows, Automatic(st.rows, {"pending"}))
    OBVIOUS
  <1>2. Follows(st.rows, rows)
    <2>1. PICK statuses : statuses = {"pending"}
      OBVIOUS
    <2>2. statuses \in SUBSET {"pending", "sending"}
      BY <2>1
    <2>3. rows = Superseded(st.rows, Automatic(st.rows, statuses))
      BY <1>1, <2>1
    <2>4. \A i \in Automatic(st.rows, statuses) \cap DOMAIN st.rows :
             /\ st.rows[i].status \in {"pending", "sending"}
             /\ st.rows[i].kind # "broadcast" /\ st.rows[i].by # "manual"
      BY <2>1 DEF Automatic, With
    <2> QED BY <2>3, <2>4, SupersededFollows DEF RowsSound
  <1>3. RowsSound(rows) /\ rows \in Seq(NoticeRow)
    BY <1>2, SoundFollows DEF Follows
  <1>4. t = [st EXCEPT !.gpt = TRUE, !.rows = rows]
    BY <1>1 DEF Route
  <1>5. /\ t \in SyncStates /\ t.rows = rows
        /\ t.p = st.p /\ t.off = st.off /\ t.seen = st.seen /\ t.gpt = TRUE
    BY <1>3, <1>4 DEF SyncStates
  <1>6. DOMAIN rows = DOMAIN st.rows
    BY <1>1 DEF Superseded
  <1> QED BY <1>2, <1>3, <1>5, <1>6

LEMMA PublishLeaves ==
    ASSUME SellersTyped, NEW st \in SyncStates, RowsSound(st.rows),
           NEW routes \in SUBSET Supplier, NEW cost \in Price \cup {0},
           NEW toGpt \in BOOLEAN, NEW end, end = Publish(st, routes, cost, toGpt)
    PROVE  Leaves(st, end, routes) /\ end.p.gone = 0 /\ end.p.supply = Total(routes)
  <1>1. PICK total, ready, topped, notify :
           /\ total = Total(routes)
           /\ ready = Announced(st, routes)
           /\ topped = Topped(st, routes)
           /\ notify = (st.p.mode = "always" \/ ready # {} \/ (topped /\ ~toGpt))
    OBVIOUS
  <1>2. total \in Nat /\ notify \in BOOLEAN /\ topped \in BOOLEAN
    <2>1. total \in Nat
      BY <1>1, TotalNat
    <2>2. notify \in BOOLEAN
      BY <1>1
    <2>3. topped \in BOOLEAN
      BY <1>1 DEF Topped
    <2> QED BY <2>1, <2>2, <2>3
  <1>3. PICK priced : priced = IF cost = 0 THEN st ELSE ApplySupplierPrice(st, cost)
    OBVIOUS
  <1>4. /\ priced \in SyncStates /\ RowsSound(priced.rows) /\ Leads(st, priced)
        /\ SameTerms(st.p, priced.p) /\ NoStock(st.rows, priced.rows)
    <2>1. Leads(st, priced) /\ SameTerms(st.p, priced.p) /\ NoStock(st.rows, priced.rows)
      BY <1>3, PricedLeads
    <2> QED BY <2>1 DEF Leads
  <1>5. PICK flat : flat = [priced EXCEPT !.p.gone = 0]
    OBVIOUS
  <1>6. /\ flat \in SyncStates /\ RowsSound(flat.rows) /\ Leads(priced, flat)
        /\ flat.rows = priced.rows /\ flat.p.gone = 0
        /\ flat.p.supply = st.p.supply /\ flat.p.known = st.p.known
    <2>1. /\ Leads(priced, flat) /\ flat.rows = priced.rows /\ flat.p.gone = 0
          /\ flat.p.supply = priced.p.supply /\ flat.p.known = priced.p.known
      BY <1>4, <1>5, GoneLeads
    <2> QED BY <1>4, <2>1 DEF Leads, SameTerms
  <1>7. PICK stocked : stocked = ApplySupplierStock(flat, total, notify)
    OBVIOUS
  <1>8. /\ Leads(flat, stocked) /\ stocked.p.supply = total /\ stocked.p.gone = 0
        /\ ~notify => NoStock(flat.rows, stocked.rows)
        /\ notify /\ st.p.known /\ total > st.p.supply => InLineOf(stocked.p, stocked.rows)
    <2>1. /\ Leads(flat, stocked) /\ stocked.p.supply = total /\ stocked.p.gone = flat.p.gone
          /\ ~notify \/ ~(total > flat.p.supply) => NoStock(flat.rows, stocked.rows)
          /\ notify /\ flat.p.known /\ total > flat.p.supply
               => InLineOf(stocked.p, stocked.rows)
      BY <1>2, <1>6, <1>7, StockLeads
    <2> QED BY <1>6, <2>1
  <1>9. Leads(st, stocked) /\ stocked \in SyncStates /\ RowsSound(stocked.rows)
    <2>1. Leads(st, flat)
      BY <1>4, <1>6, LeadsOn
    <2>2. Leads(st, stocked)
      BY <1>8, <2>1, LeadsOn
    <2> QED BY <2>2 DEF Leads
  <1>10. ~notify => NoStock(st.rows, stocked.rows)
    <2> SUFFICES ASSUME ~notify PROVE NoStock(st.rows, stocked.rows)
      OBVIOUS
    <2>1. NoStock(flat.rows, stocked.rows) /\ NoStock(st.rows, flat.rows)
      BY <1>4, <1>6, <1>8
    <2>2. Follows(flat.rows, stocked.rows) /\ flat.rows \in Seq(NoticeRow)
      BY <1>6, <1>8 DEF Leads, SyncStates
    <2> QED BY <2>1, <2>2, NoStockOn
  <1>11. PICK routed : routed = IF topped /\ toGpt THEN Route(stocked) ELSE stocked
    OBVIOUS
  <1>12. /\ routed \in SyncStates /\ RowsSound(routed.rows) /\ Follows(st.rows, routed.rows)
         /\ routed.p = stocked.p /\ routed.off = st.off /\ routed.seen = st.seen
         /\ ~notify => NoStock(st.rows, routed.rows)
         /\ routed.gpt \/ routed.rows = stocked.rows
    <2>1. CASE topped /\ toGpt
      <3>1. routed = Route(stocked)
        BY <1>11, <2>1
      <3>2. /\ routed \in SyncStates /\ RowsSound(routed.rows)
            /\ Follows(stocked.rows, routed.rows) /\ DOMAIN routed.rows = DOMAIN stocked.rows
            /\ routed.p = stocked.p /\ routed.off = stocked.off
            /\ routed.seen = stocked.seen /\ routed.gpt = TRUE
        BY <1>9, <3>1, RouteLeaves
      <3>3. Follows(st.rows, stocked.rows) /\ st.rows \in Seq(NoticeRow)
            /\ stocked.rows \in Seq(NoticeRow)
        BY <1>9 DEF Leads, SyncStates
      <3>4. Follows(st.rows, routed.rows)
        BY <3>2, <3>3, FollowsOn
      <3>5. ~notify => NoStock(st.rows, routed.rows)
        BY <1>10, <3>2, <3>3, NoStockOn, SameRows
      <3> QED BY <1>9, <3>2, <3>4, <3>5 DEF Leads
    <2>2. CASE ~(topped /\ toGpt)
      BY <1>9, <1>10, <1>11, <2>2 DEF Leads
    <2> QED BY <2>1, <2>2
  <1>13. end = [routed EXCEPT !.seen = SeenAfter(st, routes)]
    <2>1. PICK look : look =
            [s \in Supplier |->
              IF s \notin routes THEN routed.seen[s]
              ELSE IF s = "lehai" THEN [routed.seen[s] EXCEPT !.wallet = seller[s].wallet]
              ELSE [Tracked(st, s) EXCEPT !.armed = @ /\ s \notin ready]]
      OBVIOUS
    <2>2. end = [routed EXCEPT !.seen = look]
      BY <1>1, <1>3, <1>5, <1>7, <1>11, <2>1 DEF Publish, Total, Announced, Topped
    <2>3. look = SeenAfter(st, routes)
      BY <1>1, <1>12, <2>1 DEF SeenAfter
    <2> QED BY <2>2, <2>3
  <1>14. SeenAfter(st, routes) \in [Supplier -> SeenRow]
    BY SeenTyped
  <1>15. /\ end \in SyncStates /\ end.p = stocked.p /\ end.rows = routed.rows
         /\ end.off = st.off /\ end.seen = SeenAfter(st, routes) /\ end.gpt = routed.gpt
    BY <1>12, <1>13, <1>14 DEF SyncStates
  <1>16. ASSUME st.p.mode # "always", Announced(st, routes) = {}, ~Topped(st, routes)
         PROVE  NoStock(st.rows, end.rows)
    BY <1>1, <1>12, <1>15, <1>16
  <1>17. ASSUME st.p.known, Announced(st, routes) # {}
         PROVE  InLineOf(end.p, end.rows) \/ end.gpt
    <2>1. notify
      BY <1>1, <1>17
    <2>2. total > st.p.supply
      BY <1>1, <1>17 DEF Announced, Ready
    <2> QED BY <1>8, <1>12, <1>15, <1>17, <2>1, <2>2
  <1>18. end.p.gone = 0 /\ end.p.supply = total /\ end.p.gone <= end.p.supply
    BY <1>2, <1>8, <1>15
  <1> QED BY <1>1, <1>12, <1>15, <1>16, <1>17, <1>18 DEF Leaves

\* A lock that is released first changes nothing of this.
LEMMA LeavesOn ==
    ASSUME NEW st \in SyncStates, NEW now \in SyncStates, NEW end, NEW routes,
           Leads(st, now), SameTerms(st.p, now.p), NoStock(st.rows, now.rows),
           Leaves(now, end, routes)
    PROVE  Leaves(st, end, routes)
  <1>1. now.off = st.off /\ now.seen = st.seen /\ now.p.supply = st.p.supply
    BY DEF Leads, SameTerms
  <1>2. \A s : Tracked(now, s) = Tracked(st, s)
    BY <1>1 DEF Tracked
  <1>3. Announced(now, routes) = Announced(st, routes)
    BY <1>1, <1>2 DEF Announced, Ready
  <1>4. Topped(now, routes) = Topped(st, routes)
    BY <1>1 DEF Topped, ToppedUp
  <1>5. SeenAfter(now, routes) = SeenAfter(st, routes)
    BY <1>1, <1>2, <1>3 DEF SeenAfter
  <1>6. /\ st.rows \in Seq(NoticeRow) /\ now.rows \in Seq(NoticeRow)
        /\ Follows(st.rows, now.rows) /\ Follows(now.rows, end.rows)
    BY DEF Leads, Leaves, SyncStates
  <1>7. Follows(st.rows, end.rows)
    BY <1>6, FollowsOn
  <1>8. NoStock(now.rows, end.rows) => NoStock(st.rows, end.rows)
    BY <1>6, NoStockOn
  <1> QED BY <1>1, <1>3, <1>4, <1>5, <1>7, <1>8 DEF Leaves, SameTerms

\* Nor does the alert of a price that fell, when a switch forgot the stock.
LEMMA AdminDropLeaves ==
    ASSUME NEW st \in SyncStates, ~st.p.known, NEW end, NEW routes, Leaves(st, end, routes),
           NEW before \in Int, NEW fin, fin = QueueAdminDrop(end, before)
    PROVE  Leaves(st, fin, routes) /\ fin.seen = end.seen
  <1>1. /\ end \in SyncStates /\ RowsSound(end.rows) /\ Follows(st.rows, end.rows)
        /\ end.p.gone <= end.p.supply
    BY DEF Leaves
  <1>2. PICK c, d : c = Core(end) /\ d = QueueAdminDrop(c, before)
    OBVIOUS
  <1>3. c \in States /\ c.p = end.p /\ c.rows = end.rows
    BY <1>1, <1>2, CoreIs
  <1>4. d \in States /\ Follows(c.rows, d.rows)
    <2>1. RowsSound(c.rows)
      BY <1>1, <1>3
    <2> QED BY <1>2, <1>3, <2>1, AdminDropContinues DEF Continues
  <1>5. NoStock(c.rows, d.rows) /\ d.p = c.p
    BY <1>2, <1>3, AdminDropStays
  <1>6. fin = Around(end, d)
    BY <1>1, <1>2, AdminDropCore
  <1>7. /\ fin \in SyncStates /\ fin.p = end.p /\ fin.rows = d.rows
        /\ fin.off = end.off /\ fin.seen = end.seen
    BY <1>1, <1>3, <1>4, <1>5, <1>6, AroundIs
  <1>8. /\ st.rows \in Seq(NoticeRow) /\ end.rows \in Seq(NoticeRow)
        /\ fin.rows \in Seq(NoticeRow) /\ Follows(end.rows, fin.rows)
        /\ NoStock(end.rows, fin.rows)
    BY <1>1, <1>3, <1>4, <1>5, <1>7 DEF SyncStates
  <1>9. Follows(st.rows, fin.rows) /\ RowsSound(fin.rows)
    BY <1>1, <1>8, FollowsOn, SoundFollows
  <1>10. NoStock(st.rows, end.rows) => NoStock(st.rows, fin.rows)
    BY <1>8, NoStockOn
  <1> QED BY <1>1, <1>7, <1>9, <1>10 DEF Leaves

LEMMA AnchorPrice ==
    ASSUME NEW st, NEW routes \in SUBSET Supplier, routes # {}
    PROVE  Anchor(st, routes) \in Price \cup {0}
  <1>1. \A s \in Supplier : Quote[s] \in Price /\ Quote[s] \in Nat
    BY QuoteAssumption, PriceNat
  <1>2. "canboso" \in Supplier /\ "haji" \in Supplier
    BY DEF Supplier
  <1>3. PICK S : S = {Quote[s] : s \in routes}
    OBVIOUS
  <1>4. S \in SUBSET Nat /\ S # {} /\ S \subseteq Price
    BY <1>1, <1>3
  <1>5. Min(S) \in Price
    BY <1>4, LeastIn
  <1> QED BY <1>1, <1>2, <1>3, <1>5 DEF Anchor

LEMMA SwitchedOffLeaves ==
    ASSUME NEW st \in SyncStates, RowsSound(st.rows), NEW end,
           end = [st EXCEPT !.p.gone = st.p.supply]
    PROVE  Leaves(st, end, {})
  <1>1. st.p.supply \in Nat
    BY ProductFields DEF SyncStates
  <1>2. PICK n : n = st.p.supply
    OBVIOUS
  <1>3. n \in Nat /\ end = [st EXCEPT !.p.gone = n]
    BY <1>1, <1>2
  <1>4. Leads(st, end) /\ end.rows = st.rows /\ end.p.gone = n /\ end.p.supply = st.p.supply
    BY <1>3, GoneLeads
  <1>5. NoStock(st.rows, end.rows)
    BY <1>4, SameRows
  <1> QED BY <1>1, <1>2, <1>4, <1>5, NobodySeen DEF Leaves, Leads

\* what a refresh does, when these suppliers answered and brought this
Brings(st, end, ans, fetched, routes) ==
    /\ Leaves(st, end, routes)
    /\ fetched /\ Routes(st, ans) # {} =>
          routes = Routes(st, ans) /\ end.p.gone = 0 /\ end.p.supply = Total(routes)

LEMMA RefreshBrings ==
    ASSUME SellersTyped, "lehai" \in clients, NEW st \in SyncStates, RowsSound(st.rows),
           NEW fetched \in BOOLEAN, NEW ans, NEW toGpt \in BOOLEAN,
           NEW end, end = Refresh(st, fetched, ans, toGpt)
    PROVE  \E routes \in SUBSET Supplier : Brings(st, end, ans, fetched, routes)
  <1>1. PICK now : now = Release(st)
    OBVIOUS
  <1>2. /\ now \in SyncStates /\ RowsSound(now.rows) /\ Leads(st, now)
        /\ SameTerms(st.p, now.p) /\ NoStock(st.rows, now.rows) /\ now.off = st.off
    <2>1. Leads(st, now) /\ SameTerms(st.p, now.p) /\ NoStock(st.rows, now.rows)
      BY <1>1, ReleaseLeads
    <2> QED BY <2>1 DEF Leads
  <1>3. Routes(now, ans) = Routes(st, ans) /\ Routes(st, ans) \in SUBSET Supplier
        /\ Routes(st, ans) \subseteq Open(st)
    BY <1>2 DEF Routes, Open, SellersTyped
  <1>4. \A routes : Leaves(now, end, routes) => Leaves(st, end, routes)
    BY <1>2, LeavesOn
  <1>5. {} \in SUBSET Supplier /\ {"lehai"} \in SUBSET Supplier
    BY DEF Supplier
  <1>6. CASE st.off = Supplier
    <2>1. end = Emptied(now)
      BY <1>1, <1>6 DEF Refresh
    <2>2. Leaves(st, end, {})
      BY <1>2, <1>4, <2>1, EmptiedLeaves
    <2>3. Routes(st, ans) = {}
      BY <1>3, <1>6 DEF Open, SellersTyped
    <2> QED BY <1>5, <2>2, <2>3 DEF Brings
  <1>7. CASE st.off # Supplier /\ Several(st, fetched)
    <2>1. end = RefreshRoutes(now, ans, toGpt)
      BY <1>1, <1>7 DEF Refresh
    <2>2. CASE Routes(st, ans) # {}
      <3>1. PICK routes, cost : routes = Routes(st, ans) /\ cost = Anchor(now, routes)
        OBVIOUS
      <3>2. routes \in SUBSET Supplier /\ routes # {} /\ cost \in Price \cup {0}
        BY <1>3, <2>2, <3>1, AnchorPrice
      <3>3. end = Publish(now, routes, cost, toGpt)
        BY <1>3, <2>1, <2>2, <3>1 DEF RefreshRoutes
      <3>4. Leaves(now, end, routes) /\ end.p.gone = 0 /\ end.p.supply = Total(routes)
        BY <1>2, <3>2, <3>3, PublishLeaves
      <3>5. Leaves(st, end, routes)
        BY <1>4, <3>4
      <3> QED BY <3>1, <3>2, <3>4, <3>5 DEF Brings
    <2>3. CASE Routes(st, ans) = {}
      <3>1. end = Emptied(now) \/ end = Kept(now)
        BY <1>3, <2>1, <2>3 DEF RefreshRoutes
      <3>2. Leaves(st, end, {})
        BY <1>2, <1>4, <3>1, EmptiedLeaves, KeptLeaves
      <3> QED BY <1>5, <2>3, <3>2 DEF Brings
    <2> QED BY <2>2, <2>3
  <1>8. CASE st.off # Supplier /\ ~Several(st, fetched)
    <2>1. end = RefreshLeHai(now, ans, toGpt) /\ ~fetched
      BY <1>1, <1>8 DEF Refresh, Several
    <2>2. CASE "lehai" \in now.off
      <3>1. end = [now EXCEPT !.p.gone = now.p.supply]
        BY <2>1, <2>2 DEF RefreshLeHai
      <3>2. Leaves(st, end, {})
        BY <1>2, <1>4, <3>1, SwitchedOffLeaves
      <3> QED BY <1>5, <2>1, <3>2 DEF Brings
    <2>3. CASE "lehai" \notin now.off
      <3>1. PICK routes, cost : routes = {"lehai"} /\ cost = Quote["lehai"]
        OBVIOUS
      <3>2. routes \in SUBSET Supplier /\ cost \in Price \cup {0}
        BY <1>5, <3>1, QuoteAssumption
      <3>3. end = Emptied(now) \/ end = Kept(now) \/ end = Publish(now, routes, cost, toGpt)
        BY <2>1, <2>3, <3>1 DEF RefreshLeHai
      <3>4. CASE end = Emptied(now) \/ end = Kept(now)
        <4>1. Leaves(st, end, {})
          BY <1>2, <1>4, <3>4, EmptiedLeaves, KeptLeaves
        <4> QED BY <1>5, <2>1, <4>1 DEF Brings
      <3>5. CASE end = Publish(now, routes, cost, toGpt)
        <4>1. Leaves(now, end, routes)
          BY <1>2, <3>2, <3>5, PublishLeaves
        <4>2. Leaves(st, end, routes)
          BY <1>4, <4>1
        <4> QED BY <2>1, <3>2, <4>2 DEF Brings
      <3> QED BY <3>3, <3>4, <3>5
    <2> QED BY <2>2, <2>3
  <1> QED BY <1>6, <1>7, <1>8

-----------------------------------------------------------------------------
(***************************************************************************)
(* The inductive invariant.                                                 *)
(***************************************************************************)
SyncTyped ==
    /\ SellersTyped
    /\ "lehai" \in clients /\ off \subseteq Supplier
    /\ seen \in [Supplier -> SeenRow]
    /\ rests \subseteq clients /\ blocked \subseteq {"lehai", "canboso"}
    /\ failed \in BOOLEAN /\ gpt \in BOOLEAN
    /\ debits \in Seq(Nat) /\ \A r \in refunds : r.amount > 0
    /\ moved \subseteq {"topup", "repaid", "early", "bought"}
    /\ asked \in [Supplier -> Nat]
    /\ "refreshes" \in DOMAIN left /\ left.refreshes = 0

\* Le Hai's balance was seen as was, and is now: it grows only by what moved tells
\* of, and what alone is "repaid" is one account the audit finds as a debit, until
\* it records it as a refund
Repaid(was, now) ==
    /\ now = was + 1
    /\ \/ 1 \in ToSet(debits) /\ books["lehai"] = [last |-> was, bought |-> 0]
       \/ [amount |-> 1, before |-> was, after |-> now] \in refunds
MoneyTold ==
    LET was == seen["lehai"].wallet
        now == seller["lehai"].wallet
    IN /\ moved = {} /\ was >= 0 => now <= was
       /\ moved = {"repaid"} /\ was >= 0 /\ was < now => Repaid(was, now)
       /\ seller["lehai"].owes > 0 => moved \cap {"repaid", "early"} = {}

SyncInv == Inv /\ SyncTyped /\ MoneyTold

LEMMA StateTyped ==
    ASSUME Inv, SyncTyped
    PROVE  /\ State \in SyncStates /\ RowsSound(State.rows)
           /\ State.p = product /\ State.rows = notices /\ State.off = off
           /\ State.seen = seen /\ State.gpt = gpt
  BY DEF Inv, BookTypes, RowsSound, SyncTyped, SyncStates, State

\* a switched supplier: nothing is known any more of the stock and of Le Hai's balance
SwitchedState(s) ==
    [State EXCEPT
        !.p.supply = 0, !.p.gone = 0, !.p.known = FALSE,
        !.off = (off \ {s}) \cup ({s} \ off),
        !.seen["lehai"].wallet = -1]

LEMMA SwitchedTyped ==
    ASSUME Inv, SyncTyped, NEW s \in Supplier, NEW st, st = SwitchedState(s)
    PROVE  /\ st \in SyncStates /\ RowsSound(st.rows) /\ st.rows = notices
           /\ st.p.mode = product.mode /\ st.off # off /\ ~st.p.known
           /\ st.seen["lehai"].wallet = -1
           /\ \A x \in Second : st.seen[x] = seen[x]
  <1>1. /\ product \in ProductRow /\ RowsSound(notices) /\ notices \in Seq(NoticeRow)
        /\ off \subseteq Supplier /\ seen \in [Supplier -> SeenRow] /\ gpt \in BOOLEAN
    BY DEF Inv, BookTypes, RowsSound, SyncTyped
  <1>2. PICK p, o, r, f :
          /\ p = [product EXCEPT !.supply = 0, !.gone = 0, !.known = FALSE]
          /\ o = (off \ {s}) \cup ({s} \ off)
          /\ r = [seen["lehai"] EXCEPT !.wallet = -1]
          /\ f = [seen EXCEPT !["lehai"] = r]
    OBVIOUS
  <1>3. p \in ProductRow /\ p.mode = product.mode /\ ~p.known
    BY <1>1, <1>2 DEF ProductRow
  <1>4. o \in SUBSET Supplier /\ o # off
    BY <1>1, <1>2
  <1>5. "lehai" \in Supplier /\ "lehai" \notin Second
    BY DEF Supplier, Second
  <1>6. r \in SeenRow /\ r.wallet = -1
    BY <1>1, <1>2, <1>5 DEF SeenRow
  <1>7. f \in [Supplier -> SeenRow] /\ f["lehai"] = r /\ \A x \in Second : f[x] = seen[x]
    BY <1>1, <1>2, <1>5, <1>6 DEF Supplier, Second
  <1>8. st = [p |-> p, rows |-> notices, off |-> o, seen |-> f, gpt |-> gpt]
    BY <1>2 DEF SwitchedState, State
  <1> QED BY <1>1, <1>3, <1>4, <1>6, <1>7, <1>8 DEF SyncStates

\* What may still happen becomes less.
LEMMA LeftTyped ==
    ASSUME left \in [DOMAIN left -> Nat], "refreshes" \in DOMAIN left, left.refreshes = 0,
           NEW a \in Nat, a <= left.errors, NEW what, what # "refreshes",
           \/ left' = [left EXCEPT !.errors = @ - a]
           \/ /\ left' = [left EXCEPT !.errors = @ - a, ![what] = @ - 1]
              /\ what # "errors" /\ left[what] > 0
    PROVE  /\ left' \in [DOMAIN left' -> Nat]
           /\ "refreshes" \in DOMAIN left' /\ left'.refreshes = 0
  <1>1. DOMAIN left' = DOMAIN left
    OBVIOUS
  <1>2. \A x \in DOMAIN left : left'[x] \in Nat
    <2> SUFFICES ASSUME NEW x \in DOMAIN left PROVE left'[x] \in Nat
      OBVIOUS
    <2>1. left[x] \in Nat
      OBVIOUS
    <2>2. \/ left'[x] = left[x]
          \/ x = "errors" /\ left'[x] = left[x] - a
          \/ x = what /\ left'[x] = left[x] - 1 /\ left[x] > 0
      OBVIOUS
    <2> QED BY <2>1, <2>2
  <1>3. left' = [x \in DOMAIN left |-> left'[x]]
    OBVIOUS
  <1>4. left'.refreshes = left.refreshes
    OBVIOUS
  <1> QED BY <1>1, <1>2, <1>3, <1>4

LEMMA SpentTyped ==
    ASSUME left \in [DOMAIN left -> Nat], "refreshes" \in DOMAIN left, left.refreshes = 0,
           NEW what, what # "refreshes", Spend(what)
    PROVE  /\ left' \in [DOMAIN left' -> Nat]
           /\ "refreshes" \in DOMAIN left' /\ left'.refreshes = 0
  <1>1. left' \in [DOMAIN left' -> Nat]
    BY SpendTyped
  <1>2. left' = [left EXCEPT ![what] = left[what] - 1]
    BY DEF Spend
  <1> QED BY <1>1, <1>2

LEMMA TroublesNat ==
    ASSUME NEW ans
    PROVE  Troubles(ans) \in Nat
  <1>1. IsFiniteSet({"lehai"} \cup {"canboso"} \cup {"haji"})
    BY FS_Singleton, FS_Union
  <1>2. Supplier = {"lehai"} \cup {"canboso"} \cup {"haji"}
    BY DEF Supplier
  <1>3. IsFiniteSet({s \in Supplier : ans[s] # "ok"})
    BY <1>1, <1>2, FS_Subset
  <1> QED BY <1>3, FS_CardinalityType DEF Troubles

\* An account that is sold from what was just seen.
LEMMA SoldLeaves ==
    ASSUME NEW st, NEW end, NEW routes, Leaves(st, end, routes),
           NEW n \in Nat, n <= end.p.supply, NEW fin, fin = [end EXCEPT !.p.gone = n]
    PROVE  Leaves(st, fin, routes)
  <1>1. end \in SyncStates /\ RowsSound(end.rows)
    BY DEF Leaves
  <1>2. Leads(end, fin) /\ fin.rows = end.rows /\ fin.p.gone = n /\ fin.p.supply = end.p.supply
    BY <1>1, GoneLeads
  <1>3. /\ fin \in SyncStates /\ fin.off = end.off /\ fin.seen = end.seen /\ fin.gpt = end.gpt
        /\ fin.p.mode = end.p.mode /\ fin.p.forced = end.p.forced
    BY <1>2 DEF Leads
  <1>4. InLineOf(end.p, end.rows) => InLineOf(fin.p, fin.rows)
    BY <1>2, <1>3 DEF InLineOf
  <1> QED BY <1>1, <1>2, <1>3, <1>4 DEF Leaves

\* A refresh that is committed.
LEMMA RefreshedKeeps ==
    ASSUME Inv, SyncTyped, NEW st \in SyncStates, st.rows = notices,
           NEW fin, NEW routes, Leaves(st, fin, routes),
           NEW fetched, NEW ans, Refreshed(st, fin, fetched, ans),
           left' \in [DOMAIN left' -> Nat]
    PROVE  /\ Inv'
           /\ seen' = SeenAfter(st, routes) /\ seen' \in [Supplier -> SeenRow]
           /\ gpt' \in BOOLEAN /\ rests' \subseteq clients
           /\ st.p.mode # "always" /\ Announced(st, routes) = {} /\ ~Topped(st, routes)
                => NoStock(notices, notices')
           /\ st.p.known /\ Announced(st, routes) # {} => Heard'
  <1>1. /\ Commit(fin.p, fin.rows, {}) /\ seen' = fin.seen /\ gpt' = fin.gpt
        /\ rests' = Rests(st, fetched, ans) /\ Calm
    BY DEF Refreshed
  <1>2. product' = fin.p /\ notices' = fin.rows
    BY <1>1 DEF Commit
  <1>3. /\ fin \in SyncStates /\ Follows(notices, fin.rows) /\ fin.p.gone <= fin.p.supply
        /\ fin.seen = SeenAfter(st, routes)
    BY DEF Leaves
  <1>4. BookTypes /\ fin.p \in ProductRow
    BY <1>3 DEF Inv, SyncStates
  <1>5. Grows
    <2>1. PICK p, rows : p = fin.p /\ rows = fin.rows
      OBVIOUS
    <2>2. /\ p \in ProductRow /\ p.gone <= p.supply /\ Follows(notices, rows)
          /\ Commit(p, rows, {}) /\ Calm
      BY <1>1, <1>3, <1>4, <2>1
    <2> QED BY <1>4, <2>2, CalmGrows
  <1>6. Controls'
    BY <1>1 DEF Calm, Controls, Inv
  <1>7. Inv'
    BY <1>5, <1>6, GrowsKeeps
  <1>8. seen' \in [Supplier -> SeenRow] /\ gpt' \in BOOLEAN
    BY <1>1, <1>3 DEF SyncStates
  <1>9. rests' \subseteq clients
    BY <1>1 DEF Rests, Open, SyncTyped
  <1>10. st.p.mode # "always" /\ Announced(st, routes) = {} /\ ~Topped(st, routes)
            => NoStock(notices, notices')
    BY <1>2 DEF Leaves
  <1>11. ASSUME st.p.known, Announced(st, routes) # {} PROVE Heard'
    <2>1. InLineOf(product', notices') \/ gpt'
      BY <1>1, <1>2, <1>11 DEF Leaves
    <2> QED BY <2>1 DEF InLineOf, Heard, With
  <1> QED BY <1>1, <1>3, <1>7, <1>8, <1>9, <1>10, <1>11

-----------------------------------------------------------------------------
(***************************************************************************)
(* The steps that ask the suppliers.                                        *)
(***************************************************************************)
Money == [wallet: Nat, goods: Nat, owes: Nat]

\* a step in which the suppliers of routes are seen as they are, and one of them may
\* be bought from
Asks(st, routes) ==
    /\ st \in SyncStates /\ st.p.mode = product.mode /\ routes \subseteq Supplier
    /\ \A s \in Second : st.seen[s] = seen[s]
    /\ st.seen["lehai"] = seen["lehai"] \/ st.seen["lehai"].wallet = -1
    /\ off' = off => st = State
    /\ seen' = SeenAfter(st, routes)
    /\ st.p.mode # "always" /\ Announced(st, routes) = {} /\ ~Topped(st, routes)
         => NoStock(notices, notices')
    /\ st.p.known /\ Announced(st, routes) # {} => Heard'
    /\ debits' = debits /\ refunds' = refunds
    /\ \A s \in Supplier :
          /\ books'[s].last = books[s].last
          /\ \/ seller'[s] = seller[s]
             \/ s \in routes /\ seller'[s].wallet = seller[s].wallet - 1
    /\ \E since : /\ since = IF seen'["lehai"].wallet = seller["lehai"].wallet THEN {} ELSE moved
                  /\ moved' = since \/ moved' = since \cup {"bought"}
    /\ books'["lehai"] = books["lehai"] \/ "bought" \in moved'
    /\ \/ seller'["lehai"].owes = seller["lehai"].owes
       \/ moved' = {}
    /\ Inv' /\ SyncTyped'

\* What every such step has in common.
LEMMA AsksIs ==
    ASSUME Inv, SyncTyped, NEW st \in SyncStates, NEW routes, NEW fin,
           st.rows = notices, st.p.mode = product.mode,
           \A s \in Second : st.seen[s] = seen[s],
           st.seen["lehai"] = seen["lehai"] \/ st.seen["lehai"].wallet = -1,
           st.off = off => st = State,
           Leaves(st, fin, routes), NEW fetched, NEW ans, Refreshed(st, fin, fetched, ans),
           off' = st.off, left' \in [DOMAIN left' -> Nat],
           "refreshes" \in DOMAIN left', left'.refreshes = 0,
           clients' = clients, blocked' \subseteq {"lehai", "canboso"}, failed' \in BOOLEAN,
           debits' = debits, refunds' = refunds, asked' \in [Supplier -> Nat],
           seller' \in [Supplier -> Money], books' \in [Supplier -> [last: Nat, bought: Nat]],
           \A s \in Supplier :
              /\ books'[s].last = books[s].last
              /\ \/ seller'[s] = seller[s]
                 \/ s \in routes /\ seller'[s].wallet = seller[s].wallet - 1,
           moved' = Since(fin) \/ moved' = Since(fin) \cup {"bought"},
           books'["lehai"] = books["lehai"] \/ "bought" \in moved',
           seller'["lehai"].owes = seller["lehai"].owes \/ moved' = {}
    PROVE  Asks(st, routes)
  <1>1. /\ Inv'
        /\ seen' = SeenAfter(st, routes) /\ seen' \in [Supplier -> SeenRow]
        /\ gpt' \in BOOLEAN /\ rests' \subseteq clients
        /\ st.p.mode # "always" /\ Announced(st, routes) = {} /\ ~Topped(st, routes)
             => NoStock(notices, notices')
        /\ st.p.known /\ Announced(st, routes) # {} => Heard'
    BY RefreshedKeeps
  <1>2. seen' = fin.seen /\ fin.off = st.off /\ fin.off \subseteq Supplier
        /\ routes \subseteq Supplier
    BY DEF Refreshed, Leaves, SyncStates
  <1>3. Since(fin) = IF seen'["lehai"].wallet = seller["lehai"].wallet THEN {} ELSE moved
    BY <1>2 DEF Since
  <1>4. moved' \subseteq {"topup", "repaid", "early", "bought"}
    BY <1>3 DEF SyncTyped
  <1>5. SellersTyped'
    BY DEF SellersTyped, SyncTyped, Money
  <1>6. SyncTyped'
    BY <1>1, <1>2, <1>4, <1>5 DEF SyncTyped
  <1> QED BY <1>1, <1>2, <1>3, <1>6 DEF Asks

LEMMA RestoredTyped ==
    ASSUME SyncTyped
    PROVE  Restored \subseteq {"lehai", "canboso"}
  BY DEF Restored, SyncTyped

LEMMA SyncProductAsks ==
    ASSUME Inv, SyncTyped, NEW ans \in Answers, NEW toGpt \in BOOLEAN, SyncProduct(ans, toGpt)
    PROVE  \E st, routes : Asks(st, routes)
  <1>1. PICK st, end : st = State /\ end = Refresh(st, FALSE, ans, toGpt)
    OBVIOUS
  <1>2. /\ st \in SyncStates /\ RowsSound(st.rows) /\ st.p = product /\ st.rows = notices
        /\ st.off = off /\ st.seen = seen
    BY <1>1, StateTyped
  <1>3. /\ Refreshed(st, end, FALSE, ans) /\ moved' = Since(end)
        /\ left' = [left EXCEPT !.errors = @ - Troubles(ans)]
        /\ blocked' = blocked \/ blocked' = Restored
        /\ UNCHANGED <<clients, off, seller, failed, books, debits, refunds, asked>>
    BY <1>1 DEF SyncProduct
  <1>4. PICK fetched : fetched = FALSE
    OBVIOUS
  <1>5. PICK routes \in SUBSET Supplier : Brings(st, end, ans, fetched, routes)
    <2>1. fetched \in BOOLEAN /\ end = Refresh(st, fetched, ans, toGpt)
      BY <1>1, <1>4
    <2>2. SellersTyped /\ "lehai" \in clients
      BY DEF SyncTyped
    <2> QED BY <1>2, <2>1, <2>2, RefreshBrings
  <1>6. Leaves(st, end, routes) /\ Refreshed(st, end, fetched, ans)
    BY <1>3, <1>4, <1>5 DEF Brings
  <1>7. /\ left' \in [DOMAIN left' -> Nat] /\ "refreshes" \in DOMAIN left' /\ left'.refreshes = 0
    <2>1. PICK a : a = Troubles(ans)
      OBVIOUS
    <2>2. a \in Nat /\ a <= left.errors
      BY <2>1, TroublesNat DEF Answers
    <2>3. left' = [left EXCEPT !.errors = @ - a]
      BY <1>3, <2>1
    <2>4. left \in [DOMAIN left -> Nat] /\ "refreshes" \in DOMAIN left /\ left.refreshes = 0
      BY DEF Inv, Controls, SyncTyped
    <2>5. "buys" # "refreshes"
      OBVIOUS
    <2> QED BY <2>2, <2>3, <2>4, <2>5, LeftTyped
  <1>8. blocked' \subseteq {"lehai", "canboso"}
    BY <1>3, RestoredTyped DEF SyncTyped
  <1>9. /\ seller' \in [Supplier -> Money]
        /\ books' \in [Supplier -> [last: Nat, bought: Nat]]
        /\ failed' \in BOOLEAN /\ asked' \in [Supplier -> Nat] /\ off' = st.off
    BY <1>2, <1>3 DEF SyncTyped, SellersTyped, Money
  <1>10. Asks(st, routes)
    BY <1>1, <1>2, <1>3, <1>6, <1>7, <1>8, <1>9, AsksIs
  <1> QED BY <1>10

LEMMA BuyNothingAsks ==
    ASSUME Inv, SyncTyped, NEW ans \in Answers, NEW toGpt \in BOOLEAN, BuyNothing(ans, toGpt)
    PROVE  \E st, routes : Asks(st, routes)
  <1>1. PICK st, end : st = State /\ end = Refresh(st, TRUE, ans, toGpt)
    OBVIOUS
  <1>2. /\ st \in SyncStates /\ RowsSound(st.rows) /\ st.p = product /\ st.rows = notices
        /\ st.off = off /\ st.seen = seen
    BY <1>1, StateTyped
  <1>3. /\ Refreshed(st, end, TRUE, ans) /\ moved' = Since(end)
        /\ left' = [left EXCEPT !.errors = @ - Troubles(ans), !.buys = @ - 1]
        /\ blocked' = Restored /\ left.buys > 0
        /\ UNCHANGED <<clients, off, seller, failed, breaker, books, debits, refunds, asked>>
    BY <1>1 DEF BuyNothing, Wanted
  <1>4. PICK fetched : fetched = TRUE
    OBVIOUS
  <1>5. PICK routes \in SUBSET Supplier : Brings(st, end, ans, fetched, routes)
    <2>1. fetched \in BOOLEAN /\ end = Refresh(st, fetched, ans, toGpt)
      BY <1>1, <1>4
    <2>2. SellersTyped /\ "lehai" \in clients
      BY DEF SyncTyped
    <2> QED BY <1>2, <2>1, <2>2, RefreshBrings
  <1>6. Leaves(st, end, routes) /\ Refreshed(st, end, fetched, ans)
    BY <1>3, <1>4, <1>5 DEF Brings
  <1>7. /\ left' \in [DOMAIN left' -> Nat] /\ "refreshes" \in DOMAIN left' /\ left'.refreshes = 0
    <2>1. PICK a, what : a = Troubles(ans) /\ what = "buys"
      OBVIOUS
    <2>2. a \in Nat /\ a <= left.errors
      BY <2>1, TroublesNat DEF Answers
    <2>3. left' = [left EXCEPT !.errors = @ - a, ![what] = @ - 1] /\ left[what] > 0
          /\ what # "refreshes" /\ what # "errors"
      BY <1>3, <2>1
    <2>4. left \in [DOMAIN left -> Nat] /\ "refreshes" \in DOMAIN left /\ left.refreshes = 0
      BY DEF Inv, Controls, SyncTyped
    <2> QED BY <2>2, <2>3, <2>4, LeftTyped
  <1>8. blocked' \subseteq {"lehai", "canboso"}
    BY <1>3, RestoredTyped
  <1>9. /\ seller' \in [Supplier -> Money]
        /\ books' \in [Supplier -> [last: Nat, bought: Nat]]
        /\ failed' \in BOOLEAN /\ asked' \in [Supplier -> Nat] /\ off' = st.off
    BY <1>2, <1>3 DEF SyncTyped, SellersTyped, Money
  <1>10. Asks(st, routes)
    BY <1>1, <1>2, <1>3, <1>6, <1>7, <1>8, <1>9, AsksIs
  <1> QED BY <1>10

LEMMA BuyFromBlockedAsks ==
    ASSUME Inv, SyncTyped, NEW ans \in Answers, NEW toGpt \in BOOLEAN,
           NEW again \in BOOLEAN, BuyFromBlocked(ans, toGpt, again)
    PROVE  \E st, routes : Asks(st, routes)
  <1>1. PICK st, end : st = State /\ end = Refresh(st, TRUE, ans, toGpt)
    OBVIOUS
  <1>2. /\ st \in SyncStates /\ RowsSound(st.rows) /\ st.p = product /\ st.rows = notices
        /\ st.off = off /\ st.seen = seen
    BY <1>1, StateTyped
  <1>3. /\ Refreshed(st, end, TRUE, ans) /\ moved' = Since(end)
        /\ left' = [left EXCEPT !.errors = @ - Troubles(ans), !.buys = @ - 1]
        /\ blocked' = Restored /\ left.buys > 0 /\ failed' = (failed /\ ~again)
        /\ UNCHANGED <<clients, off, seller, books, debits, refunds, asked>>
    BY <1>1 DEF BuyFromBlocked, Wanted
  <1>4. PICK fetched : fetched = TRUE
    OBVIOUS
  <1>5. PICK routes \in SUBSET Supplier : Brings(st, end, ans, fetched, routes)
    <2>1. fetched \in BOOLEAN /\ end = Refresh(st, fetched, ans, toGpt)
      BY <1>1, <1>4
    <2>2. SellersTyped /\ "lehai" \in clients
      BY DEF SyncTyped
    <2> QED BY <1>2, <2>1, <2>2, RefreshBrings
  <1>6. Leaves(st, end, routes) /\ Refreshed(st, end, fetched, ans)
    BY <1>3, <1>4, <1>5 DEF Brings
  <1>7. /\ left' \in [DOMAIN left' -> Nat] /\ "refreshes" \in DOMAIN left' /\ left'.refreshes = 0
    <2>1. PICK a, what : a = Troubles(ans) /\ what = "buys"
      OBVIOUS
    <2>2. a \in Nat /\ a <= left.errors
      BY <2>1, TroublesNat DEF Answers
    <2>3. left' = [left EXCEPT !.errors = @ - a, ![what] = @ - 1] /\ left[what] > 0
          /\ what # "refreshes" /\ what # "errors"
      BY <1>3, <2>1
    <2>4. left \in [DOMAIN left -> Nat] /\ "refreshes" \in DOMAIN left /\ left.refreshes = 0
      BY DEF Inv, Controls, SyncTyped
    <2> QED BY <2>2, <2>3, <2>4, LeftTyped
  <1>8. blocked' \subseteq {"lehai", "canboso"}
    BY <1>3, RestoredTyped
  <1>9. /\ seller' \in [Supplier -> Money]
        /\ books' \in [Supplier -> [last: Nat, bought: Nat]]
        /\ failed' \in BOOLEAN /\ asked' \in [Supplier -> Nat] /\ off' = st.off
    BY <1>2, <1>3 DEF SyncTyped, SellersTyped, Money
  <1>10. Asks(st, routes)
    BY <1>1, <1>2, <1>3, <1>6, <1>7, <1>8, <1>9, AsksIs
  <1> QED BY <1>10

LEMMA SwitchAsks ==
    ASSUME Inv, SyncTyped, NEW ans \in Answers, NEW s \in clients, SwitchSupplier(s, ans)
    PROVE  \E st, routes : Asks(st, routes)
  <1>0. s \in Supplier
    BY DEF SyncTyped, SellersTyped
  <1>1. PICK st, fetched, toGpt, new, end :
          /\ st = SwitchedState(s) /\ fetched = FALSE /\ toGpt = FALSE
          /\ new = Refresh(st, fetched, ans, toGpt)
          /\ end = QueueAdminDrop(new, product.price)
    OBVIOUS
  <1>2. /\ st \in SyncStates /\ RowsSound(st.rows) /\ st.rows = notices
        /\ st.p.mode = product.mode /\ st.off # off /\ ~st.p.known
        /\ st.seen["lehai"].wallet = -1 /\ \A x \in Second : st.seen[x] = seen[x]
    BY <1>0, <1>1, SwitchedTyped
  <1>3. /\ Refreshed(st, end, fetched, ans) /\ moved' = Since(end) /\ off' = st.off
        /\ left' = [left EXCEPT !.switches = @ - 1, !.errors = @ - Troubles(ans)]
        /\ blocked' = blocked \/ blocked' = Restored
        /\ left.switches > 0
        /\ UNCHANGED <<clients, seller, failed, breaker, books, debits, refunds, asked>>
    BY <1>1 DEF SwitchSupplier, SwitchedState
  <1>5. PICK routes \in SUBSET Supplier : Brings(st, new, ans, fetched, routes)
    <2>1. fetched \in BOOLEAN /\ toGpt \in BOOLEAN
      BY <1>1
    <2>2. SellersTyped /\ "lehai" \in clients
      BY DEF SyncTyped
    <2> QED BY <1>1, <1>2, <2>1, <2>2, RefreshBrings
  <1>6. Leaves(st, end, routes)
    <2>1. Leaves(st, new, routes)
      BY <1>5 DEF Brings
    <2>2. product.price \in Int
      BY ProductFields DEF Inv, BookTypes
    <2> QED BY <1>1, <1>2, <2>1, <2>2, AdminDropLeaves
  <1>7. /\ left' \in [DOMAIN left' -> Nat] /\ "refreshes" \in DOMAIN left' /\ left'.refreshes = 0
    <2>1. PICK a, what : a = Troubles(ans) /\ what = "switches"
      OBVIOUS
    <2>2. a \in Nat /\ a <= left.errors
      BY <2>1, TroublesNat DEF Answers
    <2>3. left' = [left EXCEPT ![what] = @ - 1, !.errors = @ - a] /\ left[what] > 0
          /\ what # "refreshes" /\ what # "errors"
      BY <1>3, <2>1
    <2>4. left' = [left EXCEPT !.errors = @ - a, ![what] = @ - 1]
      BY <2>3
    <2>5. left \in [DOMAIN left -> Nat] /\ "refreshes" \in DOMAIN left /\ left.refreshes = 0
      BY DEF Inv, Controls, SyncTyped
    <2> QED BY <2>2, <2>3, <2>4, <2>5, LeftTyped
  <1>8. blocked' \subseteq {"lehai", "canboso"}
    BY <1>3, RestoredTyped DEF SyncTyped
  <1>9. /\ seller' \in [Supplier -> Money]
        /\ books' \in [Supplier -> [last: Nat, bought: Nat]]
        /\ failed' \in BOOLEAN /\ asked' \in [Supplier -> Nat]
    BY <1>3 DEF SyncTyped, SellersTyped, Money
  <1>10. Asks(st, routes)
    BY <1>2, <1>3, <1>6, <1>7, <1>8, <1>9, AsksIs
  <1> QED BY <1>10

\* What a purchase from s does to the suppliers' money and to the books.
LEMMA BoughtTyped ==
    ASSUME SellersTyped, asked \in [Supplier -> Nat], NEW s \in Supplier, Effective(s) > 0,
           NEW fate \in {"sold", "refused", "lost"}, NEW routes, s \in routes,
           asked' = [asked EXCEPT ![s] = @ + 1],
           seller' = IF fate = "refused" THEN seller
                     ELSE [seller EXCEPT ![s] =
                            [wallet |-> @.wallet - 1, goods |-> @.goods - 1,
                             owes |-> IF fate = "lost" THEN 1 ELSE @.owes]],
           books' = [books EXCEPT ![s].bought = IF fate = "sold" THEN @ + 1 ELSE @]
    PROVE  /\ seller' \in [Supplier -> Money]
           /\ books' \in [Supplier -> [last: Nat, bought: Nat]]
           /\ asked' \in [Supplier -> Nat]
           /\ \A x \in Supplier :
                 /\ books'[x].last = books[x].last
                 /\ x # s \/ fate # "sold" => books'[x] = books[x]
                 /\ \/ seller'[x] = seller[x]
                    \/ x \in routes /\ seller'[x].wallet = seller[x].wallet - 1
                 /\ x # s \/ fate # "lost" => seller'[x].owes = seller[x].owes
  <1>1. /\ seller \in [Supplier -> Money] /\ books \in [Supplier -> [last: Nat, bought: Nat]]
        /\ seller[s].wallet \in Nat /\ seller[s].goods \in Nat /\ seller[s].owes \in Nat
        /\ seller[s].wallet > 0 /\ seller[s].goods > 0
    <2>1. /\ Effective(s) \in Nat
          /\ Effective(s) <= seller[s].wallet /\ Effective(s) <= seller[s].goods
          /\ seller[s].wallet \in Nat /\ seller[s].goods \in Nat
      BY EffectiveNat
    <2> QED BY <2>1 DEF SellersTyped, Money
  <1>2. PICK m : m = [wallet |-> seller[s].wallet - 1, goods |-> seller[s].goods - 1,
                      owes |-> IF fate = "lost" THEN 1 ELSE seller[s].owes]
    OBVIOUS
  <1>3. m \in Money /\ m.wallet = seller[s].wallet - 1
        /\ (fate # "lost" => m.owes = seller[s].owes)
    BY <1>1, <1>2 DEF Money
  <1>4. seller' = IF fate = "refused" THEN seller ELSE [seller EXCEPT ![s] = m]
    BY <1>2
  <1>5. seller' \in [Supplier -> Money]
    BY <1>1, <1>3, <1>4
  <1>6. \A x \in Supplier : seller'[x] = seller[x] \/ (x = s /\ seller'[x] = m)
    BY <1>1, <1>4
  <1>7. PICK b : b = [books[s] EXCEPT !.bought = IF fate = "sold" THEN @ + 1 ELSE @]
    OBVIOUS
  <1>8. b \in [last: Nat, bought: Nat] /\ b.last = books[s].last
        /\ (fate # "sold" => b = books[s])
    BY <1>1, <1>7
  <1>9. books' = [books EXCEPT ![s] = b]
    BY <1>7
  <1>10. books' \in [Supplier -> [last: Nat, bought: Nat]]
    BY <1>1, <1>8, <1>9
  <1>11. \A x \in Supplier : books'[x] = books[x] \/ (x = s /\ books'[x] = b)
    BY <1>1, <1>9
  <1>12. asked' \in [Supplier -> Nat]
    OBVIOUS
  <1>13. ASSUME NEW x \in Supplier
         PROVE  /\ books'[x].last = books[x].last
                /\ x # s \/ fate # "sold" => books'[x] = books[x]
                /\ \/ seller'[x] = seller[x]
                   \/ x \in routes /\ seller'[x].wallet = seller[x].wallet - 1
                /\ x # s \/ fate # "lost" => seller'[x].owes = seller[x].owes
    <2>1. books'[x].last = books[x].last
      BY <1>8, <1>11
    <2>2. x # s \/ fate # "sold" => books'[x] = books[x]
      BY <1>8, <1>11
    <2>3. \/ seller'[x] = seller[x]
          \/ x \in routes /\ seller'[x].wallet = seller[x].wallet - 1
      BY <1>3, <1>6
    <2>4. x # s \/ fate # "lost" => seller'[x].owes = seller[x].owes
      BY <1>3, <1>6
    <2> QED BY <2>1, <2>2, <2>3, <2>4
  <1> QED BY <1>5, <1>10, <1>12, <1>13

LEMMA BuyFromAsks ==
    ASSUME Inv, SyncTyped, NEW ans \in Answers, NEW toGpt \in BOOLEAN,
           NEW s \in clients, NEW fate \in {"sold", "refused", "lost"},
           BuyFrom(s, ans, toGpt, fate)
    PROVE  \E st, routes : Asks(st, routes)
  <1>0. s \in Supplier
    BY DEF SyncTyped, SellersTyped
  <1>1. PICK st, fetched, end :
          st = State /\ fetched = TRUE /\ end = Refresh(st, fetched, ans, toGpt)
    OBVIOUS
  <1>2. /\ st \in SyncStates /\ RowsSound(st.rows) /\ st.p = product /\ st.rows = notices
        /\ st.off = off /\ st.seen = seen
    BY <1>1, StateTyped
  <1>3. PICK n : n = IF fate = "sold" THEN end.p.gone + 1 ELSE end.p.gone
    OBVIOUS
  <1>4. PICK fin, trouble : /\ fin = [end EXCEPT !.p.gone = n]
                            /\ trouble = Troubles(ans) + IF fate = "sold" THEN 0 ELSE 1
    OBVIOUS
  <1>5. /\ Refreshed(st, fin, fetched, ans)
        /\ s \in Plan(ans) /\ left.buys > 0 /\ left.errors >= trouble
        /\ left' = [left EXCEPT !.errors = @ - trouble, !.buys = @ - 1]
        /\ asked' = [asked EXCEPT ![s] = @ + 1]
        /\ seller' = IF fate = "refused" THEN seller
                     ELSE [seller EXCEPT ![s] =
                            [wallet |-> @.wallet - 1, goods |-> @.goods - 1,
                             owes |-> IF fate = "lost" THEN 1 ELSE @.owes]]
        /\ books' = [books EXCEPT ![s].bought = IF fate = "sold" THEN @ + 1 ELSE @]
    BY <1>1, <1>3, <1>4 DEF BuyFrom, Wanted
  <1>6. /\ failed' = (failed \/ (s = "lehai" /\ fate = "refused"))
        /\ blocked' = Restored \cup Remembered(s, fate)
        /\ moved' = Since(end) \cup (IF s = "lehai" /\ fate = "sold" THEN {"bought"} ELSE {})
        /\ UNCHANGED <<clients, off, debits, refunds>>
    BY <1>1 DEF BuyFrom
  <1>7. PICK routes \in SUBSET Supplier : Brings(st, end, ans, fetched, routes)
    <2>1. fetched \in BOOLEAN /\ SellersTyped /\ "lehai" \in clients
      BY <1>1 DEF SyncTyped
    <2> QED BY <1>1, <1>2, <2>1, RefreshBrings
  <1>8. s \in Routes(st, ans) /\ Effective(s) > 0
    BY <1>1, <1>5 DEF Plan
  <1>9. /\ Leaves(st, end, routes) /\ s \in routes
        /\ end.p.gone = 0 /\ end.p.supply = Total(routes)
    BY <1>1, <1>7, <1>8 DEF Brings
  <1>10. n \in Nat /\ n <= end.p.supply
    <2>1. SellersTyped
      BY DEF SyncTyped
    <2>2. Total(routes) \in Nat /\ Effective(s) <= Total(routes) /\ Effective(s) \in Nat
      BY <1>0, <1>9, <2>1, TotalNat, EffectiveNat
    <2> QED BY <1>3, <1>8, <1>9, <2>2
  <1>11. Leaves(st, fin, routes)
    BY <1>4, <1>9, <1>10, SoldLeaves
  <1>12. /\ left' \in [DOMAIN left' -> Nat] /\ "refreshes" \in DOMAIN left' /\ left'.refreshes = 0
    <2>1. PICK what : what = "buys"
      OBVIOUS
    <2>2. trouble \in Nat
      BY <1>4, TroublesNat
    <2>3. left' = [left EXCEPT !.errors = @ - trouble, ![what] = @ - 1] /\ left[what] > 0
          /\ what # "refreshes" /\ what # "errors" /\ trouble <= left.errors
      BY <1>5, <2>1, <2>2
    <2>4. left \in [DOMAIN left -> Nat] /\ "refreshes" \in DOMAIN left /\ left.refreshes = 0
      BY DEF Inv, Controls, SyncTyped
    <2> QED BY <2>2, <2>3, <2>4, LeftTyped
  <1>13. blocked' \subseteq {"lehai", "canboso"}
    <2>1. Remembered(s, fate) \subseteq {"lehai", "canboso"}
      BY <1>0 DEF Remembered, Supplier
    <2> QED BY <1>6, <2>1, RestoredTyped
  <1>14. /\ seller' \in [Supplier -> Money]
         /\ books' \in [Supplier -> [last: Nat, bought: Nat]]
         /\ asked' \in [Supplier -> Nat]
         /\ \A x \in Supplier :
               /\ books'[x].last = books[x].last
               /\ x # s \/ fate # "sold" => books'[x] = books[x]
               /\ \/ seller'[x] = seller[x]
                  \/ x \in routes /\ seller'[x].wallet = seller[x].wallet - 1
               /\ x # s \/ fate # "lost" => seller'[x].owes = seller[x].owes
    <2>1. SellersTyped /\ asked \in [Supplier -> Nat]
      BY DEF SyncTyped
    <2>2. Effective(s) > 0 /\ s \in routes
      BY <1>8, <1>9
    <2>3. fate \in {"sold", "refused", "lost"}
      OBVIOUS
    <2>4. asked' = [asked EXCEPT ![s] = @ + 1]
      BY <1>5
    <2>5. seller' = IF fate = "refused" THEN seller
                    ELSE [seller EXCEPT ![s] =
                           [wallet |-> @.wallet - 1, goods |-> @.goods - 1,
                            owes |-> IF fate = "lost" THEN 1 ELSE @.owes]]
      BY <1>5
    <2>6. books' = [books EXCEPT ![s].bought = IF fate = "sold" THEN @ + 1 ELSE @]
      BY <1>5
    <2> QED BY ONLY <1>0, <2>1, <2>2, <2>3, <2>4, <2>5, <2>6, BoughtTyped
  <1>15. failed' \in BOOLEAN
    BY <1>6 DEF SyncTyped
  <1>16. fin.seen = end.seen /\ fin.seen = SeenAfter(st, routes)
    BY <1>9, <1>11 DEF Leaves
  <1>17. Since(fin) = Since(end)
    BY <1>16 DEF Since
  <1>18. moved' = Since(fin) \/ moved' = Since(fin) \cup {"bought"}
    BY <1>6, <1>17
  <1>19. "lehai" \in Supplier
    BY DEF Supplier
  <1>20. books'["lehai"] = books["lehai"] \/ "bought" \in moved'
    <2>1. CASE s = "lehai" /\ fate = "sold"
      BY <1>6, <2>1
    <2>2. CASE ~(s = "lehai" /\ fate = "sold")
      BY <1>14, <1>19, <2>2
    <2> QED BY <2>1, <2>2
  <1>21. seller'["lehai"].owes = seller["lehai"].owes \/ moved' = {}
    <2>1. CASE s = "lehai" /\ fate = "lost"
      <3>1. seen["lehai"] \in SeenRow /\ seller["lehai"].wallet \in Nat
        BY <1>19, EffectiveNat DEF SyncTyped
      <3>2. fin.seen["lehai"].wallet = seller["lehai"].wallet
        BY <1>2, <1>9, <1>16, <1>19, <2>1, <3>1 DEF SeenAfter, SeenRow
      <3>3. Since(end) = {}
        BY <1>16, <3>2 DEF Since
      <3> QED BY <1>6, <2>1, <3>3
    <2>2. CASE ~(s = "lehai" /\ fate = "lost")
      BY <1>14, <1>19, <2>2
    <2> QED BY <2>1, <2>2
  <1>22. st.off = off => st = State
    BY <1>1
  <1>23. off' = st.off /\ st.p.mode = product.mode /\ clients' = clients
         /\ debits' = debits /\ refunds' = refunds
         /\ \A x \in Second : st.seen[x] = seen[x]
         /\ st.seen["lehai"] = seen["lehai"]
    BY <1>2, <1>6
  <1>24. \A x \in Supplier :
            /\ books'[x].last = books[x].last
            /\ \/ seller'[x] = seller[x]
               \/ x \in routes /\ seller'[x].wallet = seller[x].wallet - 1
    BY <1>14
  <1>25. Asks(st, routes)
    BY <1>2, <1>5, <1>11, <1>12, <1>13, <1>14, <1>15, <1>18, <1>20, <1>21, <1>22, <1>23,
       <1>24, AsksIs
  <1> QED BY <1>25

-----------------------------------------------------------------------------
(***************************************************************************)
(* The steps of Notices: none of them tells of a supplier's stock.          *)
(***************************************************************************)
NoNews(rows, new) ==
    \A i \in DOMAIN new \ DOMAIN rows : new[i].kind = "stock" => new[i].by # "supplier"

LEMMA OneAdded ==
    ASSUME NEW rows \in Seq(NoticeRow), NEW n, n.kind # "stock" \/ n.by # "supplier"
    PROVE  NoNews(rows, Append(rows, n))
  <1>1. \A i \in DOMAIN Append(rows, n) : i \in DOMAIN rows \/ Append(rows, n)[i] = n
    OBVIOUS
  <1> QED BY <1>1 DEF NoNews

LEMMA ImportQuiet ==
    ASSUME BookTypes, NEW lock, NEW announce, Import(lock, announce)
    PROVE  NoNews(notices, notices')
  <1>1. PICK p, rows :
          /\ p = [product EXCEPT !.local = @ + 1, !.gone = 0, !.locked = @ \/ lock]
          /\ rows = IF lock THEN Superseded(notices, With(notices, "sale", {"pending"}))
                    ELSE notices
    OBVIOUS
  <1>2. PICK q, s : /\ q = [p |-> p, rows |-> rows]
                    /\ s = IF announce THEN QueueInventory(q, Stock(product)) ELSE q
    OBVIOUS
  <1>3. notices' = s.rows
    BY <1>1, <1>2 DEF Import, Commit
  <1>4. notices \in Seq(NoticeRow)
    BY DEF BookTypes, RowsSound
  <1>5. DOMAIN rows = DOMAIN notices /\ rows \in Seq(NoticeRow)
    <2>1. CASE lock
      <3>1. PICK statuses : statuses = {"pending"}
        OBVIOUS
      <3>2. statuses \in SUBSET {"pending", "sending"}
        BY <3>1
      <3>3. rows = Superseded(notices, With(notices, "sale", statuses))
        BY <1>1, <2>1, <3>1
      <3>4. Follows(notices, rows)
        BY <3>2, <3>3, SalesTakenBack DEF BookTypes
      <3> QED BY <3>3, <3>4 DEF Superseded, Follows
    <2>2. CASE ~lock
      BY <1>1, <1>4, <2>2
    <2> QED BY <2>1, <2>2
  <1>6. q.rows = rows /\ q.p = p
    BY <1>2
  <1>7. NoNews(rows, s.rows)
    <2>1. CASE s = q
      BY <1>6, <2>1 DEF NoNews
    <2>2. CASE s # q
      <3>1. PICK pending, last, r, n :
              /\ pending = With(rows, "stock", {"pending"}) /\ last = Max(pending)
              /\ r = [rows[last] EXCEPT !.by = "inventory", !.before = Stock(product),
                                        !.after = Stock(p)]
              /\ n = Notice("stock", "inventory", Stock(product), Stock(p))
        OBVIOUS
      <3>2. s = [q EXCEPT !.rows = IF pending # {} THEN [rows EXCEPT ![last] = r]
                                   ELSE Append(rows, n)]
        BY <1>2, <1>6, <2>2, <3>1 DEF QueueInventory
      <3>3. s.rows = IF pending # {} THEN [rows EXCEPT ![last] = r] ELSE Append(rows, n)
        BY <1>2, <3>2
      <3>4. n.by # "supplier"
        BY <3>1 DEF Notice
      <3>5. NoNews(rows, Append(rows, n))
        BY <1>5, <3>4, OneAdded
      <3> QED BY <3>3, <3>5 DEF NoNews
    <2> QED BY <2>1, <2>2
  <1> QED BY <1>3, <1>5, <1>7 DEF NoNews

LEMMA SellQuiet ==
    ASSUME BookTypes, NEW preorder, SellLocal(preorder)
    PROVE  NoNews(notices, notices')
  <1>1. product \in ProductRow /\ product.local \in 0 .. MaxStock /\ product.local > 0
        /\ MaxStock \in Nat /\ notices \in Seq(NoticeRow)
    BY NoticesAssumption DEF BookTypes, RowsSound, SellLocal, ProductRow
  <1>2. PICK p : p = [product EXCEPT !.local = @ - 1]
    OBVIOUS
  <1>3. p \in ProductRow
    <2>1. product.local - 1 \in 0 .. MaxStock
      BY <1>1
    <2> QED BY <1>1, <1>2, <2>1 DEF ProductRow
  <1>4. PICK pending, last :
          pending = Automatic(notices, {"pending"}) /\ last = Max(pending)
    OBVIOUS
  <1>5. PICK rows : rows = IF preorder /\ pending # {} THEN [notices EXCEPT ![last].served = TRUE]
                           ELSE notices
    OBVIOUS
  <1>6. DOMAIN rows = DOMAIN notices
    BY <1>5
  <1>7. Follows(notices, rows)
    <2>1. CASE preorder /\ pending # {}
      <3>1. last \in DOMAIN notices
        <4>1. pending \in SUBSET DOMAIN notices
          BY <1>4 DEF Automatic, With
        <4> QED BY <1>1, <1>4, <2>1, <4>1, LastOf
      <3>2. PICK x, r : x = notices[last] /\ r = [x EXCEPT !.served = TRUE]
        OBVIOUS
      <3>3. x \in NoticeRow
        BY <1>1, <3>1, <3>2
      <3>4. RowFollows(x, r)
        BY <3>2, <3>3 DEF RowFollows, NoticeRow
      <3>5. rows = [notices EXCEPT ![last] = r]
        BY <1>5, <2>1, <3>2
      <3> QED BY <1>1, <3>1, <3>2, <3>4, <3>5, OneChanged
    <2>2. CASE ~(preorder /\ pending # {})
      BY <1>1, <1>5, <2>2, FollowsItself
    <2> QED BY <2>1, <2>2
  <1>8. PICK q : q = [p |-> p, rows |-> rows]
    OBVIOUS
  <1>9. q \in States /\ q.rows = rows /\ RowsSound(q.rows)
    BY <1>3, <1>7, <1>8, Opening
  <1>10. DOMAIN Release(q).rows = DOMAIN q.rows
    BY <1>9, ReleaseStays
  <1>11. notices' = Release(q).rows
    BY <1>2, <1>4, <1>5, <1>8 DEF SellLocal, Commit
  <1> QED BY <1>6, <1>9, <1>10, <1>11 DEF NoNews

LEMMA EditQuiet ==
    ASSUME BookTypes, NEW price \in Price, NEW active \in BOOLEAN, NEW saleOn \in BOOLEAN,
           NEW mode \in {"disabled", "off", "always"}, EditProduct(price, active, mode, saleOn)
    PROVE  NoNews(notices, notices')
  <1>1. product \in ProductRow /\ product.cost \in Nat /\ price \in Nat /\ product.markup \in Nat
        /\ notices \in Seq(NoticeRow)
    <2>1. product \in ProductRow
      BY DEF BookTypes
    <2> QED BY <2>1, ProductFields, PriceNat DEF BookTypes, RowsSound
  <1>2. PICK markup : markup = IF price = product.price THEN product.markup
                               ELSE Max({0, price - product.cost})
    OBVIOUS
  <1>3. markup \in Nat
    <2>1. Max({0, price - product.cost}) \in Nat
      BY <1>1, MostOfTwo
    <2> QED BY <1>1, <1>2, <2>1
  <1>4. PICK p : p = [product EXCEPT !.active = active, !.mode = mode, !.saleOn = saleOn,
                         !.price = price,
                         !.markup = IF price = product.price THEN @
                                    ELSE Max({0, price - product.cost})]
    OBVIOUS
  <1>5. p = [product EXCEPT !.active = active, !.mode = mode, !.saleOn = saleOn,
               !.price = price, !.markup = markup]
    BY <1>2, <1>4
  <1>6. p \in ProductRow
    BY <1>1, <1>3, <1>5 DEF ProductRow
  <1>7. PICK down, rows :
          /\ down = (IF saleOn THEN {} ELSE With(notices, "sale", {"pending", "sending"}))
                    \cup (IF mode # "disabled" THEN {}
                          ELSE Automatic(notices, {"pending", "sending"}))
          /\ rows = Superseded(notices, down)
    OBVIOUS
  <1>8. Follows(notices, rows)
    BY <1>7, OffFollows DEF BookTypes
  <1>9. DOMAIN rows = DOMAIN notices
    BY <1>7 DEF Superseded
  <1>10. PICK q : q = [p |-> p, rows |-> rows]
    OBVIOUS
  <1>11. q \in States /\ q.rows = rows /\ RowsSound(q.rows)
    BY <1>6, <1>8, <1>10, Opening
  <1>12. PICK u : u = StopUnsafe(q)
    OBVIOUS
  <1>13. u \in States /\ DOMAIN u.rows = DOMAIN rows /\ u.rows \in Seq(NoticeRow)
    <2>1. u \in States
      BY <1>11, <1>12, UnsafeContinues DEF Continues
    <2> QED BY <1>11, <1>12, <2>1, UnsafeStays DEF States
  <1>14. PICK s, n : /\ s = QueueAdminDrop(u, product.price)
                     /\ n = Notice("sale", "admin", product.price, u.p.price)
    OBVIOUS
  <1>15. \/ s = u
         \/ s = [u EXCEPT !.rows = Follow(u.rows, u.p.price, "admin")]
         \/ s = [u EXCEPT !.rows = Append(u.rows, n)]
    BY <1>14 DEF QueueAdminDrop
  <1>16. s.rows \in {u.rows, Follow(u.rows, u.p.price, "admin"), Append(u.rows, n)}
    BY <1>13, <1>15 DEF States
  <1>17. DOMAIN Follow(u.rows, u.p.price, "admin") = DOMAIN u.rows
    BY DEF Follow, Superseded
  <1>18. NoNews(u.rows, Append(u.rows, n))
    <2>1. n.kind # "stock"
      BY <1>14 DEF Notice
    <2> QED BY <1>13, <2>1, OneAdded
  <1>19. notices' = s.rows
    BY <1>4, <1>7, <1>10, <1>12, <1>14 DEF EditProduct, Commit
  <1> QED BY <1>9, <1>13, <1>16, <1>17, <1>18, <1>19 DEF NoNews

LEMMA NoticesQuiet ==
    ASSUME BookTypes, ~(left.refreshes > 0),
           Outside \/ BroadcastStep \/ AlertStep \/ TimePasses
    PROVE  NoNews(notices, notices')
  <1>0. notices \in Seq(NoticeRow)
    BY DEF BookTypes, RowsSound
  <1>1. CASE UNCHANGED notices
    BY <1>1 DEF NoNews
  <1>2. CASE DOMAIN notices' = DOMAIN notices
    BY <1>2 DEF NoNews
  <1>3. ASSUME NEW n, n.kind # "stock" \/ n.by # "supplier", notices' = Append(notices, n)
        PROVE  NoNews(notices, notices')
    BY <1>0, <1>3, OneAdded
  <1>4. CASE Outside
    <2>1. CASE \/ StageBroadcast \/ PressConfirm \/ \E u \in User : StartBot(u)
               \/ \E w \in Worker : Stumble(w) \/ RecoverFails(w)
               \/ \E w \in Worker, u \in User : LoseAnswer(w, u)
      BY <1>1, <2>1 DEF StageBroadcast, PressConfirm, StartBot, Stumble, RecoverFails, LoseAnswer
    <2>2. CASE \E c \in Price, k \in 0 .. MaxStock,
                 notify \in IF product.mode = "balance" THEN BOOLEAN ELSE {TRUE} :
                  RefreshProduct(c, k, notify)
      BY <2>2 DEF RefreshProduct
    <2>3. CASE \E lock, announce \in BOOLEAN : Import(lock, announce)
      BY <2>3, ImportQuiet
    <2>4. CASE \E preorder \in BOOLEAN : SellLocal(preorder)
      BY <2>4, SellQuiet
    <2>5. CASE QueueManual
      <3>1. PICK n : n = Notice("stock", "manual", Stock(product), Stock(product))
        OBVIOUS
      <3>2. n.by # "supplier" /\ notices' = Append(notices, n)
        BY <2>5, <3>1 DEF QueueManual, Commit, Notice
      <3> QED BY <1>3, <3>2
    <2>6. CASE \E c \in Price, active, saleOn \in BOOLEAN, mode \in {"disabled", "off", "always"} :
                 EditProduct(c, active, mode, saleOn)
      BY <2>6, EditQuiet
    <2>7. CASE TakeOff \/ Restore \/ \E i \in DOMAIN notices, cancel \in BOOLEAN : EndFlash(i, cancel)
      <3>1. DOMAIN notices' = DOMAIN notices
        BY <2>7 DEF TakeOff, Restore, EndFlash, Commit, Superseded
      <3> QED BY <1>2, <3>1
    <2>8. CASE StartFlash
      <3>1. PICK n : n = Notice("flash", "admin", product.cost, Min(Price))
        OBVIOUS
      <3>2. n.kind # "stock" /\ notices' = Append(notices, n)
        BY <2>8, <3>1 DEF StartFlash, Commit, Notice
      <3> QED BY <1>3, <3>2
    <2> QED BY <1>4, <2>1, <2>2, <2>3, <2>4, <2>5, <2>6, <2>7, <2>8 DEF Outside
  <1>5. CASE BroadcastStep
    <2>1. DOMAIN notices' = DOMAIN notices
      BY <1>5 DEF BroadcastStep, ClaimBroadcast, ClaimBatch, Answer, Save, Send, Sync, Recover,
                  Commit
    <2> QED BY <1>2, <2>1
  <1>6. CASE AlertStep
    <2>1. CASE \/ \E kind \in AlertKind : LookAtAlerts(kind)
               \/ ClaimBatch("alerts") \/ Answer("alerts")
      BY <1>1, <2>1 DEF LookAtAlerts, ClaimBatch, Answer, Save, Send
    <2>2. CASE WriteClaim \/ CheckAlert
      <3>1. DOMAIN notices' = DOMAIN notices
        BY <2>2 DEF WriteClaim, CheckAlert, Superseded
      <3> QED BY <1>2, <3>1
    <2>3. CASE Sync("alerts") \/ Recover("alerts")
      <3>1. DOMAIN notices' = DOMAIN notices
        BY <2>3 DEF Sync, Recover
      <3> QED BY <1>2, <3>1
    <2> QED BY <1>6, <2>1, <2>2, <2>3 DEF AlertStep
  <1>7. CASE TimePasses
    <2>1. CASE QueueBroadcast
      <3>1. PICK n : n = Notice("broadcast", "admin", 0, 0)
        OBVIOUS
      <3>2. n.kind # "stock" /\ notices' = Append(notices, n)
        BY <2>1, <3>1 DEF QueueBroadcast, Commit, Notice
      <3> QED BY <1>3, <3>2
    <2>2. CASE \E i \in DOMAIN notices : CoolDown(i)
      <3>1. DOMAIN notices' = DOMAIN notices
        BY <2>2 DEF CoolDown
      <3> QED BY <1>2, <3>1
    <2> QED BY <1>7, <2>1, <2>2 DEF TimePasses
  <1> QED BY <1>4, <1>5, <1>6, <1>7

LEMMA NoticesLeft ==
    ASSUME left \in [DOMAIN left -> Nat], "refreshes" \in DOMAIN left, left.refreshes = 0,
           Outside \/ BroadcastStep \/ AlertStep \/ TimePasses \/ Crash
    PROVE  "refreshes" \in DOMAIN left' /\ left'.refreshes = 0
  <1>1. CASE UNCHANGED left
    BY <1>1
  <1>2. ASSUME NEW what, what # "refreshes", Spend(what)
        PROVE  "refreshes" \in DOMAIN left' /\ left'.refreshes = 0
    BY <1>2, SpentTyped
  <1>3. CASE Outside
    <2>1. CASE StageBroadcast \/ PressConfirm
      <3>1. Spend("drafts") \/ Spend("presses")
        BY <2>1 DEF StageBroadcast, PressConfirm
      <3> QED BY <1>2, <3>1
    <2>2. CASE \E c \in Price, k \in 0 .. MaxStock,
                 notify \in IF product.mode = "balance" THEN BOOLEAN ELSE {TRUE} :
                  RefreshProduct(c, k, notify)
      BY <2>2 DEF RefreshProduct
    <2>3. CASE \/ \E lock, announce \in BOOLEAN : Import(lock, announce)
               \/ \E preorder \in BOOLEAN : SellLocal(preorder)
               \/ QueueManual
      <3>1. Spend("imports") \/ Spend("sales") \/ Spend("manuals")
        BY <2>3 DEF Import, SellLocal, QueueManual
      <3> QED BY <1>2, <3>1
    <2>4. CASE \E c \in Price, active, saleOn \in BOOLEAN, mode \in {"disabled", "off", "always"} :
                 EditProduct(c, active, mode, saleOn)
      <3>1. Spend("edits")
        BY <2>4 DEF EditProduct
      <3> QED BY <1>2, <3>1
    <2>5. CASE \/ TakeOff \/ Restore \/ StartFlash
               \/ \E i \in DOMAIN notices, cancel \in BOOLEAN : EndFlash(i, cancel)
               \/ \E u \in User : StartBot(u)
      <3>1. Spend("toggles") \/ Spend("flashes") \/ Spend("ends") \/ Spend("starts")
        BY <2>5 DEF TakeOff, Restore, StartFlash, EndFlash, StartBot
      <3> QED BY <1>2, <3>1
    <2>6. CASE \/ \E w \in Worker : Stumble(w) \/ RecoverFails(w)
               \/ \E w \in Worker, u \in User : LoseAnswer(w, u)
      <3>1. Spend("faults") \/ Spend("outages")
        BY <2>6 DEF Stumble, RecoverFails, LoseAnswer
      <3> QED BY <1>2, <3>1
    <2> QED BY <1>3, <2>1, <2>2, <2>3, <2>4, <2>5, <2>6 DEF Outside
  <1>4. CASE \E w \in Worker : Answer(w)
    <2>1. UNCHANGED left \/ Spend("refusals")
      BY <1>4 DEF Answer, Save, Send
    <2> QED BY <1>1, <1>2, <2>1
  <1>5. CASE \/ ClaimBroadcast \/ \E w \in Worker : ClaimBatch(w) \/ Sync(w) \/ Recover(w)
    <2>1. UNCHANGED left
      BY <1>5 DEF ClaimBroadcast, ClaimBatch, Sync, Recover
    <2> QED BY <1>1, <2>1
  <1>6. CASE (\E kind \in AlertKind : LookAtAlerts(kind)) \/ WriteClaim \/ CheckAlert
    <2>1. UNCHANGED left
      BY <1>6 DEF LookAtAlerts, WriteClaim, CheckAlert
    <2> QED BY <1>1, <2>1
  <1>7. CASE TimePasses
    <2>1. UNCHANGED left
      BY <1>7 DEF TimePasses, QueueBroadcast, CoolDown
    <2> QED BY <1>1, <2>1
  <1>8. CASE Crash
    <2>1. Spend("faults")
      BY <1>8 DEF Crash
    <2> QED BY <1>2, <2>1
  <1>9. "broadcasts" \in Worker /\ "alerts" \in Worker
    BY DEF Worker
  <1>10. BroadcastStep \/ AlertStep =>
           \/ \E w \in Worker : Answer(w)
           \/ ClaimBroadcast \/ \E w \in Worker : ClaimBatch(w) \/ Sync(w) \/ Recover(w)
           \/ (\E kind \in AlertKind : LookAtAlerts(kind)) \/ WriteClaim \/ CheckAlert
    BY <1>9 DEF BroadcastStep, AlertStep
  <1> QED BY <1>3, <1>4, <1>5, <1>6, <1>7, <1>8, <1>10

-----------------------------------------------------------------------------
(***************************************************************************)
(* The invariant is inductive.                                              *)
(***************************************************************************)
LEMMA SyncInitInv ==
    ASSUME SyncInit
    PROVE  SyncInv
  <1>1. PICK s \in Scene :
          /\ InitWith(s)
          /\ clients = s.clients /\ off = s.off
          /\ seller = s.seller
          /\ rests = {} /\ blocked = {} /\ failed = FALSE
          /\ seen = [x \in Supplier |-> [wallet |-> s.seller[x].wallet, armed |-> FALSE,
                                         news |-> FALSE]]
          /\ books = [x \in Supplier |-> [last |-> s.seller[x].wallet, bought |-> 0]]
          /\ debits = <<>> /\ refunds = {} /\ moved = {}
          /\ gpt = FALSE
          /\ asked = [x \in Supplier |-> 0]
    BY DEF SyncInit
  <1>2. /\ s.clients \subseteq Supplier /\ "lehai" \in s.clients /\ s.off \subseteq Supplier
        /\ s.seller \in [Supplier -> [wallet: Nat, goods: Nat, owes: {0}]]
        /\ "refreshes" \in DOMAIN s.left /\ s.left.refreshes = 0
    BY SellerAssumption
  <1>3. Inv
    BY <1>1, InitInv DEF Init
  <1>4. seller \in [Supplier -> Money] /\ \A x \in Supplier : seller[x].owes = 0
    <2>1. \A x \in Supplier : seller[x] \in Money /\ seller[x].owes = 0
      BY <1>1, <1>2 DEF Money
    <2> QED BY <1>1, <1>2, <2>1
  <1>5. \A x \in Supplier : seller[x].wallet \in Nat
    BY <1>4 DEF Money
  <1>6. books \in [Supplier -> [last: Nat, bought: Nat]]
    BY <1>1, <1>5
  <1>7. seen \in [Supplier -> SeenRow]
    BY <1>1, <1>5 DEF SeenRow
  <1>8. left = s.left
    BY <1>1 DEF InitWith
  <1>9. SellersTyped
    BY <1>1, <1>2, <1>4, <1>6 DEF SellersTyped, Money
  <1>10. asked \in [Supplier -> Nat]
    BY <1>1
  <1>11. debits \in Seq(Nat) /\ rests \subseteq clients
    BY <1>1
  <1>12. SyncTyped
    BY <1>1, <1>2, <1>7, <1>8, <1>9, <1>10, <1>11 DEF SyncTyped
  <1>13. MoneyTold
    <2>1. "lehai" \in Supplier
      BY DEF Supplier
    <2>2. seen["lehai"].wallet = seller["lehai"].wallet /\ seller["lehai"].wallet \in Nat
      BY <1>1, <1>5, <2>1
    <2>3. seller["lehai"].owes = 0
      BY <1>4, <2>1
    <2> QED BY <2>2, <2>3 DEF MoneyTold
  <1> QED BY <1>3, <1>12, <1>13 DEF SyncInv

\* Nothing of the suppliers changes.
LEMMA StillKeeps ==
    ASSUME SyncInv, Inv', UNCHANGED <<clients, off, seller, seen, books, debits, refunds, moved,
                                      asked>>,
           rests' \subseteq clients, blocked' \subseteq {"lehai", "canboso"},
           failed' \in BOOLEAN, gpt' \in BOOLEAN,
           "refreshes" \in DOMAIN left' /\ left'.refreshes = 0
    PROVE  SyncInv'
  <1>1. SyncTyped'
    BY DEF SyncInv, SyncTyped, SellersTyped
  <1>2. MoneyTold'
    BY DEF SyncInv, MoneyTold, Repaid
  <1> QED BY <1>1, <1>2 DEF SyncInv

LEMMA AsksKeeps ==
    ASSUME SyncInv, NEW st, NEW routes, Asks(st, routes)
    PROVE  SyncInv'
  <1>1. Inv' /\ SyncTyped' /\ SyncTyped /\ MoneyTold
    BY DEF Asks, SyncInv
  <1>2. "lehai" \in Supplier
    BY DEF Supplier
  <1>3. PICK was, now, before, after :
          /\ was = seen["lehai"].wallet /\ now = seller["lehai"].wallet
          /\ before = seen'["lehai"].wallet /\ after = seller'["lehai"].wallet
    OBVIOUS
  <1>4. was \in Nat \cup {-1} /\ now \in Nat
    BY <1>1, <1>2, <1>3, EffectiveNat DEF SyncTyped, SeenRow
  <1>5. PICK since : /\ since = IF before = now THEN {} ELSE moved
                     /\ moved' = since \/ moved' = since \cup {"bought"}
    BY <1>3 DEF Asks
  <1>6. after = now \/ after = now - 1
    BY <1>2, <1>3 DEF Asks
  <1>7. CASE before = now
    <2>1. moved' \subseteq {"bought"}
      BY <1>5, <1>7
    <2>2. after <= before
      BY <1>4, <1>6, <1>7
    <2> QED BY <1>1, <1>3, <2>1, <2>2 DEF SyncInv, MoneyTold
  <1>8. CASE before # now
    <2>1. "lehai" \notin routes
      <3> SUFFICES ASSUME "lehai" \in routes PROVE FALSE
        OBVIOUS
      <3>1. st \in SyncStates /\ seen' = SeenAfter(st, routes)
        BY DEF Asks
      <3>2. st.seen["lehai"] \in SeenRow
        BY <1>2, <3>1 DEF SyncStates
      <3>3. seen'["lehai"] = [st.seen["lehai"] EXCEPT !.wallet = now]
        BY <1>2, <1>3, <3>1 DEF SeenAfter
      <3>4. seen'["lehai"].wallet = now
        BY <3>2, <3>3 DEF SeenRow
      <3> QED BY <1>3, <1>8, <3>4
    <2>2. before = was \/ before = -1
      <3>1. seen'["lehai"] = st.seen["lehai"]
        BY <1>2, <2>1 DEF Asks, SeenAfter
      <3>2. st.seen["lehai"] = seen["lehai"] \/ st.seen["lehai"].wallet = -1
        BY DEF Asks
      <3> QED BY <1>3, <3>1, <3>2
    <2>3. after = now
      BY <1>2, <1>3, <2>1 DEF Asks
    <2>4. moved' = moved \/ moved' = moved \cup {"bought"}
      BY <1>5, <1>8
    <2>5. ASSUME moved' = {}, before >= 0 PROVE after <= before
      <3>1. moved = {} /\ before = was
        BY <2>2, <2>4, <2>5
      <3> QED BY <1>1, <1>3, <2>3, <2>5, <3>1 DEF MoneyTold
    <2>6. ASSUME moved' = {"repaid"}, before >= 0, before < after PROVE Repaid(before, after)'
      <3>1. moved = {"repaid"} /\ before = was /\ "bought" \notin moved'
        BY <2>2, <2>4, <2>6
      <3>2. Repaid(was, now)
        BY <1>1, <1>3, <2>3, <2>6, <3>1 DEF MoneyTold
      <3>3. books'["lehai"] = books["lehai"] /\ debits' = debits /\ refunds' = refunds
        BY <3>1 DEF Asks
      <3> QED BY <2>3, <3>1, <3>2, <3>3 DEF Repaid
    <2>7. ASSUME seller'["lehai"].owes > 0 PROVE moved' \cap {"repaid", "early"} = {}
      <3>1. CASE moved' = {}
        BY <3>1
      <3>2. CASE moved' # {}
        <4>1. seller["lehai"].owes > 0
          BY <2>7, <3>2 DEF Asks
        <4>2. moved \cap {"repaid", "early"} = {}
          BY <1>1, <4>1 DEF MoneyTold
        <4> QED BY <2>4, <4>2
      <3> QED BY <3>1, <3>2
    <2>8. MoneyTold'
      BY <1>3, <2>5, <2>6, <2>7 DEF MoneyTold
    <2> QED BY <1>1, <2>8 DEF SyncInv
  <1> QED BY <1>7, <1>8

LEMMA ElsewhereKeeps ==
    ASSUME Inv, Elsewhere, left' \in [DOMAIN left' -> Nat]
    PROVE  Inv'
  <1>1. UNCHANGED <<product, notices, mail, told, excused, started, draft, pressed, desk>>
    BY DEF Elsewhere, Calm
  <1> QED BY <1>1 DEF Inv, BookTypes, Controls, DesksFit, ToldOnce, SentIsDone, Unfinished

LEMMA RepayKeeps ==
    ASSUME SyncInv, Repay
    PROVE  SyncInv'
  <1>1. Inv /\ SyncTyped /\ MoneyTold /\ "lehai" \in Supplier
    BY DEF SyncInv, Supplier
  <1>2. Inv'
    BY <1>1, ElsewhereKeeps DEF Repay, Inv, Controls
  <1>3. PICK m : m = [seller["lehai"] EXCEPT !.wallet = @ + 1, !.owes = 0]
    OBVIOUS
  <1>4. seller["lehai"] \in Money /\ seller \in [Supplier -> Money]
    BY <1>1 DEF SyncTyped, SellersTyped, Money
  <1>5. m \in Money /\ m.wallet = seller["lehai"].wallet + 1 /\ m.owes = 0
    <2>1. PICK r : r = seller["lehai"]
      OBVIOUS
    <2>2. r \in Money /\ m = [r EXCEPT !.wallet = r.wallet + 1, !.owes = 0]
      BY <1>1, <1>3, <1>4, <2>1
    <2>3. r.wallet \in Nat /\ r.goods \in Nat /\ r.owes \in Nat
          /\ r = [wallet |-> r.wallet, goods |-> r.goods, owes |-> r.owes]
      BY <2>2 DEF Money
    <2>4. m = [wallet |-> r.wallet + 1, goods |-> r.goods, owes |-> 0]
      BY <2>2, <2>3
    <2>5. m \in Money /\ m.wallet = r.wallet + 1 /\ m.owes = 0
      BY <2>3, <2>4 DEF Money
    <2> QED BY <2>1, <2>5
  <1>6. seller' = [seller EXCEPT !["lehai"] = m] /\ seller["lehai"].owes > 0
    BY <1>3 DEF Repay
  <1>7. seller' \in [Supplier -> Money] /\ seller'["lehai"] = m
    BY <1>1, <1>4, <1>5, <1>6
  <1>8. PICK x : /\ x = IF /\ 1 \in ToSet(debits)
                           /\ books["lehai"] = [last |-> seller["lehai"].wallet, bought |-> 0]
                        THEN "repaid" ELSE "early"
                 /\ moved' = moved \cup {x}
    BY DEF Repay
  <1>9. SyncTyped'
    <2>1. moved' \subseteq {"topup", "repaid", "early", "bought"}
      BY <1>1, <1>8 DEF SyncTyped
    <2>2. UNCHANGED <<clients, off, gpt, asked, left, rests, blocked, failed, seen, books,
                      debits, refunds>>
      BY DEF Repay, Elsewhere
    <2> QED BY <1>1, <1>7, <2>1, <2>2 DEF SyncTyped, SellersTyped, Money
  <1>10. MoneyTold'
    <2>1. PICK was, now : was = seen["lehai"].wallet /\ now = seller["lehai"].wallet
      OBVIOUS
    <2>2. was \in Nat \cup {-1} /\ now \in Nat
      BY <1>1, <1>4, <2>1 DEF SyncTyped, SeenRow, Money
    <2>3. seen'["lehai"].wallet = was /\ seller'["lehai"].wallet = now + 1
          /\ seller'["lehai"].owes = 0 /\ books' = books /\ debits' = debits /\ refunds' = refunds
      BY <1>5, <1>7, <2>1 DEF Repay
    <2>4. moved' # {}
      BY <1>8
    <2>5. ASSUME moved' = {"repaid"}, was >= 0, was < now + 1 PROVE Repaid(was, now + 1)'
      <3>1. moved \cap {"repaid", "early"} = {}
        BY <1>1, <1>6 DEF MoneyTold
      <3>2. moved = {} /\ x = "repaid"
        BY <1>8, <2>5, <3>1
      <3>3. now <= was
        BY <1>1, <2>1, <2>5, <3>2 DEF MoneyTold
      <3>4. was = now
        BY <2>2, <2>5, <3>3
      <3>5. 1 \in ToSet(debits) /\ books["lehai"] = [last |-> now, bought |-> 0]
        BY <1>8, <2>1, <3>2
      <3> QED BY <2>3, <3>4, <3>5 DEF Repaid
    <2>6. ~(seller'["lehai"].owes > 0)
      BY <2>3
    <2> QED BY <2>3, <2>4, <2>5, <2>6 DEF MoneyTold
  <1> QED BY <1>2, <1>9, <1>10 DEF SyncInv

LEMMA TopUpKeeps ==
    ASSUME SyncInv, NEW s \in clients, TopUp(s)
    PROVE  SyncInv'
  <1>1. Inv /\ SyncTyped /\ MoneyTold /\ "lehai" \in Supplier /\ s \in Supplier
    BY DEF SyncInv, Supplier, SyncTyped, SellersTyped
  <1>2. Inv' /\ "refreshes" \in DOMAIN left' /\ left'.refreshes = 0
    <2>1. left \in [DOMAIN left -> Nat] /\ "refreshes" \in DOMAIN left /\ left.refreshes = 0
      BY <1>1 DEF Inv, Controls, SyncTyped
    <2>2. Spend("topups") /\ "topups" # "refreshes"
      BY DEF TopUp
    <2>3. /\ left' \in [DOMAIN left' -> Nat]
          /\ "refreshes" \in DOMAIN left' /\ left'.refreshes = 0
      BY <2>1, <2>2, SpentTyped
    <2> QED BY <1>1, <2>3, ElsewhereKeeps DEF TopUp
  <1>3. PICK m : m = [seller[s] EXCEPT !.wallet = @ + 1]
    OBVIOUS
  <1>4. seller[s] \in Money /\ seller \in [Supplier -> Money]
    BY <1>1 DEF SyncTyped, SellersTyped, Money
  <1>5. m \in Money
    BY <1>3, <1>4 DEF Money
  <1>6. /\ seller' = [seller EXCEPT ![s] = m]
        /\ s = "lehai" => moved' = moved \cup {"topup"}
        /\ s # "lehai" => moved' = moved
        /\ UNCHANGED <<clients, off, gpt, asked, rests, blocked, failed, seen, books,
                       debits, refunds>>
    <2>1. seller' = [seller EXCEPT ![s] = m]
      BY <1>3 DEF TopUp
    <2>2. (s = "lehai" => moved' = moved \cup {"topup"}) /\ (s # "lehai" => moved' = moved)
      BY DEF TopUp
    <2>3. UNCHANGED <<clients, off, gpt, asked, rests, blocked, failed, seen, books,
                      debits, refunds>>
      BY DEF TopUp, Elsewhere
    <2> QED BY <2>1, <2>2, <2>3
  <1>7. seller' \in [Supplier -> Money]
    BY <1>4, <1>5, <1>6
  <1>8. SyncTyped'
    <2>1. moved' \subseteq {"topup", "repaid", "early", "bought"}
      BY <1>1, <1>6 DEF SyncTyped
    <2> QED BY <1>1, <1>2, <1>6, <1>7, <2>1 DEF SyncTyped, SellersTyped, Money
  <1>9. MoneyTold'
    <2>1. CASE s = "lehai"
      <3>1. "topup" \in moved' /\ moved' # {} /\ moved' # {"repaid"}
        BY <1>6, <2>1
      <3>2. seller'["lehai"].owes = seller["lehai"].owes
        BY <1>3, <1>4, <1>6, <2>1 DEF Money
      <3>3. seller["lehai"].owes > 0 => moved' \cap {"repaid", "early"} = {}
        BY <1>1, <1>6, <2>1 DEF MoneyTold
      <3> QED BY <3>1, <3>2, <3>3 DEF MoneyTold
    <2>2. CASE s # "lehai"
      <3>1. seller'["lehai"] = seller["lehai"]
        BY <1>1, <1>4, <1>6, <2>2
      <3>2. moved' = moved /\ seen' = seen /\ books' = books /\ debits' = debits
            /\ refunds' = refunds
        BY <1>6, <2>2
      <3> QED BY <1>1, <3>1, <3>2 DEF MoneyTold, Repaid
    <2> QED BY <2>1, <2>2
  <1> QED BY <1>2, <1>8, <1>9 DEF SyncInv

LEMMA RestockKeeps ==
    ASSUME SyncInv, NEW s \in clients, Restock(s)
    PROVE  SyncInv'
  <1>1. Inv /\ SyncTyped /\ MoneyTold /\ "lehai" \in Supplier /\ s \in Supplier
    BY DEF SyncInv, Supplier, SyncTyped, SellersTyped
  <1>2. Inv' /\ "refreshes" \in DOMAIN left' /\ left'.refreshes = 0
    <2>1. left \in [DOMAIN left -> Nat] /\ "refreshes" \in DOMAIN left /\ left.refreshes = 0
      BY <1>1 DEF Inv, Controls, SyncTyped
    <2>2. Spend("restocks") /\ "restocks" # "refreshes"
      BY DEF Restock
    <2>3. /\ left' \in [DOMAIN left' -> Nat]
          /\ "refreshes" \in DOMAIN left' /\ left'.refreshes = 0
      BY <2>1, <2>2, SpentTyped
    <2> QED BY <1>1, <2>3, ElsewhereKeeps DEF Restock
  <1>3. PICK m : m = [seller[s] EXCEPT !.goods = @ + 1]
    OBVIOUS
  <1>4. seller[s] \in Money /\ seller \in [Supplier -> Money]
    BY <1>1 DEF SyncTyped, SellersTyped, Money
  <1>5. m \in Money /\ m.wallet = seller[s].wallet /\ m.owes = seller[s].owes
    BY <1>3, <1>4 DEF Money
  <1>6. seller' = [seller EXCEPT ![s] = m]
        /\ UNCHANGED <<clients, off, gpt, asked, rests, blocked, failed, seen, books,
                       debits, refunds, moved>>
    BY <1>3 DEF Restock, Elsewhere
  <1>7. seller' \in [Supplier -> Money]
    BY <1>4, <1>5, <1>6
  <1>8. SyncTyped'
    BY <1>1, <1>2, <1>6, <1>7 DEF SyncTyped, SellersTyped, Money
  <1>9. seller'["lehai"].wallet = seller["lehai"].wallet /\ seller'["lehai"].owes = seller["lehai"].owes
    BY <1>1, <1>4, <1>5, <1>6
  <1>10. MoneyTold'
    BY <1>1, <1>6, <1>9 DEF MoneyTold, Repaid
  <1> QED BY <1>2, <1>8, <1>10 DEF SyncInv

\* What an audit does.
LEMMA AuditIs ==
    ASSUME SyncTyped, NEW s \in clients, Audit(s), NEW extra,
           extra = seller[s].wallet - books[s].last + books[s].bought
    PROVE  /\ books' \in [Supplier -> [last: Nat, bought: Nat]]
           /\ \A x \in Supplier : x # s => books'[x] = books[x] /\ seen'[x] = seen[x]
           /\ books'[s] = [last |-> seller[s].wallet, bought |-> 0]
           /\ debits' \in Seq(Nat)
           /\ s # "lehai" => debits' = debits /\ refunds' = refunds
           /\ refunds \subseteq refunds'
           /\ \A r \in refunds' : r.amount > 0
           /\ s = "lehai" /\ extra = 1 /\ 1 \in ToSet(debits) =>
                [amount |-> 1, before |-> books[s].last, after |-> seller[s].wallet] \in refunds'
           /\ seen' \in [Supplier -> SeenRow]
           /\ seen'[s].wallet = seen[s].wallet /\ seen'[s].armed = seen[s].armed
           /\ seen'[s].news <=> seen[s].news \/ (s # "lehai" /\ extra > 0)
  <1>1. /\ s \in Supplier /\ seller[s].wallet \in Nat /\ books[s].last \in Nat
        /\ books[s].bought \in Nat /\ seen[s] \in SeenRow /\ debits \in Seq(Nat)
        /\ books \in [Supplier -> [last: Nat, bought: Nat]] /\ seen \in [Supplier -> SeenRow]
    <2>1. s \in Supplier /\ SellersTyped
      BY DEF SyncTyped, SellersTyped
    <2> QED BY <2>1, EffectiveNat DEF SyncTyped, SellersTyped
  <1>2. PICK now, settled :
          /\ now = seller[s].wallet
          /\ settled = IF s = "lehai" /\ extra > 0 THEN Settled(extra) ELSE {}
    OBVIOUS
  <1>3. extra = now - books[s].last + books[s].bought /\ extra \in Int
    BY <1>1, <1>2
  <1>4. /\ books' = [books EXCEPT ![s] = [last |-> now, bought |-> 0]]
        /\ debits' = IF s = "lehai" /\ extra < 0 THEN <<-extra>> \o debits
                     ELSE [i \in DOMAIN debits |-> IF i \in settled THEN 0 ELSE debits[i]]
        /\ refunds' = IF settled = {} THEN refunds
                      ELSE refunds \cup {[amount |-> extra, before |-> books[s].last,
                                          after |-> now]}
        /\ seen' = [seen EXCEPT ![s].news = @ \/ (s # "lehai" /\ extra > 0)]
    BY <1>2, <1>3 DEF Audit
  <1>5. books' \in [Supplier -> [last: Nat, bought: Nat]]
        /\ books'[s] = [last |-> now, bought |-> 0]
        /\ \A x \in Supplier : x # s => books'[x] = books[x]
    BY <1>1, <1>2, <1>4
  <1>6. debits' \in Seq(Nat)
    <2>1. CASE s = "lehai" /\ extra < 0
      <3>1. PICK d : d = <<-extra>>
        OBVIOUS
      <3>2. d \in Seq(Nat)
        BY <1>3, <2>1, <3>1
      <3> QED BY <1>1, <1>4, <2>1, <3>1, <3>2
    <2>2. CASE ~(s = "lehai" /\ extra < 0)
      <3>1. DOMAIN debits = 1 .. Len(debits) /\ Len(debits) \in Nat
            /\ \A i \in DOMAIN debits : debits[i] \in Nat
        BY <1>1
      <3>2. debits' = [i \in 1 .. Len(debits) |-> debits'[i]]
            /\ \A i \in 1 .. Len(debits) : debits'[i] \in Nat
        BY <1>4, <2>2, <3>1
      <3> QED BY <3>1, <3>2, SequenceOf
    <2> QED BY <2>1, <2>2
  <1>7. ASSUME s # "lehai" PROVE debits' = debits /\ refunds' = refunds
    <2>1. settled = {}
      BY <1>2, <1>7
    <2> QED BY <1>1, <1>4, <1>7, <2>1
  <1>8. settled # {} => extra > 0
    BY <1>2
  <1>9. refunds \subseteq refunds' /\ \A r \in refunds' : r.amount > 0
    BY <1>4, <1>8 DEF SyncTyped
  <1>10. ASSUME s = "lehai", extra = 1, 1 \in ToSet(debits)
         PROVE  [amount |-> 1, before |-> books[s].last, after |-> now] \in refunds'
    <2>1. {i \in DOMAIN debits : debits[i] = extra} # {}
      BY <1>10 DEF ToSet
    <2>2. settled = {Min({i \in DOMAIN debits : debits[i] = extra})}
      BY <1>2, <1>10, <2>1 DEF Settled
    <2> QED BY <1>4, <1>10, <2>2
  <1>11. PICK w : w = [seen[s] EXCEPT !.news = @ \/ (s # "lehai" /\ extra > 0)]
    OBVIOUS
  <1>12. /\ w \in SeenRow /\ w.wallet = seen[s].wallet /\ w.armed = seen[s].armed
         /\ w.news <=> seen[s].news \/ (s # "lehai" /\ extra > 0)
    BY <1>1, <1>11 DEF SeenRow
  <1>13. seen' = [seen EXCEPT ![s] = w]
    BY <1>4, <1>11
  <1>14. seen' \in [Supplier -> SeenRow] /\ seen'[s] = w
         /\ \A x \in Supplier : x # s => seen'[x] = seen[x]
    BY <1>1, <1>12, <1>13
  <1> QED BY <1>2, <1>5, <1>6, <1>7, <1>9, <1>10, <1>12, <1>14

LEMMA AuditKeeps ==
    ASSUME SyncInv, NEW s \in clients, Audit(s)
    PROVE  SyncInv'
  <1>1. Inv /\ SyncTyped /\ MoneyTold /\ "lehai" \in Supplier /\ s \in Supplier
    BY DEF SyncInv, Supplier, SyncTyped, SellersTyped
  <1>2. Inv'
    BY <1>1, ElsewhereKeeps DEF Audit, Inv, Controls
  <1>3. PICK extra : extra = seller[s].wallet - books[s].last + books[s].bought
    OBVIOUS
  <1>4. /\ books' \in [Supplier -> [last: Nat, bought: Nat]]
        /\ \A x \in Supplier : x # s => books'[x] = books[x] /\ seen'[x] = seen[x]
        /\ books'[s] = [last |-> seller[s].wallet, bought |-> 0]
        /\ debits' \in Seq(Nat)
        /\ s # "lehai" => debits' = debits /\ refunds' = refunds
        /\ refunds \subseteq refunds'
        /\ \A r \in refunds' : r.amount > 0
        /\ s = "lehai" /\ extra = 1 /\ 1 \in ToSet(debits) =>
             [amount |-> 1, before |-> books[s].last, after |-> seller[s].wallet] \in refunds'
        /\ seen' \in [Supplier -> SeenRow]
        /\ seen'[s].wallet = seen[s].wallet
    BY <1>1, <1>3, AuditIs
  <1>5. UNCHANGED <<clients, off, gpt, asked, left, seller, rests, blocked, failed, moved>>
    BY DEF Audit, Elsewhere
  <1>6. SyncTyped'
    BY <1>1, <1>4, <1>5 DEF SyncTyped, SellersTyped
  <1>7. PICK was, now : was = seen["lehai"].wallet /\ now = seller["lehai"].wallet
    OBVIOUS
  <1>8. seen'["lehai"].wallet = was /\ seller'["lehai"] = seller["lehai"] /\ moved' = moved
    BY <1>1, <1>4, <1>5, <1>7
  <1>9. ASSUME Repaid(was, now) PROVE Repaid(was, now)'
    <2>1. CASE [amount |-> 1, before |-> was, after |-> now] \in refunds
      BY <1>4, <1>9, <2>1 DEF Repaid
    <2>2. CASE 1 \in ToSet(debits) /\ books["lehai"] = [last |-> was, bought |-> 0]
      <3>1. CASE s = "lehai"
        <4>1. was \in Int /\ now = was + 1
          BY <1>1, <1>7, <1>9 DEF Repaid, SyncTyped, SeenRow
        <4>2. extra = 1 /\ books[s].last = was /\ seller[s].wallet = now
          BY <1>3, <1>7, <2>2, <3>1, <4>1
        <4>3. [amount |-> 1, before |-> was, after |-> now] \in refunds'
          BY <1>4, <2>2, <3>1, <4>2
        <4> QED BY <1>9, <4>3 DEF Repaid
      <3>2. CASE s # "lehai"
        <4>1. books'["lehai"] = books["lehai"] /\ debits' = debits
          BY <1>1, <1>4, <3>2
        <4> QED BY <1>9, <2>2, <4>1 DEF Repaid
      <3> QED BY <3>1, <3>2
    <2> QED BY <1>9, <2>1, <2>2 DEF Repaid
  <1>10. MoneyTold'
    BY <1>1, <1>7, <1>8, <1>9 DEF MoneyTold
  <1> QED BY <1>2, <1>6, <1>10 DEF SyncInv

LEMMA ClientKeeps ==
    ASSUME SyncInv, ClientStep \/ Restart
    PROVE  SyncInv'
  <1>1. Inv /\ SyncTyped
    BY DEF SyncInv
  <1>2. left \in [DOMAIN left -> Nat] /\ "refreshes" \in DOMAIN left /\ left.refreshes = 0
    BY <1>1 DEF Inv, Controls, SyncTyped
  <1>3. CASE Elapse \/ BreakerEnds
    <2>1. Elsewhere /\ left' = left
      BY <1>3 DEF Elapse, BreakerEnds
    <2>2. Inv'
      BY <1>1, <1>2, <2>1, ElsewhereKeeps
    <2>3. /\ UNCHANGED <<clients, off, gpt, asked, seller, seen, books, debits, refunds, moved>>
          /\ rests' \subseteq rests /\ blocked' \subseteq blocked /\ failed' \in {failed, FALSE}
      BY <1>3 DEF Elapse, BreakerEnds, Elsewhere
    <2>4. rests' \subseteq clients /\ blocked' \subseteq {"lehai", "canboso"}
          /\ failed' \in BOOLEAN /\ gpt' \in BOOLEAN
      BY <1>1, <2>3 DEF SyncTyped
    <2> QED BY <1>2, <2>1, <2>2, <2>3, <2>4, StillKeeps
  <1>4. CASE TellGpt
    <2>1. UNCHANGED <<vars, clients, off, asked, seller, rests, blocked, failed, seen, books,
                      debits, refunds, moved>> /\ gpt' = FALSE
      BY <1>4 DEF TellGpt
    <2>2. Inv'
      BY <1>1, <2>1, NextKeeps
    <2>3. left' = left
      BY <2>1 DEF vars
    <2>4. rests' \subseteq clients /\ blocked' \subseteq {"lehai", "canboso"}
          /\ failed' \in BOOLEAN /\ gpt' \in BOOLEAN
      BY <1>1, <2>1 DEF SyncTyped
    <2>5. UNCHANGED <<clients, off, seller, seen, books, debits, refunds, moved, asked>>
      BY <2>1
    <2> QED BY <1>2, <2>2, <2>3, <2>4, <2>5, StillKeeps
  <1>5. CASE Restart
    <2>1. Crash /\ rests' = {} /\ blocked' = {}
          /\ UNCHANGED <<clients, off, seller, failed, seen, books, debits, refunds, moved, gpt,
                         asked>>
      BY <1>5 DEF Restart
    <2>2. Inv'
      BY <1>1, <2>1, CrashKeeps
    <2>3. "refreshes" \in DOMAIN left' /\ left'.refreshes = 0
      BY <1>2, <2>1, NoticesLeft
    <2>4. failed' \in BOOLEAN /\ gpt' \in BOOLEAN
      BY <1>1, <2>1 DEF SyncTyped
    <2> QED BY <2>1, <2>2, <2>3, <2>4, StillKeeps
  <1> QED BY <1>3, <1>4, <1>5 DEF ClientStep

\* Nobody is asked: the product is shown as sold out.
LEMMA BuyBlockedKeeps ==
    ASSUME SyncInv, BuyBlocked
    PROVE  SyncInv' /\ NoStock(notices, notices')
  <1>1. Inv /\ SyncTyped
    BY DEF SyncInv
  <1>2. PICK st, end : st = State /\ end = Emptied(st)
    OBVIOUS
  <1>3. st \in SyncStates /\ RowsSound(st.rows) /\ st.rows = notices
    BY <1>1, <1>2, StateTyped
  <1>4. Leaves(st, end, {})
    BY <1>2, <1>3, EmptiedLeaves
  <1>5. Commit(end.p, end.rows, {}) /\ Calm /\ Spend("buys") /\ blocked' = Restored
        /\ UNCHANGED <<clients, off, seller, rests, failed, seen, books, debits, refunds,
                       moved, gpt, asked>>
    BY <1>2 DEF BuyBlocked
  <1>6. NoStock(notices, notices')
    <2>1. PICK t, n, y : t = [st EXCEPT !.p.gone = 0] /\ n = 0 /\ y = TRUE
      OBVIOUS
    <2>2. /\ t \in SyncStates /\ RowsSound(t.rows) /\ t.rows = st.rows
      <3>1. Leads(st, t) /\ t.rows = st.rows
        BY <1>3, <2>1, GoneLeads
      <3> QED BY <3>1 DEF Leads
    <2>3. end = ApplySupplierStock(t, n, y) /\ n \in Nat /\ y \in BOOLEAN
      BY <1>2, <2>1 DEF Emptied
    <2>4. ~y \/ ~(n > t.p.supply) => NoStock(t.rows, end.rows)
      BY <2>2, <2>3, StockLeads
    <2>5. t.p.supply \in Nat
      BY <2>2, ProductFields DEF SyncStates
    <2>6. notices' = end.rows
      BY <1>5 DEF Commit
    <2> QED BY <1>3, <2>1, <2>2, <2>4, <2>5, <2>6
  <1>7. left' \in [DOMAIN left' -> Nat] /\ "refreshes" \in DOMAIN left' /\ left'.refreshes = 0
    <2>1. left \in [DOMAIN left -> Nat] /\ "refreshes" \in DOMAIN left /\ left.refreshes = 0
          /\ "buys" # "refreshes"
      BY <1>1 DEF Inv, Controls, SyncTyped
    <2> QED BY <1>5, <2>1, SpentTyped
  <1>8. Inv'
    <2>1. PICK p, rows : p = end.p /\ rows = end.rows
      OBVIOUS
    <2>2. /\ p \in ProductRow /\ p.gone <= p.supply /\ Follows(notices, rows)
          /\ Commit(p, rows, {}) /\ Calm
      BY <1>3, <1>4, <1>5, <2>1 DEF Leaves, SyncStates
    <2>3. BookTypes
      BY <1>1 DEF Inv
    <2>4. Grows
      BY <2>2, <2>3, CalmGrows
    <2>5. Controls'
      BY <1>1, <1>5, <1>7 DEF Calm, Controls, Inv
    <2> QED BY <1>1, <2>4, <2>5, GrowsKeeps
  <1>9. rests' \subseteq clients /\ blocked' \subseteq {"lehai", "canboso"}
        /\ failed' \in BOOLEAN /\ gpt' \in BOOLEAN
    BY <1>1, <1>5, RestoredTyped DEF SyncTyped
  <1>10. UNCHANGED <<clients, off, seller, seen, books, debits, refunds, moved, asked>>
    BY <1>5
  <1>11. SyncInv'
    BY <1>7, <1>8, <1>9, <1>10, StillKeeps
  <1> QED BY <1>6, <1>11

LEMMA SyncedAsks ==
    ASSUME Inv, SyncTyped, Synced
    PROVE  \E st, routes : Asks(st, routes)
  <1>1. PICK ans \in Answers :
          \/ \E toGpt \in {FALSE, left.gpt > 0 /\ ToppedUp(State)} :
                \/ SyncProduct(ans, toGpt)
                \/ BuyNothing(ans, toGpt)
                \/ \E again \in BOOLEAN : BuyFromBlocked(ans, toGpt, again)
                \/ \E s \in clients, fate \in {"sold", "refused", "lost"} :
                      BuyFrom(s, ans, toGpt, fate)
          \/ \E s \in clients : SwitchSupplier(s, ans)
    BY DEF Synced
  <1>2. \A toGpt \in {FALSE, left.gpt > 0 /\ ToppedUp(State)} : toGpt \in BOOLEAN
    OBVIOUS
  <1> QED BY <1>1, <1>2, SyncProductAsks, BuyNothingAsks, BuyFromBlockedAsks,
              BuyFromAsks, SwitchAsks

\* The other variables of this module are left alone.
LEMMA NoticesKeep ==
    ASSUME SyncInv, UNCHANGED sync,
           \/ Outside \/ BroadcastStep \/ AlertStep \/ TimePasses
           \/ UNCHANGED vars
    PROVE  SyncInv'
  <1>1. Inv /\ SyncTyped
    BY DEF SyncInv
  <1>2. Inv'
    BY <1>1, NextKeeps DEF Next
  <1>3. left \in [DOMAIN left -> Nat] /\ "refreshes" \in DOMAIN left /\ left.refreshes = 0
    BY <1>1 DEF Inv, Controls, SyncTyped
  <1>4. "refreshes" \in DOMAIN left' /\ left'.refreshes = 0
    <2>1. CASE UNCHANGED vars
      BY <1>3, <2>1 DEF vars
    <2>2. CASE Outside \/ BroadcastStep \/ AlertStep \/ TimePasses
      BY <1>3, <2>2, NoticesLeft
    <2> QED BY <2>1, <2>2
  <1>5. UNCHANGED <<clients, off, seller, seen, books, debits, refunds, moved, asked>>
        /\ rests' = rests /\ blocked' = blocked /\ failed' = failed /\ gpt' = gpt
    BY DEF sync
  <1>6. rests' \subseteq clients /\ blocked' \subseteq {"lehai", "canboso"}
        /\ failed' \in BOOLEAN /\ gpt' \in BOOLEAN
    BY <1>1, <1>5 DEF SyncTyped
  <1> QED BY <1>2, <1>4, <1>5, <1>6, StillKeeps

LEMMA SyncNextKeeps ==
    ASSUME SyncInv, [SyncNext]_all
    PROVE  SyncInv'
  <1>1. CASE (Outside \/ BroadcastStep \/ AlertStep \/ TimePasses) /\ UNCHANGED sync
    BY <1>1, NoticesKeep
  <1>2. CASE Synced
    BY <1>2, SyncedAsks, AsksKeeps DEF SyncInv
  <1>3. CASE BuyBlocked
    BY <1>3, BuyBlockedKeeps
  <1>4. CASE Sellers
    BY <1>4, RepayKeeps, TopUpKeeps, RestockKeeps, AuditKeeps DEF Sellers
  <1>5. CASE ClientStep \/ Restart
    BY <1>5, ClientKeeps
  <1>6. CASE UNCHANGED all
    BY <1>6, NoticesKeep DEF all
  <1> QED BY <1>1, <1>2, <1>3, <1>4, <1>5, <1>6 DEF SyncNext

\* While a failure of Le Hai is told, its row tells of it or the process remembers.
BreakerSound ==
    /\ breaker \in Breaker
    /\ breaker = "open" => failed
    /\ breaker = "bare" => "lehai" \in blocked

LEMMA RestoredKeeps ==
    ASSUME "lehai" \in blocked \/ failed
    PROVE  "lehai" \in Restored
  BY DEF Restored, Blocked

LEMMA BreakerSoundKeeps ==
    ASSUME BreakerSound, [SyncNext]_all
    PROVE  BreakerSound'
  <1>1. CASE UNCHANGED <<breaker, failed>> /\ ("lehai" \in blocked => "lehai" \in blocked')
    BY <1>1 DEF BreakerSound
  <1>2. "lehai" \in blocked => "lehai" \in Restored
    BY RestoredKeeps
  <1>3. ASSUME NEW ans, NEW toGpt, NEW again \in BOOLEAN, BuyFromBlocked(ans, toGpt, again)
        PROVE  BreakerSound'
    <2>1. /\ blocked' = Restored /\ failed' = (failed /\ ~again)
          /\ breaker' = IF again THEN "bare" ELSE breaker
          /\ Blocked
      BY <1>3 DEF BuyFromBlocked
    <2>2. "lehai" \in blocked'
      BY <2>1, RestoredKeeps DEF Blocked
    <2> QED BY <2>1, <2>2 DEF BreakerSound, Breaker
  <1>4. ASSUME NEW s, NEW ans, NEW toGpt, NEW fate, BuyFrom(s, ans, toGpt, fate)
        PROVE  BreakerSound'
    <2>1. /\ blocked' = Restored \cup Remembered(s, fate)
          /\ failed' = (failed \/ (s = "lehai" /\ fate = "refused"))
          /\ breaker' = IF s = "lehai" /\ fate = "refused" THEN "open" ELSE breaker
      BY <1>4 DEF BuyFrom
    <2> QED BY <1>2, <2>1 DEF BreakerSound, Breaker
  <1>5. CASE Synced
    <2>1. ASSUME NEW ans, NEW toGpt, SyncProduct(ans, toGpt) \/ BuyNothing(ans, toGpt)
          PROVE  BreakerSound'
      BY <1>1, <1>2, <2>1 DEF SyncProduct, BuyNothing
    <2>2. ASSUME NEW ans, NEW s, SwitchSupplier(s, ans)
          PROVE  BreakerSound'
      BY <1>1, <1>2, <2>2 DEF SwitchSupplier
    <2> QED BY <1>3, <1>4, <1>5, <2>1, <2>2 DEF Synced
  <1>6. CASE UNCHANGED sync \/ UNCHANGED all
    BY <1>1, <1>6 DEF sync, all
  <1>7. CASE BuyBlocked
    BY <1>1, <1>2, <1>7 DEF BuyBlocked
  <1>8. CASE Sellers
    BY <1>1, <1>8 DEF Sellers, Repay, TopUp, Restock, Audit
  <1>9. CASE Elapse \/ TellGpt
    BY <1>1, <1>9 DEF Elapse, TellGpt
  <1>10. CASE BreakerEnds
    BY <1>10 DEF BreakerEnds, BreakerSound, Breaker
  <1>11. CASE Restart
    BY <1>11 DEF Restart, BreakerSound, Breaker
  <1> QED BY <1>5, <1>6, <1>7, <1>8, <1>9, <1>10, <1>11 DEF SyncNext, ClientStep

\* For ten minutes after Le Hai failed a purchase, the row of the purchase's key or the
\* process's memory tells of it, whatever is bought, switched or restarted; what a
\* repeated key loses is the row, and a restart after that the memory too.
THEOREM BreakerInvariant == SyncSpec => []BreakerSound
  <1>1. SyncInit => BreakerSound
    BY DEF SyncInit, BreakerSound, Breaker
  <1>2. BreakerSound /\ [SyncNext]_all => BreakerSound'
    BY BreakerSoundKeeps
  <1> QED BY <1>1, <1>2, PTL DEF SyncSpec

\* The invariant holds always.
THEOREM SyncInvariant == SyncSpec => []SyncInv
  <1>1. SyncInit => SyncInv
    BY SyncInitInv
  <1>2. SyncInv /\ [SyncNext]_all => SyncInv'
    BY SyncNextKeeps
  <1> QED BY <1>1, <1>2, PTL DEF SyncSpec

\* Every variable keeps a value of its kind, those of the product's notices among
\* them: what the suppliers, the refreshes and the audit may leave behind.
THEOREM SyncTypeCorrect == SyncSpec => []SyncTypeOK
  <1>1. SyncInv /\ BreakerSound => SyncTypeOK
    <2> SUFFICES ASSUME SyncInv, BreakerSound PROVE SyncTypeOK
      OBVIOUS
    <2>1. TypeOK /\ SyncTyped
      BY InvTypes DEF SyncInv
    <2>2. ASSUME NEW s \in Supplier
          PROVE  /\ \A f \in DOMAIN seller[s] : seller[s][f] \in Nat
                 /\ seen[s].wallet \in Nat \cup {-1} /\ seen[s].armed \in BOOLEAN
                 /\ seen[s].news \in BOOLEAN
                 /\ books[s].last \in Nat /\ books[s].bought \in Nat
                 /\ asked[s] \in Nat
      <3>1. /\ seller[s] \in [wallet: Nat, goods: Nat, owes: Nat] /\ seen[s] \in SeenRow
            /\ books[s] \in [last: Nat, bought: Nat] /\ asked[s] \in Nat
        BY <2>1 DEF SyncTyped, SellersTyped
      <3>2. \A f \in DOMAIN seller[s] : seller[s][f] \in Nat
        BY <3>1
      <3>3. seen[s].wallet \in Nat \cup {-1} /\ seen[s].armed \in BOOLEAN
            /\ seen[s].news \in BOOLEAN
        BY <3>1 DEF SeenRow
      <3> QED BY <3>1, <3>2, <3>3
    <2> QED BY <2>1, <2>2 DEF SyncTyped, SellersTyped, BreakerSound, SyncTypeOK
  <1> QED BY <1>1, SyncInvariant, BreakerInvariant, PTL

-----------------------------------------------------------------------------
(***************************************************************************)
(* A refund tells customers nothing.                                        *)
(***************************************************************************)
LEMMA AboveOne ==
    ASSUME NEW w \in Int, NEW a \in Int, NEW b \in Int
    PROVE  w > Min({a, b}) <=> w > a \/ w > b
  <1>1. PICK m : m = Min({a, b})
    OBVIOUS
  <1>2. m = IF a <= b THEN a ELSE b
    BY <1>1, LessOfTwo
  <1> QED BY <1>1, <1>2

\* A supplier may announce a top-up just when a refresh would arm it.
LEMMA MayArmIs ==
    ASSUME SyncTyped, NEW s \in Supplier
    PROVE  /\ seller[s].wallet \in Nat /\ seen[s].wallet \in Int /\ books[s].last \in Nat
           /\ MayArm(s) <=>
                \/ seen[s].armed \/ seen[s].news
                \/ seller[s].wallet > seen[s].wallet
                \/ seller[s].wallet > books[s].last
  <1>1. PICK w, a, b : w = seller[s].wallet /\ a = seen[s].wallet /\ b = books[s].last
    OBVIOUS
  <1>2. w \in Nat /\ a \in Int /\ b \in Nat
    <2>1. seen[s] \in SeenRow /\ books[s] \in [last: Nat, bought: Nat]
      BY DEF SyncTyped, SellersTyped
    <2>2. w \in Nat
      BY <1>1, EffectiveNat DEF SyncTyped
    <2> QED BY <1>1, <2>1, <2>2 DEF SeenRow
  <1>3. w > Min({a, b}) <=> w > a \/ w > b
    BY <1>2, AboveOne
  <1> QED BY <1>1, <1>2, <1>3 DEF MayArm

\* No supplier is armed, and Le Hai's balance grew by what it gave back: a refresh
\* has nothing to tell.
LEMMA RefundUntold ==
    ASSUME SyncInv, NEW st, NEW routes, Asks(st, routes),
           moved = {"repaid"}, product.mode = "balance",
           seen["lehai"].wallet < seller["lehai"].wallet,
           \A s \in Second : ~MayArm(s)
    PROVE  NoStock(notices, notices')
  <1>1. SyncTyped /\ MoneyTold /\ SellersTyped /\ "lehai" \in Supplier
    BY DEF SyncInv, SyncTyped, Supplier
  <1>2. /\ st \in SyncStates /\ st.p.mode # "always"
        /\ \A s \in Second : st.seen[s] = seen[s]
        /\ st.seen["lehai"] = seen["lehai"] \/ st.seen["lehai"].wallet = -1
    BY DEF Asks
  <1>3. Announced(st, routes) = {}
    <2> SUFFICES ASSUME NEW s \in Announced(st, routes) PROVE FALSE
      OBVIOUS
    <2>1. s \in Second /\ s \in Supplier /\ Tracked(st, s).armed
      BY DEF Announced, Ready, Second, Supplier
    <2>2. st.seen[s] = seen[s] /\ ~MayArm(s)
      BY <1>2, <2>1
    <2>3. \/ seen[s].armed \/ seen[s].news
          \/ seller[s].wallet > seen[s].wallet
          \/ seller[s].wallet > books[s].last
      BY <1>1, <1>2, <2>1, <2>2, TrackedIs
    <2> QED BY <1>1, <2>1, <2>2, <2>3, MayArmIs
  <1>4. ~Topped(st, routes)
    <2> SUFFICES ASSUME ToppedUp(st) PROVE FALSE
      BY DEF Topped
    <2>1. PICK was, now : was = st.seen["lehai"].wallet /\ now = seller["lehai"].wallet
      OBVIOUS
    <2>2. was >= 0 /\ now > was /\ ~IsRefund(was, now)
      BY <2>1 DEF ToppedUp
    <2>3. was # -1 /\ was = seen["lehai"].wallet
      <3>1. was # -1
        BY <2>2
      <3> QED BY <1>2, <2>1, <3>1
    <2>4. was \in Int /\ now \in Nat
      BY <1>1, <2>1, <2>3, MayArmIs
    <2>5. Repaid(was, now)
      BY <1>1, <2>1, <2>2, <2>3, <2>4 DEF MoneyTold
    <2>6. now - was = 1
      BY <2>4, <2>5 DEF Repaid
    <2>7. \/ [amount |-> now - was, before |-> was, after |-> now] \in refunds
          \/ \E i \in DOMAIN debits : debits[i] = now - was
      <3>1. CASE 1 \in ToSet(debits)
        BY <2>6, <3>1 DEF ToSet
      <3>2. CASE [amount |-> 1, before |-> was, after |-> now] \in refunds
        BY <2>6, <3>2
      <3> QED BY <2>5, <3>1, <3>2 DEF Repaid
    <2> QED BY <2>2, <2>7 DEF IsRefund
  <1> QED BY <1>2, <1>3, <1>4 DEF Asks

\* Steps that leave the notices alone, or their number.
LEMMA NoticesStay ==
    ASSUME Sellers \/ ClientStep \/ Restart
    PROVE  notices' = notices
  <1>1. CASE Sellers
    BY <1>1 DEF Sellers, Repay, TopUp, Restock, Audit, Elsewhere
  <1>2. CASE ClientStep
    BY <1>2 DEF ClientStep, Elapse, BreakerEnds, TellGpt, Elsewhere, vars
  <1>3. CASE Restart
    BY <1>3 DEF Restart, Crash
  <1> QED BY <1>1, <1>2, <1>3

\* A refund of a debit that the audit had found is not announced as new stock: for
\* any prices, suppliers, failures and purchases, and whether the audit or the
\* refresh sees the money first.
THEOREM RefundIsQuietAlways == SyncSpec => RefundIsQuiet
  <1>1. ASSUME SyncInv, [SyncNext]_all
        PROVE  [ /\ moved = {"repaid"} /\ product.mode = "balance"
                 /\ seen["lehai"].wallet < seller["lehai"].wallet
                 /\ \A s \in Second : ~MayArm(s)
                 => \A i \in DOMAIN notices' \ DOMAIN notices :
                        notices'[i].kind = "stock" => notices'[i].by # "supplier" ]_all
    <2> SUFFICES ASSUME moved = {"repaid"}, product.mode = "balance",
                        seen["lehai"].wallet < seller["lehai"].wallet,
                        \A s \in Second : ~MayArm(s),
                        SyncNext
                 PROVE  NoNews(notices, notices')
      BY <1>1 DEF NoNews
    <2>1. ASSUME NoStock(notices, notices') PROVE NoNews(notices, notices')
      BY <2>1 DEF NoStock, NoNews
    <2>2. CASE Outside \/ BroadcastStep \/ AlertStep \/ TimePasses
      <3>1. BookTypes /\ ~(left.refreshes > 0)
        BY <1>1 DEF SyncInv, SyncTyped, Inv
      <3> QED BY <2>2, <3>1, NoticesQuiet
    <2>3. CASE Synced
      <3>1. PICK st, routes : Asks(st, routes)
        BY <1>1, <2>3, SyncedAsks DEF SyncInv
      <3> QED BY <1>1, <2>1, <3>1, RefundUntold
    <2>4. CASE BuyBlocked
      BY <1>1, <2>1, <2>4, BuyBlockedKeeps
    <2>5. CASE Sellers \/ ClientStep \/ Restart
      BY <2>5, NoticesStay DEF NoNews
    <2> QED BY <2>2, <2>3, <2>4, <2>5 DEF SyncNext
  <1> QED BY <1>1, SyncInvariant, PTL DEF RefundIsQuiet, SyncSpec

-----------------------------------------------------------------------------
(***************************************************************************)
(* A top-up waits until it is told of.                                      *)
(***************************************************************************)

\* What was seen of a supplier and of its book stays, and its balance does not fall.
LEMMA ArmedStays ==
    ASSUME SyncTyped, SyncTyped', NEW s \in Supplier, MayArm(s),
           seen'[s] = seen[s], books'[s].last = books[s].last,
           seller'[s].wallet >= seller[s].wallet
    PROVE  MayArm(s)'
  <1>1. PICK w, v, a, b : /\ w = seller[s].wallet /\ v = seller'[s].wallet
                          /\ a = seen[s].wallet /\ b = books[s].last
    OBVIOUS
  <1>2. w \in Nat /\ a \in Int /\ b \in Nat
        /\ (seen[s].armed \/ seen[s].news \/ w > a \/ w > b)
    BY <1>1, MayArmIs
  <1>3. v \in Nat /\ v >= w
    <2>1. seller'[s] \in [wallet: Nat, goods: Nat, owes: Nat]
      BY DEF SyncTyped, SellersTyped
    <2> QED BY <1>1, <2>1
  <1>4. v > Min({a, b}) <=> v > a \/ v > b
    BY <1>2, <1>3, AboveOne
  <1>5. CASE seen[s].armed \/ seen[s].news
    BY <1>5 DEF MayArm
  <1>6. CASE w > a \/ w > b
    <2>1. v > Min({a, b})
      BY <1>2, <1>3, <1>4, <1>6
    <2> QED BY <1>1, <2>1 DEF MayArm
  <1> QED BY <1>2, <1>5, <1>6

\* A refresh announces what it no longer keeps in mind.
LEMMA AskedHeard ==
    ASSUME SyncInv, NEW st, NEW routes, Asks(st, routes), off' = off, product.known,
           NEW s \in Second, MayArm(s), ~MayArm(s)'
    PROVE  Heard'
  <1>1. SyncTyped /\ SyncTyped' /\ SellersTyped /\ s \in Supplier /\ s # "lehai"
    BY DEF SyncInv, Asks, SyncTyped, Second, Supplier
  <1>2. st = State /\ st \in SyncStates /\ st.p = product /\ st.seen = seen
    BY StateTyped DEF SyncInv, Asks
  <1>3. CASE s \in Announced(st, routes)
    BY <1>2, <1>3 DEF Asks
  <1>4. CASE s \notin routes
    <2>1. seen'[s] = seen[s] /\ seller'[s] = seller[s] /\ books'[s].last = books[s].last
      BY <1>1, <1>2, <1>4 DEF Asks, SeenAfter
    <2>2. seller'[s].wallet >= seller[s].wallet
      BY <1>1, <2>1, MayArmIs
    <2> QED BY <1>1, <2>1, <2>2, ArmedStays
  <1>5. CASE s \in routes /\ s \notin Announced(st, routes)
    <2>1. Tracked(st, s) \in SeenRow /\ Tracked(st, s).armed
      <3>1. \/ st.seen[s].armed \/ st.seen[s].news
            \/ seller[s].wallet > st.seen[s].wallet
            \/ seller[s].wallet > books[s].last
        BY <1>1, <1>2, MayArmIs
      <3> QED BY <1>1, <1>2, <3>1, TrackedIs
    <2>2. seen'[s] = [Tracked(st, s) EXCEPT !.armed = @ /\ s \notin Announced(st, routes)]
      BY <1>1, <1>5 DEF Asks, SeenAfter
    <2>3. seen'[s].armed
      BY <1>5, <2>1, <2>2 DEF SeenRow
    <2> QED BY <2>3 DEF MayArm
  <1> QED BY <1>3, <1>4, <1>5

\* The audit leaves word of what it finds above the book.
LEMMA AuditArms ==
    ASSUME SyncInv, SyncTyped', NEW x \in clients, Audit(x), NEW s \in Second, MayArm(s)
    PROVE  MayArm(s)'
  <1>1. SyncTyped /\ s \in Supplier /\ x \in Supplier /\ s # "lehai"
    BY DEF SyncInv, SyncTyped, SellersTyped, Second, Supplier
  <1>2. PICK extra : extra = seller[x].wallet - books[x].last + books[x].bought
    OBVIOUS
  <1>3. /\ \A y \in Supplier : y # x => books'[y] = books[y] /\ seen'[y] = seen[y]
        /\ books'[x] = [last |-> seller[x].wallet, bought |-> 0]
        /\ seen'[x].wallet = seen[x].wallet /\ seen'[x].armed = seen[x].armed
        /\ seen'[x].news <=> seen[x].news \/ (x # "lehai" /\ extra > 0)
    BY <1>1, <1>2, AuditIs
  <1>4. seller' = seller
    BY DEF Audit
  <1>5. CASE x # s
    <2>1. seller'[s].wallet >= seller[s].wallet
      BY <1>1, <1>4, MayArmIs
    <2> QED BY <1>1, <1>3, <1>4, <1>5, <2>1, ArmedStays
  <1>6. CASE x = s
    <2>1. PICK w, a, b : w = seller[s].wallet /\ a = seen[s].wallet /\ b = books[s].last
      OBVIOUS
    <2>2. w \in Nat /\ a \in Int /\ b \in Nat
          /\ (seen[s].armed \/ seen[s].news \/ w > a \/ w > b)
      BY <1>1, <2>1, MayArmIs
    <2>3. CASE seen[s].armed \/ seen[s].news
      BY <1>3, <1>6, <2>3 DEF MayArm
    <2>4. CASE w > b
      <3>1. books[s].bought \in Nat
        BY <1>1 DEF SyncTyped, SellersTyped
      <3>2. extra > 0
        BY <1>2, <1>6, <2>1, <2>2, <2>4, <3>1
      <3>3. seen'[s].news
        BY <1>1, <1>3, <1>6, <3>2
      <3> QED BY <3>3 DEF MayArm
    <2>5. CASE w > a
      <3>1. w > Min({a, w})
        BY <2>2, <2>5, AboveOne
      <3>2. seller'[s].wallet = w /\ seen'[s].wallet = a /\ books'[s].last = w
        BY <1>3, <1>4, <1>6, <2>1
      <3> QED BY <3>1, <3>2 DEF MayArm
    <2> QED BY <2>2, <2>3, <2>4, <2>5
  <1> QED BY <1>5, <1>6

\* The other steps leave what was seen, and the balances do not fall in them.
LEMMA OthersArm ==
    ASSUME SyncInv, SyncTyped', NEW s \in Second, MayArm(s), UNCHANGED <<seen, books>>,
           \/ UNCHANGED seller
           \/ Repay
           \/ \E x \in clients : TopUp(x) \/ Restock(x)
    PROVE  MayArm(s)'
  <1>1. SyncTyped /\ s \in Supplier /\ s # "lehai"
        /\ seller \in [Supplier -> [wallet: Nat, goods: Nat, owes: Nat]]
    BY DEF SyncInv, SyncTyped, SellersTyped, Second, Supplier
  <1>2. seller[s].wallet \in Nat
    BY <1>1
  <1>3. CASE UNCHANGED seller
    BY <1>1, <1>2, <1>3, ArmedStays
  <1>4. CASE Repay
    <2>1. seller'[s] = seller[s]
      BY <1>1, <1>4 DEF Repay
    <2> QED BY <1>1, <1>2, <2>1, ArmedStays
  <1>5. ASSUME NEW x \in clients, TopUp(x) \/ Restock(x) PROVE MayArm(s)'
    <2>1. PICK m : \/ m = [seller[s] EXCEPT !.wallet = @ + 1] /\ TopUp(x)
                   \/ m = [seller[s] EXCEPT !.goods = @ + 1] /\ Restock(x)
      BY <1>5
    <2>2. m.wallet >= seller[s].wallet
      BY <1>1, <1>2, <2>1
    <2>3. seller'[s] = seller[s] \/ seller'[s] = m
      <3>1. CASE m = [seller[s] EXCEPT !.wallet = @ + 1] /\ TopUp(x)
        BY <1>1, <3>1 DEF TopUp
      <3>2. CASE m = [seller[s] EXCEPT !.goods = @ + 1] /\ Restock(x)
        BY <1>1, <3>2 DEF Restock
      <3> QED BY <2>1, <3>1, <3>2
    <2>4. seller'[s].wallet >= seller[s].wallet
      BY <1>2, <2>2, <2>3
    <2> QED BY <1>1, <2>4, ArmedStays
  <1> QED BY <1>3, <1>4, <1>5

\* A top-up of Canboso or Haji that waits is announced before it is forgotten: for
\* any balances, purchases, failures and restarts, whoever sees the money first.
THEOREM TopUpStaysAlways == SyncSpec => TopUpStays
  <1>1. ASSUME SyncInv, [SyncNext]_all
        PROVE  [ off' = off /\ product.known
                 => \A s \in Second : MayArm(s) /\ ~MayArm(s)' => Heard' ]_all
    <2> SUFFICES ASSUME off' = off, product.known, NEW s \in Second, MayArm(s), ~MayArm(s)',
                        SyncNext
                 PROVE  Heard'
      BY <1>1
    <2>1. SyncTyped'
      BY <1>1, SyncNextKeeps DEF SyncInv
    <2>2. ASSUME UNCHANGED <<seen, books>>,
                 UNCHANGED seller \/ Repay \/ \E x \in clients : TopUp(x) \/ Restock(x)
          PROVE  FALSE
      BY <1>1, <2>1, <2>2, OthersArm
    <2>3. CASE Synced
      <3>1. PICK st, routes : Asks(st, routes)
        BY <1>1, <2>3, SyncedAsks DEF SyncInv
      <3> QED BY <1>1, <3>1, AskedHeard
    <2>4. CASE UNCHANGED sync
      BY <2>2, <2>4 DEF sync
    <2>5. CASE BuyBlocked \/ ClientStep \/ Restart
      <3>1. UNCHANGED <<seen, books, seller>>
        BY <2>5 DEF BuyBlocked, ClientStep, Elapse, BreakerEnds, TellGpt, Restart
      <3> QED BY <2>2, <3>1
    <2>6. CASE \E x \in clients : Audit(x)
      BY <1>1, <2>1, <2>6, AuditArms
    <2>7. CASE Repay \/ \E x \in clients : TopUp(x) \/ Restock(x)
      <3>1. UNCHANGED <<seen, books>>
        BY <2>7 DEF Repay, TopUp, Restock
      <3> QED BY <2>2, <2>7, <3>1
    <2> QED BY <2>3, <2>4, <2>5, <2>6, <2>7 DEF SyncNext, Sellers
  <1> QED BY <1>1, SyncInvariant, PTL DEF TopUpStays, SyncSpec

-----------------------------------------------------------------------------
(***************************************************************************)
(* The circuit breaker.                                                     *)
(***************************************************************************)

\* While a purchase that Le Hai failed is less than ten minutes old, Le Hai is asked
\* for no other: in any order of purchases, repeated keys, refreshes, switches and
\* restarts, as long as the row or the memory of the failure is left.
THEOREM BreakerHoldsAlways == SyncSpec => BreakerHolds
  <1>1. ASSUME SyncInv, BreakerSound, [SyncNext]_all
        PROVE  [ (breaker \in {"open", "bare"}) => asked'["lehai"] = asked["lehai"] ]_all
    <2> SUFFICES ASSUME breaker \in {"open", "bare"}, SyncNext
                 PROVE  asked'["lehai"] = asked["lehai"]
      BY <1>1
    <2>0. Blocked
      BY <1>1 DEF BreakerSound, Blocked
    <2>1. CASE UNCHANGED asked
      BY <2>1
    <2>2. ASSUME NEW s \in clients, NEW ans, NEW toGpt, NEW fate, BuyFrom(s, ans, toGpt, fate)
          PROVE  asked'["lehai"] = asked["lehai"]
      <3>1. s # "lehai" /\ asked' = [asked EXCEPT ![s] = @ + 1]
        BY <2>0, <2>2 DEF BuyFrom
      <3>2. asked \in [Supplier -> Nat] /\ "lehai" \in Supplier
        BY <1>1 DEF SyncInv, SyncTyped, Supplier
      <3> QED BY <3>1, <3>2
    <2>3. CASE Synced
      <3>1. ASSUME NEW ans, NEW toGpt, NEW again, NEW s,
                   \/ SyncProduct(ans, toGpt) \/ BuyNothing(ans, toGpt)
                   \/ BuyFromBlocked(ans, toGpt, again) \/ SwitchSupplier(s, ans)
            PROVE  UNCHANGED asked
        <4>1. CASE SyncProduct(ans, toGpt) \/ BuyNothing(ans, toGpt)
          BY <4>1 DEF SyncProduct, BuyNothing
        <4>2. CASE BuyFromBlocked(ans, toGpt, again)
          BY <4>2 DEF BuyFromBlocked
        <4>3. CASE SwitchSupplier(s, ans)
          BY <4>3 DEF SwitchSupplier
        <4> QED BY <3>1, <4>1, <4>2, <4>3
      <3> QED BY <2>1, <2>2, <2>3, <3>1 DEF Synced
    <2>4. CASE UNCHANGED sync \/ BuyBlocked
      BY <2>1, <2>4 DEF sync, BuyBlocked
    <2>5. CASE Sellers \/ ClientStep \/ Restart
      BY <2>1, <2>5 DEF Sellers, Repay, TopUp, Restock, Audit, ClientStep, Elapse, BreakerEnds,
                       TellGpt, Restart, Elsewhere
    <2> QED BY <2>3, <2>4, <2>5 DEF SyncNext
  <1> QED BY <1>1, SyncInvariant, BreakerInvariant, PTL DEF BreakerHolds, SyncSpec
=============================================================================
