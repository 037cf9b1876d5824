---------------------------- MODULE NoticesProofs ----------------------------
(***************************************************************************)
(* What the two workers and everything that puts an alert in line keep, for *)
(* any users, prices, products and scenes.                                  *)
(***************************************************************************)
EXTENDS Notices, FiniteSetTheorems, WellFoundedInduction, TLAPS

(***************************************************************************)
(* The strengthening.                                                       *)
(***************************************************************************)
\* a row by itself
Fits(r) ==
    r.status \in IF r.kind = "broadcast" THEN {"queued", "sending", "completed"}
                 ELSE {"pending", "sending", "sent", "superseded"}
RowSound(r) ==
    /\ Fits(r)
    /\ r.live => r.kind = "flash"
    /\ r.by = "manual" => r.kind = "stock"
    /\ r.status = "sending" => r.begun
RowsSound(rows) == rows \in Seq(NoticeRow) /\ \A i \in DOMAIN rows : RowSound(rows[i])

\* what OnePending counts, for a row
SaleWaits(r) == r.kind = "sale" /\ r.status = "pending" /\ ~r.begun
StockWaits(r) == r.kind = "stock" /\ r.by # "manual" /\ r.status = "pending" /\ ~r.begun
ManualWaits(r) == r.kind = "stock" /\ r.by = "manual" /\ r.status \in {"pending", "sending"}
Rivals(r, n) ==
    \/ SaleWaits(r) /\ SaleWaits(n)
    \/ StockWaits(r) /\ StockWaits(n)
    \/ ManualWaits(r) /\ ManualWaits(n)
OneInLine(rows) == \A i, j \in DOMAIN rows : Rivals(rows[i], rows[j]) => i = j

\* n is what a transaction outside the workers may make of the row r
RowFollows(r, n) ==
    /\ n \in NoticeRow
    /\ n.kind = r.kind /\ n.begun = r.begun
    /\ n.by = "manual" <=> r.by = "manual"
    /\ n.live => r.live
    /\ \/ n.status = r.status
       \/ /\ n.status = "superseded" /\ r.status \in {"pending", "sending"}
          /\ r.kind # "broadcast" /\ r.by # "manual"
Begins(n) ==
    n \in NoticeRow /\ RowSound(n) /\ ~n.begun /\ n.status \in {"queued", "pending", "superseded"}

Follows(rows, new) ==
    /\ new \in Seq(NoticeRow) /\ Len(rows) <= Len(new)
    /\ \A i \in 1 .. Len(rows) : RowFollows(rows[i], new[i])
    /\ \A i \in Len(rows) + 1 .. Len(new) : Begins(new[i])
    /\ OneInLine(rows) => OneInLine(new)
-----------------------------------------------------------------------------
(***************************************************************************)
(* Numbers and sequences.                                                   *)
(***************************************************************************)
LEMMA LeastOf ==
    ASSUME NEW S \in SUBSET Nat, S # {}
    PROVE  \E m \in S : \A y \in S : m <= y
  <1>1. PICK m \in S : \A y \in S : ~(<<y, m>> \in OpToRel(<, Nat))
    BY WFMin, NatLessThanWellFounded
  <1>2. ASSUME NEW y \in S, y < m PROVE FALSE
    <2>1. <<y, m>> \in Nat \X Nat
      OBVIOUS
    <2>2. <<y, m>> \in OpToRel(<, Nat)
      BY <1>2, <2>1 DEF OpToRel
    <2> QED BY <1>1, <2>2
  <1>3. \A y \in S : m <= y
    BY <1>2
  <1> QED BY <1>3

LEMMA LeastIn ==
    ASSUME NEW S \in SUBSET Nat, S # {}
    PROVE  Min(S) \in S
  BY LeastOf DEF Min

LEMMA MostIn ==
    ASSUME NEW n \in Nat, NEW S \in SUBSET (1 .. n), S # {}
    PROVE  Max(S) \in S
  <1>1. PICK T : T = {n - x : x \in S}
    OBVIOUS
  <1>2. T \in SUBSET Nat
    BY <1>1
  <1>3. T # {}
    BY <1>1
  <1>4. PICK m \in T : \A y \in T : m <= y
    BY <1>2, <1>3, LeastOf
  <1>5. PICK x \in S : m = n - x
    BY <1>1
  <1>6. \A y \in S : m <= n - y
    BY <1>1, <1>4
  <1>7. \A y \in S : x >= y
    BY <1>5, <1>6
  <1> QED BY <1>7 DEF Max

LEMMA SequenceOf ==
    ASSUME NEW T, NEW n \in Nat, NEW f, f = [i \in 1 .. n |-> f[i]],
           \A i \in 1 .. n : f[i] \in T
    PROVE  f \in Seq(T) /\ Len(f) = n
  <1>1. f \in [1 .. n -> T]
    OBVIOUS
  <1>2. f \in Seq(T)
    BY <1>1
  <1> QED BY <1>1, <1>2

-----------------------------------------------------------------------------
(***************************************************************************)
(* What is in line, changed and extended.                                   *)
(***************************************************************************)
LEMMA FollowsItself ==
    ASSUME NEW rows \in Seq(NoticeRow)
    PROVE  Follows(rows, rows)
  <1>1. \A i \in 1 .. Len(rows) : rows[i] \in NoticeRow
    OBVIOUS
  <1> QED BY <1>1 DEF Follows, RowFollows

LEMMA StillBegins ==
    ASSUME NEW r, NEW n, Begins(r), RowFollows(r, n)
    PROVE  Begins(n)
  BY DEF Begins, RowFollows, RowSound, Fits

LEMMA StillSound ==
    ASSUME NEW r, NEW n, RowSound(r), RowFollows(r, n)
    PROVE  RowSound(n)
  BY DEF RowFollows, RowSound, Fits

LEMMA FollowsOn ==
    ASSUME NEW a, NEW b, NEW c, Follows(a, b), Follows(b, c), a \in Seq(NoticeRow)
    PROVE  Follows(a, c)
  <1>1. Len(a) \in Nat /\ Len(b) \in Nat /\ Len(c) \in Nat /\ Len(a) <= Len(b) /\ Len(b) <= Len(c)
    BY DEF Follows
  <1>2. \A i \in 1 .. Len(a) : RowFollows(a[i], c[i])
    <2> SUFFICES ASSUME NEW i \in 1 .. Len(a) PROVE RowFollows(a[i], c[i])
      OBVIOUS
    <2>1. RowFollows(a[i], b[i]) /\ RowFollows(b[i], c[i])
      BY <1>1 DEF Follows
    <2> QED BY <2>1 DEF RowFollows
  <1>3. \A i \in Len(a) + 1 .. Len(c) : Begins(c[i])
    <2> SUFFICES ASSUME NEW i \in Len(a) + 1 .. Len(c) PROVE Begins(c[i])
      OBVIOUS
    <2>1. CASE i <= Len(b)
      <3>1. Begins(b[i]) /\ RowFollows(b[i], c[i])
        BY <1>1, <2>1 DEF Follows
      <3> QED BY <3>1, StillBegins
    <2>2. CASE i > Len(b)
      BY <1>1, <2>2 DEF Follows
    <2> QED BY <1>1, <2>1, <2>2
  <1> QED BY <1>1, <1>2, <1>3 DEF Follows

LEMMA SoundFollows ==
    ASSUME NEW rows, NEW new, RowsSound(rows), Follows(rows, new)
    PROVE  RowsSound(new)
  <1>1. Len(rows) \in Nat /\ Len(new) \in Nat /\ DOMAIN new = 1 .. Len(new) /\ new \in Seq(NoticeRow)
    BY DEF RowsSound, Follows
  <1>2. ASSUME NEW i \in 1 .. Len(new) PROVE RowSound(new[i])
    <2>1. CASE i <= Len(rows)
      <3>1. RowSound(rows[i]) /\ RowFollows(rows[i], new[i])
        BY <1>1, <2>1 DEF RowsSound, Follows
      <3> QED BY <3>1, StillSound
    <2>2. CASE i > Len(rows)
      <3>1. Begins(new[i])
        BY <1>1, <2>2 DEF Follows
      <3> QED BY <3>1 DEF Begins
    <2> QED BY <1>1, <2>1, <2>2
  <1> QED BY <1>1, <1>2 DEF RowsSound

\* Rows that are changed and not added.
LEMMA Changed ==
    ASSUME NEW rows \in Seq(NoticeRow), NEW new,
           new = [i \in DOMAIN rows |-> new[i]],
           \A i \in DOMAIN rows : RowFollows(rows[i], new[i])
    PROVE  Follows(rows, new)
  <1>1. DOMAIN rows = 1 .. Len(rows) /\ Len(rows) \in Nat
    OBVIOUS
  <1>2. \A i \in 1 .. Len(rows) : RowFollows(rows[i], new[i])
    BY <1>1
  <1>3. new \in Seq(NoticeRow) /\ Len(new) = Len(rows)
    <2>1. \A i \in 1 .. Len(rows) : new[i] \in NoticeRow
      BY <1>2 DEF RowFollows
    <2>2. new = [i \in 1 .. Len(rows) |-> new[i]]
      BY <1>1
    <2> QED BY <1>1, <2>1, <2>2, SequenceOf
  <1>4. \A i, j \in 1 .. Len(rows) : Rivals(new[i], new[j]) => Rivals(rows[i], rows[j])
    <2> SUFFICES ASSUME NEW i \in 1 .. Len(rows), NEW j \in 1 .. Len(rows)
                 PROVE  Rivals(new[i], new[j]) => Rivals(rows[i], rows[j])
      OBVIOUS
    <2>1. \A r, n : RowFollows(r, n) => /\ SaleWaits(n) => SaleWaits(r)
                                        /\ StockWaits(n) => StockWaits(r)
                                        /\ ManualWaits(n) => ManualWaits(r)
      BY DEF RowFollows, SaleWaits, StockWaits, ManualWaits
    <2> QED BY <1>2, <2>1 DEF Rivals
  <1>5. OneInLine(rows) => OneInLine(new)
    <2>1. DOMAIN new = 1 .. Len(rows)
      BY <1>3
    <2> QED BY <1>1, <1>4, <2>1 DEF OneInLine
  <1> QED BY <1>1, <1>2, <1>3, <1>5 DEF Follows

\* A row that is added where nothing of its kind waits.
LEMMA Added ==
    ASSUME NEW rows \in Seq(NoticeRow), NEW n, Begins(n),
           \A i \in DOMAIN rows : ~Rivals(rows[i], n)
    PROVE  Follows(rows, Append(rows, n))
  <1>1. n \in NoticeRow
    BY DEF Begins
  <1>2. PICK new : new = Append(rows, n)
    OBVIOUS
  <1>3. /\ new \in Seq(NoticeRow) /\ Len(new) = Len(rows) + 1 /\ Len(rows) \in Nat
        /\ \A i \in 1 .. Len(rows) : new[i] = rows[i]
        /\ new[Len(rows) + 1] = n
    BY <1>1, <1>2
  <1>4. \A i \in 1 .. Len(rows) : RowFollows(rows[i], new[i])
    <2>1. \A i \in 1 .. Len(rows) : rows[i] \in NoticeRow
      OBVIOUS
    <2> QED BY <1>3, <2>1 DEF RowFollows
  <1>5. OneInLine(rows) => OneInLine(new)
    <2>1. \A r, s : Rivals(r, s) <=> Rivals(s, r)
      BY DEF Rivals
    <2> SUFFICES ASSUME OneInLine(rows), NEW i \in DOMAIN new, NEW j \in DOMAIN new,
                        Rivals(new[i], new[j])
                 PROVE  i = j
      BY DEF OneInLine
    <2>2. i \in 1 .. Len(rows) + 1 /\ j \in 1 .. Len(rows) + 1
      BY <1>3
    <2>3. CASE i <= Len(rows) /\ j <= Len(rows)
      <3>1. Rivals(rows[i], rows[j]) /\ i \in DOMAIN rows /\ j \in DOMAIN rows
        BY <1>3, <2>2, <2>3
      <3> QED BY <3>1 DEF OneInLine
    <2>4. CASE i <= Len(rows) /\ j = Len(rows) + 1
      BY <1>3, <2>2, <2>4
    <2>5. CASE i = Len(rows) + 1 /\ j <= Len(rows)
      <3>1. Rivals(rows[j], n) /\ j \in DOMAIN rows
        BY <1>3, <2>1, <2>2, <2>5
      <3> QED BY <3>1
    <2> QED BY <1>3, <2>2, <2>3, <2>4, <2>5
  <1>6. \A i \in Len(rows) + 1 .. Len(new) : Begins(new[i])
    BY <1>3
  <1> QED BY <1>2, <1>3, <1>4, <1>5, <1>6 DEF Follows

\* Alerts in line that are taken back: never a broadcast, never one by hand.
LEMMA SupersededFollows ==
    ASSUME NEW rows \in Seq(NoticeRow), NEW set,
           \A i \in set \cap DOMAIN rows :
              /\ rows[i].status \in {"pending", "sending"}
              /\ rows[i].kind # "broadcast" /\ rows[i].by # "manual"
    PROVE  Follows(rows, Superseded(rows, set))
  <1>1. PICK new : new = Superseded(rows, set)
    OBVIOUS
  <1>2. new = [i \in DOMAIN rows |-> new[i]]
    BY <1>1 DEF Superseded
  <1>3. \A i \in DOMAIN rows : RowFollows(rows[i], new[i])
    <2> SUFFICES ASSUME NEW i \in DOMAIN rows PROVE RowFollows(rows[i], new[i])
      OBVIOUS
    <2>0. rows[i] \in NoticeRow
      OBVIOUS
    <2>1. CASE i \in set
      <3>1. new[i] = [rows[i] EXCEPT !.status = "superseded"]
        BY <1>1, <2>1 DEF Superseded
      <3> QED BY <2>0, <2>1, <3>1 DEF RowFollows, NoticeRow
    <2>2. CASE i \notin set
      BY <1>1, <2>0, <2>2 DEF Superseded, RowFollows
    <2> QED BY <2>1, <2>2
  <1> QED BY <1>1, <1>2, <1>3, Changed
-----------------------------------------------------------------------------
(***************************************************************************)
(* What puts an alert in line.                                              *)
(***************************************************************************)
States == [p: ProductRow, rows: Seq(NoticeRow)]

\* what an operator from states to states keeps
Continues(s, t) ==
    /\ t \in States /\ Follows(s.rows, t.rows)
    /\ t.p.gone = s.p.gone /\ t.p.supply = s.p.supply

LEMMA WithRows ==
    ASSUME NEW rows \in Seq(NoticeRow), NEW kind, NEW statuses
    PROVE  /\ With(rows, kind, statuses) \subseteq DOMAIN rows
           /\ Automatic(rows, statuses) \subseteq DOMAIN rows
           /\ \A i \in With(rows, kind, statuses) :
                 rows[i].kind = kind /\ rows[i].status \in statuses
           /\ \A i \in Automatic(rows, statuses) :
                 rows[i].kind = "stock" /\ rows[i].status \in statuses /\ rows[i].by # "manual"
  BY DEF With, Automatic

LEMMA PriceNat == Price \subseteq Nat /\ MaxStock \in Nat
  BY NoticesAssumption

LEMMA ProductFields ==
    ASSUME NEW p \in ProductRow
    PROVE  /\ p.cost \in Nat /\ p.markup \in Nat /\ p.price \in Nat
           /\ p.supply \in Nat /\ p.gone \in Nat /\ p.local \in Nat
  <1>1. p.cost \in Price /\ p.supply \in Nat /\ p.local \in 0 .. MaxStock
    BY DEF ProductRow
  <1>2. p.markup \in Nat /\ p.price \in Nat /\ p.gone \in Nat
    BY DEF ProductRow
  <1>3. p.cost \in Nat
    BY <1>1, PriceNat
  <1>4. p.supply \in Nat /\ p.local \in Nat
    <2>1. \A n \in 0 .. MaxStock : n \in Nat
      OBVIOUS
    <2> QED BY <1>1, <2>1
  <1> QED BY <1>2, <1>3, <1>4

LEMMA ContinuesOn ==
    ASSUME NEW s \in States, NEW t, NEW u, Continues(s, t), Continues(t, u)
    PROVE  Continues(s, u)
  <1>1. s.rows \in Seq(NoticeRow)
    BY DEF States
  <1>2. Follows(s.rows, u.rows)
    BY <1>1, FollowsOn DEF Continues
  <1> QED BY <1>2 DEF Continues

\* The rows alone are replaced.
LEMMA OtherRows ==
    ASSUME NEW s \in States, NEW rows, Follows(s.rows, rows)
    PROVE  /\ Continues(s, [s EXCEPT !.rows = rows])
           /\ [s EXCEPT !.rows = rows].p = s.p /\ [s EXCEPT !.rows = rows].rows = rows
  <1>1. rows \in Seq(NoticeRow)
    BY DEF Follows
  <1>2. PICK t : t = [s EXCEPT !.rows = rows]
    OBVIOUS
  <1>3. t \in States /\ t.p = s.p /\ t.rows = rows
    BY <1>1, <1>2 DEF States
  <1> QED BY <1>2, <1>3 DEF Continues

\* The product alone is changed.
LEMMA OtherProduct ==
    ASSUME NEW s \in States, NEW t, NEW p \in ProductRow, t = [s EXCEPT !.p = p],
           p.gone = s.p.gone, p.supply = s.p.supply
    PROVE  Continues(s, t) /\ t.p = p /\ t.rows = s.rows
  <1>1. t \in States /\ t.p = p /\ t.rows = s.rows
    BY DEF States
  <1>2. Follows(s.rows, t.rows)
    BY <1>1, FollowsItself DEF States
  <1> QED BY <1>1, <1>2 DEF Continues

\* A price alert that waits is taken back.
LEMMA SalesTakenBack ==
    ASSUME NEW rows, RowsSound(rows), NEW statuses \in SUBSET {"pending", "sending"}
    PROVE  Follows(rows, Superseded(rows, With(rows, "sale", statuses)))
  <1>1. rows \in Seq(NoticeRow) /\ \A i \in DOMAIN rows : RowSound(rows[i])
    BY DEF RowsSound
  <1>2. \A i \in With(rows, "sale", statuses) \cap DOMAIN rows :
           /\ rows[i].status \in {"pending", "sending"}
           /\ rows[i].kind # "broadcast" /\ rows[i].by # "manual"
    BY <1>1 DEF With, RowSound
  <1> QED BY <1>1, <1>2, SupersededFollows

LEMMA UnsafeContinues ==
    ASSUME NEW s \in States, RowsSound(s.rows)
    PROVE  Continues(s, StopUnsafe(s)) /\ StopUnsafe(s).p = s.p
  <1>1. s.rows \in Seq(NoticeRow) /\ s.p \in ProductRow
    BY DEF States
  <1>2. PICK new : new =
             [i \in DOMAIN s.rows |->
                IF Unsafe(s.p, s.rows[i])
                THEN [s.rows[i] EXCEPT !.live = FALSE,
                        !.status = IF @ \in {"pending", "sending"} THEN "superseded" ELSE @]
                ELSE s.rows[i]]
    OBVIOUS
  <1>3. StopUnsafe(s) = [s EXCEPT !.rows = new]
    BY <1>2 DEF StopUnsafe
  <1>4. new = [i \in DOMAIN s.rows |-> new[i]]
    BY <1>2
  <1>5. \A i \in DOMAIN s.rows : RowFollows(s.rows[i], new[i])
    <2> SUFFICES ASSUME NEW i \in DOMAIN s.rows PROVE RowFollows(s.rows[i], new[i])
      OBVIOUS
    <2>1. PICK r : r = s.rows[i]
      OBVIOUS
    <2>2. r \in NoticeRow /\ RowSound(r)
      BY <1>1, <2>1 DEF RowsSound
    <2>3. \/ new[i] = r
          \/ r.live /\ new[i] = [r EXCEPT !.live = FALSE,
               !.status = IF r.status \in {"pending", "sending"} THEN "superseded" ELSE r.status]
      BY <1>2, <2>1 DEF Unsafe
    <2>4. RowFollows(r, new[i])
      BY <2>2, <2>3 DEF RowFollows, RowSound, NoticeRow
    <2> QED BY <2>1, <2>4
  <1>6. Follows(s.rows, new)
    BY <1>1, <1>4, <1>5, Changed
  <1> QED BY <1>3, <1>6, OtherRows

LEMMA ReleaseContinues ==
    ASSUME NEW s \in States, RowsSound(s.rows)
    PROVE  Continues(s, Release(s))
  <1>1. s.rows \in Seq(NoticeRow) /\ s.p \in ProductRow
    BY DEF States
  <1>2. CASE ~(s.p.locked /\ s.p.local = 0)
    <2>1. Release(s) = s
      BY <1>2 DEF Release
    <2> QED BY <1>1, <2>1, FollowsItself DEF Continues
  <1>3. CASE s.p.locked /\ s.p.local = 0
    <2>1. PICK p : p = [s.p EXCEPT !.locked = FALSE, !.price = s.p.cost + s.p.markup]
      OBVIOUS
    <2>2. PICK t : t = [s EXCEPT !.p = p]
      OBVIOUS
    <2>3. p \in ProductRow /\ p.gone = s.p.gone /\ p.supply = s.p.supply
      <3>1. s.p.cost + s.p.markup \in Nat
        BY <1>1, ProductFields
      <3> QED BY <1>1, <2>1, <3>1 DEF ProductRow
    <2>4. Continues(s, t) /\ RowsSound(t.rows) /\ t \in States
      BY <2>2, <2>3, OtherProduct DEF Continues
    <2>5. PICK q : q = StopUnsafe(t)
      OBVIOUS
    <2>6. Continues(t, q) /\ q \in States
      BY <2>4, <2>5, UnsafeContinues DEF Continues
    <2>7. t = [s EXCEPT !.p.locked = FALSE, !.p.price = s.p.cost + s.p.markup]
      BY <2>1, <2>2 DEF States
    <2>8. RowsSound(q.rows)
      BY <2>4, <2>6, SoundFollows DEF Continues
    <2>9. PICK rows : rows = Superseded(q.rows, With(q.rows, "sale", {"pending"}))
      OBVIOUS
    <2>10. Follows(q.rows, rows)
      BY <2>8, <2>9, SalesTakenBack
    <2>11. Release(s) = [q EXCEPT !.rows = rows]
      BY <1>3, <2>5, <2>7, <2>9 DEF Release
    <2>12. Continues(q, Release(s))
      BY <2>6, <2>10, <2>11, OtherRows
    <2> QED BY <2>4, <2>6, <2>12, ContinuesOn
  <1> QED BY <1>2, <1>3

\* One row is changed.
LEMMA OneChanged ==
    ASSUME NEW rows \in Seq(NoticeRow), NEW i \in DOMAIN rows, NEW r, RowFollows(rows[i], r),
           NEW new, new = [rows EXCEPT ![i] = r]
    PROVE  Follows(rows, new)
  <1>1. new = [j \in DOMAIN rows |-> new[j]]
    OBVIOUS
  <1>2. \A j \in DOMAIN rows : RowFollows(rows[j], new[j])
    <2>1. \A j \in DOMAIN rows : rows[j] \in NoticeRow
      OBVIOUS
    <2>2. \A j \in DOMAIN rows : RowFollows(rows[j], rows[j])
      BY <2>1 DEF RowFollows
    <2> QED BY <2>2
  <1> QED BY <1>1, <1>2, Changed

LEMMA LastOf ==
    ASSUME NEW rows \in Seq(NoticeRow), NEW S \in SUBSET DOMAIN rows, S # {}
    PROVE  Max(S) \in S /\ Max(S) \in DOMAIN rows
  <1>1. DOMAIN rows = 1 .. Len(rows) /\ Len(rows) \in Nat
    OBVIOUS
  <1> QED BY <1>1, MostIn

LEMMA FollowFollows ==
    ASSUME NEW rows, RowsSound(rows), With(rows, "sale", {"pending"}) # {},
           NEW price \in Int, NEW by
    PROVE  Follows(rows, Follow(rows, price, by))
  <1>1. PICK last : last = Max(With(rows, "sale", {"pending"}))
    OBVIOUS
  <1>2. rows \in Seq(NoticeRow)
    BY DEF RowsSound
  <1>3. last \in DOMAIN rows /\ rows[last].kind = "sale" /\ rows[last].status = "pending"
    BY <1>1, <1>2, LastOf, WithRows
  <1>4. rows[last] \in NoticeRow /\ rows[last].by # "manual"
    BY <1>2, <1>3 DEF RowsSound, RowSound
  <1>5. CASE price < rows[last].before
    <2>1. PICK r : r = [rows[last] EXCEPT !.after = price,
                                          !.by = IF by = "admin" THEN by ELSE @]
      OBVIOUS
    <2>2. RowFollows(rows[last], r)
      BY <1>3, <1>4, <2>1 DEF RowFollows, NoticeRow
    <2>3. Follow(rows, price, by) = [rows EXCEPT ![last] = r]
      BY <1>1, <1>5, <2>1 DEF Follow
    <2> QED BY <1>2, <1>3, <2>2, <2>3, OneChanged
  <1>6. CASE ~(price < rows[last].before)
    <2>1. Follow(rows, price, by) = Superseded(rows, {last})
      BY <1>1, <1>6 DEF Follow
    <2>2. \A i \in {last} \cap DOMAIN rows :
             /\ rows[i].status \in {"pending", "sending"}
             /\ rows[i].kind # "broadcast" /\ rows[i].by # "manual"
      BY <1>3, <1>4
    <2> QED BY <1>2, <2>1, <2>2, SupersededFollows
  <1> QED BY <1>5, <1>6

LEMMA NoticeBegins ==
    ASSUME NEW before \in Int, NEW after \in Int
    PROVE  /\ \A by \in {"admin", "supplier"} : Begins(Notice("sale", by, before, after))
           /\ \A by \in {"manual", "inventory", "supplier"} :
                 Begins(Notice("stock", by, before, after))
           /\ Begins(Notice("flash", "admin", before, after))
           /\ Begins(Notice("broadcast", "admin", before, after))
  BY DEF Notice, Begins, NoticeRow, AlertKind, RowSound, Fits

\* No alert of the price waits: one is added.
LEMMA SaleAdded ==
    ASSUME NEW rows \in Seq(NoticeRow), With(rows, "sale", {"pending"}) = {},
           NEW by \in {"admin", "supplier"}, NEW before \in Int, NEW after \in Int
    PROVE  Follows(rows, Append(rows, Notice("sale", by, before, after)))
  <1>1. PICK n : n = Notice("sale", by, before, after)
    OBVIOUS
  <1>2. Begins(n) /\ n.kind = "sale"
    BY <1>1, NoticeBegins DEF Notice
  <1>3. \A i \in DOMAIN rows : ~Rivals(rows[i], n)
    BY <1>2 DEF With, Rivals, SaleWaits, StockWaits, ManualWaits
  <1> QED BY <1>1, <1>2, <1>3, Added

\* No automatic alert of the stock waits: one is added.
LEMMA StockAdded ==
    ASSUME NEW rows \in Seq(NoticeRow), Automatic(rows, {"pending"}) = {},
           NEW by \in {"inventory", "supplier"}, NEW before \in Int, NEW after \in Int
    PROVE  Follows(rows, Append(rows, Notice("stock", by, before, after)))
  <1>1. PICK n : n = Notice("stock", by, before, after)
    OBVIOUS
  <1>2. Begins(n) /\ n.kind = "stock" /\ n.by # "manual"
    BY <1>1, NoticeBegins DEF Notice
  <1>3. \A i \in DOMAIN rows : ~Rivals(rows[i], n)
    BY <1>2 DEF Automatic, With, Rivals, SaleWaits, StockWaits, ManualWaits
  <1> QED BY <1>1, <1>2, <1>3, Added

LEMMA PriceContinues ==
    ASSUME NEW s \in States, RowsSound(s.rows), NEW cost \in Price
    PROVE  Continues(s, ApplySupplierPrice(s, cost))
  <1>0. s.p \in ProductRow /\ s.p.markup \in Nat /\ s.p.price \in Nat
    BY ProductFields DEF States
  <1>1. PICK price : price = cost + s.p.markup
    OBVIOUS
  <1>2. price \in Nat
    BY <1>0, <1>1, PriceNat
  <1>3. PICK p : p = [s.p EXCEPT !.cost = cost, !.price = IF s.p.locked THEN @ ELSE price]
    OBVIOUS
  <1>4. p \in ProductRow /\ p.gone = s.p.gone /\ p.supply = s.p.supply
    BY <1>0, <1>2, <1>3 DEF ProductRow
  <1>5. PICK t : t = [s EXCEPT !.p = p]
    OBVIOUS
  <1>6. Continues(s, t) /\ t \in States /\ RowsSound(t.rows)
    BY <1>4, <1>5, OtherProduct DEF Continues
  <1>7. t = [s EXCEPT !.p.cost = cost, !.p.price = IF s.p.locked THEN @ ELSE price]
    BY <1>3, <1>5 DEF States
  <1>8. PICK q : q = StopUnsafe(t)
    OBVIOUS
  <1>9. Continues(t, q) /\ q \in States
    BY <1>6, <1>8, UnsafeContinues DEF Continues
  <1>10. RowsSound(q.rows) /\ q.rows \in Seq(NoticeRow)
    BY <1>6, <1>9, SoundFollows DEF Continues, States
  <1>11. PICK pending : pending = With(q.rows, "sale", {"pending"})
    OBVIOUS
  <1>12. PICK rows : rows =
          IF s.p.locked \/ s.p.forced THEN Superseded(q.rows, pending)
          ELSE IF ~s.p.saleOn
          THEN Superseded(q.rows, With(q.rows, "sale", {"pending", "sending"}))
          ELSE IF pending # {} THEN Follow(q.rows, price, "supplier")
          ELSE IF price < s.p.price
          THEN Append(q.rows, Notice("sale", "supplier", s.p.price, price))
          ELSE q.rows
    OBVIOUS
  <1>13. ApplySupplierPrice(s, cost) = [q EXCEPT !.rows = rows]
    BY <1>1, <1>7, <1>8, <1>11, <1>12 DEF ApplySupplierPrice
  <1>14. Follows(q.rows, rows)
    <2>1. Follows(q.rows, Superseded(q.rows, pending))
      BY <1>10, <1>11, SalesTakenBack
    <2>2. Follows(q.rows, Superseded(q.rows, With(q.rows, "sale", {"pending", "sending"})))
      BY <1>10, SalesTakenBack
    <2>3. pending # {} => Follows(q.rows, Follow(q.rows, price, "supplier"))
      BY <1>2, <1>10, <1>11, FollowFollows
    <2>4. pending = {} =>
            Follows(q.rows, Append(q.rows, Notice("sale", "supplier", s.p.price, price)))
      BY <1>0, <1>2, <1>10, <1>11, SaleAdded
    <2>5. Follows(q.rows, q.rows)
      BY <1>10, FollowsItself
    <2> QED BY <1>12, <2>1, <2>2, <2>3, <2>4, <2>5
  <1>15. Continues(q, ApplySupplierPrice(s, cost))
    BY <1>9, <1>13, <1>14, OtherRows
  <1> QED BY <1>6, <1>9, <1>15, ContinuesOn

LEMMA StockInt ==
    ASSUME NEW p \in ProductRow
    PROVE  Stock(p) \in Int
  BY ProductFields DEF Stock

LEMMA AdminDropContinues ==
    ASSUME NEW s \in States, RowsSound(s.rows), NEW before \in Int
    PROVE  Continues(s, QueueAdminDrop(s, before))
  <1>0. s.p \in ProductRow /\ s.p.price \in Nat /\ s.rows \in Seq(NoticeRow)
    BY ProductFields DEF States
  <1>1. PICK rows : rows =
          IF With(s.rows, "sale", {"pending"}) # {} THEN Follow(s.rows, s.p.price, "admin")
          ELSE Append(s.rows, Notice("sale", "admin", before, s.p.price))
    OBVIOUS
  <1>2. Follows(s.rows, rows)
    <2>1. CASE With(s.rows, "sale", {"pending"}) # {}
      BY <1>0, <1>1, <2>1, FollowFollows
    <2>2. CASE With(s.rows, "sale", {"pending"}) = {}
      BY <1>0, <1>1, <2>2, SaleAdded
    <2> QED BY <2>1, <2>2
  <1>3. Continues(s, s) /\ Continues(s, [s EXCEPT !.rows = rows])
    BY <1>0, <1>2, FollowsItself, OtherRows DEF Continues
  <1>4. QueueAdminDrop(s, before) = s \/ QueueAdminDrop(s, before) = [s EXCEPT !.rows = rows]
    BY <1>1 DEF QueueAdminDrop
  <1> QED BY <1>3, <1>4

LEMMA AutomaticTakenBack ==
    ASSUME NEW rows \in Seq(NoticeRow), NEW statuses \in SUBSET {"pending", "sending"},
           NEW set \in SUBSET Automatic(rows, statuses)
    PROVE  Follows(rows, Superseded(rows, set))
  <1>1. \A i \in set \cap DOMAIN rows :
           /\ rows[i].status \in {"pending", "sending"}
           /\ rows[i].kind # "broadcast" /\ rows[i].by # "manual"
    BY WithRows
  <1> QED BY <1>1, SupersededFollows

LEMMA StockContinues ==
    ASSUME NEW s \in States, RowsSound(s.rows), NEW n \in Nat, NEW notify
    PROVE  LET t == ApplySupplierStock(s, n, notify) IN
           t \in States /\ Follows(s.rows, t.rows) /\ t.p.gone = s.p.gone /\ t.p.supply = n
  <1>0. s.p \in ProductRow /\ s.p.supply \in Nat /\ s.rows \in Seq(NoticeRow) /\ n \in Nat
    <2>1. s.p \in ProductRow /\ s.rows \in Seq(NoticeRow)
      BY DEF States
    <2> QED BY <2>1, ProductFields
  <1>1. PICK p : p = [s.p EXCEPT !.supply = n, !.known = TRUE]
    OBVIOUS
  <1>2. p \in ProductRow /\ p.gone = s.p.gone /\ p.supply = n
    BY <1>0, <1>1 DEF ProductRow
  <1>3. PICK t : t = [s EXCEPT !.p = p]
    OBVIOUS
  <1>4. t = [s EXCEPT !.p.supply = n, !.p.known = TRUE]
    BY <1>1, <1>3 DEF States
  <1>5. t \in States /\ t.p = p /\ t.rows = s.rows
    BY <1>2, <1>3 DEF States
  <1>6. PICK q : q = Release(t)
    OBVIOUS
  <1>7. Continues(t, q) /\ q \in States /\ q.rows \in Seq(NoticeRow)
    BY <1>5, <1>6, ReleaseContinues DEF Continues, States
  <1>8. PICK pending : pending = Automatic(q.rows, {"pending"})
    OBVIOUS
  <1>9. PICK last : last = Max(pending)
    OBVIOUS
  <1>10. PICK r : r = [q.rows[last] EXCEPT !.before = s.p.supply, !.after = n]
    OBVIOUS
  <1>11. pending # {} => last \in pending /\ last \in DOMAIN q.rows
    BY <1>7, <1>8, <1>9, LastOf, WithRows
  <1>12. Follows(q.rows, Superseded(q.rows, pending))
    BY <1>7, <1>8, AutomaticTakenBack
  <1>13. pending # {} => Follows(q.rows, Superseded(q.rows, {last}))
    BY <1>7, <1>8, <1>11, AutomaticTakenBack
  <1>14. pending # {} => Follows(q.rows, [q.rows EXCEPT ![last] = r])
    <2>1. SUFFICES ASSUME pending # {} PROVE Follows(q.rows, [q.rows EXCEPT ![last] = r])
      OBVIOUS
    <2>2. PICK x : x = q.rows[last]
      OBVIOUS
    <2>3. last \in DOMAIN q.rows /\ x \in NoticeRow
      BY <1>7, <1>11, <2>1, <2>2
    <2>4. RowFollows(x, r)
      <3>1. r = [x EXCEPT !.before = s.p.supply, !.after = n]
        BY <1>10, <2>2
      <3>2. s.p.supply \in Int /\ n \in Int
        BY <1>0
      <3>3. r \in NoticeRow
        BY <2>3, <3>1, <3>2 DEF NoticeRow
      <3> QED BY <2>3, <3>1, <3>3 DEF RowFollows, NoticeRow
    <2> QED BY <1>7, <2>2, <2>3, <2>4, OneChanged
  <1>15. pending = {} =>
           Follows(q.rows, Append(q.rows, Notice("stock", "supplier", s.p.supply, n)))
    BY <1>0, <1>7, <1>8, StockAdded
  <1>16. Follows(q.rows, q.rows)
    BY <1>7, FollowsItself
  <1>17. \E rows : /\ ApplySupplierStock(s, n, notify) = [q EXCEPT !.rows = rows]
                   /\ \/ rows = Superseded(q.rows, pending) \/ rows = q.rows
                      \/ pending # {} /\ rows = Superseded(q.rows, {last})
                      \/ pending # {} /\ rows = [q.rows EXCEPT ![last] = r]
                      \/ /\ pending = {}
                         /\ rows = Append(q.rows, Notice("stock", "supplier", s.p.supply, n))
    BY <1>4, <1>6, <1>8, <1>9, <1>10 DEF ApplySupplierStock
  <1>18. PICK rows : /\ ApplySupplierStock(s, n, notify) = [q EXCEPT !.rows = rows]
                     /\ Follows(q.rows, rows)
    BY <1>12, <1>13, <1>14, <1>15, <1>16, <1>17
  <1>19. Continues(q, ApplySupplierStock(s, n, notify))
    BY <1>7, <1>18, OtherRows
  <1>20. Continues(t, ApplySupplierStock(s, n, notify))
    BY <1>5, <1>7, <1>19, ContinuesOn
  <1> QED BY <1>2, <1>5, <1>20 DEF Continues

\* Without a manual alert in line, what waits of the stock is automatic.
LEMMA NoManual ==
    ASSUME NEW rows, ~ManualActive(rows)
    PROVE  /\ \A i \in With(rows, "stock", {"pending", "sending"}) : rows[i].by # "manual"
           /\ With(rows, "stock", {"pending"}) = Automatic(rows, {"pending"})
  <1>1. With(rows, "stock", {"pending", "sending"}) = Automatic(rows, {"pending", "sending"})
    BY DEF ManualActive
  <1>2. \A i \in With(rows, "stock", {"pending", "sending"}) : rows[i].by # "manual"
    BY <1>1 DEF Automatic
  <1>3. With(rows, "stock", {"pending"}) \subseteq With(rows, "stock", {"pending", "sending"})
    BY DEF With
  <1> QED BY <1>2, <1>3 DEF Automatic

LEMMA InventoryContinues ==
    ASSUME NEW s \in States, NEW before \in Int
    PROVE  Continues(s, QueueInventory(s, before))
  <1>0. s.p \in ProductRow /\ s.rows \in Seq(NoticeRow) /\ Stock(s.p) \in Int
    <2>1. s.p \in ProductRow /\ s.rows \in Seq(NoticeRow)
      BY DEF States
    <2> QED BY <2>1, StockInt
  <1>1. Continues(s, s)
    BY <1>0, FollowsItself DEF Continues
  <1>2. CASE ManualActive(s.rows)
    <2>1. QueueInventory(s, before) = s
      BY <1>2 DEF QueueInventory
    <2> QED BY <1>1, <2>1
  <1>3. CASE ~ManualActive(s.rows)
    <2>1. PICK pending : pending = With(s.rows, "stock", {"pending"})
      OBVIOUS
    <2>2. pending = Automatic(s.rows, {"pending"})
      BY <1>3, <2>1, NoManual
    <2>3. PICK last : last = Max(pending)
      OBVIOUS
    <2>4. PICK r : r = [s.rows[last] EXCEPT !.by = "inventory", !.before = before,
                                            !.after = Stock(s.p)]
      OBVIOUS
    <2>5. PICK rows : rows = IF pending # {} THEN [s.rows EXCEPT ![last] = r]
                             ELSE Append(s.rows, Notice("stock", "inventory", before, Stock(s.p)))
      OBVIOUS
    <2>6. Follows(s.rows, rows)
      <3>1. CASE pending # {}
        <4>1. last \in pending /\ last \in DOMAIN s.rows
          BY <1>0, <2>2, <2>3, <3>1, LastOf, WithRows
        <4>2. s.rows[last] \in NoticeRow /\ s.rows[last].by # "manual"
          <5>1. s.rows[last] \in NoticeRow
            BY <1>0, <4>1
          <5>2. s.rows[last].by # "manual"
            BY <2>2, <4>1 DEF Automatic
          <5> QED BY <5>1, <5>2
        <4>3. RowFollows(s.rows[last], r)
          BY <1>0, <2>4, <4>2 DEF RowFollows, NoticeRow
        <4> QED BY <1>0, <2>5, <3>1, <4>1, <4>3, OneChanged
      <3>2. CASE pending = {}
        BY <1>0, <2>2, <2>5, <3>2, StockAdded
      <3> QED BY <3>1, <3>2
    <2>7. QueueInventory(s, before) = s \/ QueueInventory(s, before) = [s EXCEPT !.rows = rows]
      BY <1>3, <2>1, <2>3, <2>4, <2>5 DEF QueueInventory
    <2> QED BY <1>1, <2>6, <2>7, OtherRows
  <1> QED BY <1>2, <1>3
-----------------------------------------------------------------------------
(***************************************************************************)
(* The transactions of everybody but the workers.                           *)
(***************************************************************************)
BookTypes ==
    /\ product \in ProductRow /\ product.gone <= product.supply
    /\ RowsSound(notices) /\ mail \in Seq(Delivery)
    /\ told \in Seq([User -> Nat]) /\ excused \in Seq([User -> Nat])
    /\ Len(mail) = Len(notices) /\ Len(told) = Len(notices) /\ Len(excused) = Len(notices)
    /\ started \subseteq User
Extended ==
    /\ product' \in ProductRow /\ product'.gone <= product'.supply
    /\ mail' \in Seq(Delivery) /\ told' \in Seq([User -> Nat]) /\ excused' \in Seq([User -> Nat])
    /\ Len(mail') = Len(notices') /\ Len(told') = Len(notices') /\ Len(excused') = Len(notices')
    /\ \A i \in 1 .. Len(notices) :
          mail'[i] = mail[i] /\ told'[i] = told[i] /\ excused'[i] = excused[i]
    /\ \A i \in Len(notices) + 1 .. Len(notices'), u \in User :
          mail'[i][u] \in {"none", "pending"} /\ told'[i][u] = 0 /\ excused'[i][u] = 0
Grows == Follows(notices, notices') /\ Extended /\ UNCHANGED <<desk, started>>

\* A sequence that is extended with k times the same.
LEMMA Padded ==
    ASSUME NEW T, NEW a \in Seq(T), NEW x \in T, NEW k \in Nat, NEW b,
           b = a \o [i \in 1 .. k |-> x]
    PROVE  /\ b \in Seq(T) /\ Len(b) = Len(a) + k
           /\ \A i \in 1 .. Len(a) : b[i] = a[i]
           /\ \A i \in Len(a) + 1 .. Len(a) + k : b[i] = x
  <1>1. PICK t : t = [i \in 1 .. k |-> x]
    OBVIOUS
  <1>2. t = [i \in 1 .. k |-> t[i]] /\ \A i \in 1 .. k : t[i] = x
    BY <1>1
  <1>3. t \in Seq(T) /\ Len(t) = k
    BY <1>2, SequenceOf
  <1>4. b = a \o t /\ Len(a) \in Nat
    BY <1>1
  <1>5. b \in Seq(T)
    BY <1>3, <1>4
  <1>6. Len(b) = Len(a) + k
    BY <1>3, <1>4
  <1>7. \A i \in 1 .. Len(a) : b[i] = a[i]
    BY <1>3, <1>4
  <1>8. \A i \in Len(a) + 1 .. Len(a) + k : b[i] = x
    <2> SUFFICES ASSUME NEW i \in Len(a) + 1 .. Len(a) + k PROVE b[i] = x
      OBVIOUS
    <2>1. b[i] = t[i - Len(a)]
      BY <1>3, <1>4
    <2>2. i - Len(a) \in 1 .. k
      BY <1>4
    <2> QED BY <1>2, <2>1, <2>2
  <1> QED BY <1>5, <1>6, <1>7, <1>8

LEMMA Committed ==
    ASSUME BookTypes, NEW p \in ProductRow, p.gone <= p.supply, NEW rows \in Seq(NoticeRow),
           Len(notices) <= Len(rows), NEW to \in SUBSET User, Commit(p, rows, to)
    PROVE  Extended /\ notices' = rows
  <1>1. notices' = rows /\ product' = p
    BY DEF Commit
  <1>2. PICK k : k = Len(rows) - Len(notices)
    OBVIOUS
  <1>3. k \in Nat /\ Len(notices) \in Nat /\ Len(rows) = Len(notices) + k
    BY <1>2 DEF BookTypes, RowsSound
  <1>4. PICK f, z : f = [u \in User |-> IF u \in to THEN "pending" ELSE "none"]
                    /\ z = [u \in User |-> 0]
    OBVIOUS
  <1>5. f \in Delivery /\ z \in [User -> Nat]
        /\ \A u \in User : f[u] \in {"none", "pending"} /\ z[u] = 0
    BY <1>4 DEF Delivery
  <1>6. /\ mail' \in Seq(Delivery) /\ Len(mail') = Len(rows)
        /\ \A i \in 1 .. Len(notices) : mail'[i] = mail[i]
        /\ \A i \in Len(notices) + 1 .. Len(rows) : mail'[i] = f
    <2>1. mail \in Seq(Delivery) /\ Len(mail) = Len(notices) /\ f \in Delivery
      BY <1>5 DEF BookTypes
    <2>2. mail' = mail \o [i \in 1 .. k |-> f]
      BY <1>2, <1>4, <2>1 DEF Commit
    <2>3. /\ mail' \in Seq(Delivery) /\ Len(mail') = Len(mail) + k
          /\ \A i \in 1 .. Len(mail) : mail'[i] = mail[i]
          /\ \A i \in Len(mail) + 1 .. Len(mail) + k : mail'[i] = f
      BY <1>3, <2>1, <2>2, Padded
    <2> QED BY <1>3, <2>1, <2>3
  <1>7. /\ told' \in Seq([User -> Nat]) /\ Len(told') = Len(rows)
        /\ \A i \in 1 .. Len(notices) : told'[i] = told[i]
        /\ \A i \in Len(notices) + 1 .. Len(rows) : told'[i] = z
    <2>1. told \in Seq([User -> Nat]) /\ Len(told) = Len(notices) /\ z \in [User -> Nat]
      BY <1>5 DEF BookTypes
    <2>2. told' = told \o [i \in 1 .. k |-> z]
      BY <1>2, <1>4, <2>1 DEF Commit
    <2>3. /\ told' \in Seq([User -> Nat]) /\ Len(told') = Len(told) + k
          /\ \A i \in 1 .. Len(told) : told'[i] = told[i]
          /\ \A i \in Len(told) + 1 .. Len(told) + k : told'[i] = z
      BY <1>3, <2>1, <2>2, Padded
    <2> QED BY <1>3, <2>1, <2>3
  <1>8. /\ excused' \in Seq([User -> Nat]) /\ Len(excused') = Len(rows)
        /\ \A i \in 1 .. Len(notices) : excused'[i] = excused[i]
        /\ \A i \in Len(notices) + 1 .. Len(rows) : excused'[i] = z
    <2>1. excused \in Seq([User -> Nat]) /\ Len(excused) = Len(notices) /\ z \in [User -> Nat]
      BY <1>5 DEF BookTypes
    <2>2. excused' = excused \o [i \in 1 .. k |-> z]
      BY <1>2, <1>4, <2>1 DEF Commit
    <2>3. /\ excused' \in Seq([User -> Nat]) /\ Len(excused') = Len(excused) + k
          /\ \A i \in 1 .. Len(excused) : excused'[i] = excused[i]
          /\ \A i \in Len(excused) + 1 .. Len(excused) + k : excused'[i] = z
      BY <1>3, <2>1, <2>2, Padded
    <2> QED BY <1>3, <2>1, <2>3
  <1> QED BY <1>1, <1>5, <1>6, <1>7, <1>8 DEF Extended

LEMMA CommitGrows ==
    ASSUME BookTypes, NEW s \in States, s.p.gone <= s.p.supply, Follows(notices, s.rows),
           NEW to \in SUBSET User, Commit(s.p, s.rows, to), UNCHANGED <<desk, started>>
    PROVE  Grows
  <1>1. s.p \in ProductRow /\ s.rows \in Seq(NoticeRow) /\ Len(notices) <= Len(s.rows)
    BY DEF States, Follows
  <1> QED BY <1>1, Committed DEF Grows

LEMMA QueueBroadcastGrows ==
    ASSUME BookTypes, QueueBroadcast
    PROVE  Grows
  <1>1. PICK n : n = Notice("broadcast", "admin", 0, 0)
    OBVIOUS
  <1>2. Begins(n) /\ n.kind = "broadcast"
    <2>1. Begins(n)
      BY <1>1, NoticeBegins
    <2> QED BY <1>1, <2>1 DEF Notice
  <1>3. \A i \in DOMAIN notices : ~Rivals(notices[i], n)
    BY <1>2 DEF Rivals, SaleWaits, StockWaits, ManualWaits
  <1>4. Follows(notices, Append(notices, n))
    BY <1>2, <1>3, Added DEF BookTypes, RowsSound
  <1>5. [p |-> product, rows |-> Append(notices, n)] \in States
    BY <1>4 DEF Follows, States, BookTypes
  <1>6. Commit(product, Append(notices, n), started) /\ UNCHANGED <<desk, started>>
    BY <1>1 DEF QueueBroadcast
  <1>7. PICK s : s = [p |-> product, rows |-> Append(notices, n)]
    OBVIOUS
  <1>8. s \in States /\ s.p = product /\ s.rows = Append(notices, n)
    BY <1>5, <1>7
  <1> QED BY <1>4, <1>6, <1>8, CommitGrows DEF BookTypes

\* No more than the product changes, and its gone and supply do not.
LEMMA Opening ==
    ASSUME BookTypes, NEW p \in ProductRow, NEW rows, Follows(notices, rows)
    PROVE  [p |-> p, rows |-> rows] \in States /\ RowsSound(rows)
  BY SoundFollows DEF BookTypes, States, Follows

LEMMA RefreshGrows ==
    ASSUME BookTypes, NEW cost \in Price, NEW n \in 0 .. MaxStock, NEW notify,
           RefreshProduct(cost, n, notify)
    PROVE  Grows
  <1>1. PICK o : o = [p |-> product, rows |-> notices]
    OBVIOUS
  <1>2. o \in States /\ RowsSound(o.rows) /\ o.rows = notices
    BY <1>1, FollowsItself, Opening DEF BookTypes, RowsSound
  <1>3. PICK now : now = Release(o)
    OBVIOUS
  <1>4. Continues(o, now) /\ now \in States /\ RowsSound(now.rows)
    BY <1>2, <1>3, ReleaseContinues, SoundFollows DEF Continues
  <1>5. PICK a : a = ApplySupplierPrice(now, cost)
    OBVIOUS
  <1>6. Continues(now, a) /\ a \in States /\ RowsSound(a.rows)
    BY <1>4, <1>5, PriceContinues, SoundFollows DEF Continues
  <1>7. PICK b : b = [a EXCEPT !.p.gone = 0]
    OBVIOUS
  <1>8. b.rows = a.rows /\ b \in States /\ b.p.gone = 0
    <2>1. a.p \in ProductRow /\ a.rows \in Seq(NoticeRow)
      BY <1>6 DEF States
    <2>2. b = [p |-> [a.p EXCEPT !.gone = 0], rows |-> a.rows]
      BY <1>6, <1>7 DEF States
    <2>3. [a.p EXCEPT !.gone = 0] \in ProductRow /\ [a.p EXCEPT !.gone = 0].gone = 0
      BY <2>1 DEF ProductRow
    <2> QED BY <2>1, <2>2, <2>3 DEF States
  <1>9. PICK s : s = ApplySupplierStock(b, n, notify)
    OBVIOUS
  <1>10. s \in States /\ Follows(a.rows, s.rows) /\ s.p.gone = 0 /\ s.p.supply = n
    <2>1. n \in Nat
      OBVIOUS
    <2> QED BY <1>6, <1>8, <1>9, <2>1, StockContinues
  <1>11. Follows(notices, s.rows)
    <2>1. Follows(notices, now.rows) /\ Follows(now.rows, a.rows) /\ notices \in Seq(NoticeRow)
      BY <1>2, <1>4, <1>6 DEF Continues, BookTypes, RowsSound
    <2> QED BY <1>10, <2>1, FollowsOn
  <1>12. Commit(s.p, s.rows, {}) /\ UNCHANGED <<desk, started>>
    BY <1>1, <1>3, <1>5, <1>7, <1>9 DEF RefreshProduct, Calm
  <1>13. s.p.gone <= s.p.supply
    BY <1>10
  <1> QED BY <1>10, <1>11, <1>12, <1>13, CommitGrows

\* a transaction of others: product and rows are what it leaves
LEMMA CalmGrows ==
    ASSUME BookTypes, NEW p \in ProductRow, p.gone <= p.supply, NEW rows,
           Follows(notices, rows), Commit(p, rows, {}), Calm
    PROVE  Grows
  <1>1. rows \in Seq(NoticeRow) /\ Len(notices) <= Len(rows)
    BY DEF Follows
  <1>2. {} \in SUBSET User
    OBVIOUS
  <1>3. Extended /\ notices' = rows
    BY <1>1, <1>2, Committed
  <1>4. UNCHANGED <<desk, started>>
    BY DEF Calm
  <1> QED BY <1>3, <1>4 DEF Grows

LEMMA ImportGrows ==
    ASSUME BookTypes, NEW lock \in BOOLEAN, NEW announce, Import(lock, announce)
    PROVE  Grows
  <1>1. product \in ProductRow /\ product.local \in Nat /\ product.local < MaxStock
        /\ Stock(product) \in Int
    <2>1. product \in ProductRow /\ product.local < MaxStock
      BY DEF BookTypes, Import
    <2> QED BY <2>1, ProductFields, StockInt
  <1>2. PICK p : p = [product EXCEPT !.local = @ + 1, !.gone = 0, !.locked = @ \/ lock]
    OBVIOUS
  <1>3. p \in ProductRow /\ p.gone = 0
    <2>1. product.local + 1 \in 0 .. MaxStock
      BY <1>1, PriceNat
    <2> QED BY <1>1, <1>2, <2>1 DEF ProductRow
  <1>4. PICK rows : rows = IF lock THEN Superseded(notices, With(notices, "sale", {"pending"}))
                           ELSE notices
    OBVIOUS
  <1>5. Follows(notices, rows)
    <2>1. RowsSound(notices) /\ notices \in Seq(NoticeRow)
      BY DEF BookTypes, RowsSound
    <2> QED BY <1>4, <2>1, SalesTakenBack, FollowsItself
  <1>6. PICK q : q = [p |-> p, rows |-> rows]
    OBVIOUS
  <1>7. q \in States /\ q.p = p /\ q.rows = rows
    BY <1>3, <1>5, <1>6, Opening
  <1>8. PICK s : s = IF announce THEN QueueInventory(q, Stock(product)) ELSE q
    OBVIOUS
  <1>9. s \in States /\ Follows(rows, s.rows) /\ s.p.gone = 0
    <2>1. Continues(q, QueueInventory(q, Stock(product)))
      BY <1>1, <1>7, InventoryContinues
    <2>2. rows \in Seq(NoticeRow)
      BY <1>5 DEF Follows
    <2> QED BY <1>3, <1>7, <1>8, <2>1, <2>2, FollowsItself DEF Continues
  <1>10. Commit(s.p, s.rows, {}) /\ Calm
    BY <1>2, <1>4, <1>6, <1>8 DEF Import
  <1>11. s.p \in ProductRow /\ s.p.gone <= s.p.supply
    <2>1. s.p \in ProductRow
      BY <1>9 DEF States
    <2> QED BY <1>9, <2>1, ProductFields
  <1>12. Follows(notices, s.rows)
    BY <1>5, <1>9, FollowsOn DEF BookTypes, RowsSound
  <1> QED BY <1>10, <1>11, <1>12, CalmGrows

LEMMA SellGrows ==
    ASSUME BookTypes, NEW preorder, SellLocal(preorder)
    PROVE  Grows
  <1>1. product \in ProductRow /\ product.local \in Nat /\ product.local > 0
        /\ product.local <= MaxStock
    <2>1. product \in ProductRow /\ product.local > 0
      BY DEF BookTypes, SellLocal
    <2>2. product.local \in 0 .. MaxStock
      BY <2>1 DEF ProductRow
    <2> QED BY <2>1, <2>2, PriceNat
  <1>2. PICK p : p = [product EXCEPT !.local = @ - 1]
    OBVIOUS
  <1>3. p \in ProductRow /\ p.gone = product.gone /\ p.supply = product.supply
    <2>1. product.local - 1 \in 0 .. MaxStock
      BY <1>1, PriceNat
    <2> QED BY <1>1, <1>2, <2>1 DEF ProductRow
  <1>4. PICK pending : pending = Automatic(notices, {"pending"})
    OBVIOUS
  <1>5. PICK last : last = Max(pending)
    OBVIOUS
  <1>6. PICK rows : rows = IF preorder /\ pending # {} THEN [notices EXCEPT ![last].served = TRUE]
                           ELSE notices
    OBVIOUS
  <1>7. notices \in Seq(NoticeRow)
    BY DEF BookTypes, RowsSound
  <1>8. Follows(notices, rows)
    <2>1. CASE preorder /\ pending # {}
      <3>1. last \in DOMAIN notices
        BY <1>4, <1>5, <1>7, <2>1, LastOf, WithRows
      <3>2. PICK x, r : x = notices[last] /\ r = [x EXCEPT !.served = TRUE]
        OBVIOUS
      <3>3. x \in NoticeRow
        BY <1>7, <3>1, <3>2
      <3>4. RowFollows(x, r)
        BY <3>2, <3>3 DEF RowFollows, NoticeRow
      <3>5. rows = [notices EXCEPT ![last] = r]
        BY <1>6, <2>1, <3>2
      <3> QED BY <1>7, <3>1, <3>2, <3>4, <3>5, OneChanged
    <2>2. CASE ~(preorder /\ pending # {})
      BY <1>6, <1>7, <2>2, FollowsItself
    <2> QED BY <2>1, <2>2
  <1>9. PICK q : q = [p |-> p, rows |-> rows]
    OBVIOUS
  <1>10. q \in States /\ q.p = p /\ q.rows = rows /\ RowsSound(q.rows)
    BY <1>3, <1>8, <1>9, Opening
  <1>11. PICK s : s = Release(q)
    OBVIOUS
  <1>12. s \in States /\ Follows(rows, s.rows) /\ s.p.gone = p.gone /\ s.p.supply = p.supply
    BY <1>10, <1>11, ReleaseContinues DEF Continues
  <1>13. Commit(s.p, s.rows, {}) /\ Calm
    BY <1>2, <1>4, <1>5, <1>6, <1>9, <1>11 DEF SellLocal
  <1>14. Follows(notices, s.rows)
    BY <1>7, <1>8, <1>12, FollowsOn
  <1>15. s.p \in ProductRow /\ s.p.gone <= s.p.supply
    BY <1>3, <1>12 DEF States, BookTypes
  <1> QED BY <1>13, <1>14, <1>15, CalmGrows

LEMMA ManualGrows ==
    ASSUME BookTypes, QueueManual
    PROVE  Grows
  <1>1. product \in ProductRow /\ product.gone <= product.supply /\ notices \in Seq(NoticeRow)
    BY DEF BookTypes, RowsSound
  <1>2. Stock(product) \in Int
    BY <1>1, StockInt
  <1>3. PICK n : n = Notice("stock", "manual", Stock(product), Stock(product))
    OBVIOUS
  <1>4. Begins(n) /\ n.kind = "stock" /\ n.by = "manual"
    BY <1>2, <1>3, NoticeBegins DEF Notice
  <1>5. ~ManualActive(notices)
    BY DEF QueueManual
  <1>6. \A i \in DOMAIN notices : ~Rivals(notices[i], n)
    <2>1. \A i \in With(notices, "stock", {"pending", "sending"}) : notices[i].by # "manual"
      BY <1>5, NoManual
    <2>2. \A i \in DOMAIN notices : ~ManualWaits(notices[i])
      BY <2>1 DEF With, ManualWaits
    <2> QED BY <1>4, <2>2 DEF Rivals, SaleWaits, StockWaits
  <1>7. Follows(notices, Append(notices, n))
    BY <1>1, <1>4, <1>6, Added
  <1>8. Commit(product, Append(notices, n), {}) /\ Calm
    BY <1>3 DEF QueueManual
  <1> QED BY <1>1, <1>7, <1>8, CalmGrows

LEMMA MostOfTwo ==
    ASSUME NEW n \in Int
    PROVE  Max({0, n}) \in Nat
  <1>1. PICK m : m = IF n > 0 THEN n ELSE 0
    OBVIOUS
  <1>2. m \in {0, n} /\ \A y \in {0, n} : m >= y
    BY <1>1
  <1>3. PICK x \in {0, n} : x = Max({0, n}) /\ \A y \in {0, n} : x >= y
    BY <1>2 DEF Max
  <1> QED BY <1>3

\* What is switched off takes back the alerts it would have sent.
LEMMA OffFollows ==
    ASSUME NEW rows, RowsSound(rows), NEW set,
           set \subseteq With(rows, "sale", {"pending", "sending"})
                         \cup With(rows, "flash", {"pending", "sending"})
                         \cup Automatic(rows, {"pending", "sending"})
    PROVE  Follows(rows, Superseded(rows, set))
  <1>1. rows \in Seq(NoticeRow) /\ \A i \in DOMAIN rows : RowSound(rows[i])
    BY DEF RowsSound
  <1>2. \A i \in set \cap DOMAIN rows :
           /\ rows[i].status \in {"pending", "sending"}
           /\ rows[i].kind # "broadcast" /\ rows[i].by # "manual"
    BY <1>1 DEF With, Automatic, RowSound
  <1> QED BY <1>1, <1>2, SupersededFollows

LEMMA EditGrows ==
    ASSUME BookTypes, NEW price \in Price, NEW active \in BOOLEAN, NEW saleOn \in BOOLEAN,
           NEW mode \in {"disabled", "off", "always"}, EditProduct(price, active, mode, saleOn)
    PROVE  Grows
  <1>1. product \in ProductRow /\ product.cost \in Nat /\ product.markup \in Nat
        /\ product.price \in Nat /\ price \in Nat
    <2>1. product \in ProductRow
      BY DEF BookTypes
    <2> QED BY <2>1, ProductFields, PriceNat
  <1>2. PICK markup : markup = IF price = product.price THEN product.markup
                               ELSE Max({0, price - product.cost})
    OBVIOUS
  <1>3. markup \in Nat
    <2>1. Max({0, price - product.cost}) \in Nat
      BY <1>1, MostOfTwo
    <2> QED BY <1>1, <1>2, <2>1
  <1>4. PICK p : p = [product EXCEPT !.active = active, !.mode = mode, !.saleOn = saleOn,
                         !.price = price,
                         !.markup = IF price = product.price THEN @
                                    ELSE Max({0, price - product.cost})]
    OBVIOUS
  <1>5. p = [product EXCEPT !.active = active, !.mode = mode, !.saleOn = saleOn,
               !.price = price, !.markup = markup]
    BY <1>2, <1>4
  <1>6. p \in ProductRow /\ p.gone = product.gone /\ p.supply = product.supply
    BY <1>1, <1>3, <1>5 DEF ProductRow
  <1>7. PICK off : off =
               (IF saleOn THEN {} ELSE With(notices, "sale", {"pending", "sending"}))
               \cup (IF mode # "disabled" THEN {}
                     ELSE Automatic(notices, {"pending", "sending"}))
    OBVIOUS
  <1>8. PICK rows : rows = Superseded(notices, off)
    OBVIOUS
  <1>9. Follows(notices, rows)
    BY <1>7, <1>8, OffFollows DEF BookTypes
  <1>10. PICK q : q = [p |-> p, rows |-> rows]
    OBVIOUS
  <1>11. q \in States /\ q.p = p /\ q.rows = rows /\ RowsSound(q.rows)
    BY <1>6, <1>9, <1>10, Opening
  <1>12. PICK u : u = StopUnsafe(q)
    OBVIOUS
  <1>13. Continues(q, u) /\ u \in States /\ RowsSound(u.rows)
    BY <1>11, <1>12, UnsafeContinues, SoundFollows DEF Continues
  <1>14. PICK s : s = QueueAdminDrop(u, product.price)
    OBVIOUS
  <1>15. Continues(u, s)
    BY <1>1, <1>13, <1>14, AdminDropContinues
  <1>16. Continues(q, s)
    BY <1>11, <1>13, <1>15, ContinuesOn
  <1>17. Commit(s.p, s.rows, {}) /\ Calm
    BY <1>4, <1>7, <1>8, <1>10, <1>12, <1>14 DEF EditProduct
  <1>18. Follows(notices, s.rows)
    BY <1>9, <1>11, <1>16, FollowsOn DEF Continues, BookTypes, RowsSound
  <1>19. s.p \in ProductRow /\ s.p.gone <= s.p.supply
    BY <1>6, <1>11, <1>16 DEF Continues, States, BookTypes
  <1> QED BY <1>17, <1>18, <1>19, CalmGrows

LEMMA TakeOffGrows ==
    ASSUME BookTypes, TakeOff
    PROVE  Grows
  <1>1. PICK p : p = [product EXCEPT !.forced = TRUE]
    OBVIOUS
  <1>2. p \in ProductRow /\ p.gone <= p.supply
    BY <1>1 DEF BookTypes, ProductRow
  <1>3. PICK off : off = With(notices, "sale", {"pending", "sending"})
                         \cup With(notices, "flash", {"pending", "sending"})
                         \cup Automatic(notices, {"pending", "sending"})
    OBVIOUS
  <1>4. Follows(notices, Superseded(notices, off))
    BY <1>3, OffFollows DEF BookTypes
  <1>5. Commit(p, Superseded(notices, off), {}) /\ Calm
    BY <1>1, <1>3 DEF TakeOff
  <1> QED BY <1>2, <1>4, <1>5, CalmGrows

LEMMA RestoreGrows ==
    ASSUME BookTypes, Restore
    PROVE  Grows
  <1>1. PICK p : p = [product EXCEPT !.forced = FALSE]
    OBVIOUS
  <1>2. p \in ProductRow /\ p.gone <= p.supply
    BY <1>1 DEF BookTypes, ProductRow
  <1>3. Follows(notices, notices)
    BY FollowsItself DEF BookTypes, RowsSound
  <1>4. Commit(p, notices, {}) /\ Calm
    BY <1>1 DEF Restore
  <1> QED BY <1>2, <1>3, <1>4, CalmGrows

LEMMA StartFlashGrows ==
    ASSUME BookTypes, StartFlash
    PROVE  Grows
  <1>1. product \in ProductRow /\ product.gone <= product.supply /\ notices \in Seq(NoticeRow)
    BY DEF BookTypes, RowsSound
  <1>2. product.cost \in Price
    BY <1>1 DEF ProductRow
  <1>3. product.cost \in Int /\ Min(Price) \in Int
    <2>1. Price \in SUBSET Nat /\ Price # {}
      BY <1>2, PriceNat
    <2>2. Min(Price) \in Price
      BY <2>1, LeastIn
    <2>3. \A x \in Price : x \in Int
      BY <2>1
    <2> QED BY <1>2, <2>2, <2>3
  <1>4. PICK n : n = Notice("flash", "admin", product.cost, Min(Price))
    OBVIOUS
  <1>5. Begins(n) /\ n.kind = "flash"
    BY <1>3, <1>4, NoticeBegins DEF Notice
  <1>6. \A i \in DOMAIN notices : ~Rivals(notices[i], n)
    BY <1>5 DEF Rivals, SaleWaits, StockWaits, ManualWaits
  <1>7. Follows(notices, Append(notices, n))
    BY <1>1, <1>5, <1>6, Added
  <1>8. Commit(product, Append(notices, n), {}) /\ Calm
    BY <1>4 DEF StartFlash
  <1> QED BY <1>1, <1>7, <1>8, CalmGrows

LEMMA EndFlashGrows ==
    ASSUME BookTypes, NEW i \in DOMAIN notices, NEW cancel, EndFlash(i, cancel)
    PROVE  Grows
  <1>1. product \in ProductRow /\ product.gone <= product.supply /\ notices \in Seq(NoticeRow)
        /\ RowSound(notices[i]) /\ notices[i].live
    BY DEF BookTypes, RowsSound, EndFlash
  <1>2. PICK x, r : /\ x = notices[i]
                    /\ r = [x EXCEPT !.live = FALSE,
                              !.status = IF cancel /\ x.status \in {"pending", "sending"}
                                         THEN "superseded" ELSE x.status]
    OBVIOUS
  <1>3. x \in NoticeRow /\ RowSound(x) /\ x.live
    BY <1>1, <1>2
  <1>4. RowFollows(x, r)
    BY <1>2, <1>3 DEF RowFollows, RowSound, NoticeRow
  <1>5. PICK rows : rows = [notices EXCEPT ![i] = r]
    OBVIOUS
  <1>6. Follows(notices, rows)
    BY <1>1, <1>2, <1>4, <1>5, OneChanged
  <1>7. Commit(product, rows, {}) /\ Calm
    BY <1>2, <1>5 DEF EndFlash
  <1> QED BY <1>1, <1>6, <1>7, CalmGrows

-----------------------------------------------------------------------------
(***************************************************************************)
(* The inductive invariant.                                                 *)
(***************************************************************************)
Controls ==
    /\ draft \in BOOLEAN /\ pressed \in Nat
    /\ desk \in [Worker -> DeskRow] /\ left \in [DOMAIN left -> Nat]

\* what a worker has on its desk is of its own kind; what it has read of a manual
\* alert still holds when it writes
DeskFits(w, d, rows) ==
    /\ d.pc \in {"check", "claim", "batch"} => d.job > 0
    /\ d.job > 0 => d.job \in DOMAIN rows /\ Of(rows[d.job].kind) = w
    /\ \A i \in d.drop : i \in DOMAIN rows /\ rows[i].kind # "broadcast"
    /\ d.pc = "write" /\ d.job > 0 /\ rows[d.job].by = "manual"
         => rows[d.job].status = "pending"

\* a result that is not saved yet: its row says "sending", and the message was
\* received if and only if the answer said so, lost answers aside
BatchFits(d, m, t, e) ==
    d.pc = "batch" =>
        \A u \in User :
            /\ d.batch[u] \in {"asked", "ok", "failed", "gone"} => m[d.job][u] = "sending"
            /\ d.batch[u] \in {"asked", "failed", "gone"} => t[d.job][u] <= e[d.job][u]
            /\ d.batch[u] = "ok" => t[d.job][u] > 0
DesksFit ==
    \A w \in Worker : /\ DeskFits(w, desk[w], notices)
                      /\ BatchFits(desk[w], mail, told, excused)

Inv ==
    /\ BookTypes /\ Controls /\ DesksFit
    /\ ToldOnce /\ SentIsDone /\ OneInLine(notices)

LEMMA InvTypes == Inv => TypeOK
  BY DEF Inv, BookTypes, Controls, TypeOK, RowsSound, RowSound, Fits

LEMMA InitInv ==
    ASSUME Init
    PROVE  Inv
  <1>1. PICK s \in Scene : InitWith(s)
    BY DEF Init
  <1>2. /\ s.product \in ProductRow /\ s.product.gone <= s.product.supply
        /\ s.started \subseteq User /\ s.left \in [DOMAIN s.left -> Nat]
    BY SceneAssumption
  <1>3. /\ notices = <<>> /\ mail = <<>> /\ told = <<>> /\ excused = <<>>
        /\ draft = FALSE /\ pressed = 0 /\ desk = [w \in Worker |-> Desk("look")]
        /\ left = s.left /\ started = s.started /\ product = s.product
    BY <1>1 DEF InitWith
  <1>4. Desk("look") \in DeskRow
    BY DEF Desk, DeskRow, NoMail
  <1>5. BookTypes
    BY <1>2, <1>3 DEF BookTypes, RowsSound
  <1>6. Controls
    BY <1>2, <1>3, <1>4 DEF Controls
  <1>7. DesksFit
    BY <1>3 DEF DesksFit, DeskFits, BatchFits, Desk
  <1>8. ToldOnce /\ SentIsDone /\ OneInLine(notices)
    BY <1>3 DEF ToldOnce, SentIsDone, OneInLine
  <1> QED BY <1>5, <1>6, <1>7, <1>8 DEF Inv

\* Who grows the books leaves what the workers have promised.
LEMMA GrowsKeeps ==
    ASSUME Inv, Grows, Controls'
    PROVE  Inv'
  <1>1. Follows(notices, notices') /\ Extended /\ desk' = desk /\ started' = started
    BY DEF Grows
  <1>2. /\ Len(notices) \in Nat /\ Len(notices') \in Nat /\ Len(notices) <= Len(notices')
        /\ DOMAIN notices = 1 .. Len(notices) /\ DOMAIN notices' = 1 .. Len(notices')
        /\ DOMAIN mail = 1 .. Len(notices) /\ DOMAIN mail' = 1 .. Len(notices')
    BY <1>1 DEF Inv, BookTypes, RowsSound, Follows, Extended
  <1>3. \A i \in 1 .. Len(notices) : RowFollows(notices[i], notices'[i])
    BY <1>1 DEF Follows
  <1>4. \A i \in Len(notices) + 1 .. Len(notices') : Begins(notices'[i])
    BY <1>1 DEF Follows
  <1>5. \A i \in 1 .. Len(notices) :
           mail'[i] = mail[i] /\ told'[i] = told[i] /\ excused'[i] = excused[i]
    BY <1>1 DEF Extended
  <1>6. \A i \in Len(notices) + 1 .. Len(notices'), u \in User :
           mail'[i][u] \in {"none", "pending"} /\ told'[i][u] = 0 /\ excused'[i][u] = 0
    BY <1>1 DEF Extended
  <1>7. BookTypes'
    <2>1. RowsSound(notices')
      BY <1>1, SoundFollows DEF Inv, BookTypes
    <2> QED BY <1>1, <2>1 DEF BookTypes, Extended, Inv
  <1>8. DesksFit'
    <2> SUFFICES ASSUME NEW w \in Worker
                 PROVE  DeskFits(w, desk[w], notices') /\ BatchFits(desk[w], mail', told', excused')
      BY <1>1 DEF DesksFit
    <2>1. PICK d : d = desk[w]
      OBVIOUS
    <2>2. DeskFits(w, d, notices) /\ BatchFits(d, mail, told, excused) /\ d \in DeskRow
      BY <2>1 DEF Inv, DesksFit, Controls
    <2>3. DeskFits(w, d, notices')
      <3>1. \A i \in 1 .. Len(notices) :
               /\ notices'[i].kind = notices[i].kind
               /\ notices'[i].by = "manual" => notices[i].by = "manual"
               /\ notices[i].by = "manual" => notices'[i].status = notices[i].status
        BY <1>3 DEF RowFollows
      <3> QED BY <1>2, <2>2, <3>1 DEF DeskFits
    <2>4. BatchFits(d, mail', told', excused')
      <3>1. d.pc = "batch" => d.job \in 1 .. Len(notices)
        BY <1>2, <2>2 DEF DeskFits
      <3> QED BY <1>5, <2>2, <3>1 DEF BatchFits
    <2> QED BY <2>1, <2>3, <2>4
  <1>9. ToldOnce'
    <2> SUFFICES ASSUME NEW i \in DOMAIN mail', NEW u \in User
                 PROVE  /\ told'[i][u] <= excused'[i][u]
                              + (IF mail'[i][u] \in {"sent", "sending"} THEN 1 ELSE 0)
                        /\ mail'[i][u] = "sent" => told'[i][u] > 0
      BY DEF ToldOnce
    <2>1. CASE i <= Len(notices)
      <3>1. i \in DOMAIN mail /\ i \in 1 .. Len(notices)
        BY <1>2, <2>1
      <3> QED BY <1>5, <3>1 DEF Inv, ToldOnce
    <2>2. CASE i > Len(notices)
      <3>1. i \in Len(notices) + 1 .. Len(notices')
        BY <1>2, <2>2
      <3> QED BY <1>6, <3>1
    <2> QED BY <1>2, <2>1, <2>2
  <1>10. SentIsDone'
    <2> SUFFICES ASSUME NEW i \in DOMAIN notices', notices'[i].status \in {"sent", "completed"},
                        NEW u \in User, mail'[i][u] \in {"pending", "sending"}
                 PROVE  FALSE
      BY DEF SentIsDone, Unfinished
    <2>1. CASE i <= Len(notices)
      <3>1. i \in DOMAIN notices /\ i \in 1 .. Len(notices)
        BY <1>2, <2>1
      <3>2. notices[i].status \in {"sent", "completed"}
        BY <1>3, <3>1 DEF RowFollows
      <3>3. mail[i][u] \in {"pending", "sending"}
        BY <1>5, <3>1
      <3> QED BY <3>1, <3>2, <3>3 DEF Inv, SentIsDone, Unfinished
    <2>2. CASE i > Len(notices)
      <3>1. i \in Len(notices) + 1 .. Len(notices')
        BY <1>2, <2>2
      <3> QED BY <1>4, <3>1 DEF Begins
    <2> QED BY <1>2, <2>1, <2>2
  <1>11. OneInLine(notices')
    BY <1>1 DEF Inv, Follows
  <1> QED BY <1>7, <1>8, <1>9, <1>10, <1>11 DEF Inv

LEMMA SpendTyped ==
    ASSUME left \in [DOMAIN left -> Nat], NEW what, Spend(what)
    PROVE  left' \in [DOMAIN left' -> Nat]
  <1>1. left[what] > 0 /\ left' = [left EXCEPT ![what] = left[what] - 1]
    BY DEF Spend
  <1>2. DOMAIN left' = DOMAIN left
    BY <1>1
  <1>3. \A x \in DOMAIN left : left'[x] \in Nat
    <2> SUFFICES ASSUME NEW x \in DOMAIN left PROVE left'[x] \in Nat
      OBVIOUS
    <2>1. left[x] \in Nat
      OBVIOUS
    <2>2. left'[x] = IF x = what THEN left[what] - 1 ELSE left[x]
      BY <1>1
    <2> QED BY <1>1, <2>1, <2>2
  <1>4. left' = [x \in DOMAIN left |-> left'[x]]
    BY <1>1
  <1> QED BY <1>2, <1>3, <1>4

\* Everything outside the workers that touches the books only grows them.
LEMMA OutsideKeeps ==
    ASSUME Inv,
           \/ StageBroadcast \/ PressConfirm
           \/ \E c \in Price, n \in 0 .. MaxStock,
                notify \in IF product.mode = "balance" THEN BOOLEAN ELSE {TRUE} :
                 RefreshProduct(c, n, notify)
           \/ \E lock, announce \in BOOLEAN : Import(lock, announce)
           \/ \E preorder \in BOOLEAN : SellLocal(preorder)
           \/ QueueManual
           \/ \E c \in Price, active, saleOn \in BOOLEAN, mode \in {"disabled", "off", "always"} :
                 EditProduct(c, active, mode, saleOn)
           \/ TakeOff \/ Restore \/ StartFlash
           \/ \E i \in DOMAIN notices, cancel \in BOOLEAN : EndFlash(i, cancel)
           \/ QueueBroadcast
    PROVE  Inv'
  <1>0. BookTypes /\ Controls
    BY DEF Inv
  <1>1. CASE StageBroadcast \/ PressConfirm
    <2>1. UNCHANGED <<product, notices, mail, told, excused, started, desk>>
      BY <1>1 DEF StageBroadcast, PressConfirm
    <2>2. Controls'
      <3>1. left \in [DOMAIN left -> Nat] /\ draft \in BOOLEAN /\ pressed \in Nat
        BY <1>0 DEF Controls
      <3>2. Spend("drafts") \/ Spend("presses")
        BY <1>1 DEF StageBroadcast, PressConfirm
      <3>3. left' \in [DOMAIN left' -> Nat]
        BY <3>1, <3>2, SpendTyped
      <3>4. draft' \in BOOLEAN
        BY <1>1, <3>1 DEF StageBroadcast, PressConfirm
      <3>5. pressed' = pressed \/ pressed' = pressed + 1
        BY <1>1 DEF StageBroadcast, PressConfirm
      <3>6. pressed' \in Nat /\ desk' = desk
        BY <2>1, <3>1, <3>5
      <3> QED BY <1>0, <3>3, <3>4, <3>6 DEF Controls
    <2>3. BookTypes' /\ DesksFit'
      BY <2>1 DEF Inv, BookTypes, DesksFit
    <2>4. ToldOnce' /\ SentIsDone' /\ OneInLine(notices)'
      BY <2>1 DEF Inv, ToldOnce, SentIsDone, Unfinished
    <2> QED BY <2>2, <2>3, <2>4 DEF Inv
  <1>2. CASE \E c \in Price, n \in 0 .. MaxStock,
                notify \in IF product.mode = "balance" THEN BOOLEAN ELSE {TRUE} :
                 RefreshProduct(c, n, notify)
    <2>1. PICK c \in Price, n \in 0 .. MaxStock,
                notify \in IF product.mode = "balance" THEN BOOLEAN ELSE {TRUE} :
                 RefreshProduct(c, n, notify)
      BY <1>2
    <2>2. PICK moves \in {0, 1} :
            /\ left.refreshes > 0 /\ left.moves >= moves
            /\ left' = [left EXCEPT !.refreshes = @ - 1, !.moves = @ - moves]
      BY <2>1 DEF RefreshProduct
    <2>3. left' \in [DOMAIN left' -> Nat]
      <3>1. left \in [DOMAIN left -> Nat]
        BY <1>0 DEF Controls
      <3>2. PICK one : one = [left EXCEPT !["refreshes"] = @ - 1]
        OBVIOUS
      <3>3. one \in [DOMAIN left -> Nat] /\ one["moves"] = left["moves"]
        <4>1. left["refreshes"] > 0 /\ "refreshes" # "moves"
          BY <2>2
        <4>2. \A x \in DOMAIN left : left[x] \in Nat
          BY <3>1
        <4>3. one = [x \in DOMAIN left |-> IF x = "refreshes" THEN left["refreshes"] - 1 ELSE left[x]]
          BY <3>1, <3>2
        <4>4. \A x \in DOMAIN left : one[x] \in Nat
          BY <4>1, <4>2, <4>3
        <4>5. one["moves"] = left["moves"]
          BY <3>2, <4>1
        <4> QED BY <4>3, <4>4, <4>5
      <3>4. left' = [one EXCEPT !["moves"] = @ - moves]
        BY <2>2, <3>2
      <3>5. left["moves"] >= moves
        BY <2>2
      <3>6. left' = [x \in DOMAIN left |-> IF x = "moves" THEN one["moves"] - moves ELSE one[x]]
        BY <3>3, <3>4
      <3>7. \A x \in DOMAIN left : left'[x] \in Nat
        <4>1. \A x \in DOMAIN left : one[x] \in Nat
          BY <3>3
        <4> SUFFICES ASSUME NEW x \in DOMAIN left PROVE left'[x] \in Nat
          OBVIOUS
        <4>2. one[x] \in Nat /\ moves \in {0, 1}
          BY <4>1
        <4>3. CASE x = "moves"
          BY <3>3, <3>5, <3>6, <4>2, <4>3
        <4>4. CASE x # "moves"
          BY <3>6, <4>2, <4>4
        <4> QED BY <4>3, <4>4
      <3> QED BY <3>6, <3>7
    <2>4. Controls'
      BY <1>0, <2>1, <2>3 DEF RefreshProduct, Calm, Controls
    <2> QED BY <1>0, <2>1, <2>4, RefreshGrows, GrowsKeeps
  <1>3. CASE \E lock, announce \in BOOLEAN : Import(lock, announce)
    <2>1. PICK lock, announce \in BOOLEAN : Import(lock, announce)
      BY <1>3
    <2>2. Spend("imports") /\ Calm
      BY <2>1 DEF Import
    <2>3. Controls'
      BY <1>0, <2>2, SpendTyped DEF Calm, Controls
    <2> QED BY <1>0, <2>1, <2>3, ImportGrows, GrowsKeeps
  <1>4. CASE \E preorder \in BOOLEAN : SellLocal(preorder)
    <2>1. PICK preorder \in BOOLEAN : SellLocal(preorder)
      BY <1>4
    <2>2. Spend("sales") /\ Calm
      BY <2>1 DEF SellLocal
    <2>3. Controls'
      BY <1>0, <2>2, SpendTyped DEF Calm, Controls
    <2> QED BY <1>0, <2>1, <2>3, SellGrows, GrowsKeeps
  <1>5. CASE QueueManual
    <2>1. Controls'
      BY <1>0, <1>5, SpendTyped DEF QueueManual, Calm, Controls
    <2> QED BY <1>0, <1>5, <2>1, ManualGrows, GrowsKeeps
  <1>6. CASE \E c \in Price, active, saleOn \in BOOLEAN, mode \in {"disabled", "off", "always"} :
                EditProduct(c, active, mode, saleOn)
    <2>1. PICK c \in Price, active \in BOOLEAN, saleOn \in BOOLEAN,
               mode \in {"disabled", "off", "always"} : EditProduct(c, active, mode, saleOn)
      BY <1>6
    <2>2. Spend("edits") /\ Calm
      BY <2>1 DEF EditProduct
    <2>3. Controls'
      BY <1>0, <2>2, SpendTyped DEF Calm, Controls
    <2> QED BY <1>0, <2>1, <2>3, EditGrows, GrowsKeeps
  <1>7. CASE TakeOff
    <2>1. Controls'
      BY <1>0, <1>7, SpendTyped DEF TakeOff, Calm, Controls
    <2> QED BY <1>0, <1>7, <2>1, TakeOffGrows, GrowsKeeps
  <1>8. CASE Restore
    <2>1. Controls'
      BY <1>0, <1>8, SpendTyped DEF Restore, Calm, Controls
    <2> QED BY <1>0, <1>8, <2>1, RestoreGrows, GrowsKeeps
  <1>9. CASE StartFlash
    <2>1. Controls'
      BY <1>0, <1>9, SpendTyped DEF StartFlash, Calm, Controls
    <2> QED BY <1>0, <1>9, <2>1, StartFlashGrows, GrowsKeeps
  <1>10. CASE \E i \in DOMAIN notices, cancel \in BOOLEAN : EndFlash(i, cancel)
    <2>1. PICK i \in DOMAIN notices, cancel \in BOOLEAN : EndFlash(i, cancel)
      BY <1>10
    <2>2. Spend("ends") /\ Calm
      BY <2>1 DEF EndFlash
    <2>3. Controls'
      BY <1>0, <2>2, SpendTyped DEF Calm, Controls
    <2> QED BY <1>0, <2>1, <2>3, EndFlashGrows, GrowsKeeps
  <1>11. CASE QueueBroadcast
    <2>1. Controls'
      <3>1. left' = left /\ desk' = desk /\ draft' = FALSE /\ pressed' = pressed - 1 /\ pressed > 0
        BY <1>11 DEF QueueBroadcast
      <3>2. draft' \in BOOLEAN
        BY <3>1
      <3>3. pressed' \in Nat
        BY <1>0, <3>1 DEF Controls
      <3> QED BY <1>0, <3>1, <3>2, <3>3 DEF Controls
    <2> QED BY <1>0, <1>11, <2>1, QueueBroadcastGrows, GrowsKeeps
  <1> QED BY <1>1, <1>2, <1>3, <1>4, <1>5, <1>6, <1>7, <1>8, <1>9, <1>10, <1>11
-----------------------------------------------------------------------------
(***************************************************************************)
(* The steps of the workers.                                                *)
(***************************************************************************)
\* n is what a worker may make of the row r
MovesTo(r, n) ==
    /\ n \in NoticeRow /\ RowSound(n)
    /\ n.kind = r.kind
    /\ SaleWaits(n) => SaleWaits(r)
    /\ StockWaits(n) => StockWaits(r)
    /\ ManualWaits(n) => ManualWaits(r)

LEMMA RowsMove ==
    ASSUME NEW rows, NEW new, RowsSound(rows), OneInLine(rows),
           new \in [DOMAIN rows -> NoticeRow],
           \A i \in DOMAIN rows : MovesTo(rows[i], new[i])
    PROVE  RowsSound(new) /\ OneInLine(new) /\ Len(new) = Len(rows) /\ DOMAIN new = DOMAIN rows
  <1>1. rows \in Seq(NoticeRow) /\ DOMAIN rows = 1 .. Len(rows) /\ Len(rows) \in Nat
    BY DEF RowsSound
  <1>2. new \in Seq(NoticeRow) /\ Len(new) = Len(rows)
    <2>1. \A i \in 1 .. Len(rows) : new[i] \in NoticeRow
      BY <1>1 DEF MovesTo
    <2>2. new = [i \in 1 .. Len(rows) |-> new[i]]
      BY <1>1
    <2> QED BY <1>1, <2>1, <2>2, SequenceOf
  <1>3. DOMAIN new = DOMAIN rows
    BY <1>1, <1>2
  <1>4. \A i \in DOMAIN new : RowSound(new[i])
    BY <1>3 DEF MovesTo
  <1>5. \A i, j \in DOMAIN rows : Rivals(new[i], new[j]) => Rivals(rows[i], rows[j])
    BY DEF MovesTo, Rivals
  <1>6. OneInLine(new)
    BY <1>3, <1>5 DEF OneInLine
  <1> QED BY <1>2, <1>3, <1>4, <1>6 DEF RowsSound

\* A row is moved, or stays as it is.
LEMMA MovesItself ==
    ASSUME NEW rows, RowsSound(rows)
    PROVE  \A i \in DOMAIN rows : MovesTo(rows[i], rows[i])
  BY DEF RowsSound, MovesTo

\* the rows in which the row i has become r
Moved(rows, i, r, new) ==
    /\ RowsSound(new) /\ OneInLine(new) /\ Len(new) = Len(rows)
    /\ DOMAIN new = DOMAIN rows /\ new[i] = r
    /\ \A j \in DOMAIN rows : j # i => new[j] = rows[j]
    /\ \A j \in DOMAIN rows : new[j].kind = rows[j].kind

LEMMA OneMoves ==
    ASSUME NEW rows, NEW new, RowsSound(rows), OneInLine(rows), NEW i \in DOMAIN rows,
           NEW r, MovesTo(rows[i], r), new = [rows EXCEPT ![i] = r]
    PROVE  Moved(rows, i, r, new)
  <1>1. rows = [j \in DOMAIN rows |-> rows[j]]
    BY DEF RowsSound
  <1>2. new[i] = r /\ \A j \in DOMAIN rows : j # i => new[j] = rows[j]
    BY <1>1
  <1>3. \A j \in DOMAIN rows : MovesTo(rows[j], new[j])
    BY <1>2, MovesItself
  <1>4. new \in [DOMAIN rows -> NoticeRow]
    <2>1. \A j \in DOMAIN rows : new[j] \in NoticeRow
      BY <1>3 DEF MovesTo
    <2> QED BY <1>1, <2>1
  <1>5. RowsSound(new) /\ OneInLine(new) /\ Len(new) = Len(rows) /\ DOMAIN new = DOMAIN rows
    BY <1>3, <1>4, RowsMove
  <1>6. \A j \in DOMAIN rows : new[j].kind = rows[j].kind
    BY <1>3 DEF MovesTo
  <1> QED BY <1>2, <1>5, <1>6 DEF Moved

\* One worker's step leaves alone what the other has on its desk.
LEMMA OtherDesk ==
    ASSUME NEW v, NEW d, NEW rows, NEW new, NEW m, NEW m2, NEW t, NEW t2, NEW e, NEW e2,
           DeskFits(v, d, rows), BatchFits(d, m, t, e), DOMAIN new = DOMAIN rows,
           \A i \in DOMAIN rows : new[i].kind = rows[i].kind,
           \A i \in DOMAIN rows : Of(rows[i].kind) = v =>
              new[i] = rows[i] /\ m2[i] = m[i] /\ t2[i] = t[i] /\ e2[i] = e[i]
    PROVE  DeskFits(v, d, new) /\ BatchFits(d, m2, t2, e2)
  <1>1. d.job > 0 => /\ d.job \in DOMAIN rows /\ new[d.job] = rows[d.job]
                     /\ m2[d.job] = m[d.job] /\ t2[d.job] = t[d.job] /\ e2[d.job] = e[d.job]
    BY DEF DeskFits
  <1>2. DeskFits(v, d, new)
    BY <1>1 DEF DeskFits
  <1>3. d.pc = "batch" => d.job > 0
    BY DEF DeskFits
  <1> QED BY <1>1, <1>2, <1>3 DEF BatchFits

\* the step of worker w: its own desk, and rows and mail of its own kind
StepOf(w) ==
    /\ DOMAIN notices' = DOMAIN notices
    /\ \A i \in DOMAIN notices : notices'[i].kind = notices[i].kind
    /\ \A i \in DOMAIN notices : Of(notices[i].kind) # w =>
          /\ notices'[i] = notices[i] /\ mail'[i] = mail[i]
          /\ told'[i] = told[i] /\ excused'[i] = excused[i]
    /\ \A v \in Worker : v # w => desk'[v] = desk[v]
    /\ DeskFits(w, desk'[w], notices') /\ BatchFits(desk'[w], mail', told', excused')

LEMMA StepFits ==
    ASSUME Inv, NEW w \in Worker, StepOf(w)
    PROVE  DesksFit'
  <1> SUFFICES ASSUME NEW v \in Worker
               PROVE  /\ DeskFits(v, desk'[v], notices')
                      /\ BatchFits(desk'[v], mail', told', excused')
    BY DEF DesksFit
  <1>1. CASE v = w
    BY <1>1 DEF StepOf
  <1>2. CASE v # w
    <2>1. desk'[v] = desk[v]
      BY <1>2 DEF StepOf
    <2>2. PICK d : d = desk[v]
      OBVIOUS
    <2>3. DeskFits(v, d, notices) /\ BatchFits(d, mail, told, excused)
      BY <2>2 DEF Inv, DesksFit
    <2>4. /\ DOMAIN notices' = DOMAIN notices
          /\ \A i \in DOMAIN notices : notices'[i].kind = notices[i].kind
          /\ \A i \in DOMAIN notices : Of(notices[i].kind) = v =>
                /\ notices'[i] = notices[i] /\ mail'[i] = mail[i]
                /\ told'[i] = told[i] /\ excused'[i] = excused[i]
      BY <1>2 DEF StepOf
    <2>5. DeskFits(v, d, notices') /\ BatchFits(d, mail', told', excused')
      BY <2>3, <2>4, OtherDesk
    <2> QED BY <2>1, <2>2, <2>5
  <1> QED BY <1>1, <1>2

LEMMA DeskTyped ==
    ASSUME Controls, NEW w \in Worker, NEW d \in DeskRow, desk' = [desk EXCEPT ![w] = d],
           UNCHANGED <<draft, pressed>>, left' \in [DOMAIN left' -> Nat]
    PROVE  Controls' /\ desk'[w] = d /\ \A v \in Worker : v # w => desk'[v] = desk[v]
  <1>1. desk \in [Worker -> DeskRow]
    BY DEF Controls
  <1>2. desk' \in [Worker -> DeskRow] /\ desk'[w] = d
        /\ \A v \in Worker : v # w => desk'[v] = desk[v]
    BY <1>1
  <1> QED BY <1>2 DEF Controls

\* What is on a desk.
LEMMA OnDesk ==
    ASSUME Inv, NEW w \in Worker
    PROVE  /\ desk[w] \in DeskRow
           /\ DeskFits(w, desk[w], notices) /\ BatchFits(desk[w], mail, told, excused)
           /\ desk[w].pc \in {"check", "claim", "batch"} \/ desk[w].job > 0 =>
                /\ desk[w].job \in DOMAIN notices /\ desk[w].job \in 1 .. Len(notices)
                /\ Of(notices[desk[w].job].kind) = w
  <1>1. desk[w] \in DeskRow /\ DeskFits(w, desk[w], notices)
        /\ BatchFits(desk[w], mail, told, excused)
    BY DEF Inv, Controls, DesksFit
  <1>2. DOMAIN notices = 1 .. Len(notices)
    BY DEF Inv, BookTypes, RowsSound
  <1> QED BY <1>1, <1>2 DEF DeskFits

LEMMA StepKeeps ==
    ASSUME Inv, NEW w \in Worker, StepOf(w), BookTypes', Controls', ToldOnce', SentIsDone',
           OneInLine(notices')
    PROVE  Inv'
  <1>1. DesksFit'
    BY StepFits
  <1> QED BY <1>1 DEF Inv

\* The mail as it is: what the rows promise of it still holds.
LEMMA SameMail ==
    ASSUME Inv, DOMAIN mail' = DOMAIN mail, DOMAIN notices' = DOMAIN notices,
           DOMAIN mail = DOMAIN notices,
           \A i \in DOMAIN notices :
              mail'[i] = mail[i] /\ told'[i] = told[i] /\ excused'[i] = excused[i],
           \A i \in DOMAIN notices : notices'[i].status \in {"sent", "completed"} =>
              \/ notices[i].status \in {"sent", "completed"}
              \/ \A u \in User : mail[i][u] \notin {"pending", "sending"}
    PROVE  ToldOnce' /\ SentIsDone'
  <1>1. ToldOnce'
    BY DEF Inv, ToldOnce
  <1>2. SentIsDone'
    <2> SUFFICES ASSUME NEW i \in DOMAIN notices, notices'[i].status \in {"sent", "completed"},
                        NEW u \in User, mail'[i][u] \in {"pending", "sending"}
                 PROVE  FALSE
      BY DEF SentIsDone, Unfinished
    <2>1. mail[i][u] \in {"pending", "sending"}
      OBVIOUS
    <2>2. notices[i].status \in {"sent", "completed"}
      BY <2>1
    <2> QED BY <2>1, <2>2 DEF Inv, SentIsDone, Unfinished
  <1> QED BY <1>1, <1>2

\* The books have a row of each kind for a notice.
LEMMA Domains ==
    ASSUME Inv
    PROVE  /\ RowsSound(notices) /\ notices \in Seq(NoticeRow) /\ OneInLine(notices)
           /\ mail \in Seq(Delivery) /\ told \in Seq([User -> Nat]) /\ excused \in Seq([User -> Nat])
           /\ DOMAIN notices = 1 .. Len(notices) /\ Len(notices) \in Nat
           /\ DOMAIN mail = DOMAIN notices /\ DOMAIN told = DOMAIN notices
           /\ DOMAIN excused = DOMAIN notices
  <1>1. /\ RowsSound(notices) /\ notices \in Seq(NoticeRow) /\ OneInLine(notices)
        /\ mail \in Seq(Delivery) /\ told \in Seq([User -> Nat]) /\ excused \in Seq([User -> Nat])
        /\ Len(mail) = Len(notices) /\ Len(told) = Len(notices) /\ Len(excused) = Len(notices)
    BY DEF Inv, BookTypes, RowsSound
  <1> QED BY <1>1

LEMMA ClaimBroadcastKeeps ==
    ASSUME Inv, ClaimBroadcast
    PROVE  Inv'
  <1>1. PICK i : i = Min(With(notices, "broadcast", {"queued", "sending"}))
    OBVIOUS
  <1>2. /\ i \in DOMAIN notices /\ i \in Nat /\ i > 0
        /\ notices[i].kind = "broadcast" /\ notices[i].status \in {"queued", "sending"}
    <2>1. PICK due : due = With(notices, "broadcast", {"queued", "sending"})
      OBVIOUS
    <2>2. due # {}
      BY <2>1 DEF ClaimBroadcast
    <2>3. DOMAIN notices = 1 .. Len(notices) /\ Len(notices) \in Nat /\ notices \in Seq(NoticeRow)
      BY Domains
    <2>4. due \in SUBSET Nat
      BY <2>1, <2>3 DEF With
    <2>5. i \in due
      BY <1>1, <2>1, <2>2, <2>4, LeastIn
    <2> QED BY <2>1, <2>3, <2>5 DEF With
  <1>3. PICK r : r = [notices[i] EXCEPT !.status = "sending", !.begun = TRUE]
    OBVIOUS
  <1>4. PICK new : new = [notices EXCEPT ![i] = r]
    OBVIOUS
  <1>5. Commit(product, new, {}) /\ UNCHANGED <<started, draft, pressed, left>>
    BY <1>1, <1>3, <1>4 DEF ClaimBroadcast
  <1>6. MovesTo(notices[i], r)
    <2>1. notices[i] \in NoticeRow /\ RowSound(notices[i])
      BY <1>2, Domains DEF RowsSound
    <2>2. PICK x : x = notices[i]
      OBVIOUS
    <2>3. x \in NoticeRow /\ RowSound(x) /\ x.kind = "broadcast"
          /\ r = [x EXCEPT !.status = "sending", !.begun = TRUE]
      BY <1>2, <1>3, <2>1, <2>2
    <2>4. MovesTo(x, r)
      BY <2>3 DEF MovesTo, RowSound, Fits, SaleWaits, StockWaits, ManualWaits, NoticeRow
    <2> QED BY <2>2, <2>4
  <1>7. /\ RowsSound(new) /\ OneInLine(new) /\ Len(new) = Len(notices)
        /\ DOMAIN new = DOMAIN notices /\ new[i] = r
        /\ \A j \in DOMAIN notices : j # i => new[j] = notices[j]
        /\ \A j \in DOMAIN notices : new[j].kind = notices[j].kind
    <2>1. RowsSound(notices) /\ OneInLine(notices)
      BY Domains
    <2>2. Moved(notices, i, r, new)
      BY <1>2, <1>4, <1>6, <2>1, OneMoves
    <2> QED BY <2>2 DEF Moved
  <1>8. Extended /\ notices' = new
    <2>1. new \in Seq(NoticeRow) /\ Len(notices) <= Len(new)
      <3>1. Len(notices) \in Nat
        BY Domains
      <3> QED BY <1>7, <3>1 DEF RowsSound
    <2>2. {} \in SUBSET User /\ product \in ProductRow /\ product.gone <= product.supply /\ BookTypes
      BY DEF Inv, BookTypes
    <2> QED BY <1>5, <2>1, <2>2, Committed
  <1>9. BookTypes'
    BY <1>5, <1>7, <1>8 DEF Extended, Inv, BookTypes
  <1>10. \A j \in DOMAIN notices :
            mail'[j] = mail[j] /\ told'[j] = told[j] /\ excused'[j] = excused[j]
    BY <1>8, Domains DEF Extended
  <1>11. DOMAIN mail' = DOMAIN mail /\ DOMAIN mail = DOMAIN notices
    <2>1. mail' \in Seq(Delivery) /\ Len(mail') = Len(notices)
      BY <1>7, <1>8 DEF Extended
    <2> QED BY <2>1, Domains
  <1>12. ToldOnce' /\ SentIsDone'
    <2>1. \A j \in DOMAIN notices : notices'[j].status \in {"sent", "completed"} =>
              notices[j].status \in {"sent", "completed"}
      <3>1. r.status = "sending"
        <4>1. notices[i] \in NoticeRow
          BY <1>2, Domains
        <4> QED BY <1>3, <4>1 DEF NoticeRow
      <3> QED BY <1>7, <1>8, <3>1
    <2> QED BY <1>7, <1>8, <1>10, <1>11, <2>1, SameMail
  <1>13. PICK d : d = [desk["broadcasts"] EXCEPT !.pc = "claim", !.job = i]
    OBVIOUS
  <1>14. desk["broadcasts"] \in DeskRow /\ DeskFits("broadcasts", desk["broadcasts"], notices)
    BY OnDesk DEF Worker
  <1>15. d \in DeskRow /\ d.pc = "claim" /\ d.job = i /\ d.drop = desk["broadcasts"].drop
    BY <1>2, <1>13, <1>14 DEF DeskRow
  <1>16. desk' = [desk EXCEPT !["broadcasts"] = d]
    BY <1>1, <1>13 DEF ClaimBroadcast
  <1>17. Controls' /\ desk'["broadcasts"] = d
         /\ \A v \in Worker : v # "broadcasts" => desk'[v] = desk[v]
    <2>1. left' \in [DOMAIN left' -> Nat] /\ Controls /\ UNCHANGED <<draft, pressed>>
      BY <1>5 DEF Inv, Controls
    <2>2. "broadcasts" \in Worker
      BY DEF Worker
    <2> QED BY <1>15, <1>16, <2>1, <2>2, DeskTyped
  <1>18. DeskFits("broadcasts", d, new) /\ BatchFits(d, mail', told', excused')
    BY <1>2, <1>7, <1>14, <1>15 DEF DeskFits, BatchFits, Of
  <1>19. StepOf("broadcasts")
    BY <1>2, <1>7, <1>8, <1>10, <1>17, <1>18 DEF StepOf, Of
  <1> QED BY <1>7, <1>8, <1>9, <1>12, <1>17, <1>19, StepKeeps DEF Worker

\* A worker that only reads: everything but its desk is as it was.
LEMMA OnlyReads ==
    ASSUME Inv, NEW w \in Worker, NEW d \in DeskRow, desk' = [desk EXCEPT ![w] = d],
           DeskFits(w, d, notices), BatchFits(d, mail, told, excused),
           UNCHANGED <<product, notices, mail, told, excused, started, draft, pressed>>,
           left' \in [DOMAIN left' -> Nat]
    PROVE  Inv'
  <1>1. /\ product' = product /\ notices' = notices /\ mail' = mail /\ told' = told
        /\ excused' = excused /\ started' = started /\ UNCHANGED <<draft, pressed>>
    OBVIOUS
  <1>2. BookTypes'
    BY <1>1 DEF Inv, BookTypes
  <1>3. Controls' /\ desk'[w] = d /\ \A v \in Worker : v # w => desk'[v] = desk[v]
    BY <1>1, DeskTyped DEF Inv
  <1>4. ToldOnce' /\ SentIsDone' /\ OneInLine(notices')
    BY <1>1 DEF Inv, ToldOnce, SentIsDone, Unfinished
  <1>5. StepOf(w)
    BY <1>1, <1>3 DEF StepOf
  <1> QED BY <1>2, <1>3, <1>4, <1>5, StepKeeps

LEMMA LookKeeps ==
    ASSUME Inv, NEW kind \in AlertKind, LookAtAlerts(kind)
    PROVE  Inv'
  <1>1. PICK first : first = IF Taken(kind) = {} THEN 0 ELSE Min(Taken(kind))
    OBVIOUS
  <1>2. /\ notices \in Seq(NoticeRow) /\ DOMAIN notices = 1 .. Len(notices) /\ Len(notices) \in Nat
        /\ Of(kind) = "alerts" /\ kind # "broadcast"
    BY Domains DEF AlertKind, Of
  <1>3. first > 0 => first \in DOMAIN notices /\ notices[first].kind = kind
                       /\ notices[first].status = "pending"
    <2>1. Taken(kind) \in SUBSET Nat
      BY <1>2 DEF Taken, With
    <2>2. Taken(kind) # {} => first \in Taken(kind)
      BY <1>1, <2>1, LeastIn
    <2> QED BY <1>1, <2>2 DEF Taken, With
  <1>4. first \in Nat
    <2>1. Taken(kind) \in SUBSET Nat
      BY <1>2 DEF Taken, With
    <2>2. Taken(kind) # {} => first \in Taken(kind)
      BY <1>1, <2>1, LeastIn
    <2> QED BY <1>1, <2>1, <2>2
  <1>5. PICK drop : drop = Dropped(kind)
    OBVIOUS
  <1>6. drop \in SUBSET Nat /\ \A i \in drop : i \in DOMAIN notices /\ notices[i].kind # "broadcast"
    BY <1>2, <1>5 DEF Dropped, With
  <1>7. PICK seen : seen = IF kind = "stock" /\ first > 0 THEN Fresh(notices[first]) ELSE 0
    OBVIOUS
  <1>8. seen \in Nat
    <2>1. CASE kind = "stock" /\ first > 0
      <3>1. PICK n : n = notices[first]
        OBVIOUS
      <3>2. n \in NoticeRow
        BY <1>2, <1>3, <1>4, <2>1, <3>1
      <3>3. PICK c : c = CurrentStock(n)
        OBVIOUS
      <3>4. c \in Int
        <4>1. Stock(product) \in Int
          BY StockInt DEF Inv, BookTypes
        <4>2. n.after \in Int
          BY <3>2 DEF NoticeRow
        <4> QED BY <3>3, <4>1, <4>2 DEF CurrentStock
      <3>5. PICK x : x = Max({c, 1})
        OBVIOUS
      <3>6. x \in Nat
        <4>1. PICK m : m = IF c > 1 THEN c ELSE 1
          OBVIOUS
        <4>2. m \in {c, 1} /\ \A y \in {c, 1} : m >= y
          BY <3>4, <4>1
        <4>3. x \in {c, 1} /\ \A y \in {c, 1} : x >= y
          BY <3>5, <4>2 DEF Max
        <4> QED BY <3>4, <4>3
      <3>7. Fresh(n) = IF x = n.after THEN 0 ELSE x
        BY <3>3, <3>5 DEF Fresh
      <3> QED BY <1>7, <2>1, <3>1, <3>6, <3>7
    <2>2. CASE ~(kind = "stock" /\ first > 0)
      BY <1>7, <2>2
    <2> QED BY <2>1, <2>2
  <1>9. PICK d : d = [Desk("write") EXCEPT !.job = first, !.drop = drop, !.seen = seen]
    OBVIOUS
  <1>10. d \in DeskRow /\ d.pc = "write" /\ d.job = first /\ d.drop = drop
    BY <1>4, <1>6, <1>8, <1>9 DEF Desk, DeskRow, NoMail
  <1>11. DeskFits("alerts", d, notices) /\ BatchFits(d, mail, told, excused)
    BY <1>2, <1>3, <1>4, <1>6, <1>10 DEF DeskFits, BatchFits
  <1>12. desk' = [desk EXCEPT !["alerts"] = d]
    BY <1>1, <1>5, <1>7, <1>9 DEF LookAtAlerts
  <1>13. /\ UNCHANGED <<product, notices, mail, told, excused, started, draft, pressed>>
         /\ left' = left
    BY DEF LookAtAlerts
  <1>14. left' \in [DOMAIN left' -> Nat]
    BY <1>13 DEF Inv, Controls
  <1>15. "alerts" \in Worker
    BY DEF Worker
  <1> QED BY <1>10, <1>11, <1>12, <1>13, <1>14, <1>15, OnlyReads

\* What a claim has found to be without sense is taken back; never a broadcast.
LEMMA DropMoves ==
    ASSUME NEW rows, RowsSound(rows), NEW set,
           \A i \in set : i \in DOMAIN rows /\ rows[i].kind # "broadcast",
           NEW new, new = Superseded(rows, set)
    PROVE  /\ \A i \in DOMAIN rows : MovesTo(rows[i], new[i]) /\ new[i].by = rows[i].by
           /\ DOMAIN new = DOMAIN rows
           /\ \A i \in DOMAIN rows : i \notin set => new[i] = rows[i]
           /\ \A i \in DOMAIN rows : new[i].status \in {"superseded", rows[i].status}
  <1>1. DOMAIN new = DOMAIN rows
    BY DEF Superseded
  <1>2. \A i \in DOMAIN rows : rows[i] \in NoticeRow /\ RowSound(rows[i])
    BY DEF RowsSound
  <1>3. \A i \in DOMAIN rows : i \notin set => new[i] = rows[i]
    BY DEF Superseded
  <1>4. \A i \in DOMAIN rows : i \in set => new[i] = [rows[i] EXCEPT !.status = "superseded"]
    BY DEF Superseded
  <1>5. ASSUME NEW i \in DOMAIN rows
        PROVE  MovesTo(rows[i], new[i]) /\ new[i].by = rows[i].by
               /\ new[i].status \in {"superseded", rows[i].status}
    <2>1. PICK x : x = rows[i]
      OBVIOUS
    <2>2. x \in NoticeRow /\ RowSound(x)
      BY <1>2, <2>1
    <2>3. CASE i \in set
      <3>1. PICK n : n = [x EXCEPT !.status = "superseded"]
        OBVIOUS
      <3>2. MovesTo(x, n) /\ n.by = x.by /\ n.status = "superseded"
        <4>1. x.kind # "broadcast"
          BY <2>1, <2>3
        <4> QED BY <2>2, <3>1, <4>1
              DEF MovesTo, RowSound, Fits, SaleWaits, StockWaits, ManualWaits, NoticeRow
      <3>3. new[i] = n
        BY <1>4, <2>1, <2>3, <3>1
      <3> QED BY <2>1, <3>2, <3>3
    <2>4. CASE i \notin set
      <3>1. new[i] = x
        BY <1>3, <2>1, <2>4
      <3> QED BY <2>1, <2>2, <3>1 DEF MovesTo
    <2> QED BY <2>3, <2>4
  <1> QED BY <1>1, <1>3, <1>5

\* Rows that moved, over the same mail or over mail that still fits.
LEMMA BooksMove ==
    ASSUME Inv, RowsSound(notices'), Len(notices') = Len(notices),
           UNCHANGED product, started' \subseteq User,
           mail' \in Seq(Delivery), told' \in Seq([User -> Nat]), excused' \in Seq([User -> Nat]),
           Len(mail') = Len(notices), Len(told') = Len(notices), Len(excused') = Len(notices)
    PROVE  BookTypes' /\ DOMAIN mail' = DOMAIN notices /\ DOMAIN notices' = DOMAIN notices
  <1>1. notices' \in Seq(NoticeRow) /\ notices \in Seq(NoticeRow)
    BY Domains DEF RowsSound
  <1> QED BY <1>1 DEF BookTypes, Inv

LEMMA WriteClaimKeeps ==
    ASSUME Inv, WriteClaim
    PROVE  Inv'
  <1>1. PICK d : d = desk["alerts"]
    OBVIOUS
  <1>2. d.pc = "write" /\ UNCHANGED <<product, told, excused, started, draft, pressed, left>>
    BY <1>1 DEF WriteClaim
  <1>3. "alerts" \in Worker /\ d \in DeskRow /\ DeskFits("alerts", d, notices)
    BY <1>1, OnDesk DEF Worker
  <1>4. PICK rows : rows = Superseded(notices, d.drop)
    OBVIOUS
  <1>5. RowsSound(notices) /\ OneInLine(notices)
    BY Domains
  <1>6. /\ \A i \in DOMAIN notices : MovesTo(notices[i], rows[i]) /\ rows[i].by = notices[i].by
        /\ DOMAIN rows = DOMAIN notices
        /\ \A i \in DOMAIN notices : i \notin d.drop => rows[i] = notices[i]
        /\ \A i \in DOMAIN notices : rows[i].status \in {"superseded", notices[i].status}
    <2>1. \A i \in d.drop : i \in DOMAIN notices /\ notices[i].kind # "broadcast"
      BY <1>3 DEF DeskFits
    <2> QED BY <1>4, <1>5, <2>1, DropMoves
  <1>7. PICK j : j = d.job
    OBVIOUS
  <1>8. j \in Nat /\ (j > 0 => /\ j \in DOMAIN notices /\ Of(notices[j].kind) = "alerts"
                               /\ notices[j].by = "manual" => notices[j].status = "pending")
    <2>1. j \in Nat
      BY <1>3, <1>7 DEF DeskRow
    <2> QED BY <1>2, <1>3, <1>7, <2>1 DEF DeskFits
  <1>9. PICK r : r = [rows[j] EXCEPT !.status = "sending", !.begun = TRUE,
                                     !.after = IF d.seen > 0 THEN d.seen ELSE @]
    OBVIOUS
  <1>10. j > 0 => MovesTo(notices[j], r) /\ r.status = "sending"
    <2> SUFFICES ASSUME j > 0 PROVE MovesTo(notices[j], r) /\ r.status = "sending"
      OBVIOUS
    <2>1. PICK x, y : x = notices[j] /\ y = rows[j]
      OBVIOUS
    <2>2. /\ y \in NoticeRow /\ RowSound(y) /\ y.kind = x.kind /\ y.by = x.by
          /\ x.kind # "broadcast" /\ (x.by = "manual" => x.status = "pending")
      <3>1. MovesTo(x, y) /\ y.by = x.by
        BY <1>6, <1>8, <2>1
      <3> QED BY <1>8, <2>1, <3>1 DEF MovesTo, Of
    <2>3. PICK after : after = IF d.seen > 0 THEN d.seen ELSE y.after
      OBVIOUS
    <2>4. after \in Int
      BY <1>3, <2>2, <2>3 DEF DeskRow, NoticeRow
    <2>5. r = [y EXCEPT !.status = "sending", !.begun = TRUE, !.after = after]
      BY <1>9, <2>1, <2>3
    <2>6. /\ r \in NoticeRow /\ r.kind = y.kind /\ r.by = y.by /\ r.live = y.live
          /\ r.status = "sending" /\ r.begun = TRUE
      BY <2>2, <2>4, <2>5 DEF NoticeRow
    <2>7. RowSound(r)
      BY <2>2, <2>6 DEF RowSound, Fits
    <2>8. MovesTo(x, r)
      BY <2>2, <2>6, <2>7 DEF MovesTo, SaleWaits, StockWaits, ManualWaits
    <2> QED BY <2>1, <2>6, <2>8
  <1>11. PICK new : new = IF j = 0 THEN rows ELSE [rows EXCEPT ![j] = r]
    OBVIOUS
  <1>12. notices' = new
    BY <1>1, <1>4, <1>7, <1>9, <1>11 DEF WriteClaim
  <1>13. DOMAIN new = DOMAIN notices /\ (j > 0 => new[j] = r)
         /\ \A i \in DOMAIN notices : i # j => new[i] = rows[i]
    BY <1>6, <1>8, <1>11
  <1>14. \A i \in DOMAIN notices : MovesTo(notices[i], new[i])
    <2> SUFFICES ASSUME NEW i \in DOMAIN notices PROVE MovesTo(notices[i], new[i])
      OBVIOUS
    <2>1. CASE i = j /\ j > 0
      BY <1>10, <1>13, <2>1
    <2>2. CASE i # j
      BY <1>6, <1>13, <2>2
    <2>3. i \in Nat /\ i > 0
      BY Domains
    <2> QED BY <2>1, <2>2, <2>3
  <1>15. new \in [DOMAIN notices -> NoticeRow]
    <2>1. new = [i \in DOMAIN notices |-> new[i]]
      <3>1. rows = [i \in DOMAIN notices |-> rows[i]]
        BY <1>4 DEF Superseded
      <3> QED BY <1>11, <3>1
    <2>2. \A i \in DOMAIN notices : new[i] \in NoticeRow
      BY <1>14 DEF MovesTo
    <2> QED BY <2>1, <2>2
  <1>16. RowsSound(new) /\ OneInLine(new) /\ Len(new) = Len(notices)
    BY <1>5, <1>14, <1>15, RowsMove
  <1>17. /\ mail' \in Seq(Delivery) /\ Len(mail') = Len(notices)
         /\ \A i \in DOMAIN notices : i # j => mail'[i] = mail[i]
         /\ j > 0 => \/ mail'[j] = mail[j]
                     \/ \A u \in User : mail[j][u] = "none" /\ mail'[j][u] \in {"none", "pending"}
    <2>1. mail \in Seq(Delivery) /\ Len(mail) = Len(notices) /\ DOMAIN mail = DOMAIN notices
      BY Domains DEF Inv, BookTypes
    <2>2. PICK f : f = [u \in User |-> IF u \in started THEN "pending" ELSE "none"]
      OBVIOUS
    <2>3. f \in Delivery /\ \A u \in User : f[u] \in {"none", "pending"}
      BY <2>2 DEF Delivery
    <2>4. mail' = mail \/ (j > 0 /\ mail[j] = NoMail /\ mail' = [mail EXCEPT ![j] = f])
      BY <1>1, <1>7, <1>8, <2>2 DEF WriteClaim, Mailed
    <2>5. CASE mail' = mail
      BY <2>1, <2>5
    <2>6. CASE j > 0 /\ mail[j] = NoMail /\ mail' = [mail EXCEPT ![j] = f]
      <3>1. j \in DOMAIN mail /\ \A u \in User : mail[j][u] = "none"
        BY <1>8, <2>1, <2>6 DEF NoMail
      <3>2. mail' \in Seq(Delivery) /\ Len(mail') = Len(mail) /\ mail'[j] = f
        BY <2>1, <2>3, <2>6, <3>1
      <3>3. \A i \in DOMAIN mail : i # j => mail'[i] = mail[i]
        BY <2>1, <2>6
      <3> QED BY <2>1, <2>3, <3>1, <3>2, <3>3
    <2> QED BY <2>4, <2>5, <2>6
  <1>18. BookTypes' /\ DOMAIN mail' = DOMAIN notices /\ DOMAIN notices' = DOMAIN notices
    <2>1. RowsSound(notices') /\ Len(notices') = Len(notices)
      BY <1>12, <1>16
    <2>2. /\ UNCHANGED product /\ started' \subseteq User
          /\ told' \in Seq([User -> Nat]) /\ excused' \in Seq([User -> Nat])
          /\ Len(told') = Len(notices) /\ Len(excused') = Len(notices)
      BY <1>2 DEF Inv, BookTypes
    <2> QED BY <1>17, <2>1, <2>2, BooksMove
  <1>19. ToldOnce'
    <2> SUFFICES ASSUME NEW i \in DOMAIN notices, NEW u \in User
                 PROVE  /\ told[i][u] <= excused[i][u]
                              + (IF mail'[i][u] \in {"sent", "sending"} THEN 1 ELSE 0)
                        /\ mail'[i][u] = "sent" => told[i][u] > 0
      BY <1>2, <1>18 DEF ToldOnce
    <2>1. /\ told[i][u] <= excused[i][u] + (IF mail[i][u] \in {"sent", "sending"} THEN 1 ELSE 0)
          /\ mail[i][u] = "sent" => told[i][u] > 0
      BY Domains DEF Inv, ToldOnce
    <2>2. \/ mail'[i][u] = mail[i][u]
          \/ mail[i][u] = "none" /\ mail'[i][u] \in {"none", "pending"}
      <3>1. i \in Nat /\ i > 0
        BY Domains
      <3> QED BY <1>17, <3>1
    <2> QED BY <2>1, <2>2
  <1>20. SentIsDone'
    <2> SUFFICES ASSUME NEW i \in DOMAIN notices, new[i].status \in {"sent", "completed"},
                        NEW u \in User, mail'[i][u] \in {"pending", "sending"}
                 PROVE  FALSE
      BY <1>12, <1>18 DEF SentIsDone, Unfinished
    <2>1. i # j
      <3>1. i \in Nat /\ i > 0
        BY Domains
      <3> QED BY <1>10, <1>13, <3>1
    <2>2. notices[i].status \in {"sent", "completed"} /\ mail[i][u] \in {"pending", "sending"}
      BY <1>6, <1>13, <1>17, <2>1
    <2> QED BY <2>2 DEF Inv, SentIsDone, Unfinished
  <1>21. PICK c : c = IF j = 0 THEN Desk("look") ELSE [Desk("check") EXCEPT !.job = j]
    OBVIOUS
  <1>22. c \in DeskRow /\ c.drop = {} /\ c.job = j /\ c.pc \in {"look", "check"}
         /\ (c.pc = "check" => j > 0)
    BY <1>8, <1>21 DEF Desk, DeskRow, NoMail
  <1>23. desk' = [desk EXCEPT !["alerts"] = c]
    BY <1>1, <1>7, <1>21 DEF WriteClaim
  <1>24. Controls' /\ desk'["alerts"] = c /\ \A v \in Worker : v # "alerts" => desk'[v] = desk[v]
    <2>1. left' \in [DOMAIN left' -> Nat] /\ Controls /\ UNCHANGED <<draft, pressed>>
      BY <1>2 DEF Inv, Controls
    <2> QED BY <1>3, <1>22, <1>23, <2>1, DeskTyped
  <1>25. \A i \in DOMAIN notices : new[i].kind = notices[i].kind
    BY <1>14 DEF MovesTo
  <1>26. DeskFits("alerts", c, new) /\ BatchFits(c, mail', told', excused')
    BY <1>8, <1>13, <1>22, <1>25 DEF DeskFits, BatchFits
  <1>27. \A i \in DOMAIN notices : Of(notices[i].kind) # "alerts" =>
            new[i] = notices[i] /\ mail'[i] = mail[i]
    <2> SUFFICES ASSUME NEW i \in DOMAIN notices, Of(notices[i].kind) # "alerts"
                 PROVE  new[i] = notices[i] /\ mail'[i] = mail[i]
      OBVIOUS
    <2>1. i # j
      <3>1. i \in Nat /\ i > 0
        BY Domains
      <3> QED BY <1>8, <3>1
    <2>2. notices[i].kind = "broadcast"
      BY DEF Of
    <2>3. i \notin d.drop
      BY <1>3, <2>2 DEF DeskFits
    <2> QED BY <1>6, <1>13, <1>17, <2>1, <2>3
  <1>28. StepOf("alerts")
    BY <1>2, <1>12, <1>13, <1>24, <1>25, <1>26, <1>27 DEF StepOf
  <1> QED BY <1>3, <1>12, <1>16, <1>18, <1>19, <1>20, <1>24, <1>28, StepKeeps

\* Where a worker goes on: with the same job, or with an empty desk.
LEMMA Gone ==
    ASSUME Controls, NEW w \in Worker, NEW pc \in {"look", "check", "claim"}, Goto(w, pc)
    PROVE  \E d \in DeskRow :
              /\ desk' = [desk EXCEPT ![w] = d]
              /\ d.pc = pc
              /\ pc = "look" => d.job = 0 /\ d.drop = {}
              /\ pc # "look" => d.job = desk[w].job /\ d.drop = desk[w].drop
  <1>1. PICK c : c = desk[w]
    OBVIOUS
  <1>2. c \in DeskRow
    BY <1>1 DEF Controls
  <1>3. PICK d : d = IF pc = "look" THEN Desk(pc) ELSE [c EXCEPT !.pc = pc, !.batch = NoMail]
    OBVIOUS
  <1>4. d \in DeskRow /\ d.pc = pc
        /\ (pc = "look" => d.job = 0 /\ d.drop = {})
        /\ (pc # "look" => d.job = c.job /\ d.drop = c.drop)
    BY <1>2, <1>3 DEF Desk, DeskRow, NoMail
  <1>5. desk' = [desk EXCEPT ![w] = d]
    BY <1>1, <1>3 DEF Goto
  <1> QED BY <1>1, <1>4, <1>5

\* A worker finishes with what is on its desk, or goes on with it; its row may move.
LEMMA GoneKeeps ==
    ASSUME Inv, NEW w \in Worker, NEW pc \in {"look", "check", "claim"}, Goto(w, pc),
           desk[w].pc \in {"check", "claim", "batch"},
           NEW r, MovesTo(notices[desk[w].job], r),
           notices' = [notices EXCEPT ![desk[w].job] = r],
           r.status \in {"sent", "completed"} =>
              \/ notices[desk[w].job].status \in {"sent", "completed"}
              \/ \A u \in User : mail[desk[w].job][u] \notin {"pending", "sending"},
           UNCHANGED <<product, mail, told, excused, started, draft, pressed, left>>
    PROVE  Inv'
  <1>1. PICK c : c = desk[w]
    OBVIOUS
  <1>2. PICK i : i = c.job
    OBVIOUS
  <1>3. /\ c \in DeskRow /\ DeskFits(w, c, notices) /\ i \in DOMAIN notices
        /\ Of(notices[i].kind) = w /\ c.pc \in {"check", "claim", "batch"}
    <2>1. /\ desk[w] \in DeskRow /\ DeskFits(w, desk[w], notices)
          /\ desk[w].job \in DOMAIN notices /\ Of(notices[desk[w].job].kind) = w
      BY OnDesk
    <2> QED BY <1>1, <1>2, <2>1
  <1>4. RowsSound(notices) /\ OneInLine(notices)
    BY Domains
  <1>5. MovesTo(notices[i], r) /\ notices' = [notices EXCEPT ![i] = r]
    BY <1>1, <1>2
  <1>6. Moved(notices, i, r, notices')
    BY <1>3, <1>4, <1>5, OneMoves
  <1>7. /\ RowsSound(notices') /\ OneInLine(notices') /\ Len(notices') = Len(notices)
        /\ DOMAIN notices' = DOMAIN notices /\ notices'[i] = r
        /\ \A j \in DOMAIN notices : j # i => notices'[j] = notices[j]
        /\ \A j \in DOMAIN notices : notices'[j].kind = notices[j].kind
    BY <1>6 DEF Moved
  <1>8. /\ product' = product /\ mail' = mail /\ told' = told /\ excused' = excused
        /\ started' = started /\ left' = left /\ UNCHANGED <<draft, pressed>>
    OBVIOUS
  <1>9. BookTypes'
    BY <1>7, <1>8 DEF Inv, BookTypes
  <1>10. ToldOnce' /\ SentIsDone'
    <2>1. DOMAIN mail = DOMAIN notices /\ DOMAIN mail' = DOMAIN mail
      BY <1>8, Domains
    <2>2. \A j \in DOMAIN notices : notices'[j].status \in {"sent", "completed"} =>
              \/ notices[j].status \in {"sent", "completed"}
              \/ \A u \in User : mail[j][u] \notin {"pending", "sending"}
      BY <1>1, <1>2, <1>7
    <2>3. \A j \in DOMAIN notices :
             mail'[j] = mail[j] /\ told'[j] = told[j] /\ excused'[j] = excused[j]
      BY <1>8
    <2> QED BY <1>7, <2>1, <2>2, <2>3, SameMail
  <1>11. PICK d \in DeskRow :
              /\ desk' = [desk EXCEPT ![w] = d]
              /\ d.pc = pc
              /\ pc = "look" => d.job = 0 /\ d.drop = {}
              /\ pc # "look" => d.job = c.job /\ d.drop = c.drop
    BY <1>1, Gone DEF Inv
  <1>12. Controls' /\ desk'[w] = d /\ \A v \in Worker : v # w => desk'[v] = desk[v]
    <2>1. left' \in [DOMAIN left' -> Nat] /\ Controls /\ UNCHANGED <<draft, pressed>>
      BY <1>8 DEF Inv, Controls
    <2>2. desk' = [desk EXCEPT ![w] = d]
      BY <1>11
    <2> QED BY <2>1, <2>2, DeskTyped
  <1>13. DeskFits(w, d, notices') /\ BatchFits(d, mail', told', excused')
    <2>1. /\ d.pc \in {"look", "check", "claim"}
          /\ d.pc = "look" => d.job = 0 /\ d.drop = {}
          /\ d.pc # "look" => d.job = c.job /\ d.drop = c.drop
      BY <1>11
    <2>2. DOMAIN notices' = DOMAIN notices
          /\ \A j \in DOMAIN notices : notices'[j].kind = notices[j].kind
      BY <1>7
    <2>3. DeskFits(w, d, notices')
      BY <1>3, <2>1, <2>2 DEF DeskFits
    <2>4. BatchFits(d, mail', told', excused')
      BY <2>1 DEF BatchFits
    <2> QED BY <2>3, <2>4
  <1>14. StepOf(w)
    BY <1>3, <1>7, <1>8, <1>12, <1>13 DEF StepOf
  <1> QED BY <1>7, <1>9, <1>10, <1>12, <1>14, StepKeeps

LEMMA RowItself ==
    ASSUME Inv, NEW i \in DOMAIN notices
    PROVE  MovesTo(notices[i], notices[i]) /\ notices = [notices EXCEPT ![i] = notices[i]]
           /\ notices[i] \in NoticeRow /\ RowSound(notices[i])
  <1>1. RowsSound(notices) /\ notices \in Seq(NoticeRow)
    BY Domains
  <1>2. notices = [notices EXCEPT ![i] = notices[i]]
    BY <1>1
  <1> QED BY <1>1, <1>2, MovesItself DEF RowsSound

LEMMA CheckKeeps ==
    ASSUME Inv, CheckAlert
    PROVE  Inv'
  <1>1. "alerts" \in Worker /\ desk["alerts"].pc = "check"
    BY DEF Worker, CheckAlert
  <1>2. PICK i : i = desk["alerts"].job
    OBVIOUS
  <1>3. i \in DOMAIN notices
    BY <1>1, <1>2, OnDesk
  <1>4. PICK x : x = notices[i]
    OBVIOUS
  <1>5. x \in NoticeRow /\ RowSound(x) /\ MovesTo(x, x) /\ notices = [notices EXCEPT ![i] = x]
    BY <1>3, <1>4, RowItself
  <1>6. UNCHANGED <<product, mail, told, excused, started, draft, pressed, left>>
    BY DEF CheckAlert
  <1>7. PICK pc \in {"look", "check", "claim"} : Goto("alerts", pc)
    <2>1. Goto("alerts", "claim") \/ Goto("alerts", "look")
      BY DEF CheckAlert
    <2> QED BY <2>1
  <1>8. PICK y : y = [x EXCEPT !.status = "superseded"]
    OBVIOUS
  <1>9. notices' = notices \/ (x.kind = "flash" /\ notices' = Superseded(notices, {i}))
    BY <1>2, <1>4 DEF CheckAlert
  <1>10. CASE notices' = notices
    <2>1. /\ MovesTo(notices[desk["alerts"].job], x)
          /\ notices' = [notices EXCEPT ![desk["alerts"].job] = x]
          /\ x.status \in {"sent", "completed"} =>
                notices[desk["alerts"].job].status \in {"sent", "completed"}
      BY <1>2, <1>4, <1>5, <1>10
    <2> QED BY <1>1, <1>6, <1>7, <2>1, GoneKeeps
  <1>11. CASE x.kind = "flash" /\ notices' = Superseded(notices, {i})
    <2>1. MovesTo(x, y) /\ y.status = "superseded"
      BY <1>5, <1>8, <1>11
         DEF MovesTo, RowSound, Fits, SaleWaits, StockWaits, ManualWaits, NoticeRow
    <2>2. notices' = [notices EXCEPT ![i] = y]
      <3>1. notices = [j \in DOMAIN notices |-> notices[j]]
        BY Domains
      <3>2. notices' = [j \in DOMAIN notices |-> IF j = i THEN y ELSE notices[j]]
        BY <1>4, <1>8, <1>11 DEF Superseded
      <3> QED BY <3>1, <3>2
    <2>3. /\ MovesTo(notices[desk["alerts"].job], y)
          /\ notices' = [notices EXCEPT ![desk["alerts"].job] = y]
          /\ y.status \notin {"sent", "completed"}
      BY <1>2, <1>4, <2>1, <2>2
    <2> QED BY <1>1, <1>6, <1>7, <2>3, GoneKeeps
  <1> QED BY <1>9, <1>10, <1>11

\* The mail of the job moves while its batch is open; the rows stay.
BatchHolds(batch, f, t, e) ==
    \A u \in User :
        /\ batch[u] \in {"asked", "ok", "failed", "gone"} => f[u] = "sending"
        /\ batch[u] \in {"asked", "failed", "gone"} => t[u] <= e[u]
        /\ batch[u] = "ok" => t[u] > 0
MailHolds(f, t, e) ==
    \A u \in User : /\ t[u] <= e[u] + (IF f[u] \in {"sent", "sending"} THEN 1 ELSE 0)
                    /\ f[u] = "sent" => t[u] > 0

LEMMA MailOf ==
    ASSUME Inv, NEW i \in DOMAIN notices
    PROVE  /\ mail[i] \in Delivery /\ told[i] \in [User -> Nat] /\ excused[i] \in [User -> Nat]
           /\ MailHolds(mail[i], told[i], excused[i])
           /\ mail = [mail EXCEPT ![i] = mail[i]] /\ told = [told EXCEPT ![i] = told[i]]
           /\ excused = [excused EXCEPT ![i] = excused[i]]
  <1>1. /\ mail \in Seq(Delivery) /\ told \in Seq([User -> Nat]) /\ excused \in Seq([User -> Nat])
        /\ i \in DOMAIN mail /\ i \in DOMAIN told /\ i \in DOMAIN excused
    BY Domains
  <1>2. mail[i] \in Delivery /\ told[i] \in [User -> Nat] /\ excused[i] \in [User -> Nat]
    BY <1>1
  <1>3. MailHolds(mail[i], told[i], excused[i])
    BY <1>1 DEF Inv, ToldOnce, MailHolds
  <1>4. mail = [mail EXCEPT ![i] = mail[i]]
    BY <1>1
  <1>5. told = [told EXCEPT ![i] = told[i]]
    BY <1>1
  <1>6. excused = [excused EXCEPT ![i] = excused[i]]
    BY <1>1
  <1> QED BY <1>2, <1>3, <1>4, <1>5, <1>6

LEMMA BatchMoves ==
    ASSUME Inv, NEW w \in Worker, NEW i \in DOMAIN notices, Of(notices[i].kind) = w,
           NEW f \in Delivery, NEW t \in [User -> Nat], NEW e \in [User -> Nat],
           mail' = [mail EXCEPT ![i] = f], told' = [told EXCEPT ![i] = t],
           excused' = [excused EXCEPT ![i] = e],
           MailHolds(f, t, e),
           \A u \in User : f[u] \in {"pending", "sending"} => mail[i][u] \in {"pending", "sending"},
           NEW d \in DeskRow, desk' = [desk EXCEPT ![w] = d],
           d.pc = "batch", d.job = i, d.drop = desk[w].drop, BatchHolds(d.batch, f, t, e),
           UNCHANGED <<product, notices, draft, pressed>>, started' \subseteq User,
           left' \in [DOMAIN left' -> Nat]
    PROVE  Inv'
  <1>1. /\ mail \in Seq(Delivery) /\ told \in Seq([User -> Nat]) /\ excused \in Seq([User -> Nat])
        /\ i \in DOMAIN mail /\ i \in DOMAIN told /\ i \in DOMAIN excused
        /\ Len(mail) = Len(notices) /\ Len(told) = Len(notices) /\ Len(excused) = Len(notices)
        /\ RowsSound(notices) /\ OneInLine(notices)
        /\ DOMAIN mail = DOMAIN notices /\ DOMAIN notices = 1 .. Len(notices)
    BY Domains DEF Inv, BookTypes
  <1>2. /\ mail' \in Seq(Delivery) /\ Len(mail') = Len(notices) /\ mail'[i] = f
        /\ \A j \in DOMAIN notices : j # i => mail'[j] = mail[j]
    BY <1>1
  <1>3. /\ told' \in Seq([User -> Nat]) /\ Len(told') = Len(notices) /\ told'[i] = t
        /\ \A j \in DOMAIN notices : j # i => told'[j] = told[j]
    BY <1>1
  <1>4. /\ excused' \in Seq([User -> Nat]) /\ Len(excused') = Len(notices) /\ excused'[i] = e
        /\ \A j \in DOMAIN notices : j # i => excused'[j] = excused[j]
    BY <1>1
  <1>5. product' = product /\ notices' = notices /\ UNCHANGED <<draft, pressed>>
    OBVIOUS
  <1>6. RowsSound(notices') /\ Len(notices') = Len(notices) /\ OneInLine(notices')
    BY <1>1, <1>5
  <1>7. BookTypes' /\ DOMAIN mail' = DOMAIN notices /\ DOMAIN notices' = DOMAIN notices
    BY <1>2, <1>3, <1>4, <1>5, <1>6, BooksMove
  <1>8. ToldOnce'
    <2> SUFFICES ASSUME NEW j \in DOMAIN notices, NEW u \in User
                 PROVE  /\ told'[j][u] <= excused'[j][u]
                              + (IF mail'[j][u] \in {"sent", "sending"} THEN 1 ELSE 0)
                        /\ mail'[j][u] = "sent" => told'[j][u] > 0
      BY <1>7 DEF ToldOnce
    <2>1. CASE j = i
      BY <1>2, <1>3, <1>4, <2>1 DEF MailHolds
    <2>2. CASE j # i
      <3>1. /\ told[j][u] <= excused[j][u] + (IF mail[j][u] \in {"sent", "sending"} THEN 1 ELSE 0)
            /\ mail[j][u] = "sent" => told[j][u] > 0
        BY <1>1 DEF Inv, ToldOnce
      <3>2. mail'[j] = mail[j] /\ told'[j] = told[j] /\ excused'[j] = excused[j]
        BY <1>2, <1>3, <1>4, <2>2
      <3> QED BY <3>1, <3>2
    <2> QED BY <2>1, <2>2
  <1>9. SentIsDone'
    <2> SUFFICES ASSUME NEW j \in DOMAIN notices, notices[j].status \in {"sent", "completed"},
                        NEW u \in User, mail'[j][u] \in {"pending", "sending"}
                 PROVE  FALSE
      BY <1>5 DEF SentIsDone, Unfinished
    <2>1. mail[j][u] \in {"pending", "sending"}
      BY <1>2
    <2> QED BY <2>1 DEF Inv, SentIsDone, Unfinished
  <1>10. Controls' /\ desk'[w] = d /\ \A v \in Worker : v # w => desk'[v] = desk[v]
    BY <1>5, DeskTyped DEF Inv
  <1>11. DeskFits(w, d, notices') /\ BatchFits(d, mail', told', excused')
    <2>1. i > 0 /\ i \in DOMAIN notices
      BY <1>1
    <2>2. DeskFits(w, desk[w], notices)
      BY OnDesk
    <2>3. DeskFits(w, d, notices')
      BY <1>5, <2>1, <2>2 DEF DeskFits
    <2>4. BatchFits(d, mail', told', excused')
      BY <1>2, <1>3, <1>4 DEF BatchFits, BatchHolds
    <2> QED BY <2>3, <2>4
  <1>12. StepOf(w)
    BY <1>2, <1>3, <1>4, <1>5, <1>10, <1>11 DEF StepOf
  <1> QED BY <1>6, <1>7, <1>8, <1>9, <1>10, <1>12, StepKeeps

LEMMA ClaimBatchKeeps ==
    ASSUME Inv, NEW w \in Worker, ClaimBatch(w)
    PROVE  Inv'
  <1>1. PICK c, i : c = desk[w] /\ i = c.job
    OBVIOUS
  <1>2. PICK users : users = {u \in Waiting(i) :
                                Cardinality({v \in Waiting(i) : v < u}) < left.batch}
    OBVIOUS
  <1>3. users \subseteq User /\ \A u \in users : mail[i][u] = "pending"
    BY <1>2 DEF Waiting
  <1>4. /\ c.pc = "claim"
        /\ UNCHANGED <<product, notices, told, excused, started, draft, pressed, left>>
    BY <1>1 DEF ClaimBatch
  <1>5. c \in DeskRow /\ i \in DOMAIN notices /\ Of(notices[i].kind) = w
    <2>1. desk[w].pc = "claim"
      BY <1>1, <1>4
    <2>2. desk[w] \in DeskRow /\ desk[w].job \in DOMAIN notices
          /\ Of(notices[desk[w].job].kind) = w
      BY <2>1, OnDesk
    <2> QED BY <1>1, <2>2
  <1>6. PICK m, t, e : m = mail[i] /\ t = told[i] /\ e = excused[i]
    OBVIOUS
  <1>7. /\ m \in Delivery /\ t \in [User -> Nat] /\ e \in [User -> Nat] /\ MailHolds(m, t, e)
        /\ told = [told EXCEPT ![i] = t] /\ excused = [excused EXCEPT ![i] = e]
    BY <1>5, <1>6, MailOf
  <1>8. PICK f : f = [u \in User |-> IF u \in users THEN "sending" ELSE m[u]]
    OBVIOUS
  <1>9. f \in Delivery /\ \A u \in User : f[u] = IF u \in users THEN "sending" ELSE m[u]
    BY <1>7, <1>8 DEF Delivery
  <1>10. mail' = [mail EXCEPT ![i] = f]
    BY <1>1, <1>2, <1>6, <1>8 DEF ClaimBatch
  <1>11. PICK batch : batch = [u \in User |-> IF u \in users THEN "asked" ELSE "none"]
    OBVIOUS
  <1>12. PICK d : d = [c EXCEPT !.pc = "batch", !.batch = batch]
    OBVIOUS
  <1>13. d \in DeskRow /\ d.pc = "batch" /\ d.job = i /\ d.drop = c.drop /\ d.batch = batch
    <2>1. batch \in [User -> {"none", "asked", "ok", "failed", "gone", "saved"}]
      BY <1>11
    <2> QED BY <1>1, <1>5, <1>12, <2>1 DEF DeskRow
  <1>14. desk' = [desk EXCEPT ![w] = d]
    BY <1>1, <1>2, <1>11, <1>12 DEF ClaimBatch
  <1>15. \A u \in users : m[u] = "pending" /\ t[u] <= e[u]
    <2> SUFFICES ASSUME NEW u \in users PROVE m[u] = "pending" /\ t[u] <= e[u]
      OBVIOUS
    <2>1. u \in User /\ m[u] = "pending"
      BY <1>3, <1>6
    <2>2. t[u] \in Nat /\ e[u] \in Nat
      BY <1>7, <2>1
    <2> QED BY <1>7, <2>1, <2>2 DEF MailHolds
  <1>16. MailHolds(f, t, e) /\ BatchHolds(batch, f, t, e)
    <2> SUFFICES ASSUME NEW u \in User
                 PROVE  /\ t[u] <= e[u] + (IF f[u] \in {"sent", "sending"} THEN 1 ELSE 0)
                        /\ f[u] = "sent" => t[u] > 0
                        /\ batch[u] \in {"asked", "ok", "failed", "gone"} => f[u] = "sending"
                        /\ batch[u] \in {"asked", "failed", "gone"} => t[u] <= e[u]
                        /\ batch[u] = "ok" => t[u] > 0
      BY DEF MailHolds, BatchHolds
    <2>1. t[u] \in Nat /\ e[u] \in Nat
      BY <1>7
    <2>2. CASE u \in users
      <3>1. f[u] = "sending" /\ batch[u] = "asked" /\ t[u] <= e[u]
        BY <1>9, <1>11, <1>15, <2>2
      <3> QED BY <2>1, <3>1
    <2>3. CASE u \notin users
      <3>1. f[u] = m[u] /\ batch[u] = "none"
        BY <1>9, <1>11, <2>3
      <3>2. /\ t[u] <= e[u] + (IF m[u] \in {"sent", "sending"} THEN 1 ELSE 0)
            /\ m[u] = "sent" => t[u] > 0
        BY <1>7 DEF MailHolds
      <3> QED BY <3>1, <3>2
    <2> QED BY <2>2, <2>3
  <1>17. \A u \in User : f[u] \in {"pending", "sending"} => mail[i][u] \in {"pending", "sending"}
    BY <1>3, <1>6, <1>9
  <1>18. told' = [told EXCEPT ![i] = t] /\ excused' = [excused EXCEPT ![i] = e]
    BY <1>4, <1>7
  <1>19. /\ UNCHANGED <<product, notices, draft, pressed>> /\ started' \subseteq User
         /\ left' \in [DOMAIN left' -> Nat]
    BY <1>4 DEF Inv, BookTypes, Controls
  <1>20. d.drop = desk[w].drop /\ BatchHolds(d.batch, f, t, e)
    BY <1>1, <1>13, <1>16
  <1> QED BY <1>5, <1>7, <1>9, <1>10, <1>13, <1>14, <1>16, <1>17, <1>18, <1>19, <1>20, BatchMoves

\* What a worker with an open batch has in its hands.
LEMMA OpenBatch ==
    ASSUME Inv, NEW w \in Worker, desk[w].pc = "batch"
    PROVE  /\ desk[w] \in DeskRow /\ desk[w].job \in DOMAIN notices
           /\ Of(notices[desk[w].job].kind) = w
           /\ desk[w].batch \in [User -> {"none", "asked", "ok", "failed", "gone", "saved"}]
           /\ BatchHolds(desk[w].batch, mail[desk[w].job], told[desk[w].job], excused[desk[w].job])
  <1>1. /\ desk[w] \in DeskRow /\ desk[w].job \in DOMAIN notices
        /\ Of(notices[desk[w].job].kind) = w /\ BatchFits(desk[w], mail, told, excused)
    BY OnDesk
  <1>2. desk[w].batch \in [User -> {"none", "asked", "ok", "failed", "gone", "saved"}]
    BY <1>1 DEF DeskRow
  <1> QED BY <1>1, <1>2 DEF BatchFits, BatchHolds

LEMMA SendKeeps ==
    ASSUME Inv, NEW w \in Worker, NEW u \in User, NEW result \in {"ok", "failed", "gone"},
           Send(w, u, result)
    PROVE  Inv'
  <1>1. PICK c, i : c = desk[w] /\ i = c.job
    OBVIOUS
  <1>2. PICK m, t, e : m = mail[i] /\ t = told[i] /\ e = excused[i]
    OBVIOUS
  <1>3. /\ c.pc = "batch" /\ c.batch[u] = "asked"
        /\ UNCHANGED <<product, notices, mail, excused, started, draft, pressed>>
        /\ left' = left \/ Spend("refusals")
    BY <1>1 DEF Send
  <1>4. /\ c \in DeskRow /\ i \in DOMAIN notices /\ Of(notices[i].kind) = w
        /\ c.batch \in [User -> {"none", "asked", "ok", "failed", "gone", "saved"}]
        /\ BatchHolds(c.batch, m, t, e)
    <2>1. desk[w].pc = "batch"
      BY <1>1, <1>3
    <2> QED BY <1>1, <1>2, <2>1, OpenBatch
  <1>5. /\ m \in Delivery /\ t \in [User -> Nat] /\ e \in [User -> Nat] /\ MailHolds(m, t, e)
        /\ mail = [mail EXCEPT ![i] = m] /\ excused = [excused EXCEPT ![i] = e]
        /\ told = [told EXCEPT ![i] = t]
    BY <1>2, <1>4, MailOf
  <1>6. PICK n : n = IF result = "ok" THEN [t EXCEPT ![u] = t[u] + 1] ELSE t
    OBVIOUS
  <1>7. /\ n \in [User -> Nat] /\ \A v \in User : v # u => n[v] = t[v]
        /\ n[u] = IF result = "ok" THEN t[u] + 1 ELSE t[u]
    BY <1>5, <1>6
  <1>8. told' = [told EXCEPT ![i] = n]
    <2>1. CASE result = "ok"
      <3>1. told' = [told EXCEPT ![i] = [t EXCEPT ![u] = t[u] + 1]]
        BY <1>1, <1>2, <2>1 DEF Send
      <3> QED BY <1>6, <2>1, <3>1
    <2>2. CASE result # "ok"
      <3>1. told' = told /\ n = t
        BY <1>6, <2>2 DEF Send
      <3> QED BY <1>5, <3>1
    <2> QED BY <2>1, <2>2
  <1>9. PICK batch : batch = [c.batch EXCEPT ![u] = result]
    OBVIOUS
  <1>10. /\ batch \in [User -> {"none", "asked", "ok", "failed", "gone", "saved"}]
         /\ batch[u] = result /\ \A v \in User : v # u => batch[v] = c.batch[v]
    BY <1>4, <1>9
  <1>11. PICK d : d = [c EXCEPT !.batch = batch]
    OBVIOUS
  <1>12. d \in DeskRow /\ d.pc = "batch" /\ d.job = i /\ d.drop = c.drop /\ d.batch = batch
    BY <1>1, <1>3, <1>4, <1>10, <1>11 DEF DeskRow
  <1>13. desk' = [desk EXCEPT ![w] = d]
    BY <1>1, <1>9, <1>11 DEF Send
  <1>14. m[u] = "sending" /\ t[u] <= e[u] /\ t[u] \in Nat /\ e[u] \in Nat
    BY <1>3, <1>4, <1>5 DEF BatchHolds
  <1>15. MailHolds(m, n, e) /\ BatchHolds(batch, m, n, e)
    <2> SUFFICES ASSUME NEW v \in User
                 PROVE  /\ n[v] <= e[v] + (IF m[v] \in {"sent", "sending"} THEN 1 ELSE 0)
                        /\ m[v] = "sent" => n[v] > 0
                        /\ batch[v] \in {"asked", "ok", "failed", "gone"} => m[v] = "sending"
                        /\ batch[v] \in {"asked", "failed", "gone"} => n[v] <= e[v]
                        /\ batch[v] = "ok" => n[v] > 0
      BY DEF MailHolds, BatchHolds
    <2>1. CASE v = u
      BY <1>7, <1>10, <1>14, <2>1
    <2>2. CASE v # u
      <3>1. n[v] = t[v] /\ batch[v] = c.batch[v]
        BY <1>7, <1>10, <2>2
      <3> QED BY <1>4, <1>5, <3>1 DEF MailHolds, BatchHolds
    <2> QED BY <2>1, <2>2
  <1>16. mail' = [mail EXCEPT ![i] = m] /\ excused' = [excused EXCEPT ![i] = e]
    BY <1>3, <1>5
  <1>17. \A v \in User : m[v] \in {"pending", "sending"} => mail[i][v] \in {"pending", "sending"}
    BY <1>2
  <1>18. left' \in [DOMAIN left' -> Nat]
    BY <1>3, SpendTyped DEF Inv, Controls
  <1>19. UNCHANGED <<product, notices, draft, pressed>> /\ started' \subseteq User
    BY <1>3 DEF Inv, BookTypes
  <1>20. d.drop = desk[w].drop /\ BatchHolds(d.batch, m, n, e)
    BY <1>1, <1>12, <1>15
  <1> QED BY <1>4, <1>5, <1>7, <1>8, <1>12, <1>13, <1>15, <1>16, <1>17, <1>18, <1>19, <1>20, BatchMoves

LEMMA LoseAnswerKeeps ==
    ASSUME Inv, NEW w \in Worker, NEW u \in User, LoseAnswer(w, u)
    PROVE  Inv'
  <1>1. PICK c, i : c = desk[w] /\ i = c.job
    OBVIOUS
  <1>2. PICK m, t, e : m = mail[i] /\ t = told[i] /\ e = excused[i]
    OBVIOUS
  <1>3. /\ c.pc = "batch" /\ c.batch[u] = "asked"
        /\ UNCHANGED <<product, notices, mail, started, draft, pressed, desk>>
        /\ Spend("faults")
    BY <1>1 DEF LoseAnswer
  <1>4. /\ c \in DeskRow /\ i \in DOMAIN notices /\ Of(notices[i].kind) = w
        /\ BatchHolds(c.batch, m, t, e)
    <2>1. desk[w].pc = "batch"
      BY <1>1, <1>3
    <2> QED BY <1>1, <1>2, <2>1, OpenBatch
  <1>5. /\ m \in Delivery /\ t \in [User -> Nat] /\ e \in [User -> Nat] /\ MailHolds(m, t, e)
        /\ mail = [mail EXCEPT ![i] = m]
    BY <1>2, <1>4, MailOf
  <1>6. PICK n, x : n = [t EXCEPT ![u] = t[u] + 1] /\ x = [e EXCEPT ![u] = e[u] + 1]
    OBVIOUS
  <1>7. /\ n \in [User -> Nat] /\ \A v \in User : v # u => n[v] = t[v]
        /\ n[u] = t[u] + 1
    BY <1>5, <1>6
  <1>8. /\ x \in [User -> Nat] /\ \A v \in User : v # u => x[v] = e[v]
        /\ x[u] = e[u] + 1
    BY <1>5, <1>6
  <1>9. told' = [told EXCEPT ![i] = n]
    BY <1>1, <1>2, <1>6 DEF LoseAnswer
  <1>10. excused' = [excused EXCEPT ![i] = x]
    BY <1>1, <1>2, <1>6 DEF LoseAnswer
  <1>11. m[u] = "sending" /\ t[u] <= e[u] /\ t[u] \in Nat /\ e[u] \in Nat
    BY <1>3, <1>4, <1>5 DEF BatchHolds
  <1>12. MailHolds(m, n, x) /\ BatchHolds(c.batch, m, n, x)
    <2> SUFFICES ASSUME NEW v \in User
                 PROVE  /\ n[v] <= x[v] + (IF m[v] \in {"sent", "sending"} THEN 1 ELSE 0)
                        /\ m[v] = "sent" => n[v] > 0
                        /\ c.batch[v] \in {"asked", "ok", "failed", "gone"} => m[v] = "sending"
                        /\ c.batch[v] \in {"asked", "failed", "gone"} => n[v] <= x[v]
                        /\ c.batch[v] = "ok" => n[v] > 0
      BY DEF MailHolds, BatchHolds
    <2>1. CASE v = u
      BY <1>3, <1>7, <1>8, <1>11, <2>1
    <2>2. CASE v # u
      <3>1. n[v] = t[v] /\ x[v] = e[v]
        BY <1>7, <1>8, <2>2
      <3> QED BY <1>4, <1>5, <3>1 DEF MailHolds, BatchHolds
    <2> QED BY <2>1, <2>2
  <1>13. mail' = [mail EXCEPT ![i] = m]
    BY <1>3, <1>5
  <1>14. \A v \in User : m[v] \in {"pending", "sending"} => mail[i][v] \in {"pending", "sending"}
    BY <1>2
  <1>15. left' \in [DOMAIN left' -> Nat]
    BY <1>3, SpendTyped DEF Inv, Controls
  <1>16. UNCHANGED <<product, notices, draft, pressed>> /\ started' \subseteq User
    BY <1>3 DEF Inv, BookTypes
  <1>17. desk' = [desk EXCEPT ![w] = c]
    <2>1. desk \in [Worker -> DeskRow]
      BY DEF Inv, Controls
    <2> QED BY <1>1, <1>3, <2>1
  <1>18. c.drop = desk[w].drop /\ c.job = i
    BY <1>1
  <1> QED BY <1>3, <1>4, <1>5, <1>7, <1>8, <1>9, <1>10, <1>12, <1>13, <1>14, <1>15, <1>16, <1>17,
             <1>18, BatchMoves

LEMMA SaveKeeps ==
    ASSUME Inv, NEW w \in Worker, NEW u \in User, Save(w, u)
    PROVE  Inv'
  <1>1. PICK c, i : c = desk[w] /\ i = c.job
    OBVIOUS
  <1>2. PICK m, t, e : m = mail[i] /\ t = told[i] /\ e = excused[i]
    OBVIOUS
  <1>3. PICK result : result = c.batch[u]
    OBVIOUS
  <1>4. /\ c.pc = "batch" /\ result \in {"ok", "failed", "gone"}
        /\ UNCHANGED <<product, notices, told, excused, draft, pressed, left>>
        /\ started' = started \/ started' = started \ {u}
    BY <1>1, <1>3 DEF Save
  <1>5. /\ c \in DeskRow /\ i \in DOMAIN notices /\ Of(notices[i].kind) = w
        /\ c.batch \in [User -> {"none", "asked", "ok", "failed", "gone", "saved"}]
        /\ BatchHolds(c.batch, m, t, e)
    <2>1. desk[w].pc = "batch"
      BY <1>1, <1>4
    <2> QED BY <1>1, <1>2, <2>1, OpenBatch
  <1>6. /\ m \in Delivery /\ t \in [User -> Nat] /\ e \in [User -> Nat] /\ MailHolds(m, t, e)
        /\ excused = [excused EXCEPT ![i] = e] /\ told = [told EXCEPT ![i] = t]
    BY <1>2, <1>5, MailOf
  <1>7. m[u] = "sending" /\ t[u] \in Nat /\ e[u] \in Nat /\ t[u] <= e[u] + 1
        /\ (result = "ok" => t[u] > 0) /\ (result # "ok" => t[u] <= e[u])
    <2>1. t[u] \in Nat /\ e[u] \in Nat
      BY <1>6
    <2>2. m[u] = "sending" /\ (result = "ok" => t[u] > 0) /\ (result # "ok" => t[u] <= e[u])
      BY <1>3, <1>4, <1>5 DEF BatchHolds
    <2>3. t[u] <= e[u] + 1
      BY <1>6, <2>1, <2>2 DEF MailHolds
    <2> QED BY <2>1, <2>2, <2>3
  <1>8. PICK g : g = IF result = "ok" THEN "sent" ELSE "failed"
    OBVIOUS
  <1>9. PICK f : f = [m EXCEPT ![u] = g]
    OBVIOUS
  <1>10. f \in Delivery /\ f[u] = g /\ \A v \in User : v # u => f[v] = m[v]
    BY <1>6, <1>8, <1>9 DEF Delivery
  <1>11. mail' = [mail EXCEPT ![i] = f]
    <2>1. mail' = [mail EXCEPT ![i] = [m EXCEPT ![u] =
                     IF m[u] # "sending" THEN m[u] ELSE IF result = "ok" THEN "sent" ELSE "failed"]]
      BY <1>1, <1>2, <1>3 DEF Save
    <2> QED BY <1>7, <1>8, <1>9, <2>1
  <1>12. PICK batch : batch = [c.batch EXCEPT ![u] = "saved"]
    OBVIOUS
  <1>13. /\ batch \in [User -> {"none", "asked", "ok", "failed", "gone", "saved"}]
         /\ batch[u] = "saved" /\ \A v \in User : v # u => batch[v] = c.batch[v]
    BY <1>5, <1>12
  <1>14. PICK d : d = [c EXCEPT !.batch = batch]
    OBVIOUS
  <1>15. d \in DeskRow /\ d.pc = "batch" /\ d.job = i /\ d.drop = c.drop /\ d.batch = batch
    BY <1>1, <1>4, <1>5, <1>13, <1>14 DEF DeskRow
  <1>16. desk' = [desk EXCEPT ![w] = d]
    BY <1>1, <1>12, <1>14 DEF Save
  <1>17. MailHolds(f, t, e) /\ BatchHolds(batch, f, t, e)
    <2> SUFFICES ASSUME NEW v \in User
                 PROVE  /\ t[v] <= e[v] + (IF f[v] \in {"sent", "sending"} THEN 1 ELSE 0)
                        /\ f[v] = "sent" => t[v] > 0
                        /\ batch[v] \in {"asked", "ok", "failed", "gone"} => f[v] = "sending"
                        /\ batch[v] \in {"asked", "failed", "gone"} => t[v] <= e[v]
                        /\ batch[v] = "ok" => t[v] > 0
      BY DEF MailHolds, BatchHolds
    <2>1. CASE v = u
      BY <1>4, <1>7, <1>8, <1>10, <1>13, <2>1
    <2>2. CASE v # u
      <3>1. f[v] = m[v] /\ batch[v] = c.batch[v]
        BY <1>10, <1>13, <2>2
      <3> QED BY <1>5, <1>6, <3>1 DEF MailHolds, BatchHolds
    <2> QED BY <2>1, <2>2
  <1>18. told' = [told EXCEPT ![i] = t] /\ excused' = [excused EXCEPT ![i] = e]
    BY <1>4, <1>6
  <1>19. \A v \in User : f[v] \in {"pending", "sending"} => mail[i][v] \in {"pending", "sending"}
    <2> SUFFICES ASSUME NEW v \in User, f[v] \in {"pending", "sending"}
                 PROVE  m[v] \in {"pending", "sending"}
      BY <1>2
    <2> QED BY <1>7, <1>10
  <1>20. left' \in [DOMAIN left' -> Nat]
    BY <1>4 DEF Inv, Controls
  <1>21. UNCHANGED <<product, notices, draft, pressed>> /\ started' \subseteq User
    BY <1>4 DEF Inv, BookTypes
  <1>22. d.drop = desk[w].drop /\ BatchHolds(d.batch, f, t, e)
    BY <1>1, <1>15, <1>17
  <1> QED BY <1>5, <1>6, <1>10, <1>11, <1>15, <1>16, <1>17, <1>18, <1>19, <1>20, <1>21, <1>22, BatchMoves

LEMMA SyncKeeps ==
    ASSUME Inv, NEW w \in Worker, Sync(w)
    PROVE  Inv'
  <1>1. PICK i : i = desk[w].job
    OBVIOUS
  <1>2. desk[w].pc \in {"check", "claim", "batch"}
    BY DEF Sync
  <1>3. i \in DOMAIN notices
    BY <1>1, <1>2, OnDesk
  <1>4. PICK x : x = notices[i]
    OBVIOUS
  <1>5. x \in NoticeRow /\ RowSound(x) /\ MovesTo(x, x) /\ notices = [notices EXCEPT ![i] = x]
    BY <1>3, <1>4, RowItself
  <1>6. UNCHANGED <<product, mail, told, excused, started, draft, pressed, left>>
    BY DEF Sync
  <1>7. PICK pc \in {"look", "check", "claim"} : Goto(w, pc)
    <2>1. Goto(w, "claim") \/ Goto(w, "look") \/ Goto(w, "check")
      BY DEF Sync
    <2> QED BY <2>1
  <1>8. PICK y : y = [x EXCEPT !.status = IF x.kind = "broadcast" THEN "completed" ELSE "sent",
                               !.cool = x.kind = "stock"]
    OBVIOUS
  <1>9. notices' = notices
        \/ ((\A u \in User : mail[i][u] \notin {"pending", "sending"})
             /\ notices' = [notices EXCEPT ![i] = y])
    BY <1>1, <1>4, <1>8 DEF Sync, Unfinished
  <1>10. CASE notices' = notices
    <2>1. /\ MovesTo(notices[desk[w].job], x)
          /\ notices' = [notices EXCEPT ![desk[w].job] = x]
          /\ x.status \in {"sent", "completed"} =>
                notices[desk[w].job].status \in {"sent", "completed"}
      BY <1>1, <1>4, <1>5, <1>10
    <2> QED BY <1>2, <1>6, <1>7, <2>1, GoneKeeps
  <1>11. CASE /\ \A u \in User : mail[i][u] \notin {"pending", "sending"}
              /\ notices' = [notices EXCEPT ![i] = y]
    <2>1. /\ y \in NoticeRow /\ y.kind = x.kind /\ y.by = x.by /\ y.live = x.live
          /\ y.status = IF x.kind = "broadcast" THEN "completed" ELSE "sent"
      BY <1>5, <1>8 DEF NoticeRow
    <2>2. MovesTo(x, y)
      BY <1>5, <2>1 DEF MovesTo, RowSound, Fits, SaleWaits, StockWaits, ManualWaits
    <2>3. /\ MovesTo(notices[desk[w].job], y)
          /\ notices' = [notices EXCEPT ![desk[w].job] = y]
          /\ \A u \in User : mail[desk[w].job][u] \notin {"pending", "sending"}
      BY <1>1, <1>4, <1>11, <2>2
    <2> QED BY <1>2, <1>6, <1>7, <2>3, GoneKeeps
  <1> QED BY <1>9, <1>10, <1>11

LEMMA EmptyDesk ==
    ASSUME NEW w, NEW pc \in {"look", "broken", "down"}, NEW rows, NEW m, NEW t, NEW e
    PROVE  /\ Desk(pc) \in DeskRow /\ DeskFits(w, Desk(pc), rows) /\ BatchFits(Desk(pc), m, t, e)
  BY DEF Desk, DeskRow, NoMail, DeskFits, BatchFits

LEMMA FailureKeeps ==
    ASSUME Inv, NEW w \in Worker, Stumble(w) \/ RecoverFails(w)
    PROVE  Inv'
  <1>1. PICK pc \in {"look", "broken", "down"} : desk' = [desk EXCEPT ![w] = Desk(pc)]
    <2>1. desk' = [desk EXCEPT ![w] = Desk("broken")] \/ desk' = [desk EXCEPT ![w] = Desk("look")]
      BY DEF Stumble, RecoverFails, Goto
    <2> QED BY <2>1
  <1>2. UNCHANGED <<product, notices, mail, told, excused, started, draft, pressed>>
        /\ (Spend("faults") \/ Spend("outages"))
    BY DEF Stumble, RecoverFails
  <1>3. left' \in [DOMAIN left' -> Nat]
    BY <1>2, SpendTyped DEF Inv, Controls
  <1>4. Desk(pc) \in DeskRow /\ DeskFits(w, Desk(pc), notices)
        /\ BatchFits(Desk(pc), mail, told, excused)
    BY EmptyDesk
  <1> QED BY <1>1, <1>2, <1>3, <1>4, OnlyReads

LEMMA CrashKeeps ==
    ASSUME Inv, Crash
    PROVE  Inv'
  <1>1. /\ product' = product /\ notices' = notices /\ mail' = mail /\ told' = told
        /\ excused' = excused /\ started' = started /\ draft' = draft
        /\ pressed' = 0 /\ desk' = [w \in Worker |-> Desk("down")] /\ Spend("faults")
    BY DEF Crash
  <1>2. BookTypes' /\ ToldOnce' /\ SentIsDone' /\ OneInLine(notices')
    BY <1>1 DEF Inv, BookTypes, ToldOnce, SentIsDone, Unfinished
  <1>3. left' \in [DOMAIN left' -> Nat]
    BY <1>1, SpendTyped DEF Inv, Controls
  <1>4. Desk("down") \in DeskRow
    BY EmptyDesk
  <1>5. Controls'
    BY <1>1, <1>3, <1>4 DEF Inv, Controls
  <1>6. DesksFit'
    <2> SUFFICES ASSUME NEW w \in Worker
                 PROVE  /\ DeskFits(w, desk'[w], notices')
                        /\ BatchFits(desk'[w], mail', told', excused')
      BY DEF DesksFit
    <2>1. desk'[w] = Desk("down")
      BY <1>1
    <2> QED BY <2>1, EmptyDesk
  <1> QED BY <1>2, <1>5, <1>6 DEF Inv

LEMMA StartBotKeeps ==
    ASSUME Inv, NEW u \in User, StartBot(u)
    PROVE  Inv'
  <1>1. /\ product' = product /\ notices' = notices /\ mail' = mail /\ told' = told
        /\ excused' = excused /\ draft' = draft /\ pressed' = pressed /\ desk' = desk
        /\ started' = started \cup {u} /\ Spend("starts")
    BY DEF StartBot
  <1>2. BookTypes'
    BY <1>1 DEF Inv, BookTypes
  <1>3. ToldOnce' /\ SentIsDone' /\ OneInLine(notices')
    BY <1>1 DEF Inv, ToldOnce, SentIsDone, Unfinished
  <1>4. left' \in [DOMAIN left' -> Nat]
    BY <1>1, SpendTyped DEF Inv, Controls
  <1>5. Controls' /\ DesksFit'
    BY <1>1, <1>4 DEF Inv, Controls, DesksFit
  <1> QED BY <1>2, <1>3, <1>5 DEF Inv

LEMMA CoolDownKeeps ==
    ASSUME Inv, NEW i \in DOMAIN notices, CoolDown(i)
    PROVE  Inv'
  <1>1. /\ product' = product /\ mail' = mail /\ told' = told /\ excused' = excused
        /\ started' = started /\ UNCHANGED <<draft, pressed, desk, left>>
    BY DEF CoolDown
  <1>2. notices \in Seq(NoticeRow) /\ RowsSound(notices)
    BY Domains
  <1>3. PICK x, r : x = notices[i] /\ r = [x EXCEPT !.cool = FALSE]
    OBVIOUS
  <1>4. x \in NoticeRow
    BY <1>2, <1>3
  <1>5. RowFollows(x, r)
    BY <1>3, <1>4 DEF RowFollows, NoticeRow
  <1>6. notices' = [notices EXCEPT ![i] = r]
    BY <1>3 DEF CoolDown
  <1>7. Follows(notices, notices')
    BY <1>2, <1>3, <1>5, <1>6, OneChanged
  <1>8. Len(notices') = Len(notices)
    BY <1>2, <1>6
  <1>9. Extended
    <2>1. Len(notices) \in Nat
      BY <1>2
    <2> QED BY <1>1, <1>8, <2>1 DEF Extended, Inv, BookTypes
  <1>10. Grows
    BY <1>1, <1>7, <1>9 DEF Grows
  <1>11. Controls'
    BY <1>1 DEF Inv, Controls
  <1> QED BY <1>10, <1>11, GrowsKeeps

LEMMA RecoverKeeps ==
    ASSUME Inv, NEW w \in Worker, Recover(w)
    PROVE  Inv'
  <1>1. PICK own : own = {i \in DOMAIN notices : Of(notices[i].kind) = w}
    OBVIOUS
  <1>2. PICK back : back = IF w = "broadcasts" THEN "queued" ELSE "pending"
    OBVIOUS
  <1>3. notices' = [i \in DOMAIN notices |->
                      IF i \in own /\ notices[i].status = "sending"
                      THEN [notices[i] EXCEPT !.status = back] ELSE notices[i]]
    BY <1>1, <1>2 DEF Recover
  <1>4. mail' = [i \in DOMAIN mail |->
                   [u \in User |-> IF i \in own /\ mail[i][u] = "sending" THEN "pending"
                                   ELSE mail[i][u]]]
    BY <1>1 DEF Recover
  <1>5. excused' = [i \in DOMAIN mail |->
                      [u \in User |-> IF i \in own /\ mail[i][u] = "sending"
                                      THEN excused[i][u] + 1 ELSE excused[i][u]]]
    BY <1>1 DEF Recover
  <1>6. /\ product' = product /\ told' = told /\ started' = started /\ left' = left
        /\ UNCHANGED <<draft, pressed>> /\ Goto(w, "look")
    BY DEF Recover
  <1>7. /\ RowsSound(notices) /\ notices \in Seq(NoticeRow) /\ OneInLine(notices)
        /\ DOMAIN notices = 1 .. Len(notices) /\ Len(notices) \in Nat
        /\ DOMAIN mail = DOMAIN notices
    BY Domains
  <1>8. ASSUME NEW i \in DOMAIN notices
        PROVE  /\ MovesTo(notices[i], notices'[i])
               /\ i \notin own => notices'[i] = notices[i]
               /\ notices'[i].status \in {"sent", "completed"} => notices'[i] = notices[i]
    <2>1. PICK x, n : x = notices[i] /\ n = [x EXCEPT !.status = back]
      OBVIOUS
    <2>2. x \in NoticeRow /\ RowSound(x) /\ MovesTo(x, x)
      BY <2>1, RowItself
    <2>3. CASE i \in own /\ x.status = "sending"
      <3>1. notices'[i] = n
        BY <1>3, <2>1, <2>3
      <3>2. x.kind = "broadcast" <=> back = "queued"
        BY <1>1, <1>2, <2>1, <2>3 DEF Of
      <3>3. back \in {"queued", "pending"}
        BY <1>2
      <3>4. n \in NoticeRow /\ n.status = back /\ n.kind = x.kind /\ n.by = x.by
            /\ n.live = x.live /\ n.begun = x.begun
        BY <2>1, <2>2, <3>3 DEF NoticeRow
      <3>5. x.begun
        BY <2>2, <2>3 DEF RowSound
      <3>6. MovesTo(x, n)
        BY <2>2, <2>3, <3>2, <3>3, <3>4, <3>5
           DEF MovesTo, RowSound, Fits, SaleWaits, StockWaits, ManualWaits
      <3> QED BY <2>1, <2>3, <3>1, <3>3, <3>4, <3>6
    <2>4. CASE ~(i \in own /\ x.status = "sending")
      <3>1. notices'[i] = x
        BY <1>3, <2>1, <2>4
      <3> QED BY <2>1, <2>2, <3>1
    <2> QED BY <2>3, <2>4
  <1>9. notices' \in [DOMAIN notices -> NoticeRow]
    <2>1. notices' = [i \in DOMAIN notices |-> notices'[i]]
      BY <1>3
    <2>2. \A i \in DOMAIN notices : notices'[i] \in NoticeRow
      BY <1>8 DEF MovesTo
    <2> QED BY <2>1, <2>2
  <1>10. RowsSound(notices') /\ OneInLine(notices') /\ Len(notices') = Len(notices)
         /\ DOMAIN notices' = DOMAIN notices
    BY <1>7, <1>8, <1>9, RowsMove
  <1>11. ASSUME NEW i \in DOMAIN notices
         PROVE  /\ mail'[i] \in Delivery /\ excused'[i] \in [User -> Nat]
                /\ i \notin own => mail'[i] = mail[i] /\ excused'[i] = excused[i]
                /\ \A u \in User :
                      \/ mail'[i][u] = mail[i][u] /\ excused'[i][u] = excused[i][u]
                      \/ /\ mail[i][u] = "sending" /\ mail'[i][u] = "pending"
                         /\ excused'[i][u] = excused[i][u] + 1
    <2>1. PICK m, e : m = mail[i] /\ e = excused[i]
      OBVIOUS
    <2>2. m \in Delivery /\ e \in [User -> Nat]
      BY <2>1, MailOf
    <2>3. PICK f : f = [u \in User |-> IF i \in own /\ m[u] = "sending" THEN "pending" ELSE m[u]]
      OBVIOUS
    <2>4. PICK x : x = [u \in User |-> IF i \in own /\ m[u] = "sending" THEN e[u] + 1 ELSE e[u]]
      OBVIOUS
    <2>5. mail'[i] = f
      BY <1>4, <1>7, <2>1, <2>3
    <2>6. excused'[i] = x
      BY <1>5, <1>7, <2>1, <2>4
    <2>7. f \in Delivery
      BY <2>2, <2>3 DEF Delivery
    <2>8. x \in [User -> Nat]
      <3>1. \A u \in User : x[u] \in Nat
        BY <2>2, <2>4
      <3> QED BY <2>4, <3>1
    <2>9. \A u \in User : \/ f[u] = m[u] /\ x[u] = e[u]
                          \/ m[u] = "sending" /\ f[u] = "pending" /\ x[u] = e[u] + 1
      BY <2>3, <2>4
    <2>10. i \notin own => f = m /\ x = e
      <3>1. i \notin own => f = m
        BY <2>2, <2>3 DEF Delivery
      <3>2. i \notin own => x = e
        BY <2>2, <2>4
      <3> QED BY <3>1, <3>2
    <2> QED BY <2>1, <2>5, <2>6, <2>7, <2>8, <2>9, <2>10
  <1>12. mail' \in Seq(Delivery) /\ Len(mail') = Len(notices) /\ DOMAIN mail' = DOMAIN notices
    <2>1. mail' = [i \in 1 .. Len(notices) |-> mail'[i]]
      BY <1>4, <1>7
    <2>2. \A i \in 1 .. Len(notices) : mail'[i] \in Delivery
      BY <1>7, <1>11
    <2>3. mail' \in Seq(Delivery) /\ Len(mail') = Len(notices)
      BY <1>7, <2>1, <2>2, SequenceOf
    <2> QED BY <1>7, <2>3
  <1>13. excused' \in Seq([User -> Nat]) /\ Len(excused') = Len(notices)
    <2>1. excused' = [i \in 1 .. Len(notices) |-> excused'[i]]
      BY <1>5, <1>7
    <2>2. \A i \in 1 .. Len(notices) : excused'[i] \in [User -> Nat]
      BY <1>7, <1>11
    <2> QED BY <1>7, <2>1, <2>2, SequenceOf
  <1>14. BookTypes'
    <2>1. /\ UNCHANGED product /\ started' \subseteq User
          /\ told' \in Seq([User -> Nat]) /\ Len(told') = Len(notices)
      BY <1>6 DEF Inv, BookTypes
    <2> QED BY <1>10, <1>12, <1>13, <2>1, BooksMove
  <1>15. ToldOnce'
    <2> SUFFICES ASSUME NEW i \in DOMAIN notices, NEW u \in User
                 PROVE  /\ told[i][u] <= excused'[i][u]
                              + (IF mail'[i][u] \in {"sent", "sending"} THEN 1 ELSE 0)
                        /\ mail'[i][u] = "sent" => told[i][u] > 0
      BY <1>6, <1>12 DEF ToldOnce
    <2>1. /\ told[i][u] <= excused[i][u] + (IF mail[i][u] \in {"sent", "sending"} THEN 1 ELSE 0)
          /\ mail[i][u] = "sent" => told[i][u] > 0
      BY <1>7 DEF Inv, ToldOnce
    <2>2. told[i][u] \in Nat /\ excused[i][u] \in Nat
      BY MailOf
    <2>3. CASE mail'[i][u] = mail[i][u] /\ excused'[i][u] = excused[i][u]
      BY <2>1, <2>3
    <2>4. CASE /\ mail[i][u] = "sending" /\ mail'[i][u] = "pending"
               /\ excused'[i][u] = excused[i][u] + 1
      BY <2>1, <2>2, <2>4
    <2> QED BY <1>11, <2>3, <2>4
  <1>16. SentIsDone'
    <2> SUFFICES ASSUME NEW i \in DOMAIN notices, notices'[i].status \in {"sent", "completed"},
                        NEW u \in User, mail'[i][u] \in {"pending", "sending"}
                 PROVE  FALSE
      BY <1>10 DEF SentIsDone, Unfinished
    <2>1. notices[i].status \in {"sent", "completed"}
      BY <1>8
    <2>2. mail[i][u] \in {"pending", "sending"}
      BY <1>11
    <2> QED BY <2>1, <2>2 DEF Inv, SentIsDone, Unfinished
  <1>17. PICK d : d = Desk("look")
    OBVIOUS
  <1>18. d \in DeskRow /\ DeskFits(w, d, notices') /\ BatchFits(d, mail', told', excused')
    BY <1>17, EmptyDesk
  <1>19. desk' = [desk EXCEPT ![w] = d]
    BY <1>6, <1>17 DEF Goto
  <1>20. Controls' /\ desk'[w] = d /\ \A v \in Worker : v # w => desk'[v] = desk[v]
    <2>1. left' \in [DOMAIN left' -> Nat] /\ Controls /\ UNCHANGED <<draft, pressed>>
      BY <1>6 DEF Inv, Controls
    <2> QED BY <1>18, <1>19, <2>1, DeskTyped
  <1>21. \A i \in DOMAIN notices : Of(notices[i].kind) # w =>
            /\ notices'[i] = notices[i] /\ mail'[i] = mail[i]
            /\ told'[i] = told[i] /\ excused'[i] = excused[i]
    BY <1>1, <1>6, <1>8, <1>11
  <1>22. \A i \in DOMAIN notices : notices'[i].kind = notices[i].kind
    BY <1>8 DEF MovesTo
  <1>23. StepOf(w)
    BY <1>10, <1>18, <1>20, <1>21, <1>22 DEF StepOf
  <1> QED BY <1>10, <1>14, <1>15, <1>16, <1>20, <1>23, StepKeeps
-----------------------------------------------------------------------------
(***************************************************************************)
(* The theorems.                                                            *)
(***************************************************************************)
LEMMA NextKeeps ==
    ASSUME Inv, [Next]_vars
    PROVE  Inv'
  <1>1. CASE Outside
    <2>1. CASE \E w \in Worker : Stumble(w) \/ RecoverFails(w)
      BY <2>1, FailureKeeps
    <2>2. CASE \E w \in Worker, u \in User : LoseAnswer(w, u)
      BY <2>2, LoseAnswerKeeps
    <2>3. CASE \E u \in User : StartBot(u)
      BY <2>3, StartBotKeeps
    <2> QED BY <1>1, <2>1, <2>2, <2>3, OutsideKeeps DEF Outside
  <1>2. CASE BroadcastStep
    <2>1. "broadcasts" \in Worker
      BY DEF Worker
    <2>2. CASE ClaimBroadcast
      BY <2>2, ClaimBroadcastKeeps
    <2>3. CASE ClaimBatch("broadcasts")
      BY <2>1, <2>3, ClaimBatchKeeps
    <2>4. CASE Answer("broadcasts")
      BY <2>1, <2>4, SaveKeeps, SendKeeps DEF Answer
    <2>5. CASE Sync("broadcasts")
      BY <2>1, <2>5, SyncKeeps
    <2>6. CASE Recover("broadcasts")
      BY <2>1, <2>6, RecoverKeeps
    <2> QED BY <1>2, <2>2, <2>3, <2>4, <2>5, <2>6 DEF BroadcastStep
  <1>3. CASE AlertStep
    <2>1. "alerts" \in Worker
      BY DEF Worker
    <2>2. CASE \E kind \in AlertKind : LookAtAlerts(kind)
      BY <2>2, LookKeeps
    <2>3. CASE WriteClaim
      BY <2>3, WriteClaimKeeps
    <2>4. CASE CheckAlert
      BY <2>4, CheckKeeps
    <2>5. CASE ClaimBatch("alerts")
      BY <2>1, <2>5, ClaimBatchKeeps
    <2>6. CASE Answer("alerts")
      BY <2>1, <2>6, SaveKeeps, SendKeeps DEF Answer
    <2>7. CASE Sync("alerts")
      BY <2>1, <2>7, SyncKeeps
    <2>8. CASE Recover("alerts")
      BY <2>1, <2>8, RecoverKeeps
    <2> QED BY <1>3, <2>2, <2>3, <2>4, <2>5, <2>6, <2>7, <2>8 DEF AlertStep
  <1>4. CASE TimePasses
    BY <1>4, CoolDownKeeps, OutsideKeeps DEF TimePasses
  <1>5. CASE Crash
    BY <1>5, CrashKeeps
  <1>6. CASE UNCHANGED vars
    BY <1>6 DEF vars, Inv, BookTypes, Controls, DesksFit, ToldOnce, SentIsDone, Unfinished
  <1> QED BY <1>1, <1>2, <1>3, <1>4, <1>5, <1>6 DEF Next

\* The strengthening holds always: books of one length, rows whose status fits
\* their kind, desks and open batches that fit the rows, and the three properties.
THEOREM NoticesInvariant == Spec => []Inv
  <1>1. Init => Inv
    BY InitInv
  <1>2. Inv /\ [Next]_vars => Inv'
    BY NextKeeps
  <1> QED BY <1>1, <1>2, PTL DEF Spec

\* Every variable keeps a value of its kind: what rows, deliveries and desks may say.
THEOREM NoticesTypeCorrect == Spec => []TypeOK
  BY NoticesInvariant, InvTypes, PTL

\* A user gets a message once, lost answers and interrupted deliveries aside, and
\* a delivery says "sent" only of a message the user has: for any users, batches,
\* failures, crashes and recoveries.
THEOREM ToldOnceAlways == Spec => []ToldOnce
  <1>1. Inv => ToldOnce
    BY DEF Inv
  <1> QED BY <1>1, NoticesInvariant, PTL

\* A notice is closed only when each of its deliveries has an end.
THEOREM SentIsDoneAlways == Spec => []SentIsDone
  <1>1. Inv => SentIsDone
    BY DEF Inv
  <1> QED BY <1>1, NoticesInvariant, PTL

\* A set without two members.
LEMMA AtMostOne ==
    ASSUME NEW S, \A i, j \in S : i = j
    PROVE  Cardinality(S) <= 1
  <1>1. CASE S = {}
    BY <1>1, FS_EmptySet
  <1>2. CASE S # {}
    <2>1. PICK x \in S : TRUE
      BY <1>2
    <2>2. S = {x}
      BY <2>1
    <2> QED BY <2>2, FS_Singleton
  <1> QED BY <1>1, <1>2

\* What waits of one kind is one row: one alert of the price and one automatic
\* alert of the stock that no worker has begun, one manual alert.
THEOREM OnePendingAlways == Spec => []OnePending
  <1>1. Inv => OnePending
    <2> SUFFICES ASSUME Inv PROVE OnePending
      OBVIOUS
    <2>1. OneInLine(notices)
      BY Domains
    <2>2. PICK sale, stock, manual :
            /\ sale = {i \in With(notices, "sale", {"pending"}) : ~notices[i].begun}
            /\ stock = {i \in Automatic(notices, {"pending"}) : ~notices[i].begun}
            /\ manual = With(notices, "stock", {"pending", "sending"})
                          \ Automatic(notices, {"pending", "sending"})
      OBVIOUS
    <2>3. \A i, j \in sale : i = j
      BY <2>1, <2>2 DEF With, OneInLine, Rivals, SaleWaits
    <2>4. \A i, j \in stock : i = j
      BY <2>1, <2>2 DEF With, Automatic, OneInLine, Rivals, StockWaits
    <2>5. \A i, j \in manual : i = j
      BY <2>1, <2>2 DEF With, Automatic, OneInLine, Rivals, ManualWaits
    <2> QED BY <2>2, <2>3, <2>4, <2>5, AtMostOne DEF OnePending
  <1> QED BY <1>1, NoticesInvariant, PTL
=============================================================================
