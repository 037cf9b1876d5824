----------------------------- MODULE ShopProofs -----------------------------
(***************************************************************************)
(* Proofs about Shop, for any number of customers, keys, handlers, accounts *)
(* and batches, and for any prices, discounts and scenes.                   *)
(***************************************************************************)
EXTENDS Shop, FiniteSetTheorems, WellFoundedInduction, TLAPS

-----------------------------------------------------------------------------
(* Numbers *)

\* A finite set of numbers has a greatest member.
LEMMA MaxIsGreatest ==
    ASSUME NEW S, S \subseteq Int, IsFiniteSet(S), S # {}
    PROVE  Max(S) \in S /\ \A y \in S : y <= Max(S)
  <1> DEFINE T == {E \in SUBSET S : E # {} /\ ~\E m \in E : \A y \in E : m >= y}
  <1>1. T = {}
    <2> SUFFICES ASSUME T # {} PROVE FALSE
      OBVIOUS
    <2>1. PICK E \in T : \A F \in T : F \subseteq E => F = E
      <3>1. T \subseteq SUBSET S /\ T # {} /\ IsFiniteSet(S)
        OBVIOUS
      <3> HIDE DEF T
      <3>2. \E E \in T : \A F \in T : F \subseteq E => F = E
        BY ONLY <3>1, SmallestSubset
      <3> QED BY <3>2
    <2>2. E \subseteq S /\ E # {} /\ ~\E m \in E : \A y \in E : m >= y
      BY <2>1
    <2>3. PICK d \in E : TRUE
      BY <2>2
    <2>4. E \ {d} \notin T
      BY <2>1, <2>3
    <2>5. CASE E \ {d} = {}
      BY <2>2, <2>3, <2>5
    <2>6. CASE E \ {d} # {}
      <3>1. PICK m \in E \ {d} : \A y \in E \ {d} : m >= y
        BY <2>2, <2>4, <2>6
      <3>2. m \in Int /\ d \in Int /\ \A y \in E : y \in Int
        BY <2>2, <2>3
      <3>3. CASE m >= d
        <4>1. \A y \in E : m >= y
          BY <3>1, <3>3
        <4> QED BY <2>2, <3>1, <4>1
      <3>4. CASE ~(m >= d)
        <4>1. ASSUME NEW y \in E PROVE d >= y
          BY <3>1, <3>2, <3>4
        <4> QED BY <2>2, <2>3, <4>1
      <3> QED BY <3>3, <3>4
    <2> QED BY <2>5, <2>6
  <1>2. \E m \in S : \A y \in S : m >= y
    <2>1. S \notin T
      BY <1>1
    <2> QED BY <2>1
  <1> HIDE DEF T
  <1>3. Max(S) \in S /\ \A y \in S : Max(S) >= y
    BY <1>2 DEF Max
  <1>4. Max(S) \in Int
    BY <1>3
  <1> QED BY <1>3, <1>4

\* A finite set of numbers has a least member.
LEMMA MinIsLeast ==
    ASSUME NEW S, S \subseteq Int, IsFiniteSet(S), S # {}
    PROVE  Min(S) \in S /\ \A y \in S : Min(S) <= y
  <1> DEFINE N == {-x : x \in S}
  <1>1. N \subseteq Int /\ N # {}
    <2>1. \A x \in S : x \in Int /\ -x \in Int
      OBVIOUS
    <2>2. PICK x \in S : TRUE
      OBVIOUS
    <2>3. -x \in N
      OBVIOUS
    <2>4. ASSUME NEW y \in N PROVE y \in Int
      BY <2>1
    <2> HIDE DEF N
    <2> QED BY <2>3, <2>4
  <1>2. IsFiniteSet(N)
    <2> DEFINE f == [x \in S |-> -x]
    <2>1. f \in Surjection(S, N)
      BY DEF Surjection
    <2> QED BY <2>1, FS_Surjection
  <1> HIDE DEF N
  <1>3. Max(N) \in N /\ \A y \in N : y <= Max(N)
    BY <1>1, <1>2, MaxIsGreatest
  <1>4. PICK m \in S : Max(N) = -m
    BY <1>3 DEF N
  <1>5. \A y \in S : m <= y
    <2> SUFFICES ASSUME NEW y \in S PROVE m <= y
      OBVIOUS
    <2>1. -y \in N
      BY DEF N
    <2>2. -y <= -m
      BY <1>3, <1>4, <2>1
    <2>3. m \in Int /\ y \in Int
      BY <1>4
    <2> QED BY <2>2, <2>3
  <1> QED BY <1>5 DEF Min

\* One of some natural numbers is least, however many they are.
LEMMA MinOfNat ==
    ASSUME NEW S, S \subseteq Nat, S # {}
    PROVE  Min(S) \in S /\ \A y \in S : Min(S) <= y
  <1>1. PICK x \in S : TRUE
    OBVIOUS
  <1> DEFINE T == {y \in S : y <= x}
  <1>2. T \subseteq Int /\ T # {} /\ x \in Nat /\ T \subseteq Nat
    <2>1. x \in Nat /\ x <= x
      BY <1>1
    <2>2. x \in T
      BY <2>1
    <2>3. ASSUME NEW y \in T PROVE y \in Nat
      OBVIOUS
    <2> HIDE DEF T
    <2> QED BY <2>1, <2>2, <2>3
  <1>3. IsFiniteSet(T)
    <2>1. \A y \in T : y <= x
      OBVIOUS
    <2> HIDE DEF T
    <2> QED BY <1>2, <2>1, FS_BoundedSetOfNaturals
  <1>4. Min(T) \in T /\ \A y \in T : Min(T) <= y
    <2> HIDE DEF T
    <2> QED BY <1>2, <1>3, MinIsLeast
  <1>5. PICK m : m = Min(T)
    OBVIOUS
  <1>6. m \in S /\ m <= x /\ m \in Nat
    BY <1>4, <1>5
  <1>7. \A y \in S : m <= y
    <2> SUFFICES ASSUME NEW y \in S PROVE m <= y
      OBVIOUS
    <2>1. CASE y <= x
      BY <1>4, <1>5, <2>1
    <2>2. CASE ~(y <= x)
      <3>1. y \in Nat /\ x \in Nat
        BY <1>2
      <3> QED BY <1>6, <2>2, <3>1
    <2> QED BY <2>1, <2>2
  <1> QED BY <1>6, <1>7 DEF Min

\* The oldest n of some rows are at most n.
LEMMA OldestCount ==
    ASSUME NEW A, A \subseteq Nat, IsFiniteSet(A), NEW n \in Nat
    PROVE  LET S == {i \in A : Cardinality({j \in A : j < i}) < n}
           IN IsFiniteSet(S) /\ Cardinality(S) \in Nat /\ Cardinality(S) <= n
  <1> DEFINE Under(i) == {j \in A : j < i}
             S == {i \in A : Cardinality(Under(i)) < n}
             rank == [i \in S |-> Cardinality(Under(i))]
  <1>1. \A i \in A : IsFiniteSet(Under(i)) /\ Cardinality(Under(i)) \in Nat
    <2> SUFFICES ASSUME NEW i \in A PROVE IsFiniteSet(Under(i)) /\ Cardinality(Under(i)) \in Nat
      OBVIOUS
    <2>1. Under(i) \in SUBSET A
      OBVIOUS
    <2> HIDE DEF Under
    <2> QED BY <2>1, FS_Subset, FS_CardinalityType
  <1>2. ASSUME NEW i \in A, NEW j \in A, i < j
        PROVE  Cardinality(Under(i)) < Cardinality(Under(j))
    <2>0. i \in Nat /\ j \in Nat /\ ~(i < i) /\ \A x \in A : x \in Nat
      OBVIOUS
    <2>1. Under(i) \in SUBSET Under(j) /\ i \in Under(j) /\ i \notin Under(i)
      <3>1. \A x \in A : x < i => x < j
        BY <1>2, <2>0
      <3> QED BY <1>2, <2>0, <3>1
    <2>2. IsFiniteSet(Under(j)) /\ Cardinality(Under(j)) \in Nat /\ Cardinality(Under(i)) \in Nat
      BY <1>1
    <2> HIDE DEF Under
    <2>3. Cardinality(Under(i)) <= Cardinality(Under(j)) /\ Cardinality(Under(i)) # Cardinality(Under(j))
      BY <2>1, <2>2, FS_Subset
    <2> QED BY <2>2, <2>3
  <1>3. rank \in [S -> 0 .. (n - 1)]
    <2>1. ASSUME NEW i \in S PROVE Cardinality(Under(i)) \in 0 .. (n - 1)
      <3>1. Cardinality(Under(i)) \in Nat /\ Cardinality(Under(i)) < n
        BY <1>1
      <3> HIDE DEF Under
      <3> QED BY <3>1
    <2> HIDE DEF Under, S
    <2> QED BY <2>1
  <1>4. \A i, j \in S : rank[i] = rank[j] => i = j
    <2> SUFFICES ASSUME NEW i \in S, NEW j \in S, rank[i] = rank[j], i # j PROVE FALSE
      OBVIOUS
    <2>1. i \in A /\ j \in A /\ i \in Nat /\ j \in Nat
      OBVIOUS
    <2>2. i < j \/ j < i
      BY <2>1
    <2>3. rank[i] = Cardinality(Under(i)) /\ rank[j] = Cardinality(Under(j))
      OBVIOUS
    <2>4. Cardinality(Under(i)) \in Nat /\ Cardinality(Under(j)) \in Nat
      BY <1>1, <2>1
    <2> HIDE DEF rank, S
    <2> PICK a : a = Cardinality(Under(i))
      OBVIOUS
    <2> PICK b : b = Cardinality(Under(j))
      OBVIOUS
    <2>5. a < b \/ b < a
      BY <1>2, <2>1, <2>2
    <2>6. a = b /\ a \in Nat
      BY <2>3, <2>4
    <2> QED BY <2>5, <2>6
  <1>5. rank \in Injection(S, 0 .. (n - 1))
    <2> HIDE DEF rank, S
    <2> QED BY <1>3, <1>4 DEF Injection, IsInjective
  <1>6. IsFiniteSet(0 .. (n - 1)) /\ Cardinality(0 .. (n - 1)) = n
    <2>1. /\ IsFiniteSet(0 .. (n - 1))
          /\ Cardinality(0 .. (n - 1)) = IF 0 > n - 1 THEN 0 ELSE n - 1 - 0 + 1
      BY FS_Interval
    <2> QED BY <2>1
  <1>7. IsFiniteSet(S) /\ Cardinality(S) <= n
    <2> HIDE DEF S
    <2> QED BY <1>5, <1>6, FS_Injection
  <1> QED BY <1>7, FS_CardinalityType

-----------------------------------------------------------------------------
(* New rows *)

\* Filed keeps the rows there are; the new ones come after them, one for each
\* thing that is filed.
LEMMA FiledRows ==
    ASSUME NEW rows, DOMAIN rows \subseteq Nat \ {0}, IsFiniteSet(DOMAIN rows),
           NEW place, NEW D, place = [g \in D |-> place[g]], IsFiniteSet(D),
           \A g \in D : place[g] \in Nat \ {0},
           \A g, e \in D : place[g] = place[e] => g = e,
           NEW row
    PROVE  LET R == Filed(rows, place, row)
           IN /\ R = [i \in DOMAIN R |-> R[i]]
              /\ DOMAIN R \subseteq Nat \ {0} /\ IsFiniteSet(DOMAIN R)
              /\ DOMAIN rows \subseteq DOMAIN R
              /\ \A i \in DOMAIN rows : R[i] = rows[i]
              /\ \E id \in [D -> DOMAIN R \ DOMAIN rows] :
                    /\ \A i \in DOMAIN R \ DOMAIN rows : \E g \in D : id[g] = i
                    /\ \A g, e \in D : id[g] = id[e] => g = e
                    /\ \A g \in D : R[id[g]] = row[g]
                    /\ \A g \in D, i \in DOMAIN rows : i < id[g]
  <1> DEFINE O == DOMAIN rows
             R == Filed(rows, place, row)
             last == Max(O \cup {0})
             id == [g \in D |-> last + place[g]]
             new == {last + place[g] : g \in D}
  <1>1. last \in Nat /\ \A i \in O : i <= last
    <2>1. O \cup {0} \subseteq Int /\ O \cup {0} # {} /\ IsFiniteSet(O \cup {0})
      BY FS_AddElement
    <2>2. last \in O \cup {0} /\ \A i \in O \cup {0} : i <= last
      BY <2>1, MaxIsGreatest
    <2> QED BY <2>2
  <1>2. DOMAIN place = D
    OBVIOUS
  <1>3. R = [i \in O \cup new |->
               IF i \in O THEN rows[i]
               ELSE row[CHOOSE g \in D : last + place[g] = i]]
    BY <1>2 DEF Filed
  <1> HIDE DEF last, R
  <1>4. ASSUME NEW g \in D
        PROVE  /\ id[g] = last + place[g] /\ id[g] \in Nat \ {0} /\ id[g] \in new
               /\ \A i \in O : i < id[g]
    <2>1. place[g] \in Nat /\ place[g] > 0 /\ id[g] = last + place[g]
      OBVIOUS
    <2>2. id[g] \in Nat \ {0} /\ id[g] > last
      BY <1>1, <2>1
    <2>3. \A i \in O : i \in Nat
      OBVIOUS
    <2> HIDE DEF id
    <2>4. \A i \in O : i < id[g]
      BY <1>1, <2>2, <2>3
    <2> QED BY <2>1, <2>2, <2>4
  <1>5. \A g, e \in D : id[g] = id[e] => g = e
    <2> SUFFICES ASSUME NEW g \in D, NEW e \in D, id[g] = id[e] PROVE g = e
      OBVIOUS
    <2>1. last + place[g] = last + place[e] /\ place[g] \in Nat /\ place[e] \in Nat
      OBVIOUS
    <2>2. place[g] = place[e]
      BY <1>1, <2>1
    <2> QED BY <2>2
  <1>6. \A i \in new : \E g \in D : id[g] = i
    OBVIOUS
  <1>7. DOMAIN R = O \cup new
    BY <1>3
  <1>8. new \cap O = {}
    <2> SUFFICES ASSUME NEW i \in new, i \in O PROVE FALSE
      OBVIOUS
    <2>1. PICK g \in D : id[g] = i
      BY <1>6
    <2>2. i < i /\ i \in Nat
      BY <1>4, <2>1
    <2> QED BY <2>2
  <1>9. IsFiniteSet(new)
    <2>1. id \in Surjection(D, new)
      BY <1>4, <1>6 DEF Surjection
    <2> HIDE DEF id, new
    <2> QED BY <2>1, FS_Surjection
  <1>10. ASSUME NEW g \in D PROVE R[id[g]] = row[g]
    <2>1. id[g] \in new /\ id[g] \notin O
      BY <1>4, <1>8
    <2>2. R[id[g]] = row[CHOOSE e \in D : last + place[e] = id[g]]
      BY <1>3, <2>1
    <2>3. \A e \in D : last + place[e] = id[g] <=> e = g
      BY <1>5
    <2>4. (CHOOSE e \in D : last + place[e] = id[g]) = g
      BY <2>3
    <2> QED BY <2>2, <2>4
  <1>11. \A i \in O : R[i] = rows[i]
    BY <1>3
  <1>12. R = [i \in DOMAIN R |-> R[i]]
    BY <1>3
  <1>13. DOMAIN R \subseteq Nat \ {0} /\ IsFiniteSet(DOMAIN R)
    <2>1. new \subseteq Nat \ {0}
      BY <1>4, <1>6
    <2>2. IsFiniteSet(O \cup new)
      BY <1>9, FS_Union
    <2> QED BY <1>7, <2>1, <2>2
  <1>14. DOMAIN R \ O = new
    BY <1>7, <1>8
  <1>15. id \in [D -> DOMAIN R \ O]
    BY <1>4, <1>14
  <1>16. \A g \in D, i \in O : i < id[g]
    BY <1>4
  <1> HIDE DEF id, new
  <1>17. \E e \in [D -> DOMAIN R \ O] :
            /\ \A i \in DOMAIN R \ O : \E g \in D : e[g] = i
            /\ \A g, d \in D : e[g] = e[d] => g = d
            /\ \A g \in D : R[e[g]] = row[g]
            /\ \A g \in D, i \in O : i < e[g]
    BY <1>5, <1>6, <1>10, <1>14, <1>15, <1>16
  <1> QED BY <1>7, <1>11, <1>12, <1>13, <1>17 DEF R

-----------------------------------------------------------------------------
(* Types *)

Reason == {None, "STALE_REQUEST_RECOVERED", "not_found", "supplier_unavailable",
         "out_of_stock", "coupon_seller_price", "coupon_inactive", "coupon_already_used",
         "price_changed", "insufficient", "fallback", "exception"}
Positive == Nat \ {0}
ProductType == [price : Positive, cost : Positive, locked : BOOLEAN, active : BOOLEAN,
                external : BOOLEAN]
CatalogType == [Provider -> [cost : Cost, stock : Nat]]
OrderType == [provider : Provider, key : Key \X Nat, quantity : Positive, cost : Cost,
              adrift : BOOLEAN, queued : BOOLEAN]
RowType == [acct : Account \cup (Nat \X Nat), cost : Nat,
            status : {"available", "sold", "withdrawn", "deleted"},
            key : Key \cup {None}, amount : Nat, again : BOOLEAN, rule : BOOLEAN]
PricingType == [error : Reason, profit : Nat, coupon : Nat, tier : Nat]
ApiType == [status : {None, "processing", "review", "completed", "failed"},
            error : Reason, fresh : BOOLEAN]
QrType == [status : {None, "open", "delivered", "credited"}, amount : Nat,
           pricing : PricingType, locked : BOOLEAN]
TermsType == [profit : [Customer -> Nat], on : [Customer -> BOOLEAN],
              coupon : {"on", "off", "gone"}, tier : {"on", "off", "gone"},
              counted : BOOLEAN, archived : BOOLEAN]
IsFcn(f) == f = [x \in DOMAIN f |-> f[x]]
PlanTyped(plan) ==
    /\ IsFcn(plan) /\ DOMAIN plan \subseteq Provider
    /\ \A r \in DOMAIN plan :
          /\ plan[r].provider = r /\ plan[r].cost \in Cost /\ plan[r].quantity \in Positive
QuoteTyped(q) ==
    /\ q = [pricing |-> q.pricing, local |-> q.local, route |-> q.route, total |-> q.total]
    /\ q.pricing \in PricingType
    /\ IsFcn(q.local) /\ DOMAIN q.local \subseteq Positive /\ IsFiniteSet(DOMAIN q.local)
    /\ \A i \in DOMAIN q.local : q.local[i] \in Nat
    /\ IsFcn(q.route)
    /\ \A r \in DOMAIN q.route : q.route[r] \in Nat
    /\ q.total \in Nat
RunTyped(r) ==
    \/ r = Rest
    \/ r.pc = "claimed" /\ r.key \in Key /\ r = [pc |-> "claimed", key |-> r.key]
    \/ /\ r.pc = "answer" /\ r.key \in Key /\ r.result \in Reason \cup {"completed"}
       /\ r = [pc |-> "answer", key |-> r.key, result |-> r.result]
    \/ /\ r.pc = "buying" /\ r.key \in Key /\ r.p \in ProductType
       /\ r = [pc |-> "buying", key |-> r.key, p |-> r.p, plan |-> r.plan,
               paid |-> r.paid, quote |-> r.quote]
       /\ PlanTyped(r.plan) /\ IsFcn(r.paid) /\ QuoteTyped(r.quote)
Typed ==
    /\ product \in ProductType /\ catalog \in CatalogType
    /\ placed \in Seq(OrderType)
    /\ \A o \in DOMAIN placed : placed[o].queued => placed[o].provider = "sumistore"
    /\ IsFcn(inv) /\ Rows \subseteq Positive /\ IsFiniteSet(Rows)
    /\ \A i \in Rows : inv[i] \in RowType /\ (inv[i].key # None <=> inv[i].status = "sold")
    /\ wallet \in [Customer -> Nat]
    /\ debit \in [Key -> Nat]
    /\ shown \in [BotKey -> Nat]
    /\ IsFcn(request) /\ DOMAIN request = ApiKey \cup QrKey
    /\ \A k \in ApiKey : request[k] \in ApiType
    /\ \A k \in QrKey : request[k] \in QrType
    /\ terms \in TermsType
    /\ IsFcn(run) /\ DOMAIN run = Handler
    /\ \A h \in Handler : RunTyped(run[h])
    /\ runs \in [Key -> Nat]
    /\ raced \subseteq Key

-----------------------------------------------------------------------------
(* Prices *)

LEMMA RegularPricePositive ==
    ASSUME NEW price \in Positive, NEW c \in Nat, NEW d \in Nat
    PROVE  RegularPrice(price, c, d) \in Positive
  <1> DEFINE x == Most(0, Least(c, price - 1))
  <1>1. x \in Nat /\ x <= price - 1 /\ price \in Nat
    BY DEF Most, Least, Positive
  <1> HIDE DEF x
  <1> DEFINE y == Most(0, Least(d, price - x - 1))
  <1>2. y \in Nat /\ y <= price - x - 1
    BY <1>1 DEF Most, Least
  <1> HIDE DEF y
  <1>3. price - x - y \in Positive
    BY <1>1, <1>2 DEF Positive
  <1> QED BY <1>3 DEF RegularPrice, x, y

LEMMA SellerUnitPriceFacts ==
    ASSUME NEW cost \in Nat, NEW profit \in Nat, NEW public \in Nat
    PROVE  /\ SellerUnitPrice(cost, profit, public) \in Nat
           /\ SellerUnitPrice(cost, profit, public) # 0 =>
                 SellerUnitPrice(cost, profit, public) > cost
  BY DEF SellerUnitPrice

\* A price is zero only where a seller has none; a seller's price has a profit.
LEMMA UnitPriceFacts ==
    ASSUME NEW pr \in PricingType, NEW cost \in Nat, NEW public \in Positive
    PROVE  /\ UnitPrice(pr, cost, public) \in Nat
           /\ ~IsSeller(pr) => UnitPrice(pr, cost, public) # 0
           /\ IsSeller(pr) /\ UnitPrice(pr, cost, public) # 0 =>
                 UnitPrice(pr, cost, public) > cost
  <1>1. pr.profit \in Nat /\ pr.coupon \in Nat /\ pr.tier \in Nat /\ public \in Nat
    BY DEF PricingType, Positive
  <1>2. CASE IsSeller(pr)
    BY <1>1, <1>2, SellerUnitPriceFacts DEF UnitPrice
  <1>3. CASE ~IsSeller(pr)
    <2>1. RegularPrice(public, pr.coupon, pr.tier) \in Positive
      BY <1>1, RegularPricePositive
    <2> QED BY <1>3, <2>1 DEF UnitPrice, Positive
  <1> QED BY <1>2, <1>3

LEMMA SupplierSalePricePositive ==
    ASSUME NEW p \in ProductType, NEW cost \in Cost
    PROVE  SupplierSalePrice(p, cost) \in Positive /\ cost \in Positive
  <1>1. p.price \in Positive /\ cost \in Positive /\ Markup \in Nat
    BY PriceAssumption DEF ProductType, Positive
  <1>2. cost + Markup \in Positive
    BY <1>1 DEF Positive
  <1> QED BY <1>1, <1>2 DEF SupplierSalePrice

LEMMA PublicPricingType == PublicPricing \in PricingType /\ ~IsSeller(PublicPricing)
  BY DEF PublicPricing, PricingType, Reason, IsSeller, None

LEMMA PricingTyped ==
    ASSUME Typed, NEW p, NEW k \in Key
    PROVE  Pricing(p, k) \in PricingType
  <1>1. /\ Body[k].user \in Customer /\ Body[k].quantity \in Nat /\ Body[k].coupon \in BOOLEAN
        /\ CouponOff \in Nat /\ Tier.off \in Nat
    BY KeyAssumption, PriceAssumption
  <1>2. terms.profit[Body[k].user] \in Nat
    BY <1>1 DEF Typed, TermsType
  <1>3. TierOff(Body[k].quantity) \in Nat
    BY <1>1 DEF TierOff
  <1> DEFINE profit == IF terms.on[Body[k].user] THEN terms.profit[Body[k].user] ELSE 0
  <1>4. profit \in Nat
    BY <1>2
  <1> HIDE DEF profit
  <1>5. /\ Refusal("coupon_seller_price") \in PricingType
        /\ Refusal("coupon_inactive") \in PricingType
        /\ Refusal("coupon_already_used") \in PricingType
    BY DEF Refusal, PublicPricing, PricingType, Reason, None
  <1>6. [PublicPricing EXCEPT !.profit = profit] \in PricingType
    BY <1>4, PublicPricingType DEF PricingType
  <1>7. [PublicPricing EXCEPT !.coupon = IF Body[k].coupon THEN CouponOff ELSE 0,
                              !.tier = TierOff(Body[k].quantity)] \in PricingType
    BY <1>1, <1>3, PublicPricingType DEF PricingType
  <1> QED BY <1>5, <1>6, <1>7 DEF Pricing, profit

-----------------------------------------------------------------------------
(* Plans *)

LEMMA ProviderFinite == ASSUME NEW S \in SUBSET Provider PROVE IsFiniteSet(S)
  <1>1. IsFiniteSet({"sumistore"} \cup {"lehai"})
    BY FS_Singleton, FS_Union
  <1>2. Provider = {"sumistore"} \cup {"lehai"}
    BY DEF Provider
  <1> QED BY <1>1, <1>2, FS_Subset

Quantities(plan) == [r \in DOMAIN plan |-> plan[r].quantity]

\* A plan has parts of what the suppliers have, and together what is needed.
LEMMA PlanFacts ==
    ASSUME catalog \in CatalogType, NEW up \in SUBSET Provider, NEW n \in Int
    PROVE  LET plan == PlanRoutes(RoutesOf(up), n)
           IN /\ PlanTyped(plan) /\ DOMAIN plan \subseteq up
              /\ \A r \in DOMAIN plan : plan[r].cost = catalog[r].cost
              /\ DOMAIN plan # {} => n > 0 /\ SumOver(DOMAIN plan, Quantities(plan)) = n
  <1> DEFINE routes == RoutesOf(up)
             part == [r \in DOMAIN routes |-> Part(routes, n, r)]
             parts == IF n > 0 /\ SumOver(DOMAIN routes, part) = n
                      THEN {r \in DOMAIN routes : part[r] > 0} ELSE {}
             plan == PlanRoutes(routes, n)
  <1>1. /\ DOMAIN routes = up
        /\ \A r \in up : /\ routes[r].provider = r /\ routes[r].cost = catalog[r].cost
                         /\ routes[r].stock = catalog[r].stock
                         /\ routes[r].cost \in Cost /\ routes[r].stock \in Nat
    BY DEF RoutesOf, CatalogType
  <1>2. plan = [r \in parts |-> [provider |-> r, cost |-> routes[r].cost, quantity |-> part[r]]]
    BY DEF PlanRoutes
  <1> HIDE DEF routes, plan
  <1>3. ASSUME NEW r \in up PROVE part[r] \in Nat
    <2> DEFINE ahead == {s \in DOMAIN routes : RouteBefore(routes[s], routes[r])}
               stock == [s \in ahead |-> routes[s].stock]
    <2>1. ahead \in SUBSET Provider /\ \A s \in ahead : stock[s] \in Int
      BY <1>1
    <2> HIDE DEF ahead, stock
    <2>2. SumOver(ahead, stock) \in Nat
      BY <2>1, ProviderFinite, PairsFinite
    <2>3. part[r] = Least(routes[r].stock, Most(0, n - SumOver(ahead, stock)))
      BY <1>1 DEF Part, ahead, stock
    <2> QED BY <1>1, <2>2, <2>3 DEF Least, Most
  <1>4. parts \subseteq up /\ \A r \in parts : part[r] \in Positive
    BY <1>1, <1>3 DEF Positive
  <1> HIDE DEF part
  <1>5. DOMAIN plan = parts
    BY <1>2
  <1>6. ASSUME NEW r \in parts
        PROVE  /\ plan[r].provider = r /\ plan[r].cost = catalog[r].cost
               /\ plan[r].cost \in Cost /\ plan[r].quantity = part[r]
    BY <1>1, <1>2, <1>4
  <1>7. PlanTyped(plan)
    <2>1. plan = [r \in DOMAIN plan |-> plan[r]]
      BY <1>2
    <2> HIDE DEF parts
    <2> QED BY <1>4, <1>5, <1>6, <2>1 DEF PlanTyped, IsFcn
  <1>8. ASSUME DOMAIN plan # {} PROVE n > 0 /\ SumOver(DOMAIN plan, Quantities(plan)) = n
    <2>1. n > 0 /\ SumOver(up, part) = n /\ parts = {r \in up : part[r] > 0}
      BY <1>1, <1>5, <1>8
    <2> HIDE DEF parts
    <2>2. \A r \in parts : Quantities(plan)[r] = part[r]
      BY <1>5, <1>6 DEF Quantities
    <2>3. \A r \in up : part[r] \in Nat /\ (part[r] > 0 => r \in parts /\ Quantities(plan)[r] = part[r])
      BY <1>3, <2>1, <2>2
    <2>4. \A r \in parts : Quantities(plan)[r] \in Nat /\ (Quantities(plan)[r] > 0 => r \in up /\ Quantities(plan)[r] = part[r])
      BY <1>3, <1>4, <2>2
    <2>5. Pairs(up, part) = Pairs(parts, Quantities(plan))
      BY <2>3, <2>4, PairsEqual
    <2> QED BY <1>5, <2>1, <2>5 DEF SumOver
  <1> QED BY <1>4, <1>5, <1>6, <1>7, <1>8 DEF plan, routes

-----------------------------------------------------------------------------
(* Quotes *)

\* What a purchase pays is a number.
LEMMA TotalNat ==
    ASSUME NEW local, IsFiniteSet(DOMAIN local), \A i \in DOMAIN local : local[i] \in Nat,
           NEW plan, NEW route, DOMAIN route \subseteq Provider,
           \A r \in DOMAIN route : route[r] \in Nat /\ plan[r].quantity \in Nat
    PROVE  /\ TotalOf(local, route, plan) \in Nat
           /\ SumOver(DOMAIN local, local) \in Nat
           /\ SumOver(DOMAIN route, [r \in DOMAIN route |-> route[r] * plan[r].quantity]) \in Nat
  <1> DEFINE D == DOMAIN route
             f == [r \in D |-> route[r] * plan[r].quantity]
  <1>1. SumOver(DOMAIN local, local) \in Nat
    <2>1. \A i \in DOMAIN local : local[i] \in Int
      OBVIOUS
    <2> QED BY <2>1, PairsFinite
  <1>2. SumOver(D, f) \in Nat
    <2>1. IsFiniteSet(D)
      BY ProviderFinite
    <2>2. ASSUME NEW r \in D PROVE f[r] \in Int
      <3>1. ASSUME NEW a \in Nat, NEW b \in Nat PROVE a * b \in Int
        OBVIOUS
      <3>2. f[r] = route[r] * plan[r].quantity
        OBVIOUS
      <3> QED BY <3>1, <3>2
    <2> HIDE DEF f, D
    <2> QED BY <2>1, <2>2, PairsFinite
  <1> QED BY <1>1, <1>2 DEF TotalOf

\* The prices of rows of the shop.
LEMMA LocalPricesFacts ==
    ASSUME Typed, NEW p \in ProductType, NEW pr \in PricingType, NEW rows \in SUBSET Rows
    PROVE  LET local == LocalPrices(p, pr, rows)
           IN /\ IsFcn(local) /\ DOMAIN local = rows
              /\ \A i \in rows : /\ local[i] \in Nat
                                 /\ IsSeller(pr) /\ local[i] # 0 => local[i] > inv[i].cost
  <1>1. p.price \in Positive
    BY DEF ProductType
  <1>2. \A i \in rows : inv[i].cost \in Nat
    BY DEF Typed, RowType
  <1>3. \A i \in rows : LocalPrices(p, pr, rows)[i] = UnitPrice(pr, inv[i].cost, p.price)
    BY DEF LocalPrices
  <1>4. IsFcn(LocalPrices(p, pr, rows)) /\ DOMAIN LocalPrices(p, pr, rows) = rows
    BY DEF LocalPrices, IsFcn
  <1> QED BY <1>1, <1>2, <1>3, <1>4, UnitPriceFacts

\* The prices of the parts of a plan.
LEMMA RoutePricesFacts ==
    ASSUME NEW p \in ProductType, NEW pr \in PricingType, NEW plan, PlanTyped(plan)
    PROVE  LET route == RoutePrices(p, pr, plan)
           IN /\ IsFcn(route) /\ DOMAIN route = DOMAIN plan
              /\ \A r \in DOMAIN plan : /\ route[r] \in Nat
                                        /\ IsSeller(pr) /\ route[r] # 0 => route[r] > plan[r].cost
  <1>1. ASSUME NEW r \in DOMAIN plan
        PROVE  /\ SupplierSalePrice(p, plan[r].cost) \in Positive
               /\ plan[r].cost \in Nat
    <2>1. plan[r].cost \in Cost
      BY DEF PlanTyped
    <2> QED BY <2>1, SupplierSalePricePositive DEF Positive
  <1>2. \A r \in DOMAIN plan : RoutePrices(p, pr, plan)[r]
                                 = UnitPrice(pr, plan[r].cost, SupplierSalePrice(p, plan[r].cost))
    BY DEF RoutePrices
  <1>3. /\ IsFcn(RoutePrices(p, pr, plan))
        /\ DOMAIN RoutePrices(p, pr, plan) = DOMAIN plan
    BY DEF RoutePrices, IsFcn
  <1> QED BY <1>1, <1>2, <1>3, UnitPriceFacts

\* A seller gains on every account.
Gains(q, plan) ==
    IsSeller(q.pricing) =>
      /\ \A i \in DOMAIN q.local : q.local[i] > inv[i].cost
      /\ \A r \in DOMAIN plan : q.route[r] > plan[r].cost

LEMMA QuoteFacts ==
    ASSUME Typed, NEW p \in ProductType, NEW k \in Key, NEW rows \in SUBSET Rows,
           NEW plan, PlanTyped(plan)
    PROVE  LET q == Quote(p, k, rows, plan)
           IN /\ QuoteTyped(q) /\ DOMAIN q.local = rows /\ DOMAIN q.route = DOMAIN plan
              /\ q.total = TotalOf(q.local, q.route, plan)
              /\ Gains(q, plan)
  <1> DEFINE asked == Pricing(p, k)
             pr == IF /\ IsSeller(asked)
                      /\ \/ 0 \in Amounts(LocalPrices(p, asked, rows))
                         \/ 0 \in Amounts(RoutePrices(p, asked, plan))
                   THEN PublicPricing ELSE asked
             local == LocalPrices(p, pr, rows)
             route == RoutePrices(p, pr, plan)
             q == [pricing |-> pr, local |-> local, route |-> route,
                   total |-> TotalOf(local, route, plan)]
  <1>1. Quote(p, k, rows, plan) = q
    BY DEF Quote
  <1>2. pr \in PricingType
    BY PricingTyped, PublicPricingType
  <1>3. IsSeller(pr) => 0 \notin Amounts(local) /\ 0 \notin Amounts(route)
    BY PublicPricingType
  <1> HIDE DEF pr
  <1>4. /\ IsFcn(local) /\ DOMAIN local = rows
        /\ \A i \in rows : /\ local[i] \in Nat
                           /\ IsSeller(pr) /\ local[i] # 0 => local[i] > inv[i].cost
    BY <1>2, LocalPricesFacts
  <1>5. /\ IsFcn(route) /\ DOMAIN route = DOMAIN plan
        /\ \A r \in DOMAIN plan : /\ route[r] \in Nat
                                  /\ IsSeller(pr) /\ route[r] # 0 => route[r] > plan[r].cost
    BY <1>2, RoutePricesFacts
  <1> HIDE DEF local, route
  <1>6. rows \subseteq Positive /\ IsFiniteSet(rows)
    BY FS_Subset DEF Typed
  <1>7. /\ DOMAIN plan \subseteq Provider
        /\ \A r \in DOMAIN plan : plan[r].quantity \in Nat
    BY DEF PlanTyped, Positive
  <1>8. TotalOf(local, route, plan) \in Nat
    BY <1>4, <1>5, <1>6, <1>7, TotalNat
  <1>9. QuoteTyped(q)
    BY <1>2, <1>4, <1>5, <1>6, <1>8 DEF QuoteTyped
  <1>10. Gains(q, plan)
    BY <1>3, <1>4, <1>5 DEF Gains, Amounts
  <1> QED BY <1>1, <1>4, <1>5, <1>9, <1>10

-----------------------------------------------------------------------------
(* Sources *)

LEMMA ReleasedTyped == ASSUME NEW p \in ProductType PROVE Released(p) \in ProductType
  <1>1. p.cost + Markup \in Positive
    BY PriceAssumption DEF ProductType, Positive
  <1> QED BY <1>1 DEF Released, ProductType

LEMMA ReleaseTyped ==
    ASSUME NEW p \in ProductType, NEW rows PROVE ReleaseIfEmpty(p, rows) \in ProductType
  BY ReleasedTyped DEF ReleaseIfEmpty

LEMMA ApplyTyped ==
    ASSUME NEW p \in ProductType, NEW cost \in Cost
    PROVE  ApplySupplierPrice(p, cost) \in ProductType
  <1>1. cost \in Positive /\ cost + Markup \in Positive
    BY PriceAssumption DEF Positive
  <1> QED BY <1>1 DEF ApplySupplierPrice, ProductType

LEMMA RefreshTyped ==
    ASSUME catalog \in CatalogType, NEW p \in ProductType, NEW up \in SUBSET Provider
    PROVE  Refresh(p, up) \in ProductType
  <1> DEFINE priced == {r \in up : catalog[r].stock > 0}
             costs == {catalog[r].cost : r \in priced}
  <1>1. ASSUME priced # {} PROVE Min(costs) \in Cost
    <2>1. costs \subseteq Cost /\ costs # {}
      BY <1>1 DEF CatalogType
    <2>2. costs \subseteq Nat
      BY <2>1, PriceAssumption
    <2> HIDE DEF costs
    <2> QED BY <2>1, <2>2, MinOfNat
  <1>2. ReleaseIfEmpty(p, inv) \in ProductType
    BY ReleaseTyped
  <1> QED BY <1>1, <1>2, ApplyTyped DEF Refresh

\* The rows of a purchase are free, and the suppliers are asked for the rest.
SourcesSound(src, k) ==
    /\ src.rows \subseteq Available /\ src.need \in Nat
    /\ Cardinality(src.rows) + src.need = Body[k].quantity
    /\ PlanTyped(src.plan)
    /\ DOMAIN src.plan # {} => src.need > 0 /\ SumOver(DOMAIN src.plan, Quantities(src.plan)) = src.need
    /\ src.p \in ProductType
    /\ src.error = None /\ (product.external \/ src.need = 0) /\ src.need > 0 => DOMAIN src.plan # {}
    /\ src.error \in Reason

LEMMA AvailableFacts ==
    ASSUME Typed
    PROVE  /\ Available \subseteq Rows /\ Available \subseteq Nat /\ IsFiniteSet(Available)
           /\ \A i \in Available : inv[i].key = None
  <1>1. Available \in SUBSET Rows /\ Rows \subseteq Nat /\ IsFiniteSet(Rows)
    BY DEF Available, Typed, Positive
  <1>2. IsFiniteSet(Available)
    BY <1>1, FS_Subset
  <1>3. \A i \in Available : inv[i].key = None
    BY DEF Available, Typed
  <1> QED BY <1>1, <1>2, <1>3

LEMMA ReserveFacts ==
    ASSUME Typed, NEW n \in Nat
    PROVE  /\ Reserve(n) \subseteq Available /\ IsFiniteSet(Reserve(n))
           /\ Cardinality(Reserve(n)) \in Nat /\ n - Cardinality(Reserve(n)) \in Nat
  <1>1. /\ IsFiniteSet(Reserve(n)) /\ Cardinality(Reserve(n)) \in Nat
        /\ Cardinality(Reserve(n)) <= n
    BY AvailableFacts, OldestCount DEF Reserve
  <1>2. Reserve(n) \subseteq Available
    BY DEF Reserve
  <1> QED BY <1>1, <1>2

LEMMA SourcesFacts ==
    ASSUME Typed, NEW k \in Key, NEW up \in SUBSET Provider
    PROVE  SourcesSound(Sources(k, up), k)
  <1> DEFINE n == Body[k].quantity
             rows == Reserve(n)
             need == n - Cardinality(rows)
             asks == product.external /\ need > 0
             asked == IF asks THEN up ELSE {}
             plan == PlanRoutes(RoutesOf(asked), need)
             p == IF asks THEN Refresh(product, up) ELSE product
             error == IF asks /\ up = {} THEN "supplier_unavailable"
                      ELSE IF asks /\ DOMAIN plan = {} THEN "out_of_stock"
                      ELSE None
  <1>1. Sources(k, up) = [rows |-> rows, need |-> need, plan |-> plan, p |-> p, error |-> error]
    BY DEF Sources
  <1>2. n \in Nat
    BY KeyAssumption
  <1>3. rows \subseteq Available /\ Cardinality(rows) \in Nat /\ need \in Nat
    BY <1>2, ReserveFacts
  <1>4. Cardinality(rows) + need = n
    BY <1>2, <1>3
  <1>5. product \in ProductType /\ catalog \in CatalogType /\ product.external \in BOOLEAN
    BY DEF Typed, ProductType
  <1>6. p \in ProductType
    BY <1>5, RefreshTyped
  <1> HIDE DEF n, rows, need
  <1>7. /\ PlanTyped(plan)
        /\ DOMAIN plan # {} => need > 0 /\ SumOver(DOMAIN plan, Quantities(plan)) = need
    <2>1. asked \in SUBSET Provider /\ need \in Int
      BY <1>3
    <2> HIDE DEF asked
    <2> QED BY <1>5, <2>1, PlanFacts
  <1> HIDE DEF plan
  <1>8. /\ error \in Reason
        /\ error = None /\ (product.external \/ need = 0) /\ need > 0 => DOMAIN plan # {}
    <2>1. need > 0 => need # 0
      BY <1>3
    <2>2. error \in Reason
      BY DEF Reason, None
    <2>3. ASSUME error = None, product.external \/ need = 0, need > 0 PROVE DOMAIN plan # {}
      BY <2>1, <2>3 DEF None
    <2> QED BY <2>2, <2>3
  <1> HIDE DEF p, error
  <1> QED BY <1>1, <1>3, <1>4, <1>6, <1>7, <1>8 DEF SourcesSound, n

-----------------------------------------------------------------------------
(* What is paid by QR *)

LEMMA ShareNat == ASSUME NEW a \in Nat, NEW n \in Nat \ {0} PROVE a \div n \in Nat
  OBVIOUS

\* The prices of a purchase that is paid by QR.
PaidSound(q, src, k) ==
    /\ QuoteTyped(q)
    /\ DOMAIN q.local = src.rows /\ DOMAIN q.route = DOMAIN src.plan
    /\ q.total = request[k].amount
    /\ Gains(q, src.plan)
    /\ src.need > 0 \/ IsSeller(q.pricing) => q.total = TotalOf(q.local, q.route, src.plan)
    /\ src.need = 0 /\ ~IsSeller(q.pricing) =>
         \A i \in src.rows : q.local[i] = request[k].amount \div Body[k].quantity

LEMMA PaidQuoteFacts ==
    ASSUME Typed, NEW k \in QrKey, NEW src, SourcesSound(src, k),
           Holds(k, PaidQuote(k, src))
    PROVE  PaidSound(PaidQuote(k, src), src, k)
  <1> DEFINE pr == Promised(k)
             amount == request[k].amount
             n == Body[k].quantity
             even == src.need = 0 /\ ~IsSeller(pr)
             local == IF even THEN [i \in src.rows |-> amount \div n]
                      ELSE LocalPrices(src.p, pr, src.rows)
             route == RoutePrices(src.p, pr, src.plan)
             q == [pricing |-> pr, local |-> local, route |-> route,
                   total |-> IF even THEN amount ELSE TotalOf(local, route, src.plan)]
  <1>1. PaidQuote(k, src) = q
    BY DEF PaidQuote
  <1>2. k \in Key /\ n \in Nat \ {0} /\ amount \in Nat /\ request[k].pricing \in PricingType
    BY KeyAssumption DEF Key, Typed, QrType
  <1>3. pr \in PricingType
    <2>1. TierOff(n) \in Nat
      BY PriceAssumption DEF TierOff
    <2> HIDE DEF n
    <2>2. [request[k].pricing EXCEPT !.tier = TierOff(n)] \in PricingType
      BY <1>2, <2>1 DEF PricingType
    <2> QED BY <1>2, <2>2 DEF Promised, n
  <1> HIDE DEF pr, n, amount
  <1>4. /\ src.rows \in SUBSET Rows /\ src.rows \subseteq Positive /\ IsFiniteSet(src.rows)
        /\ src.p \in ProductType /\ PlanTyped(src.plan) /\ src.need \in Nat
    <2>1. src.rows \in SUBSET Rows
      BY AvailableFacts DEF SourcesSound
    <2> QED BY <2>1, FS_Subset DEF Typed, SourcesSound
  <1>5. /\ IsFcn(local) /\ DOMAIN local = src.rows
        /\ \A i \in src.rows : /\ local[i] \in Nat
                               /\ IsSeller(pr) /\ local[i] # 0 => local[i] > inv[i].cost
    <2>1. CASE even
      <3>1. amount \div n \in Nat
        BY <1>2, ShareNat
      <3> QED BY <2>1, <3>1 DEF IsFcn
    <2>2. CASE ~even
      BY <1>3, <1>4, <2>2, LocalPricesFacts
    <2> QED BY <2>1, <2>2
  <1>6. /\ IsFcn(route) /\ DOMAIN route = DOMAIN src.plan
        /\ \A r \in DOMAIN src.plan : /\ route[r] \in Nat
                                      /\ IsSeller(pr) /\ route[r] # 0 => route[r] > src.plan[r].cost
    BY <1>3, <1>4, RoutePricesFacts
  <1>7. even => \A i \in src.rows : local[i] = amount \div n
    OBVIOUS
  <1> HIDE DEF local, route
  <1>8. 0 \notin Amounts(local) /\ 0 \notin Amounts(route) /\ q.total = amount
    BY <1>1 DEF Holds, amount
  <1>9. Gains(q, src.plan)
    BY <1>5, <1>6, <1>8 DEF Gains, Amounts
  <1>10. QuoteTyped(q)
    BY <1>2, <1>3, <1>4, <1>5, <1>6, <1>8 DEF QuoteTyped, PlanTyped
  <1>11. src.need > 0 \/ IsSeller(pr) => q.total = TotalOf(local, route, src.plan)
    <2>1. src.need > 0 => src.need # 0
      BY <1>4
    <2> QED BY <2>1
  <1> QED BY <1>1, <1>5, <1>6, <1>7, <1>8, <1>9, <1>10, <1>11 DEF PaidSound, amount, n

-----------------------------------------------------------------------------
(* The goods of a plan *)

\* What was bought of a plan: an order for each part that is paid for.
Bought(plan, orders, paid) ==
    /\ IsFcn(paid) /\ DOMAIN paid \subseteq DOMAIN plan
    /\ \A r \in DOMAIN paid :
          /\ paid[r] \in DOMAIN orders
          /\ orders[paid[r]].provider = r
          /\ orders[paid[r]].quantity = plan[r].quantity
          /\ ~orders[paid[r]].queued

LEMMA GoodsMember ==
    ASSUME NEW plan, NEW paid, NEW g
    PROVE  g \in Goods(plan, paid) <=>
             \E r \in DOMAIN paid : \E j \in 1 .. plan[r].quantity : g = <<r, j>>
  <1> DEFINE q == [r \in DOMAIN paid |-> plan[r].quantity]
  <1>1. \A r \in DOMAIN paid : q[r] = plan[r].quantity
    OBVIOUS
  <1> HIDE DEF q
  <1>2. g \in Pairs(DOMAIN paid, q) <=> \E r \in DOMAIN paid : \E j \in 1 .. q[r] : g = <<r, j>>
    BY PairsMember
  <1> QED BY <1>1, <1>2 DEF Goods, q

LEMMA GoodsFinite ==
    ASSUME NEW plan, PlanTyped(plan), NEW paid, DOMAIN paid \subseteq DOMAIN plan
    PROVE  IsFiniteSet(Goods(plan, paid))
  <1> DEFINE q == [r \in DOMAIN paid |-> plan[r].quantity]
  <1>1. \A r \in DOMAIN paid : q[r] \in Int
    BY DEF PlanTyped, Positive
  <1>2. IsFiniteSet(DOMAIN paid)
    BY ProviderFinite DEF PlanTyped
  <1> HIDE DEF q
  <1>3. IsFiniteSet(Pairs(DOMAIN paid, q))
    BY <1>1, <1>2, PairsFinite
  <1> QED BY <1>3 DEF Goods, q

\* The parts of a plan come one before the other.
LEMMA RoutesOrdered ==
    ASSUME NEW plan, PlanTyped(plan), NEW r \in DOMAIN plan, NEW s \in DOMAIN plan
    PROVE  /\ ~RouteBefore(plan[r], plan[r])
           /\ r # s => RouteBefore(plan[r], plan[s]) \/ RouteBefore(plan[s], plan[r])
           /\ RouteBefore(plan[r], plan[s]) =>
                /\ ~RouteBefore(plan[s], plan[r])
                /\ \A x \in DOMAIN plan : RouteBefore(plan[x], plan[r]) => RouteBefore(plan[x], plan[s])
  <1>1. \A x \in DOMAIN plan : /\ plan[x].provider = x /\ plan[x].cost \in Nat
                               /\ x \in {"sumistore", "lehai"}
    BY PriceAssumption DEF PlanTyped, Provider
  <1> QED BY <1>1 DEF RouteBefore

\* The places of the goods are numbers, and no two are the same.
LEMMA PlaceFacts ==
    ASSUME NEW plan, PlanTyped(plan), NEW paid, DOMAIN paid \subseteq DOMAIN plan,
           NEW goods \in SUBSET Goods(plan, paid)
    PROVE  LET place == Place(plan, goods)
           IN /\ place = [g \in goods |-> place[g]]
              /\ IsFiniteSet(goods)
              /\ \A g \in goods : place[g] \in Nat \ {0}
              /\ \A g, e \in goods : place[g] = place[e] => g = e
  <1> DEFINE place == Place(plan, goods)
             Ahead(r) == {s \in DOMAIN plan : RouteBefore(plan[s], plan[r])}
             Q(S) == [s \in S |-> plan[s].quantity]
  <1>1. \A g \in goods : place[g] = SumOver(Ahead(g[1]), Q(Ahead(g[1]))) + g[2]
    BY DEF Place
  <1>2. place = [g \in goods |-> place[g]]
    BY DEF Place
  <1> HIDE DEF place
  <1>3. \A s \in DOMAIN plan : plan[s].quantity \in Nat
    BY DEF PlanTyped, Positive
  <1>4. ASSUME NEW S \in SUBSET (DOMAIN plan)
        PROVE  IsFiniteSet(Pairs(S, Q(S))) /\ SumOver(S, Q(S)) \in Nat
    <2>1. \A s \in S : Q(S)[s] \in Int
      BY <1>3
    <2>2. IsFiniteSet(S)
      BY ProviderFinite DEF PlanTyped
    <2> HIDE DEF Q
    <2> QED BY <2>1, <2>2, PairsFinite
  <1>5. ASSUME NEW r \in DOMAIN plan PROVE SumOver(Ahead(r), Q(Ahead(r))) \in Nat
    <2>1. Ahead(r) \in SUBSET (DOMAIN plan)
      OBVIOUS
    <2> HIDE DEF Ahead, Q
    <2> QED BY <1>4, <2>1
  <1>6. ASSUME NEW r \in DOMAIN plan, NEW s \in DOMAIN plan, RouteBefore(plan[r], plan[s])
        PROVE  SumOver(Ahead(r), Q(Ahead(r))) + plan[r].quantity <= SumOver(Ahead(s), Q(Ahead(s)))
    <2> DEFINE A == Ahead(r)
               B == A \cup {r}
               C == Ahead(s)
    <2>1. r \notin A /\ B \in SUBSET C /\ C \in SUBSET (DOMAIN plan) /\ A \in SUBSET (DOMAIN plan)
      BY <1>6, RoutesOrdered
    <2> HIDE DEF A, C
    <2>2. SumOver(B, Q(B)) = SumOver(A, Q(A)) + Q(B)[r]
      <3>1. Q(B)[r] \in Nat /\ \A x \in A : Q(A)[x] \in Nat /\ Q(B)[x] = Q(A)[x]
        BY <1>3, <2>1
      <3>2. IsFiniteSet(Pairs(A, Q(A)))
        BY <1>4, <2>1
      <3> HIDE DEF Q
      <3> QED BY <2>1, <3>1, <3>2, SumAdd
    <2>3. SumOver(B, Q(B)) <= SumOver(C, Q(C))
      <3> DEFINE id == [x \in B |-> x]
      <3>1. id \in [B -> C] /\ \A x, y \in B : id[x] = id[y] => x = y
        BY <2>1
      <3>2. \A x \in B : Q(B)[x] \in Int /\ Q(C)[id[x]] \in Int /\ Q(B)[x] <= Q(C)[id[x]]
        <4> SUFFICES ASSUME NEW x \in B
                     PROVE  Q(B)[x] \in Int /\ Q(C)[id[x]] \in Int /\ Q(B)[x] <= Q(C)[id[x]]
          OBVIOUS
        <4>1. x \in C /\ plan[x].quantity \in Nat
          BY <1>3, <2>1
        <4>2. Q(B)[x] = plan[x].quantity /\ Q(C)[id[x]] = plan[x].quantity
          BY <4>1
        <4> QED BY <4>1, <4>2
      <3>3. IsFiniteSet(Pairs(C, Q(C)))
        BY <1>4, <2>1
      <3> HIDE DEF Q, id, B
      <3> QED BY <3>1, <3>2, <3>3, SumInjection
    <2>4. Q(B)[r] = plan[r].quantity
      OBVIOUS
    <2> HIDE DEF Q, B
    <2> QED BY <2>2, <2>3, <2>4 DEF A, C
  <1>7. \A g \in goods : /\ g[1] \in DOMAIN plan /\ g[2] \in 1 .. plan[g[1]].quantity
                         /\ g = <<g[1], g[2]>>
    <2> SUFFICES ASSUME NEW g \in goods
                 PROVE  /\ g[1] \in DOMAIN plan /\ g[2] \in 1 .. plan[g[1]].quantity
                        /\ g = <<g[1], g[2]>>
      OBVIOUS
    <2>1. PICK r \in DOMAIN paid : \E j \in 1 .. plan[r].quantity : g = <<r, j>>
      BY GoodsMember
    <2> QED BY <2>1
  <1> HIDE DEF Ahead, Q
  <1>8. ASSUME NEW g \in goods PROVE place[g] \in Nat \ {0}
    <2>1. SumOver(Ahead(g[1]), Q(Ahead(g[1]))) \in Nat /\ g[2] \in Nat /\ g[2] > 0
      BY <1>3, <1>5, <1>7
    <2> QED BY <1>1, <2>1
  <1>9. ASSUME NEW g \in goods, NEW e \in goods, RouteBefore(plan[g[1]], plan[e[1]])
        PROVE  place[g] < place[e]
    <2> PICK a : a = SumOver(Ahead(g[1]), Q(Ahead(g[1])))
      OBVIOUS
    <2> PICK b : b = SumOver(Ahead(e[1]), Q(Ahead(e[1])))
      OBVIOUS
    <2>1. /\ a \in Nat /\ b \in Nat /\ a + plan[g[1]].quantity <= b
          /\ plan[g[1]].quantity \in Nat
      BY <1>3, <1>5, <1>6, <1>7, <1>9
    <2>2. g[2] \in Int /\ e[2] \in Int /\ g[2] <= plan[g[1]].quantity /\ e[2] > 0
      BY <1>3, <1>7
    <2>3. place[g] = a + g[2] /\ place[e] = b + e[2]
      BY <1>1
    <2> QED BY <2>1, <2>2, <2>3
  <1>10. ASSUME NEW g \in goods, NEW e \in goods, place[g] = place[e] PROVE g = e
    <2>0. place[g] \in Nat /\ ~(place[g] < place[e]) /\ ~(place[e] < place[g])
      BY <1>8, <1>10
    <2>1. g[1] = e[1]
      <3>1. ~RouteBefore(plan[g[1]], plan[e[1]]) /\ ~RouteBefore(plan[e[1]], plan[g[1]])
        BY <1>9, <2>0
      <3> QED BY <1>7, <3>1, RoutesOrdered
    <2>2. g[2] = e[2]
      <3> PICK a : a = SumOver(Ahead(g[1]), Q(Ahead(g[1])))
        OBVIOUS
      <3>1. a \in Nat /\ place[g] = a + g[2] /\ place[e] = a + e[2]
        BY <1>1, <1>5, <1>7, <2>1
      <3> PICK x : x = g[2]
        OBVIOUS
      <3> PICK y : y = e[2]
        OBVIOUS
      <3>2. x \in Int /\ y \in Int
        BY <1>3, <1>7
      <3>3. a + x = a + y
        BY <1>10, <3>1
      <3>4. x = y
        BY <3>1, <3>2, <3>3
      <3> QED BY <3>4
    <2> QED BY <1>7, <2>1, <2>2
  <1>11. IsFiniteSet(goods)
    BY GoodsFinite, FS_Subset
  <1> QED BY <1>2, <1>8, <1>10, <1>11 DEF place

-----------------------------------------------------------------------------
(* The rows of a sale *)

\* New rows: every row there was is kept as it stands in rows, and id names the
\* new row of each of the goods.
Files(new, rows, goods, row, id) ==
    /\ IsFcn(new) /\ DOMAIN new \subseteq Positive /\ IsFiniteSet(DOMAIN new)
    /\ DOMAIN rows \subseteq DOMAIN new
    /\ \A i \in DOMAIN rows : new[i] = rows[i]
    /\ id \in [goods -> DOMAIN new \ DOMAIN rows]
    /\ \A i \in DOMAIN new \ DOMAIN rows : \E g \in goods : id[g] = i
    /\ \A g, e \in goods : id[g] = id[e] => g = e
    /\ \A g \in goods : new[id[g]] = row[g]
    /\ \A g \in goods, i \in DOMAIN rows : i < id[g]

LEMMA FiledFiles ==
    ASSUME NEW rows, DOMAIN rows \subseteq Nat \ {0}, IsFiniteSet(DOMAIN rows),
           NEW place, NEW D, place = [g \in D |-> place[g]], IsFiniteSet(D),
           \A g \in D : place[g] \in Nat \ {0},
           \A g, e \in D : place[g] = place[e] => g = e,
           NEW row
    PROVE  \E id : Files(Filed(rows, place, row), rows, D, row, id)
  <1> DEFINE R == Filed(rows, place, row)
  <1>1. /\ R = [i \in DOMAIN R |-> R[i]]
        /\ DOMAIN R \subseteq Nat \ {0} /\ IsFiniteSet(DOMAIN R)
        /\ DOMAIN rows \subseteq DOMAIN R
        /\ \A i \in DOMAIN rows : R[i] = rows[i]
        /\ \E id \in [D -> DOMAIN R \ DOMAIN rows] :
              /\ \A i \in DOMAIN R \ DOMAIN rows : \E g \in D : id[g] = i
              /\ \A g, e \in D : id[g] = id[e] => g = e
              /\ \A g \in D : R[id[g]] = row[g]
              /\ \A g \in D, i \in DOMAIN rows : i < id[g]
    BY FiledRows
  <1> HIDE DEF R
  <1>2. PICK id \in [D -> DOMAIN R \ DOMAIN rows] :
              /\ \A i \in DOMAIN R \ DOMAIN rows : \E g \in D : id[g] = i
              /\ \A g, e \in D : id[g] = id[e] => g = e
              /\ \A g \in D : R[id[g]] = row[g]
              /\ \A g \in D, i \in DOMAIN rows : i < id[g]
    BY <1>1
  <1>3. Files(R, rows, D, row, id)
    BY <1>1, <1>2 DEF Files, IsFcn, Positive
  <1> QED BY <1>3 DEF R

\* A sale: the rows of the shop in local and a new row for each of the goods.
SoldIn(new, k, local, rule, goods, row) ==
    \E id : Files(new, SoldRows(k, local, rule), goods, row, id)

LEMMA SaleFiles ==
    ASSUME Typed, NEW plan, PlanTyped(plan), NEW orders, NEW paid, Bought(plan, orders, paid),
           NEW k, NEW local, NEW rule, NEW row
    PROVE  LET goods == Goods(plan, paid)
           IN \E id : Files(Filed(SoldRows(k, local, rule), Place(plan, goods), row),
                            SoldRows(k, local, rule), goods, row, id)
  <1> DEFINE goods == Goods(plan, paid)
             place == Place(plan, goods)
             rows == SoldRows(k, local, rule)
  <1>1. DOMAIN rows \subseteq Nat \ {0} /\ IsFiniteSet(DOMAIN rows)
    BY DEF SoldRows, Typed, Positive
  <1>2. DOMAIN paid \subseteq DOMAIN plan /\ goods \in SUBSET Goods(plan, paid)
    BY DEF Bought
  <1>3. /\ place = [g \in goods |-> place[g]]
        /\ IsFiniteSet(goods)
        /\ \A g \in goods : place[g] \in Nat \ {0}
        /\ \A g, e \in goods : place[g] = place[e] => g = e
    <2> HIDE DEF goods
    <2> QED BY <1>2, PlaceFacts
  <1> HIDE DEF goods, place, rows
  <1>4. \E id : Files(Filed(rows, place, row), rows, goods, row, id)
    BY <1>1, <1>3, FiledFiles
  <1> QED BY <1>4 DEF goods, place, rows

\* What is kept for sale: a new row for each of the goods that is in no row.
LEMMA KeptFiles ==
    ASSUME Typed, NEW plan, PlanTyped(plan), NEW orders, NEW paid, Bought(plan, orders, paid)
    PROVE  LET goods == {g \in Goods(plan, paid) : ~IsHeld(AccountOf(paid, g))}
               row == [g \in goods |-> Row(AccountOf(paid, g), orders[paid[g[1]]].cost, "available")]
           IN \E id : Files(Kept(plan, orders, paid), inv, goods, row, id)
  <1> DEFINE goods == {g \in Goods(plan, paid) : ~IsHeld(AccountOf(paid, g))}
             place == Place(plan, goods)
             row == [g \in goods |-> Row(AccountOf(paid, g), orders[paid[g[1]]].cost, "available")]
  <1>1. DOMAIN inv \subseteq Nat \ {0} /\ IsFiniteSet(DOMAIN inv)
    BY DEF Typed, Rows, Positive
  <1>2. DOMAIN paid \subseteq DOMAIN plan /\ goods \in SUBSET Goods(plan, paid)
    BY DEF Bought
  <1>0. Kept(plan, orders, paid) = Filed(inv, place, row)
    BY DEF Kept
  <1>3. /\ place = [g \in goods |-> place[g]]
        /\ IsFiniteSet(goods)
        /\ \A g \in goods : place[g] \in Nat \ {0}
        /\ \A g, e \in goods : place[g] = place[e] => g = e
    <2> HIDE DEF goods
    <2> QED BY <1>2, PlaceFacts
  <1> HIDE DEF goods, place, row
  <1>4. \E id : Files(Filed(inv, place, row), inv, goods, row, id)
    BY <1>1, <1>3, FiledFiles
  <1> QED BY <1>0, <1>4 DEF goods, row

-----------------------------------------------------------------------------
(* The state of the table *)

InvTyped(rows) ==
    /\ IsFcn(rows) /\ DOMAIN rows \subseteq Positive /\ IsFiniteSet(DOMAIN rows)
    /\ \A i \in DOMAIN rows :
          rows[i] \in RowType /\ (rows[i].key # None <=> rows[i].status = "sold")

\* New rows are rows.
LEMMA FilesTyped ==
    ASSUME NEW new, NEW rows, NEW goods, NEW row, NEW id, Files(new, rows, goods, row, id),
           InvTyped(rows),
           \A g \in goods : row[g] \in RowType /\ (row[g].key # None <=> row[g].status = "sold")
    PROVE  InvTyped(new)
  <1> SUFFICES ASSUME NEW i \in DOMAIN new
               PROVE  new[i] \in RowType /\ (new[i].key # None <=> new[i].status = "sold")
    BY DEF Files, InvTyped
  <1>1. CASE i \in DOMAIN rows
    BY <1>1 DEF Files, InvTyped
  <1>2. CASE i \notin DOMAIN rows
    <2>1. PICK g \in goods : id[g] = i
      BY <1>2 DEF Files
    <2>2. new[i] = row[g]
      BY <2>1 DEF Files
    <2> QED BY <2>2
  <1> QED BY <1>1, <1>2

\* An account of a supplier's order: the order and a position in it.
LEMMA AccountOfType ==
    ASSUME NEW plan, PlanTyped(plan), NEW orders \in Seq(OrderType), NEW paid,
           Bought(plan, orders, paid), NEW g \in Goods(plan, paid)
    PROVE  /\ g[1] \in DOMAIN paid /\ paid[g[1]] \in DOMAIN orders /\ paid[g[1]] \in Nat
           /\ g[2] \in 1 .. orders[paid[g[1]]].quantity /\ g[2] \in Nat
           /\ g = <<g[1], g[2]>>
           /\ AccountOf(paid, g) = <<paid[g[1]], g[2]>> /\ AccountOf(paid, g) \in Nat \X Nat
           /\ orders[paid[g[1]]].cost \in Nat
  <1>1. PICK r \in DOMAIN paid : \E j \in 1 .. plan[r].quantity : g = <<r, j>>
    BY GoodsMember
  <1>2. PICK j \in 1 .. plan[r].quantity : g = <<r, j>>
    BY <1>1
  <1>3. /\ r \in DOMAIN plan /\ paid[r] \in DOMAIN orders
        /\ orders[paid[r]].quantity = plan[r].quantity /\ plan[r].quantity \in Nat
    BY DEF Bought, PlanTyped, Positive
  <1>4. DOMAIN orders = 1 .. Len(orders) /\ Len(orders) \in Nat /\ orders[paid[r]] \in OrderType
    BY <1>3
  <1>5. paid[r] \in Nat /\ orders[paid[r]].cost \in Nat
    <2>1. orders[paid[r]].cost \in Cost
      BY <1>4 DEF OrderType
    <2>2. Cost \subseteq Nat
      BY PriceAssumption
    <2>3. paid[r] \in 1 .. Len(orders)
      BY <1>3, <1>4
    <2>4. paid[r] \in Nat
      <3> PICK o : o = paid[r]
        OBVIOUS
      <3> PICK n : n = Len(orders)
        OBVIOUS
      <3>1. o \in 1 .. n /\ n \in Nat
        BY <1>4, <2>3
      <3>2. o \in Nat
        BY ONLY <3>1
      <3> QED BY <3>2
    <2> QED BY <2>1, <2>2, <2>4
  <1>6. g[1] = r /\ g[2] = j /\ j \in Nat
    BY <1>2, <1>3
  <1> QED BY <1>2, <1>3, <1>5, <1>6 DEF AccountOf

LEMMA TypedTable == Typed => InvTyped(inv)
  BY DEF Typed, InvTyped, Rows

LEMMA RowTyped ==
    ASSUME NEW acct \in Account \cup (Nat \X Nat), NEW cost \in Nat, NEW again \in BOOLEAN
    PROVE  LET row == [Row(acct, cost, "available") EXCEPT !.again = again]
           IN row \in RowType /\ row.key = None /\ row.status = "available" /\ row.acct = acct
              /\ row.again = again
  BY DEF Row, RowType

\* A row that waits for a customer, as the suppliers' accounts are stored.
LEMMA FreshRow ==
    ASSUME NEW acct \in Account \cup (Nat \X Nat), NEW cost \in Nat
    PROVE  LET row == Row(acct, cost, "available")
           IN /\ row \in RowType /\ row.key = None /\ row.status = "available"
              /\ row.acct = acct /\ row.again = FALSE /\ row.rule = FALSE
  BY DEF Row, RowType

\* The rows of the shop that are sold are rows.
LEMMA SoldRowsTyped ==
    ASSUME Typed, NEW k \in Key, NEW local, DOMAIN local \subseteq Available,
           \A i \in DOMAIN local : local[i] \in Nat, NEW rule \in BOOLEAN
    PROVE  LET rows == SoldRows(k, local, rule)
           IN /\ InvTyped(rows) /\ DOMAIN rows = Rows
              /\ \A i \in Rows : i \notin DOMAIN local => rows[i] = inv[i]
              /\ \A i \in DOMAIN local :
                    /\ i \in Rows /\ rows[i].key = k /\ rows[i].amount = local[i]
                    /\ rows[i].rule = rule /\ rows[i].status = "sold"
                    /\ rows[i].acct = inv[i].acct /\ rows[i].cost = inv[i].cost
                    /\ rows[i].again = inv[i].again
  <1> DEFINE rows == SoldRows(k, local, rule)
  <1>1. /\ rows = [i \in DOMAIN rows |-> rows[i]] /\ DOMAIN rows = Rows
        /\ \A i \in Rows : rows[i] = IF i \in DOMAIN local
                                     THEN [inv[i] EXCEPT !.status = "sold", !.key = k, !.rule = rule,
                                                         !.amount = local[i]]
                                     ELSE inv[i]
    BY DEF SoldRows
  <1> HIDE DEF rows
  <1>2. ASSUME NEW i \in DOMAIN local
        PROVE  /\ i \in Rows /\ rows[i].key = k /\ rows[i].amount = local[i]
               /\ rows[i].rule = rule /\ rows[i].status = "sold"
               /\ rows[i].acct = inv[i].acct /\ rows[i].cost = inv[i].cost
               /\ rows[i].again = inv[i].again /\ rows[i] \in RowType
    <2>1. i \in Rows /\ inv[i] \in RowType
      BY AvailableFacts DEF Typed
    <2>2. rows[i] = [inv[i] EXCEPT !.status = "sold", !.key = k, !.rule = rule, !.amount = local[i]]
      BY <1>1, <2>1
    <2>3. inv[i] = [acct |-> inv[i].acct, cost |-> inv[i].cost, status |-> inv[i].status,
                    key |-> inv[i].key, amount |-> inv[i].amount, again |-> inv[i].again,
                    rule |-> inv[i].rule]
      BY <2>1 DEF RowType
    <2>4. rows[i] = [acct |-> inv[i].acct, cost |-> inv[i].cost, status |-> "sold",
                     key |-> k, amount |-> local[i], again |-> inv[i].again, rule |-> rule]
      BY <2>2, <2>3
    <2>5. rows[i] \in RowType
      BY <2>1, <2>4 DEF RowType
    <2> QED BY <2>1, <2>4, <2>5
  <1>3. k # None
    BY KeyAssumption
  <1>4. InvTyped(rows)
    <2> SUFFICES ASSUME NEW i \in Rows
                 PROVE  rows[i] \in RowType /\ (rows[i].key # None <=> rows[i].status = "sold")
      BY <1>1 DEF InvTyped, IsFcn, Typed
    <2> QED BY <1>1, <1>2, <1>3 DEF Typed
  <1> QED BY <1>1, <1>2, <1>4 DEF rows

-----------------------------------------------------------------------------
(* Purchases in progress *)

Buyers == {h \in Handler : run[h].pc = "buying"}
OneBuyer == \A g, h \in Buyers : g = h

\* What holds while a handler buys from the suppliers: the rows it will sell are
\* free, its plan covers the rest of the quantity, and its prices are those that
\* were agreed and can be paid.
Deal(h) ==
    LET r == run[h]
        k == r.key
        q == r.quote
    IN /\ DOMAIN q.local \subseteq Available
       /\ DOMAIN q.route = DOMAIN r.plan
       /\ Bought(r.plan, placed, r.paid) /\ DOMAIN r.paid # DOMAIN r.plan
       /\ Cardinality(DOMAIN q.local) + SumOver(DOMAIN r.plan, Quantities(r.plan))
            = Body[k].quantity
       /\ ~TooDear(k, Amounts(q.local) \cup Amounts(q.route))
       /\ ~TotalMoved(k, q.total)
       /\ Gains(q, r.plan)
       /\ q.total = TotalOf(q.local, q.route, r.plan)
       /\ IF k \in QrKey THEN q.total = request[k].amount
          ELSE wallet[Body[k].user] >= q.total
Deals == OneBuyer /\ \A h \in Buyers : Deal(h)

-----------------------------------------------------------------------------
(* The steps of a purchase *)

\* What the quote of a purchase that begins must be.
SaleSound(h, src, q) ==
    LET k == run[h].key
    IN /\ SourcesSound(src, k)
       /\ src.need > 0 => DOMAIN src.plan # {}
       /\ QuoteTyped(q) /\ DOMAIN q.local = src.rows /\ DOMAIN q.route = DOMAIN src.plan
       /\ Gains(q, src.plan)
       /\ IF k \in QrKey THEN PaidSound(q, src, k)
          ELSE /\ q.total = TotalOf(q.local, q.route, src.plan)
               /\ ~TotalMoved(k, q.total)
               /\ ~TooDear(k, Amounts(q.local) \cup Amounts(q.route))
               /\ wallet[Body[k].user] >= q.total

\* A purchase up to the first call of a supplier: it stops, or it is sound and goes on.
Begins(h) ==
    /\ run[h].pc = "claimed" /\ run[h].key \in Key /\ ~IsBuying
    /\ \/ /\ product' \in ProductType /\ inv' = inv
          /\ \E code \in Reason : NotSold(h, code)
       \/ \E src, q : SaleSound(h, src, q) /\ Proceed(h, src, q)
    /\ UNCHANGED <<catalog, placed, shown, loaded, terms, runs, raced, left>>

LEMMA RefusedReason ==
    ASSUME NEW k, NEW src, src.error \in Reason, NEW q, q.pricing.error \in Reason
    PROVE  Refused(k, src, q) \in Reason
  BY DEF Refused, Reason, None

LEMMA RunKey ==
    ASSUME Typed, NEW h \in Handler
    PROVE  /\ run[h].pc = "idle" => run[h] = Rest
           /\ run[h].pc # "idle" => run[h].key \in Key
           /\ run[h].pc = "buying" =>
                /\ run[h].p \in ProductType /\ PlanTyped(run[h].plan)
                /\ IsFcn(run[h].paid) /\ QuoteTyped(run[h].quote)
           /\ run[h].pc = "answer" => run[h].result \in Reason \cup {"completed"}
  <1>1. RunTyped(run[h])
    BY DEF Typed
  <1> QED BY <1>1 DEF RunTyped, Rest

LEMMA PurchaseBegins ==
    ASSUME Typed, NEW h \in Handler, NEW up \in SUBSET Provider, Purchase(h, up)
    PROVE  Begins(h)
  <1> DEFINE k == run[h].key
             src == Sources(k, up)
             q == Quote(src.p, k, src.rows, src.plan)
             code == Refused(k, src, q)
  <1>1. run[h].pc = "claimed" /\ k \notin QrKey /\ ~IsBuying
    BY DEF Purchase
  <1>2. k \in Key
    BY <1>1, RunKey
  <1>3. SourcesSound(src, k)
    BY <1>2, SourcesFacts
  <1>4. /\ UNCHANGED <<catalog, placed, shown, loaded, terms, runs, raced, left>>
        /\ IF code # None
           THEN /\ product' = IF product.active THEN src.p ELSE product
                /\ NotSold(h, code)
                /\ UNCHANGED inv
           ELSE Proceed(h, src, q)
    BY DEF Purchase
  <1>5. product \in ProductType
    BY DEF Typed
  <1> HIDE DEF src
  <1>6. /\ QuoteTyped(q) /\ DOMAIN q.local = src.rows /\ DOMAIN q.route = DOMAIN src.plan
        /\ q.total = TotalOf(q.local, q.route, src.plan)
        /\ Gains(q, src.plan)
    <2>1. src.rows \in SUBSET Rows /\ src.p \in ProductType /\ PlanTyped(src.plan)
      BY <1>3, AvailableFacts DEF SourcesSound
    <2> QED BY <1>2, <2>1, QuoteFacts
  <1> HIDE DEF q, k
  <1>7. code \in Reason
    BY <1>3, <1>6, RefusedReason DEF SourcesSound, QuoteTyped, PricingType
  <1>8. CASE code # None
    <2>1. product' \in ProductType
      BY <1>3, <1>4, <1>5, <1>8 DEF SourcesSound
    <2> HIDE DEF code
    <2> QED BY <1>1, <1>2, <1>4, <1>7, <1>8, <2>1 DEF Begins, k
  <1>9. CASE code = None
    <2>1. /\ src.error = None /\ ~(~product.external /\ src.need > 0)
          /\ ~TotalMoved(k, q.total) /\ ~TooDear(k, Amounts(q.local) \cup Amounts(q.route))
          /\ ~(wallet[Body[k].user] < q.total)
      BY <1>9 DEF Refused, None
    <2>2. wallet[Body[k].user] >= q.total
      <3>1. q.total \in Nat
        BY <1>6 DEF QuoteTyped
      <3>2. Body[k].user \in Customer /\ wallet \in [Customer -> Nat]
        BY <1>2, KeyAssumption DEF Typed
      <3>3. wallet[Body[k].user] \in Nat
        BY <3>2
      <3> QED BY <2>1, <3>1, <3>3
    <2>3. src.need > 0 => DOMAIN src.plan # {}
      BY <1>3, <2>1 DEF SourcesSound
    <2>4. SaleSound(h, src, q)
      BY <1>1, <1>3, <1>6, <2>1, <2>2, <2>3 DEF SaleSound, k
    <2> HIDE DEF code
    <2> QED BY <1>1, <1>2, <1>4, <1>9, <2>4 DEF Begins, k
  <1> QED BY <1>8, <1>9

LEMMA FulfilBegins ==
    ASSUME Typed, NEW h \in Handler, NEW up \in SUBSET Provider, Fulfil(h, up)
    PROVE  Begins(h)
  <1> DEFINE k == run[h].key
             src == Sources(k, up)
             q == PaidQuote(k, src)
             there == src.error = None /\ (product.external \/ src.need = 0)
  <1>1. run[h].pc = "claimed" /\ k \in QrKey /\ ~IsBuying
    BY DEF Fulfil
  <1>2. k \in Key
    BY <1>1, RunKey
  <1>3. SourcesSound(src, k)
    BY <1>2, SourcesFacts
  <1>4. /\ UNCHANGED <<catalog, placed, shown, loaded, terms, runs, raced, left>>
        /\ IF Unlocked(k) /\ there /\ Holds(k, q) THEN Proceed(h, src, q)
           ELSE /\ product' = IF Unlocked(k) THEN src.p ELSE product
                /\ NotSold(h, "fallback")
                /\ UNCHANGED inv
    BY DEF Fulfil
  <1>5. product \in ProductType
    BY DEF Typed
  <1> HIDE DEF src
  <1>6. CASE Unlocked(k) /\ there /\ Holds(k, q)
    <2>1. PaidSound(q, src, k)
      BY <1>1, <1>3, <1>6, PaidQuoteFacts
    <2>2. src.need > 0 => DOMAIN src.plan # {}
      BY <1>3, <1>6 DEF SourcesSound
    <2> HIDE DEF q
    <2>3. SaleSound(h, src, q)
      BY <1>1, <1>3, <2>1, <2>2 DEF SaleSound, PaidSound
    <2> QED BY <1>1, <1>2, <1>4, <1>6, <2>3 DEF Begins
  <1>7. CASE ~(Unlocked(k) /\ there /\ Holds(k, q))
    <2>1. product' \in ProductType
      BY <1>3, <1>4, <1>5, <1>7 DEF SourcesSound
    <2>2. "fallback" \in Reason
      BY DEF Reason
    <2>3. NotSold(h, "fallback") /\ inv' = inv
      BY <1>4, <1>7
    <2> QED BY <1>1, <1>2, <1>4, <2>1, <2>2, <2>3 DEF Begins
  <1> QED BY <1>6, <1>7

\* The orders with one more, and what is bought with it.
Buys(h, orders, paid) ==
    /\ orders \in Seq(OrderType) /\ DOMAIN placed \subseteq DOMAIN orders
    /\ \A o \in DOMAIN placed : orders[o] = placed[o]
    /\ \A o \in DOMAIN orders : orders[o].queued => orders[o].provider = "sumistore"
    /\ \A o \in DOMAIN orders \ DOMAIN placed : o \in OrdersOf(paid) \/ orders[o].adrift
    /\ Bought(run[h].plan, orders, paid)
    /\ OrdersOf(run[h].paid) \subseteq OrdersOf(paid)

\* A purchase from the suppliers goes on, or ends in one of three ways.
PartBought(h, orders, paid) ==
    /\ DOMAIN paid # DOMAIN run[h].plan
    /\ run' = [run EXCEPT ![h].paid = paid]
    /\ placed' = orders
    /\ UNCHANGED <<product, inv, wallet, debit, request>>
KeptAll(h, orders, paid) ==
    /\ inv' = Kept(run[h].plan, orders, paid)
    /\ placed' = Landed(orders, OrdersOf(paid))
    /\ product' \in ProductType
    /\ \E code \in Reason : NotSold(h, code)
Undone(h, orders, paid) ==
    /\ placed' = Adrift(orders, OrdersOf(paid))
    /\ Ended(h, "exception")
    /\ UNCHANGED <<product, inv, wallet, debit, request>>
SoldAll(h, orders, paid) ==
    /\ DOMAIN paid = DOMAIN run[h].plan
    /\ Dearer(h, orders, paid) = {} /\ ~SellerRefused(h, orders, paid)
    /\ \A g \in Goods(run[h].plan, paid) : ~IsHeld(AccountOf(paid, g))
    /\ placed' = Landed(orders, OrdersOf(paid))
    /\ Complete(h, run[h].p, run[h].plan, orders, paid, FinalPrices(h, orders, paid), run[h].quote)
GoesOn(h) ==
    /\ run[h].pc = "buying" /\ run[h].key \in Key
    /\ catalog' \in CatalogType
    /\ \E orders, paid :
          /\ Buys(h, orders, paid)
          /\ \/ PartBought(h, orders, paid) \/ KeptAll(h, orders, paid)
             \/ Undone(h, orders, paid) \/ SoldAll(h, orders, paid)
    /\ UNCHANGED <<shown, loaded, terms, runs, raced, left>>

\* One more order.
LEMMA OneMoreOrder ==
    ASSUME NEW orders \in Seq(OrderType), NEW order \in OrderType
    PROVE  LET more == Append(orders, order)
           IN /\ more \in Seq(OrderType) /\ DOMAIN orders \subseteq DOMAIN more
              /\ \A o \in DOMAIN orders : more[o] = orders[o]
              /\ Len(orders) + 1 \in DOMAIN more /\ more[Len(orders) + 1] = order
              /\ \A o \in DOMAIN more : o \in DOMAIN orders \/ o = Len(orders) + 1
              /\ Len(orders) + 1 \notin DOMAIN orders
  OBVIOUS

LEMMA NewOrderType ==
    ASSUME Typed, NEW h \in Handler, run[h].pc = "buying", Deal(h), NEW r \in Due(h),
           NEW b \in BOOLEAN
    PROVE  /\ NewOrder(h, r, b) \in OrderType
           /\ NewOrder(h, r, b).provider = r /\ NewOrder(h, r, b).adrift = b
           /\ NewOrder(h, r, b).quantity = run[h].plan[r].quantity
           /\ NewOrder(h, r, b).queued = (b /\ r = "sumistore")
           /\ r \in DOMAIN run[h].plan /\ r \notin DOMAIN run[h].paid
  <1>1. r \in DOMAIN run[h].plan /\ r \notin DOMAIN run[h].paid
    BY DEF Due
  <1>2. /\ run[h].key \in Key /\ PlanTyped(run[h].plan)
        /\ DOMAIN run[h].paid \subseteq DOMAIN run[h].plan
    BY RunKey DEF Deal, Bought
  <1>3. r \in Provider /\ run[h].plan[r].quantity \in Positive /\ catalog[r].cost \in Cost
    BY <1>1, <1>2 DEF PlanTyped, Typed, CatalogType
  <1>4. PlanKey(h) \in Key \X Nat
    <2>1. IsFiniteSet(DOMAIN run[h].paid)
      BY <1>2, ProviderFinite DEF PlanTyped
    <2>2. Cardinality(DOMAIN run[h].paid) \in Nat
      BY <2>1, FS_CardinalityType
    <2>3. Cardinality(DOMAIN run[h].paid) + 1 \in Nat
      BY <2>2
    <2> QED BY <1>2, <2>3 DEF PlanKey
  <1>5. (b /\ r = "sumistore") \in BOOLEAN
    OBVIOUS
  <1> QED BY <1>1, <1>3, <1>4, <1>5 DEF NewOrder, OrderType

\* What a purchase has before the next part.
LEMMA BuysBefore ==
    ASSUME Typed, NEW h \in Handler, run[h].pc = "buying", Deal(h)
    PROVE  Buys(h, placed, run[h].paid)
  BY DEF Typed, Buys, Deal

\* An order whose answer is lost.
LEMMA BuysLost ==
    ASSUME Typed, NEW h \in Handler, run[h].pc = "buying", Deal(h), NEW r \in Due(h)
    PROVE  Buys(h, Append(placed, NewOrder(h, r, TRUE)), run[h].paid)
  <1> DEFINE order == NewOrder(h, r, TRUE)
             more == Append(placed, order)
  <1>1. order \in OrderType /\ order.provider = r /\ order.adrift /\ (order.queued => r = "sumistore")
    <2> PICK b \in BOOLEAN : b = TRUE
      OBVIOUS
    <2> QED BY NewOrderType
  <1>2. placed \in Seq(OrderType)
    BY DEF Typed
  <1> HIDE DEF order
  <1>3. /\ more \in Seq(OrderType) /\ DOMAIN placed \subseteq DOMAIN more
        /\ \A o \in DOMAIN placed : more[o] = placed[o]
        /\ Len(placed) + 1 \in DOMAIN more /\ more[Len(placed) + 1] = order
        /\ \A o \in DOMAIN more : o \in DOMAIN placed \/ o = Len(placed) + 1
    BY <1>1, <1>2, OneMoreOrder
  <1> HIDE DEF more
  <1>4. Bought(run[h].plan, more, run[h].paid)
    BY <1>3 DEF Deal, Bought
  <1>5. \A o \in DOMAIN more : more[o].queued => more[o].provider = "sumistore"
    BY <1>1, <1>3 DEF Typed
  <1>6. \A o \in DOMAIN more \ DOMAIN placed : more[o].adrift
    BY <1>1, <1>3
  <1> QED BY <1>3, <1>4, <1>5, <1>6 DEF Buys, more, order

\* A part is paid for, by an order there is or by a new one.
LEMMA BuysPart ==
    ASSUME Typed, NEW h \in Handler, run[h].pc = "buying", Deal(h), NEW r \in Due(h),
           NEW o, NEW orders,
           \/ /\ orders = placed /\ o \in DOMAIN placed /\ placed[o].provider = r
              /\ r = "lehai" /\ placed[o].quantity = run[h].plan[r].quantity
           \/ orders = Append(placed, NewOrder(h, r, FALSE)) /\ o = Len(placed) + 1
    PROVE  LET paid == [s \in DOMAIN run[h].paid \cup {r} |->
                           IF s = r THEN o ELSE run[h].paid[s]]
           IN Buys(h, orders, paid) /\ DOMAIN paid = DOMAIN run[h].paid \cup {r}
  <1> DEFINE order == NewOrder(h, r, FALSE)
             more == Append(placed, order)
             was == run[h].paid
             paid == [s \in DOMAIN was \cup {r} |-> IF s = r THEN o ELSE was[s]]
  <1>1. /\ order \in OrderType /\ order.provider = r /\ ~order.queued
        /\ order.quantity = run[h].plan[r].quantity
        /\ r \in DOMAIN run[h].plan /\ r \notin DOMAIN was
    <2> PICK b \in BOOLEAN : b = FALSE
      OBVIOUS
    <2> QED BY NewOrderType
  <1>2. placed \in Seq(OrderType)
    BY DEF Typed
  <1> HIDE DEF order
  <1>3. /\ more \in Seq(OrderType) /\ DOMAIN placed \subseteq DOMAIN more
        /\ \A s \in DOMAIN placed : more[s] = placed[s]
        /\ Len(placed) + 1 \in DOMAIN more /\ more[Len(placed) + 1] = order
        /\ \A s \in DOMAIN more : s \in DOMAIN placed \/ s = Len(placed) + 1
    BY <1>1, <1>2, OneMoreOrder
  <1> HIDE DEF more
  <1>4. /\ orders \in Seq(OrderType) /\ DOMAIN placed \subseteq DOMAIN orders
        /\ \A s \in DOMAIN placed : orders[s] = placed[s]
        /\ o \in DOMAIN orders /\ orders[o].provider = r /\ ~orders[o].queued
        /\ orders[o].quantity = run[h].plan[r].quantity
        /\ \A s \in DOMAIN orders : s \in DOMAIN placed \/ s = o
    <2>1. CASE orders = placed
      <3>1. o \in DOMAIN placed => ~(placed[o].queued /\ placed[o].provider = "lehai")
        BY DEF Typed
      <3>2. CASE o \in DOMAIN placed /\ placed[o].provider = r
              /\ r = "lehai" /\ placed[o].quantity = run[h].plan[r].quantity
        BY <1>2, <2>1, <3>1, <3>2
      <3>3. CASE orders = more /\ o = Len(placed) + 1
        BY <1>1, <1>3, <3>3
      <3> QED BY <2>1, <3>2, <3>3 DEF more, order
    <2>2. CASE orders = more /\ o = Len(placed) + 1
      BY <1>1, <1>3, <2>2
    <2> QED BY <2>1, <2>2 DEF more, order
  <1>5. DOMAIN paid = DOMAIN was \cup {r} /\ IsFcn(paid)
    BY DEF IsFcn
  <1>6. paid[r] = o /\ \A s \in DOMAIN was : s # r => paid[s] = was[s]
    OBVIOUS
  <1> HIDE DEF paid
  <1>7. Bought(run[h].plan, placed, was)
    BY DEF Deal
  <1> HIDE DEF was
  <1>8. Bought(run[h].plan, orders, paid)
    <2>1. DOMAIN paid \subseteq DOMAIN run[h].plan
      BY <1>1, <1>5, <1>7 DEF Bought
    <2>2. ASSUME NEW s \in DOMAIN paid
          PROVE  /\ paid[s] \in DOMAIN orders
                 /\ orders[paid[s]].provider = s
                 /\ orders[paid[s]].quantity = run[h].plan[s].quantity
                 /\ ~orders[paid[s]].queued
      <3>1. CASE s = r
        BY <1>4, <1>6, <3>1
      <3>2. CASE s # r
        <4>1. s \in DOMAIN was /\ paid[s] = was[s]
          BY <1>5, <1>6, <3>2
        <4> QED BY <1>4, <1>7, <4>1 DEF Bought
      <3> QED BY <3>1, <3>2
    <2> QED BY <1>5, <2>1, <2>2 DEF Bought
  <1>9. \A s \in DOMAIN orders : orders[s].queued => orders[s].provider = "sumistore"
    BY <1>4 DEF Typed
  <1>10. OrdersOf(was) \subseteq OrdersOf(paid) /\ o \in OrdersOf(paid)
    <2>1. \A s \in DOMAIN was : s \in DOMAIN paid /\ paid[s] = was[s]
      BY <1>1, <1>5, <1>6
    <2> QED BY <1>5, <1>6, <2>1 DEF OrdersOf
  <1>11. \A s \in DOMAIN orders \ DOMAIN placed : s \in OrdersOf(paid)
    BY <1>4, <1>10
  <1>12. Buys(h, orders, paid)
    BY <1>4, <1>8, <1>9, <1>10, <1>11 DEF Buys, was
  <1> QED BY <1>5, <1>12 DEF paid, was

LEMMA TakeTyped ==
    ASSUME Typed, NEW h \in Handler, run[h].pc = "buying", NEW r \in Due(h), Take(h, r)
    PROVE  catalog' \in CatalogType
  <1>1. catalog \in CatalogType /\ r \in DOMAIN run[h].plan /\ PlanTyped(run[h].plan)
    BY RunKey DEF Typed, Due
  <1>2. r \in Provider /\ run[h].plan[r].quantity \in Nat
    BY <1>1 DEF PlanTyped, Positive
  <1>3. PICK n : n = run[h].plan[r].quantity
    OBVIOUS
  <1>4. catalog[r].stock \in Nat /\ catalog[r].cost \in Cost /\ catalog[r].stock >= n /\ n \in Nat
    BY <1>1, <1>2, <1>3 DEF CatalogType, Take
  <1>5. PICK rest : rest = catalog[r].stock - n
    OBVIOUS
  <1>6. rest \in Nat
    BY <1>4, <1>5
  <1>7. catalog' = [catalog EXCEPT ![r].stock = rest]
    BY <1>3, <1>5 DEF Take
  <1>8. \A p \in Provider : catalog'[p] \in [cost : Cost, stock : Nat]
    BY <1>1, <1>2, <1>6, <1>7 DEF CatalogType
  <1>9. catalog' = [p \in Provider |-> catalog'[p]]
    BY <1>1, <1>7 DEF CatalogType
  <1> QED BY <1>8, <1>9 DEF CatalogType

\* A paid part ends in one of the ways of GoesOn.
LEMMA PaidGoesOn ==
    ASSUME Typed, NEW h \in Handler, run[h].pc = "buying", NEW r, NEW o, NEW orders, NEW paid,
           paid = [s \in DOMAIN run[h].paid \cup {r} |-> IF s = r THEN o ELSE run[h].paid[s]],
           Buys(h, orders, paid), Paid(h, r, o, orders)
    PROVE  \/ PartBought(h, orders, paid) \/ KeptAll(h, orders, paid)
           \/ Undone(h, orders, paid) \/ SoldAll(h, orders, paid)
  <1>1. IF DOMAIN paid # DOMAIN run[h].plan
        THEN /\ run' = [run EXCEPT ![h].paid = paid]
             /\ placed' = orders
             /\ UNCHANGED <<product, inv, wallet, debit, request>>
        ELSE Conclude(h, orders, paid)
    BY DEF Paid
  <1>2. CASE DOMAIN paid # DOMAIN run[h].plan
    BY <1>1, <1>2 DEF PartBought
  <1>3. CASE DOMAIN paid = DOMAIN run[h].plan
    <2>1. Conclude(h, orders, paid)
      BY <1>1, <1>3
    <2>2. CASE Dearer(h, orders, paid) # {} \/ SellerRefused(h, orders, paid)
      <3>1. KeepParts(h, orders, paid)
        BY <2>1, <2>2 DEF Conclude
      <3>2. "price_changed" \in Reason
        BY DEF Reason
      <3> DEFINE dearer == Dearer(h, orders, paid)
                 plan == run[h].plan
                 first == {s \in dearer : \A d \in dearer \ {s} : RouteBefore(plan[s], plan[d])}
      <3>3. product' = IF "sumistore" \in first
                       THEN ApplySupplierPrice(run[h].p, orders[paid["sumistore"]].cost)
                       ELSE run[h].p
        BY <3>1 DEF KeepParts
      <3>4. "sumistore" \in first => "sumistore" \in DOMAIN paid
        BY DEF Dearer
      <3>5. \A s \in DOMAIN paid : orders[paid[s]] \in OrderType
        <4>1. orders \in Seq(OrderType) /\ \A s \in DOMAIN paid : paid[s] \in DOMAIN orders
          BY DEF Buys, Bought
        <4>2. \A o1 \in DOMAIN orders : orders[o1] \in OrderType
          BY <4>1
        <4> QED BY <4>1, <4>2
      <3>6. "sumistore" \in first => orders[paid["sumistore"]].cost \in Cost
        BY <3>4, <3>5 DEF OrderType
      <3> HIDE DEF first
      <3>7. run[h].p \in ProductType
        BY RunKey
      <3>8. product' \in ProductType
        BY <3>3, <3>6, <3>7, ApplyTyped
      <3> QED BY <3>1, <3>2, <3>8 DEF KeepParts, KeptAll
    <2>3. CASE /\ Dearer(h, orders, paid) = {} /\ ~SellerRefused(h, orders, paid)
               /\ \E g \in Goods(run[h].plan, paid) : IsHeld(AccountOf(paid, g))
      <3>1. Undone(h, orders, paid)
        BY <2>1, <2>3 DEF Conclude, Undone
      <3> QED BY <3>1
    <2>4. CASE /\ Dearer(h, orders, paid) = {} /\ ~SellerRefused(h, orders, paid)
               /\ ~\E g \in Goods(run[h].plan, paid) : IsHeld(AccountOf(paid, g))
      <3>1. SoldAll(h, orders, paid)
        BY <1>3, <2>1, <2>4 DEF Conclude, SoldAll
      <3> QED BY <3>1
    <2> QED BY <2>2, <2>3, <2>4
  <1> QED BY <1>2, <1>3

LEMMA FailGoesOn ==
    ASSUME Typed, NEW h \in Handler, run[h].pc = "buying", NEW orders, NEW code \in Reason,
           Buys(h, orders, run[h].paid), Fail(h, orders, code), catalog' \in CatalogType
    PROVE  GoesOn(h)
  <1>1. KeptAll(h, orders, run[h].paid)
    BY RunKey DEF Fail, KeptAll
  <1>2. UNCHANGED <<shown, loaded, terms, runs, raced, left>>
    BY DEF Fail
  <1>3. run[h].key \in Key
    BY RunKey
  <1> QED BY <1>1, <1>2, <1>3 DEF GoesOn

LEMMA DeliverGoesOn ==
    ASSUME Typed, NEW h \in Handler, Deals, Deliver(h)
    PROVE  GoesOn(h)
  <1>1. run[h].pc = "buying" /\ run[h].key \in Key /\ Deal(h)
    BY RunKey DEF Deliver, Deals, Buyers
  <1>2. UNCHANGED <<shown, loaded, terms, runs, raced, left>>
    BY DEF Deliver
  <1>3. PICK r \in Due(h) :
             \/ /\ r = "lehai"
                /\ \E o \in OrdersUnder("lehai", PlanKey(h)) :
                      /\ placed[o].quantity = run[h].plan[r].quantity
                      /\ Paid(h, r, o, placed)
                /\ UNCHANGED catalog
             \/ /\ Unasked(h, r)
                /\ Take(h, r)
                /\ Paid(h, r, Len(placed) + 1, Append(placed, NewOrder(h, r, FALSE)))
    BY DEF Deliver
  <1>4. ASSUME NEW o \in OrdersUnder("lehai", PlanKey(h)), r = "lehai",
               placed[o].quantity = run[h].plan[r].quantity,
               Paid(h, r, o, placed), UNCHANGED catalog
        PROVE  GoesOn(h)
    <2>1. PICK paid : paid = [s \in DOMAIN run[h].paid \cup {r} |-> IF s = r THEN o ELSE run[h].paid[s]]
      OBVIOUS
    <2>2. o \in DOMAIN placed /\ placed[o].provider = r
      BY <1>4 DEF OrdersUnder
    <2> PICK orders : orders = placed
      OBVIOUS
    <2>3. Buys(h, orders, paid)
      BY <1>1, <1>4, <2>1, <2>2, BuysPart
    <2>4. \/ PartBought(h, orders, paid) \/ KeptAll(h, orders, paid)
          \/ Undone(h, orders, paid) \/ SoldAll(h, orders, paid)
      BY <1>1, <1>4, <2>1, <2>3, PaidGoesOn
    <2>5. catalog' \in CatalogType
      BY <1>4 DEF Typed
    <2> QED BY <1>1, <1>2, <2>3, <2>4, <2>5 DEF GoesOn
  <1>5. ASSUME Take(h, r), Paid(h, r, Len(placed) + 1, Append(placed, NewOrder(h, r, FALSE)))
        PROVE  GoesOn(h)
    <2>1. PICK o : o = Len(placed) + 1
      OBVIOUS
    <2>2. PICK orders : orders = Append(placed, NewOrder(h, r, FALSE))
      OBVIOUS
    <2>3. PICK paid : paid = [s \in DOMAIN run[h].paid \cup {r} |-> IF s = r THEN o ELSE run[h].paid[s]]
      OBVIOUS
    <2>4. Buys(h, orders, paid)
      <3>1. Typed /\ h \in Handler /\ r \in Due(h)
        OBVIOUS
      <3>2. \/ /\ orders = placed /\ o \in DOMAIN placed /\ placed[o].provider = r
               /\ r = "lehai" /\ placed[o].quantity = run[h].plan[r].quantity
            \/ orders = Append(placed, NewOrder(h, r, FALSE)) /\ o = Len(placed) + 1
        BY <2>1, <2>2
      <3>3. run[h].pc = "buying" /\ Deal(h)
        BY <1>1
      <3>4. Buys(h, orders, [s \in DOMAIN run[h].paid \cup {r} |-> IF s = r THEN o ELSE run[h].paid[s]])
        BY ONLY <3>1, <3>2, <3>3, BuysPart
      <3> QED BY <2>3, <3>4
    <2>5. Paid(h, r, o, orders)
      BY <1>5, <2>1, <2>2
    <2>6. \/ PartBought(h, orders, paid) \/ KeptAll(h, orders, paid)
          \/ Undone(h, orders, paid) \/ SoldAll(h, orders, paid)
      BY <1>1, <2>3, <2>4, <2>5, PaidGoesOn
    <2>7. catalog' \in CatalogType
      BY <1>1, <1>5, TakeTyped
    <2> QED BY <1>1, <1>2, <2>4, <2>6, <2>7 DEF GoesOn
  <1> QED BY <1>3, <1>4, <1>5

LEMMA RefuseGoesOn ==
    ASSUME Typed, NEW h \in Handler, Deals, Refuse(h) \/ Unavailable(h) \/ AnswerLost(h)
    PROVE  GoesOn(h)
  <1>1. run[h].pc = "buying" /\ Deal(h)
    BY DEF Refuse, Unavailable, AnswerLost, Deals, Buyers
  <1>2. "out_of_stock" \in Reason /\ "supplier_unavailable" \in Reason
    BY DEF Reason
  <1>3. CASE Refuse(h)
    <2>1. Fail(h, placed, "out_of_stock") /\ catalog' \in CatalogType
      BY <1>3 DEF Refuse, Typed
    <2> QED BY <1>1, <1>2, <2>1, BuysBefore, FailGoesOn
  <1>4. CASE Unavailable(h)
    <2>1. Fail(h, placed, "supplier_unavailable") /\ catalog' \in CatalogType
      BY <1>4 DEF Unavailable, Typed
    <2> QED BY <1>1, <1>2, <2>1, BuysBefore, FailGoesOn
  <1>5. CASE AnswerLost(h)
    <2>1. PICK r \in Due(h) : /\ Take(h, r)
                              /\ Fail(h, Append(placed, NewOrder(h, r, TRUE)), "supplier_unavailable")
      BY <1>5 DEF AnswerLost
    <2>2. PICK orders : orders = Append(placed, NewOrder(h, r, TRUE))
      OBVIOUS
    <2>3. Buys(h, orders, run[h].paid)
      BY <1>1, <2>2, BuysLost
    <2>4. Fail(h, orders, "supplier_unavailable")
      BY <2>1, <2>2
    <2>5. catalog' \in CatalogType
      BY <1>1, <2>1, TakeTyped
    <2> QED BY <1>1, <1>2, <2>3, <2>4, <2>5, FailGoesOn
  <1> QED BY <1>3, <1>4, <1>5

-----------------------------------------------------------------------------
(* The types are kept *)

\* The orders after the sale, or after it was undone: nothing but adrift differs.
Relabelled(new, orders, taken) ==
    /\ new \in Seq(OrderType) /\ DOMAIN new = DOMAIN orders
    /\ \A o \in DOMAIN orders :
          /\ o \notin taken => new[o] = orders[o]
          /\ new[o].provider = orders[o].provider /\ new[o].key = orders[o].key
          /\ new[o].quantity = orders[o].quantity /\ new[o].cost = orders[o].cost
          /\ new[o].queued = orders[o].queued

LEMMA Relabelling ==
    ASSUME NEW orders \in Seq(OrderType), NEW taken, NEW b \in BOOLEAN, NEW S,
           NEW new, new = [o \in DOMAIN orders |->
                             IF o \in S THEN [orders[o] EXCEPT !.adrift = b] ELSE orders[o]],
           S \subseteq taken
    PROVE  /\ Relabelled(new, orders, taken)
           /\ \A o \in DOMAIN orders : new[o].adrift = IF o \in S THEN b ELSE orders[o].adrift
  <1>1. DOMAIN orders = 1 .. Len(orders) /\ Len(orders) \in Nat
    OBVIOUS
  <1>2. ASSUME NEW o \in DOMAIN orders
        PROVE  /\ orders[o] \in OrderType
               /\ [orders[o] EXCEPT !.adrift = b] \in OrderType
               /\ [orders[o] EXCEPT !.adrift = b].provider = orders[o].provider
               /\ [orders[o] EXCEPT !.adrift = b].key = orders[o].key
               /\ [orders[o] EXCEPT !.adrift = b].quantity = orders[o].quantity
               /\ [orders[o] EXCEPT !.adrift = b].cost = orders[o].cost
               /\ [orders[o] EXCEPT !.adrift = b].queued = orders[o].queued
               /\ [orders[o] EXCEPT !.adrift = b].adrift = b
    <2>1. orders[o] \in OrderType
      OBVIOUS
    <2> QED BY <2>1 DEF OrderType
  <1>3. \A o \in DOMAIN orders : new[o] \in OrderType
    BY <1>2
  <1>4. new \in [1 .. Len(orders) -> OrderType] /\ DOMAIN new = DOMAIN orders
    BY <1>1, <1>3
  <1>5. new \in Seq(OrderType)
    BY <1>1, <1>4
  <1> QED BY <1>2, <1>4, <1>5 DEF Relabelled

LEMMA LandedFacts ==
    ASSUME NEW orders \in Seq(OrderType), NEW taken
    PROVE  /\ Relabelled(Landed(orders, taken), orders, taken)
           /\ \A o \in DOMAIN orders : Landed(orders, taken)[o].adrift =
                 IF o \in taken THEN FALSE ELSE orders[o].adrift
  <1>1. PICK b : b = FALSE
    OBVIOUS
  <1>2. PICK new : new = Landed(orders, taken)
    OBVIOUS
  <1>3. new = [o \in DOMAIN orders |->
                 IF o \in taken THEN [orders[o] EXCEPT !.adrift = b] ELSE orders[o]]
    BY <1>1, <1>2 DEF Landed
  <1>4. b \in BOOLEAN /\ taken \subseteq taken
    BY <1>1
  <1>5. /\ Relabelled(new, orders, taken)
        /\ \A o \in DOMAIN orders : new[o].adrift = IF o \in taken THEN b ELSE orders[o].adrift
    BY ONLY <1>3, <1>4, orders \in Seq(OrderType), Relabelling
  <1> QED BY <1>1, <1>2, <1>5

\* An order is adrift once one of its accounts is in no row.
LEMMA AdriftFacts ==
    ASSUME NEW orders \in Seq(OrderType), NEW taken
    PROVE  /\ Relabelled(Adrift(orders, taken), orders, taken)
           /\ \A o \in DOMAIN orders :
                 \/ Adrift(orders, taken)[o].adrift
                 \/ /\ ~orders[o].adrift
                    /\ o \in taken => \A j \in 1 .. orders[o].quantity : Recorded(<<o, j>>) # {}
  <1>1. PICK b : b = TRUE
    OBVIOUS
  <1>2. PICK new : new = Adrift(orders, taken)
    OBVIOUS
  <1>3. PICK S : S = {o \in taken : o \in DOMAIN orders
                              /\ \E j \in 1 .. orders[o].quantity : Recorded(<<o, j>>) = {}}
    OBVIOUS
  <1>4. new = [o \in DOMAIN orders |->
                 IF o \in S THEN [orders[o] EXCEPT !.adrift = b] ELSE orders[o]]
    BY <1>1, <1>2, <1>3 DEF Adrift
  <1>5. b \in BOOLEAN /\ S \subseteq taken
    BY <1>1, <1>3
  <1>6. /\ Relabelled(new, orders, taken)
        /\ \A o \in DOMAIN orders : new[o].adrift = IF o \in S THEN b ELSE orders[o].adrift
    BY ONLY <1>4, <1>5, orders \in Seq(OrderType), Relabelling
  <1>7. \A o \in DOMAIN orders : o \in S => new[o].adrift
    BY <1>1, <1>6
  <1>8. \A o \in DOMAIN orders : o \notin S => new[o].adrift = orders[o].adrift
    BY <1>6
  <1>9. \A o \in DOMAIN orders : o \notin S /\ o \in taken =>
           \A j \in 1 .. orders[o].quantity : Recorded(<<o, j>>) # {}
    BY <1>3
  <1>10. ASSUME NEW o \in DOMAIN orders
         PROVE  \/ new[o].adrift
                \/ /\ ~orders[o].adrift
                   /\ o \in taken => \A j \in 1 .. orders[o].quantity : Recorded(<<o, j>>) # {}
    <2>1. CASE o \in S
      BY <1>7, <2>1
    <2>2. CASE o \notin S
      <3>1. CASE orders[o].adrift
        BY <1>8, <2>2, <3>1
      <3>2. CASE ~orders[o].adrift
        BY <1>9, <2>2, <3>2
      <3> QED BY <3>1, <3>2
    <2> QED BY <2>1, <2>2
  <1> QED BY <1>2, <1>6, <1>10

\* One handler goes on to r.
LEMMA RunStep ==
    ASSUME Typed, NEW h \in Handler, NEW r, RunTyped(r), run' = [run EXCEPT ![h] = r]
    PROVE  /\ IsFcn(run') /\ DOMAIN run' = Handler /\ \A g \in Handler : RunTyped(run'[g])
           /\ run'[h] = r /\ \A g \in Handler \ {h} : run'[g] = run[g]
  <1>1. IsFcn(run) /\ DOMAIN run = Handler /\ \A g \in Handler : RunTyped(run[g])
    BY DEF Typed
  <1>2. run'[h] = r /\ \A g \in Handler \ {h} : run'[g] = run[g]
    BY <1>1
  <1>3. IsFcn(run') /\ DOMAIN run' = Handler
    BY <1>1 DEF IsFcn
  <1>4. \A g \in Handler : RunTyped(run'[g])
    BY <1>1, <1>2
  <1> QED BY <1>2, <1>3, <1>4

\* A purchase that ends leaves its answer.
LEMMA EndedStep ==
    ASSUME Typed, NEW h \in Handler, run[h].key \in Key, NEW code \in Reason \cup {"completed"},
           Ended(h, code)
    PROVE  /\ IsFcn(run') /\ DOMAIN run' = Handler /\ \A g \in Handler : RunTyped(run'[g])
           /\ run'[h].pc = "answer" /\ run'[h].key = run[h].key /\ run'[h].result = code
           /\ \A g \in Handler \ {h} : run'[g] = run[g]
  <1>1. PICK r : r = [pc |-> "answer", key |-> run[h].key, result |-> code]
    OBVIOUS
  <1>2. RunTyped(r)
    <2>1. r.pc = "answer" /\ r.key = run[h].key /\ r.result = code
      BY <1>1
    <2> QED BY <1>1, <2>1 DEF RunTyped
  <1>3. run' = [run EXCEPT ![h] = r]
    BY <1>1 DEF Ended
  <1>4. /\ IsFcn(run') /\ DOMAIN run' = Handler /\ \A g \in Handler : RunTyped(run'[g])
        /\ run'[h] = r /\ \A g \in Handler \ {h} : run'[g] = run[g]
    BY <1>2, <1>3, RunStep
  <1> QED BY <1>1, <1>4

RequestTyped(req) ==
    /\ IsFcn(req) /\ DOMAIN req = ApiKey \cup QrKey
    /\ \A k \in ApiKey : req[k] \in ApiType
    /\ \A k \in QrKey : req[k] \in QrType

\* One row of a key is written.
LEMMA RequestStep ==
    ASSUME Typed, NEW k \in ApiKey \cup QrKey, NEW v,
           \/ k \in ApiKey /\ v \in ApiType
           \/ k \in QrKey /\ v \in QrType,
           NEW req, req = [request EXCEPT ![k] = v]
    PROVE  /\ RequestTyped(req) /\ req[k] = v
           /\ \A j \in (ApiKey \cup QrKey) \ {k} : req[j] = request[j]
  <1>1. /\ IsFcn(request) /\ DOMAIN request = ApiKey \cup QrKey
        /\ \A j \in ApiKey : request[j] \in ApiType
        /\ \A j \in QrKey : request[j] \in QrType
    BY DEF Typed
  <1>3. req[k] = v /\ \A j \in (ApiKey \cup QrKey) \ {k} : req[j] = request[j]
    BY <1>1
  <1>4. IsFcn(req) /\ DOMAIN req = ApiKey \cup QrKey
    BY <1>1 DEF IsFcn
  <1>5. \A j \in ApiKey : req[j] \in ApiType
    BY <1>1, <1>3, KeyAssumption
  <1>6. \A j \in QrKey : req[j] \in QrType
    BY <1>1, <1>3, KeyAssumption
  <1>7. RequestTyped(req)
    BY <1>4, <1>5, <1>6 DEF RequestTyped
  <1> QED BY <1>3, <1>7

\* A purchase that is paid by QR ends: the status of its request.
LEMMA QrEnds ==
    ASSUME Typed, NEW k \in QrKey, NEW s \in {"delivered", "credited"}
    PROVE  LET req == [request EXCEPT ![k].status = s]
           IN /\ RequestTyped(req) /\ req[k].status = s /\ req[k].amount = request[k].amount
              /\ req[k].pricing = request[k].pricing
              /\ \A j \in (ApiKey \cup QrKey) \ {k} : req[j] = request[j]
  <1>1. PICK v : v = [request[k] EXCEPT !.status = s]
    OBVIOUS
  <1>2. request[k] \in QrType
    BY DEF Typed
  <1>3. v \in QrType /\ v.status = s /\ v.amount = request[k].amount /\ v.pricing = request[k].pricing
    BY <1>1, <1>2 DEF QrType
  <1>4. k \notin ApiKey
    BY KeyAssumption DEF Key
  <1>5. PICK req : req = [request EXCEPT ![k] = v]
    OBVIOUS
  <1>6. RequestTyped(req) /\ req[k] = v /\ \A j \in (ApiKey \cup QrKey) \ {k} : req[j] = request[j]
    <2>1. k \in ApiKey \cup QrKey
      OBVIOUS
    <2>2. \/ k \in ApiKey /\ v \in ApiType
          \/ k \in QrKey /\ v \in QrType
      BY <1>3
    <2>3. RequestTyped(req)
      BY ONLY Typed, <1>5, <2>1, <2>2, RequestStep
    <2>4. req[k] = v
      BY ONLY Typed, <1>5, <2>1, <2>2, RequestStep
    <2>5. \A j \in (ApiKey \cup QrKey) \ {k} : req[j] = request[j]
      BY ONLY Typed, <1>5, <2>1, <2>2, RequestStep
    <2> QED BY <2>3, <2>4, <2>5
  <1>7. req = [request EXCEPT ![k].status = s]
    BY <1>1, <1>5
  <1> QED BY <1>3, <1>6, <1>7

\* What a purchase must be to be completed: its rows are free and its goods in no row,
\* together they are the quantity, every price is as agreed, and the sum can be paid.
CanSell(h, p, plan, orders, paid, route, quote) ==
    LET k == run[h].key
        total == TotalOf(quote.local, route, plan)
    IN /\ k \in Key /\ p \in ProductType /\ PlanTyped(plan)
       /\ orders \in Seq(OrderType) /\ Bought(plan, orders, paid) /\ DOMAIN paid = DOMAIN plan
       /\ QuoteTyped(quote) /\ DOMAIN quote.local \subseteq Available
       /\ DOMAIN route = DOMAIN plan /\ \A r \in DOMAIN plan : route[r] \in Nat
       /\ \A g \in Goods(plan, paid) : ~IsHeld(AccountOf(paid, g))
       /\ Cardinality(DOMAIN quote.local) + SumOver(DOMAIN plan, Quantities(plan)) = Body[k].quantity
       /\ IsSeller(quote.pricing) =>
            /\ \A i \in DOMAIN quote.local : quote.local[i] > inv[i].cost
            /\ \A r \in DOMAIN plan : route[r] > orders[paid[r]].cost
       /\ ~TooDear(k, Amounts(quote.local) \cup Amounts(route))
       /\ ~TotalMoved(k, quote.total)
       /\ IF k \in QrKey
          THEN /\ quote.total = request[k].amount
               /\ \/ total = quote.total
                  \/ /\ DOMAIN plan = {}
                     /\ \A i \in DOMAIN quote.local :
                           quote.local[i] = request[k].amount \div Body[k].quantity
          ELSE /\ wallet[Body[k].user] >= quote.total
               /\ total <= quote.total
               /\ Agreed(k) \/ ~IsSeller(quote.pricing) => total = quote.total

\* The new rows of a sale.
GoodsSound(plan, orders, paid, route) ==
    /\ PlanTyped(plan) /\ orders \in Seq(OrderType) /\ Bought(plan, orders, paid)
    /\ \A r \in DOMAIN paid : route[r] \in Nat

LEMMA SoldGoodsTyped ==
    ASSUME NEW plan, NEW orders, NEW paid, NEW route, GoodsSound(plan, orders, paid, route),
           NEW k, k \in Key, NEW pr, NEW goods, NEW g, g \in Goods(plan, paid), g \in goods,
           NEW row, row = SoldGoods(k, goods, orders, paid, route, IsSeller(pr))[g]
    PROVE  /\ row \in RowType /\ (row.key # None <=> row.status = "sold")
           /\ row.acct = AccountOf(paid, g) /\ row.cost = orders[paid[g[1]]].cost
           /\ row.key = k /\ row.status = "sold" /\ row.amount = route[g[1]]
           /\ row.rule <=> IsSeller(pr)
           /\ ~row.again
  <1> USE DEF GoodsSound
  <1>1. /\ g[1] \in DOMAIN paid /\ AccountOf(paid, g) \in Nat \X Nat
        /\ orders[paid[g[1]]].cost \in Nat
    BY AccountOfType
  <1>2. PICK a, c, n, rule : /\ a = AccountOf(paid, g) /\ c = orders[paid[g[1]]].cost
                            /\ n = route[g[1]] /\ rule = IsSeller(pr)
    OBVIOUS
  <1>3. row
          = [acct |-> a, cost |-> c, status |-> "sold", key |-> k, amount |-> n,
             again |-> FALSE, rule |-> rule]
    BY <1>2 DEF SoldGoods, Row
  <1>4. a \in Account \cup (Nat \X Nat) /\ c \in Nat /\ n \in Nat
    BY <1>1, <1>2
  <1>5. k # None /\ rule \in BOOLEAN
    BY <1>2, KeyAssumption DEF IsSeller
  <1> HIDE DEF Key
  <1>6. [acct |-> a, cost |-> c, status |-> "sold", key |-> k, amount |-> n,
         again |-> FALSE, rule |-> rule] \in RowType
    BY <1>4, <1>5 DEF RowType
  <1> QED BY <1>2, <1>3, <1>5, <1>6

\* The table after a sale: the rows of before, those in local sold, and a row for
\* each of the goods.
Sale(h, plan, orders, paid, route, quote, id) ==
    LET k == run[h].key
        rule == IsSeller(quote.pricing)
        goods == Goods(plan, paid)
    IN Files(inv', SoldRows(k, quote.local, rule), goods,
             SoldGoods(k, goods, orders, paid, route, rule), id)

LEMMA CompleteTyped ==
    ASSUME Typed, NEW h \in Handler, NEW p, NEW plan, NEW orders, NEW paid, NEW route, NEW quote,
           CanSell(h, p, plan, orders, paid, route, quote),
           Complete(h, p, plan, orders, paid, route, quote)
    PROVE  /\ InvTyped(inv') /\ \E id : Sale(h, plan, orders, paid, route, quote, id)
           /\ product' \in ProductType /\ wallet' \in [Customer -> Nat] /\ debit' \in [Key -> Nat]
           /\ RequestTyped(request') /\ Ended(h, "completed")
           /\ debit' = [debit EXCEPT ![run[h].key] = debit[run[h].key] + quote.total]
           /\ quote.total \in Nat
  <1> DEFINE k == run[h].key
             rule == IsSeller(quote.pricing)
             goods == Goods(plan, paid)
             rows == SoldRows(k, quote.local, rule)
             row == SoldGoods(k, goods, orders, paid, route, rule)
  <1>1. /\ k \in Key /\ p \in ProductType /\ PlanTyped(plan)
        /\ orders \in Seq(OrderType) /\ Bought(plan, orders, paid) /\ DOMAIN paid = DOMAIN plan
        /\ QuoteTyped(quote) /\ DOMAIN quote.local \subseteq Available
        /\ DOMAIN route = DOMAIN plan /\ \A r \in DOMAIN plan : route[r] \in Nat
        /\ k \notin QrKey => wallet[Body[k].user] >= quote.total
    BY DEF CanSell
  <1>2. rule \in BOOLEAN
    BY DEF IsSeller
  <1>3. inv' = Filed(rows, Place(plan, goods), row)
    BY DEF Complete
  <1>4. \A i \in DOMAIN quote.local : quote.local[i] \in Nat
    BY <1>1 DEF QuoteTyped
  <1>5. InvTyped(rows)
    <2> HIDE DEF k, rule
    <2> QED BY <1>1, <1>2, <1>4, SoldRowsTyped
  <1>6. \A g \in goods : row[g] \in RowType /\ (row[g].key # None <=> row[g].status = "sold")
    <2> PICK key, pr, gs : key = k /\ pr = quote.pricing /\ gs = goods
      OBVIOUS
    <2> SUFFICES ASSUME NEW g, g \in gs,
                        NEW w, w = SoldGoods(key, gs, orders, paid, route, IsSeller(pr))[g]
                 PROVE  w \in RowType /\ (w.key # None <=> w.status = "sold")
      OBVIOUS
    <2>1. GoodsSound(plan, orders, paid, route)
      BY <1>1 DEF GoodsSound
    <2>2. key \in Key
      BY <1>1
    <2>3. g \in gs /\ g \in Goods(plan, paid)
      OBVIOUS
    <2>4. w = SoldGoods(key, gs, orders, paid, route, IsSeller(pr))[g]
      OBVIOUS
    <2> QED BY ONLY <2>1, <2>2, <2>3, <2>4, SoldGoodsTyped
  <1>7. PICK id : Files(Filed(rows, Place(plan, goods), row), rows, goods, row, id)
    <2>1. PICK rr : rr = row
      OBVIOUS
    <2>2. \E id : Files(Filed(rows, Place(plan, goods), rr), rows, goods, rr, id)
      <3> HIDE DEF k, rule
      <3>1. \A l : LET gs == Goods(plan, paid)
                   IN \E id : Files(Filed(SoldRows(k, l, rule), Place(plan, gs), rr),
                                    SoldRows(k, l, rule), gs, rr, id)
        BY <1>1, SaleFiles
      <3> QED BY <3>1
    <2> QED BY <2>1, <2>2
  <1>8. Files(inv', rows, goods, row, id)
    BY <1>3, <1>7
  <1>9. Sale(h, plan, orders, paid, route, quote, id)
    BY <1>8 DEF Sale
  <1>10. InvTyped(inv')
    <2> HIDE DEF rows, goods, row
    <2> QED BY <1>5, <1>6, <1>8, FilesTyped
  <1>11. product' \in ProductType
    <2>1. product' = ReleaseIfEmpty(p, inv')
      BY DEF Complete
    <2> QED BY <1>1, <2>1, ReleaseTyped
  <1>12. quote.total \in Nat
    BY <1>1 DEF QuoteTyped
  <1>13. wallet' \in [Customer -> Nat]
    <2>1. wallet \in [Customer -> Nat]
      BY DEF Typed
    <2>2. Body[k].user \in Customer
      BY <1>1, KeyAssumption
    <2>3. wallet' = IF k \in QrKey THEN wallet
                    ELSE [wallet EXCEPT ![Body[k].user] = wallet[Body[k].user] - quote.total]
      BY DEF Complete
    <2> HIDE DEF k
    <2> PICK u : u = Body[k].user
      OBVIOUS
    <2>4. k \notin QrKey => wallet[u] - quote.total \in Nat
      BY <1>1, <1>12, <2>1, <2>2
    <2> QED BY <2>1, <2>2, <2>3, <2>4
  <1>14. debit' = [debit EXCEPT ![k] = debit[k] + quote.total]
    BY DEF Complete
  <1>15. debit' \in [Key -> Nat]
    <2>1. debit \in [Key -> Nat]
      BY DEF Typed
    <2> HIDE DEF k, Key
    <2>2. debit[k] + quote.total \in Nat
      BY <1>1, <1>12, <2>1
    <2> QED BY <1>14, <2>1, <2>2
  <1>16. RequestTyped(request')
    <2>1. request' = IF k \in QrKey THEN [request EXCEPT ![k].status = "delivered"] ELSE request
      BY DEF Complete
    <2>2. CASE k \in QrKey
      <3>1. PICK s : s = "delivered"
        OBVIOUS
      <3>2. s \in {"delivered", "credited"}
        BY <3>1
      <3> HIDE DEF k
      <3>3. RequestTyped([request EXCEPT ![k].status = s])
        BY <2>2, <3>2, QrEnds
      <3> QED BY <2>1, <2>2, <3>1, <3>3
    <2>3. CASE k \notin QrKey
      BY <2>1, <2>3 DEF Typed, RequestTyped
    <2> QED BY <2>2, <2>3
  <1>17. Ended(h, "completed")
    BY DEF Complete
  <1> QED BY <1>9, <1>10, <1>11, <1>12, <1>13, <1>14, <1>15, <1>16, <1>17

\* A purchase that is not sold.
LEMMA NotSoldTyped ==
    ASSUME Typed, NEW h \in Handler, run[h].key \in Key, NEW code, NotSold(h, code)
    PROVE  /\ wallet' \in [Customer -> Nat] /\ RequestTyped(request') /\ debit' = debit
           /\ Ended(h, code)
           /\ run[h].key \notin QrKey => request' = request /\ wallet' = wallet
  <1> DEFINE k == run[h].key
  <1>1. Ended(h, code) /\ debit' = debit
    BY DEF NotSold
  <1>2. CASE k \in QrKey
    <2>1. /\ wallet' = [wallet EXCEPT ![Body[k].user] = wallet[Body[k].user] + request[k].amount]
          /\ request' = [request EXCEPT ![k].status = "credited"]
      BY <1>2 DEF NotSold
    <2>2. wallet \in [Customer -> Nat] /\ request[k].amount \in Nat
      BY <1>2 DEF Typed, QrType
    <2>3. Body[k].user \in Customer
      BY KeyAssumption
    <2> PICK u : u = Body[k].user
      OBVIOUS
    <2> PICK n : n = request[k].amount
      OBVIOUS
    <2>4. wallet[u] + n \in Nat
      BY <2>2, <2>3
    <2>5. wallet' \in [Customer -> Nat]
      BY <2>1, <2>2, <2>4
    <2>6. PICK s : s = "credited"
      OBVIOUS
    <2>7. s \in {"delivered", "credited"}
      BY <2>6
    <2> HIDE DEF k
    <2>8. RequestTyped([request EXCEPT ![k].status = s])
      BY <1>2, <2>7, QrEnds
    <2> QED BY <1>1, <1>2, <2>1, <2>5, <2>6, <2>8 DEF k
  <1>3. CASE k \notin QrKey
    <2>1. wallet' = wallet /\ request' = request
      BY <1>3 DEF NotSold
    <2>2. wallet' \in [Customer -> Nat]
      BY <2>1 DEF Typed
    <2>3. RequestTyped(request')
      BY <2>1 DEF Typed, RequestTyped
    <2> QED BY <1>1, <1>3, <2>1, <2>2, <2>3
  <1> QED BY <1>2, <1>3

\* The types after a step that leaves what belongs to suppliers and administrators.
LEMMA TypedFrom ==
    ASSUME Typed, product' \in ProductType, catalog' \in CatalogType,
           placed' \in Seq(OrderType),
           \A o \in DOMAIN placed' : placed'[o].queued => placed'[o].provider = "sumistore",
           InvTyped(inv'), wallet' \in [Customer -> Nat], debit' \in [Key -> Nat],
           RequestTyped(request'),
           IsFcn(run') /\ DOMAIN run' = Handler /\ \A g \in Handler : RunTyped(run'[g]),
           shown' \in [BotKey -> Nat], terms' \in TermsType, runs' \in [Key -> Nat],
           raced' \subseteq Key
    PROVE  Typed'
  BY DEF Typed, InvTyped, RequestTyped, Rows

LEMMA SumEmpty == ASSUME NEW f PROVE SumOver({}, f) = 0
  <1>1. Pairs({}, f) = {}
    BY DEF Pairs
  <1> QED BY <1>1, FS_EmptySet DEF SumOver

\* A purchase from the shop's own rows is one that can be sold.
LEMMA RowsCanSell ==
    ASSUME Typed, NEW h \in Handler, run[h].key \in Key, NEW src, NEW q,
           SaleSound(h, src, q), src.need = 0
    PROVE  CanSell(h, src.p, src.plan, placed, NothingPaid, q.route, q)
  <1> DEFINE k == run[h].key
             plan == src.plan
  <1>1. SourcesSound(src, k) /\ QuoteTyped(q) /\ DOMAIN q.local = src.rows
        /\ DOMAIN q.route = DOMAIN plan /\ Gains(q, plan)
    BY DEF SaleSound
  <1>2. DOMAIN plan = {} /\ PlanTyped(plan) /\ src.p \in ProductType
        /\ src.rows \subseteq Available /\ Cardinality(src.rows) + src.need = Body[k].quantity
    BY <1>1 DEF SourcesSound
  <1>3. placed \in Seq(OrderType)
    BY DEF Typed
  <1>4. IsFcn(NothingPaid) /\ DOMAIN NothingPaid = {}
    BY DEF NothingPaid, IsFcn
  <1>5. Bought(plan, placed, NothingPaid) /\ DOMAIN NothingPaid = DOMAIN plan
    BY <1>2, <1>4 DEF Bought
  <1>6. \A g \in Goods(plan, NothingPaid) : ~IsHeld(AccountOf(NothingPaid, g))
    BY <1>4, GoodsMember
  <1>7. SumOver(DOMAIN plan, Quantities(plan)) = 0
    BY <1>2, SumEmpty
  <1>8. IsSeller(q.pricing) =>
            /\ \A i \in DOMAIN q.local : q.local[i] > inv[i].cost
            /\ \A r \in DOMAIN plan : q.route[r] > placed[NothingPaid[r]].cost
    BY <1>1, <1>2 DEF Gains
  <1>9. ~TooDear(k, Amounts(q.local) \cup Amounts(q.route))
    <2>1. CASE k \in QrKey
      BY <2>1, KeyAssumption DEF TooDear
    <2>2. CASE k \notin QrKey
      BY <2>2 DEF SaleSound
    <2> QED BY <2>1, <2>2
  <1>10. ~TotalMoved(k, q.total)
    <2>1. CASE k \in QrKey
      BY <2>1, KeyAssumption DEF TotalMoved, Agreed
    <2>2. CASE k \notin QrKey
      BY <2>2 DEF SaleSound
    <2> QED BY <2>1, <2>2
  <1>11. CASE k \in QrKey
    <2>1. PaidSound(q, src, k)
      BY <1>11 DEF SaleSound
    <2>2. q.total = request[k].amount
      BY <2>1 DEF PaidSound
    <2>3. \/ TotalOf(q.local, q.route, plan) = q.total
          \/ /\ DOMAIN plan = {}
             /\ \A i \in DOMAIN q.local :
                   q.local[i] = request[k].amount \div Body[k].quantity
      <3>1. CASE IsSeller(q.pricing)
        BY <2>1, <3>1 DEF PaidSound
      <3>2. CASE ~IsSeller(q.pricing)
        BY <1>1, <1>2, <2>1, <3>2 DEF PaidSound
      <3> QED BY <3>1, <3>2
    <2>4. Cardinality(DOMAIN q.local) + SumOver(DOMAIN plan, Quantities(plan)) = Body[k].quantity
      BY <1>1, <1>2, <1>7
    <2>5. DOMAIN q.local \subseteq Available
      BY <1>1, <1>2
    <2>6. DOMAIN q.route = DOMAIN plan /\ \A r \in DOMAIN plan : q.route[r] \in Nat
      BY <1>1, <1>2
    <2> HIDE DEF plan
    <2> QED BY <1>1, <1>2, <1>3, <1>5, <1>6, <1>8, <1>9, <1>10, <1>11, <2>2, <2>3, <2>4,
               <2>5, <2>6 DEF CanSell, plan
  <1>12. CASE k \notin QrKey
    <2>1. q.total = TotalOf(q.local, q.route, plan) /\ wallet[Body[k].user] >= q.total
      BY <1>12 DEF SaleSound
    <2>2. q.total \in Nat
      BY <1>1 DEF QuoteTyped
    <2>3. TotalOf(q.local, q.route, plan) <= q.total
      BY <2>1, <2>2
    <2>4. Cardinality(DOMAIN q.local) + SumOver(DOMAIN plan, Quantities(plan)) = Body[k].quantity
      BY <1>1, <1>2, <1>7
    <2>5. DOMAIN q.local \subseteq Available
      BY <1>1, <1>2
    <2>6. DOMAIN q.route = DOMAIN plan /\ \A r \in DOMAIN plan : q.route[r] \in Nat
      BY <1>1, <1>2
    <2> HIDE DEF plan
    <2> QED BY <1>1, <1>2, <1>3, <1>5, <1>6, <1>8, <1>9, <1>10, <1>12, <2>1, <2>3, <2>4,
               <2>5, <2>6 DEF CanSell, plan
  <1> QED BY <1>11, <1>12

\* A purchase from the suppliers whose parts are all paid for is one that can be sold,
\* once no supplier was dearer and the seller's prices hold.
LEMMA PartsCanSell ==
    ASSUME Typed, NEW h \in Handler, run[h].pc = "buying", Deal(h), NEW orders, NEW paid,
           Buys(h, orders, paid), SoldAll(h, orders, paid)
    PROVE  CanSell(h, run[h].p, run[h].plan, orders, paid, FinalPrices(h, orders, paid), run[h].quote)
  <1> DEFINE k == run[h].key
             plan == run[h].plan
             q == run[h].quote
             route == FinalPrices(h, orders, paid)
  <1>1. k \in Key /\ run[h].p \in ProductType /\ PlanTyped(plan) /\ QuoteTyped(q)
    BY RunKey
  <1>2. orders \in Seq(OrderType) /\ Bought(plan, orders, paid) /\ DOMAIN paid = DOMAIN plan
    BY DEF Buys, SoldAll
  <1>3. /\ DOMAIN q.local \subseteq Available /\ DOMAIN q.route = DOMAIN plan
        /\ Cardinality(DOMAIN q.local) + SumOver(DOMAIN plan, Quantities(plan)) = Body[k].quantity
        /\ ~TooDear(k, Amounts(q.local) \cup Amounts(q.route))
        /\ ~TotalMoved(k, q.total)
        /\ Gains(q, plan) /\ q.total = TotalOf(q.local, q.route, plan)
        /\ IF k \in QrKey THEN q.total = request[k].amount ELSE wallet[Body[k].user] >= q.total
    BY DEF Deal
  <1>4. /\ \A g \in Goods(plan, paid) : ~IsHeld(AccountOf(paid, g))
        /\ Dearer(h, orders, paid) = {} /\ ~SellerRefused(h, orders, paid)
    BY DEF SoldAll
  <1>5. route = [r \in DOMAIN paid |->
                    IF IsSeller(q.pricing) /\ k \notin QrKey
                    THEN SellerUnitPrice(orders[paid[r]].cost, q.pricing.profit,
                                         SupplierSalePrice(run[h].p, orders[paid[r]].cost))
                    ELSE q.route[r]]
    BY DEF FinalPrices
  <1>6. ASSUME NEW r \in DOMAIN plan
        PROVE  /\ q.route[r] \in Nat /\ orders[paid[r]].cost \in Cost
               /\ plan[r].cost \in Cost /\ orders[paid[r]].cost <= plan[r].cost
               /\ plan[r].cost \in Nat /\ orders[paid[r]].cost \in Nat
    <2>1. r \in DOMAIN paid /\ paid[r] \in DOMAIN orders
      BY <1>2 DEF Bought
    <2>2. orders[paid[r]] \in OrderType
      BY <1>2, <2>1
    <2>3. orders[paid[r]].cost \in Cost /\ plan[r].cost \in Cost
      BY <1>1, <2>2 DEF OrderType, PlanTyped
    <2>4. orders[paid[r]].cost \in Nat /\ plan[r].cost \in Nat
      BY <2>3, PriceAssumption
    <2>5. ~(orders[paid[r]].cost > plan[r].cost)
      BY <1>4, <2>1 DEF Dearer
    <2>6. q.route[r] \in Nat
      BY <1>1, <1>3 DEF QuoteTyped
    <2> QED BY <2>3, <2>4, <2>5, <2>6
  <1>7. DOMAIN route = DOMAIN plan
    BY <1>2, <1>5
  <1> HIDE DEF route
  <1>8. CASE IsSeller(q.pricing) /\ k \notin QrKey
    <2>1. \A r \in DOMAIN plan : route[r] = SellerUnitPrice(orders[paid[r]].cost, q.pricing.profit,
                                         SupplierSalePrice(run[h].p, orders[paid[r]].cost))
      BY <1>2, <1>5, <1>8
    <2>2. ~(0 \in Amounts(route)) /\ ~TooDear(k, Amounts(route))
          /\ ~TotalMoved(k, TotalOf(q.local, route, plan))
          /\ ~(~Agreed(k) /\ TotalOf(q.local, route, plan) > q.total)
      BY <1>4, <1>8 DEF SellerRefused, route
    <2>3. \A r \in DOMAIN plan : route[r] \in Nat /\ route[r] > orders[paid[r]].cost
      <3> SUFFICES ASSUME NEW r \in DOMAIN plan
                   PROVE  route[r] \in Nat /\ route[r] > orders[paid[r]].cost
        OBVIOUS
      <3> PICK c, s, n : /\ c = orders[paid[r]].cost /\ n = q.pricing.profit
                         /\ s = SupplierSalePrice(run[h].p, orders[paid[r]].cost)
        OBVIOUS
      <3>1. c \in Cost /\ c \in Nat
        BY <1>6
      <3>2. s \in Nat
        BY <1>1, <3>1, SupplierSalePricePositive DEF Positive
      <3>3. n \in Nat
        BY <1>1 DEF QuoteTyped, PricingType
      <3>4. route[r] = SellerUnitPrice(c, n, s)
        BY <2>1
      <3>5. route[r] # 0
        BY <1>7, <2>2 DEF Amounts
      <3> QED BY <3>1, <3>2, <3>3, <3>4, <3>5, SellerUnitPriceFacts
    <2>4. ~TooDear(k, Amounts(q.local) \cup Amounts(route))
      BY <1>3, <2>2 DEF TooDear
    <2>5. TotalOf(q.local, route, plan) \in Nat
      <3>1. IsFiniteSet(DOMAIN q.local) /\ \A i \in DOMAIN q.local : q.local[i] \in Nat
        BY <1>1 DEF QuoteTyped
      <3>2. DOMAIN route \subseteq Provider
        BY <1>1, <1>7 DEF PlanTyped
      <3>3. \A r \in DOMAIN route : route[r] \in Nat /\ plan[r].quantity \in Nat
        BY <1>1, <1>7, <2>3 DEF PlanTyped, Positive
      <3> HIDE DEF plan, q
      <3>4. PICK l : l = q.local
        OBVIOUS
      <3> QED BY <3>1, <3>2, <3>3, <3>4, TotalNat
    <2>6. q.total \in Nat
      BY <1>1 DEF QuoteTyped
    <2>7. TotalOf(q.local, route, plan) <= q.total
      <3>1. CASE Agreed(k)
        BY <1>3, <2>2, <2>5, <2>6, <3>1 DEF TotalMoved
      <3>2. CASE ~Agreed(k)
        BY <2>2, <2>5, <2>6, <3>2
      <3> QED BY <3>1, <3>2
    <2>8. Agreed(k) => TotalOf(q.local, route, plan) = q.total
      BY <1>3, <2>2 DEF TotalMoved
    <2>10. \A r \in DOMAIN plan : route[r] \in Nat
      BY <2>3
    <2>11. IsSeller(q.pricing) => /\ \A i \in DOMAIN q.local : q.local[i] > inv[i].cost
                                  /\ \A r \in DOMAIN plan : route[r] > orders[paid[r]].cost
      BY <1>3, <2>3 DEF Gains
    <2>12. k \notin QrKey /\ wallet[Body[k].user] >= q.total
           /\ (Agreed(k) \/ ~IsSeller(q.pricing) => TotalOf(q.local, route, plan) = q.total)
      BY <1>3, <1>8, <2>8
    <2> HIDE DEF plan, q, k
    <2>9. CanSell(h, run[h].p, plan, orders, paid, route, q)
      BY <1>1, <1>2, <1>3, <1>4, <1>7, <2>4, <2>7, <2>10, <2>11, <2>12 DEF CanSell, k
    <2> QED BY <2>9 DEF plan, q, route
  <1>9. CASE ~(IsSeller(q.pricing) /\ k \notin QrKey)
    <2>1. \A r \in DOMAIN plan : route[r] = q.route[r]
      BY <1>2, <1>5, <1>9
    <2>2. route = q.route
      <3>1. IsFcn(q.route)
        BY <1>1 DEF QuoteTyped
      <3>2. q.route = [r \in DOMAIN plan |-> q.route[r]]
        BY <1>3, <3>1 DEF IsFcn
      <3>3. route = [r \in DOMAIN plan |-> q.route[r]]
        BY <1>2, <1>5, <1>9
      <3> QED BY <3>2, <3>3
    <2>3. \A r \in DOMAIN plan : route[r] \in Nat
      BY <1>6, <2>1
    <2>4. ASSUME IsSeller(q.pricing), NEW r \in DOMAIN plan PROVE route[r] > orders[paid[r]].cost
      <3>1. q.route[r] > plan[r].cost
        BY <1>3, <2>4 DEF Gains
      <3> QED BY <1>6, <2>1, <3>1
    <2>5. IsSeller(q.pricing) => \A i \in DOMAIN q.local : q.local[i] > inv[i].cost
      BY <1>3 DEF Gains
    <2>6. q.total \in Nat
      BY <1>1 DEF QuoteTyped
    <2>7. TotalOf(q.local, route, plan) <= q.total /\ TotalOf(q.local, route, plan) = q.total
      BY <1>3, <2>2, <2>6
    <2>8. ~TooDear(k, Amounts(q.local) \cup Amounts(route))
      BY <1>3, <2>2
    <2> HIDE DEF plan, q, k
    <2>9. CanSell(h, run[h].p, plan, orders, paid, route, q)
      BY <1>1, <1>2, <1>3, <1>4, <1>7, <2>3, <2>4, <2>5, <2>7, <2>8 DEF CanSell, k
    <2> QED BY <2>9 DEF plan, q, route
  <1> QED BY <1>8, <1>9

\* The types are kept by a purchase that begins.
LEMMA BeginsTyped ==
    ASSUME Typed, NEW h \in Handler, Begins(h)
    PROVE  Typed'
  <1>1. run[h].key \in Key
    BY DEF Begins
  <1>2. /\ catalog' \in CatalogType /\ placed' \in Seq(OrderType)
        /\ \A o \in DOMAIN placed' : placed'[o].queued => placed'[o].provider = "sumistore"
        /\ shown' \in [BotKey -> Nat] /\ terms' \in TermsType /\ runs' \in [Key -> Nat]
        /\ raced' \subseteq Key
    BY DEF Begins, Typed
  <1>3. CASE product' \in ProductType /\ inv' = inv /\ \E code \in Reason : NotSold(h, code)
    <2>1. PICK code \in Reason : NotSold(h, code)
      BY <1>3
    <2>2. /\ wallet' \in [Customer -> Nat] /\ RequestTyped(request') /\ debit' = debit
          /\ Ended(h, code)
      BY <1>1, <2>1, NotSoldTyped
    <2>3. debit' \in [Key -> Nat]
      BY <2>2 DEF Typed
    <2>4. InvTyped(inv')
      BY <1>3, TypedTable
    <2>5. code \in Reason \cup {"completed"}
      OBVIOUS
    <2>6. IsFcn(run') /\ DOMAIN run' = Handler /\ \A g \in Handler : RunTyped(run'[g])
      BY <1>1, <2>2, <2>5, EndedStep
    <2> QED BY <1>2, <1>3, <2>2, <2>3, <2>4, <2>6, TypedFrom
  <1>4. ASSUME NEW src, NEW q, SaleSound(h, src, q), Proceed(h, src, q), src.need = 0
        PROVE  Typed'
    <2> PICK p, plan, orders, paid, route :
          p = src.p /\ plan = src.plan /\ orders = placed /\ paid = NothingPaid /\ route = q.route
      OBVIOUS
    <2>1. CanSell(h, p, plan, orders, paid, route, q)
      BY <1>1, <1>4, RowsCanSell
    <2>2. Complete(h, p, plan, orders, paid, route, q)
      BY <1>4 DEF Proceed
    <2>3. /\ InvTyped(inv') /\ product' \in ProductType /\ wallet' \in [Customer -> Nat]
          /\ debit' \in [Key -> Nat] /\ RequestTyped(request') /\ Ended(h, "completed")
      BY <2>1, <2>2, CompleteTyped
    <2>4. IsFcn(run') /\ DOMAIN run' = Handler /\ \A g \in Handler : RunTyped(run'[g])
      <3>1. PICK code : code = "completed"
        OBVIOUS
      <3>2. code \in Reason \cup {"completed"} /\ Ended(h, code)
        BY <2>3, <3>1
      <3> QED BY <1>1, <3>2, EndedStep
    <2> QED BY <1>2, <2>3, <2>4, TypedFrom
  <1>5. ASSUME NEW src, NEW q, SaleSound(h, src, q), Proceed(h, src, q), src.need # 0
        PROVE  Typed'
    <2>1. /\ run' = [run EXCEPT ![h] =
                      [pc |-> "buying", key |-> run[h].key, p |-> src.p,
                       plan |-> src.plan, paid |-> NothingPaid, quote |-> q]]
          /\ UNCHANGED <<product, inv, wallet, debit, request>>
      BY <1>5 DEF Proceed
    <2> PICK r : r = [pc |-> "buying", key |-> run[h].key, p |-> src.p,
                       plan |-> src.plan, paid |-> NothingPaid, quote |-> q]
      OBVIOUS
    <2>2. SourcesSound(src, run[h].key) /\ QuoteTyped(q)
      BY <1>5 DEF SaleSound
    <2>3. src.p \in ProductType /\ PlanTyped(src.plan)
      BY <2>2 DEF SourcesSound
    <2>4. IsFcn(NothingPaid)
      BY DEF NothingPaid, IsFcn
    <2>5. /\ r.pc = "buying" /\ r.key = run[h].key /\ r.p = src.p /\ r.plan = src.plan
          /\ r.paid = NothingPaid /\ r.quote = q
      OBVIOUS
    <2>6. RunTyped(r)
      BY <1>1, <2>2, <2>3, <2>4, <2>5 DEF RunTyped
    <2>7. run' = [run EXCEPT ![h] = r]
      BY <2>1
    <2>8. IsFcn(run') /\ DOMAIN run' = Handler /\ \A g \in Handler : RunTyped(run'[g])
      BY <2>6, <2>7, RunStep
    <2>9. /\ product' \in ProductType /\ wallet' \in [Customer -> Nat] /\ debit' \in [Key -> Nat]
          /\ RequestTyped(request')
      BY <2>1 DEF Typed, RequestTyped
    <2>10. InvTyped(inv')
      BY <2>1, TypedTable
    <2> QED BY <1>2, <2>8, <2>9, <2>10, TypedFrom
  <1> QED BY <1>3, <1>4, <1>5 DEF Begins

\* What is kept of a purchase is stored as rows.
LEMMA KeptTyped ==
    ASSUME Typed, NEW plan, PlanTyped(plan), NEW orders \in Seq(OrderType), NEW paid,
           Bought(plan, orders, paid)
    PROVE  InvTyped(Kept(plan, orders, paid))
  <1> DEFINE goods == {g \in Goods(plan, paid) : ~IsHeld(AccountOf(paid, g))}
             row == [g \in goods |-> Row(AccountOf(paid, g), orders[paid[g[1]]].cost, "available")]
  <1>1. PICK id : Files(Kept(plan, orders, paid), inv, goods, row, id)
    BY KeptFiles
  <1>2. \A g \in goods : row[g] \in RowType /\ (row[g].key # None <=> row[g].status = "sold")
    <2> SUFFICES ASSUME NEW g \in goods
                 PROVE  row[g] \in RowType /\ (row[g].key # None <=> row[g].status = "sold")
      OBVIOUS
    <2>1. g \in Goods(plan, paid)
      OBVIOUS
    <2>2. AccountOf(paid, g) \in Nat \X Nat /\ orders[paid[g[1]]].cost \in Nat
      BY <2>1, AccountOfType
    <2>3. PICK a, c : a = AccountOf(paid, g) /\ c = orders[paid[g[1]]].cost
      OBVIOUS
    <2>4. a \in Account \cup (Nat \X Nat) /\ c \in Nat
      BY <2>2, <2>3
    <2>5. PICK w : w = Row(a, c, "available")
      OBVIOUS
    <2>6. w \in RowType /\ w.key = None /\ w.status = "available"
      BY <2>4, <2>5, FreshRow
    <2>7. row[g] = w
      BY <2>3, <2>5
    <2> QED BY <2>6, <2>7
  <1>3. InvTyped(inv)
    BY TypedTable
  <1> HIDE DEF goods, row
  <1> QED BY <1>1, <1>2, <1>3, FilesTyped

\* The types are kept by a purchase from the suppliers.
LEMMA GoesOnTyped ==
    ASSUME Typed, Deals, NEW h \in Handler, GoesOn(h)
    PROVE  Typed'
  <1>1. /\ run[h].key \in Key /\ run[h].pc = "buying" /\ Deal(h)
        /\ catalog' \in CatalogType
        /\ shown' \in [BotKey -> Nat] /\ terms' \in TermsType /\ runs' \in [Key -> Nat]
        /\ raced' \subseteq Key
    BY DEF GoesOn, Typed, Deals, Buyers
  <1>2. run[h].p \in ProductType /\ PlanTyped(run[h].plan) /\ IsFcn(run[h].paid) /\ QuoteTyped(run[h].quote)
    BY <1>1, RunKey
  <1>3. PICK orders, paid :
          /\ Buys(h, orders, paid)
          /\ \/ PartBought(h, orders, paid) \/ KeptAll(h, orders, paid)
             \/ Undone(h, orders, paid) \/ SoldAll(h, orders, paid)
    BY DEF GoesOn
  <1>4. /\ orders \in Seq(OrderType) /\ Bought(run[h].plan, orders, paid)
        /\ \A o \in DOMAIN orders : orders[o].queued => orders[o].provider = "sumistore"
    BY <1>3 DEF Buys
  <1>5. ASSUME Relabelled(placed', orders, OrdersOf(paid))
        PROVE  /\ placed' \in Seq(OrderType)
               /\ \A o \in DOMAIN placed' : placed'[o].queued => placed'[o].provider = "sumistore"
    BY <1>4, <1>5 DEF Relabelled
  <1>6. CASE PartBought(h, orders, paid)
    <2>1. run' = [run EXCEPT ![h].paid = paid] /\ placed' = orders
          /\ UNCHANGED <<product, inv, wallet, debit, request>>
      BY <1>6 DEF PartBought
    <2> PICK r : r = [run[h] EXCEPT !.paid = paid]
      OBVIOUS
    <2>2. run[h] = [pc |-> "buying", key |-> run[h].key, p |-> run[h].p, plan |-> run[h].plan,
                    paid |-> run[h].paid, quote |-> run[h].quote]
      BY <1>1 DEF Typed, RunTyped, Rest
    <2> PICK key, p, plan, quote : key = run[h].key /\ p = run[h].p /\ plan = run[h].plan
                                   /\ quote = run[h].quote
      OBVIOUS
    <2>3. r = [pc |-> "buying", key |-> key, p |-> p, plan |-> plan, paid |-> paid, quote |-> quote]
      BY <2>2
    <2>4. /\ r.pc = "buying" /\ r.key = key /\ r.p = p /\ r.plan = plan
          /\ r.paid = paid /\ r.quote = quote
      BY <2>3
    <2>5. IsFcn(paid)
      BY <1>4 DEF Bought
    <2>6. RunTyped(r)
      BY <1>1, <1>2, <2>3, <2>4, <2>5 DEF RunTyped
    <2>7. run' = [run EXCEPT ![h] = r]
      BY <2>1
    <2>8. IsFcn(run') /\ DOMAIN run' = Handler /\ \A g \in Handler : RunTyped(run'[g])
      BY <2>6, <2>7, RunStep
    <2>9. /\ product' \in ProductType /\ wallet' \in [Customer -> Nat] /\ debit' \in [Key -> Nat]
          /\ RequestTyped(request')
      BY <2>1 DEF Typed, RequestTyped
    <2>10. InvTyped(inv')
      BY <2>1, TypedTable
    <2>11. /\ placed' \in Seq(OrderType)
           /\ \A o \in DOMAIN placed' : placed'[o].queued => placed'[o].provider = "sumistore"
      BY <1>4, <2>1
    <2> QED BY <1>1, <2>8, <2>9, <2>10, <2>11, TypedFrom
  <1>7. CASE KeptAll(h, orders, paid)
    <2>1. PICK code \in Reason : NotSold(h, code)
      BY <1>7 DEF KeptAll
    <2>2. /\ inv' = Kept(run[h].plan, orders, paid) /\ placed' = Landed(orders, OrdersOf(paid))
          /\ product' \in ProductType
      BY <1>7 DEF KeptAll
    <2>3. /\ wallet' \in [Customer -> Nat] /\ RequestTyped(request') /\ debit' = debit
          /\ Ended(h, code)
      BY <1>1, <2>1, NotSoldTyped
    <2>4. debit' \in [Key -> Nat]
      BY <2>3 DEF Typed
    <2>5. InvTyped(inv')
      BY <1>2, <1>4, <2>2, KeptTyped
    <2>6. code \in Reason \cup {"completed"}
      OBVIOUS
    <2>7. IsFcn(run') /\ DOMAIN run' = Handler /\ \A g \in Handler : RunTyped(run'[g])
      BY <1>1, <2>3, <2>6, EndedStep
    <2>8. Relabelled(placed', orders, OrdersOf(paid))
      BY <1>4, <2>2, LandedFacts
    <2>9. /\ placed' \in Seq(OrderType)
          /\ \A o \in DOMAIN placed' : placed'[o].queued => placed'[o].provider = "sumistore"
      BY <1>5, <2>8
    <2> QED BY <1>1, <2>2, <2>3, <2>4, <2>5, <2>7, <2>9, TypedFrom
  <1>8. CASE Undone(h, orders, paid)
    <2>1. /\ placed' = Adrift(orders, OrdersOf(paid)) /\ Ended(h, "exception")
          /\ UNCHANGED <<product, inv, wallet, debit, request>>
      BY <1>8 DEF Undone
    <2>2. PICK code : code = "exception"
      OBVIOUS
    <2>3. code \in Reason \cup {"completed"} /\ Ended(h, code)
      BY <2>1, <2>2 DEF Reason
    <2>4. IsFcn(run') /\ DOMAIN run' = Handler /\ \A g \in Handler : RunTyped(run'[g])
      BY <1>1, <2>3, EndedStep
    <2>5. Relabelled(placed', orders, OrdersOf(paid))
      BY <1>4, <2>1, AdriftFacts
    <2>6. /\ placed' \in Seq(OrderType)
          /\ \A o \in DOMAIN placed' : placed'[o].queued => placed'[o].provider = "sumistore"
      BY <1>5, <2>5
    <2>7. /\ product' \in ProductType /\ wallet' \in [Customer -> Nat] /\ debit' \in [Key -> Nat]
          /\ RequestTyped(request')
      BY <2>1 DEF Typed, RequestTyped
    <2>8. InvTyped(inv')
      BY <2>1, TypedTable
    <2> QED BY <1>1, <2>4, <2>6, <2>7, <2>8, TypedFrom
  <1>9. CASE SoldAll(h, orders, paid)
    <2> PICK p, plan, route, quote :
          /\ p = run[h].p /\ plan = run[h].plan
          /\ route = FinalPrices(h, orders, paid) /\ quote = run[h].quote
      OBVIOUS
    <2>1. CanSell(h, p, plan, orders, paid, route, quote)
      BY <1>1, <1>3, <1>9, PartsCanSell
    <2>2. Complete(h, p, plan, orders, paid, route, quote)
      BY <1>9 DEF SoldAll
    <2>3. /\ InvTyped(inv') /\ product' \in ProductType /\ wallet' \in [Customer -> Nat]
          /\ debit' \in [Key -> Nat] /\ RequestTyped(request') /\ Ended(h, "completed")
      BY <2>1, <2>2, CompleteTyped
    <2>4. IsFcn(run') /\ DOMAIN run' = Handler /\ \A g \in Handler : RunTyped(run'[g])
      <3>1. PICK code : code = "completed"
        OBVIOUS
      <3>2. code \in Reason \cup {"completed"} /\ Ended(h, code)
        BY <2>3, <3>1
      <3> QED BY <1>1, <3>2, EndedStep
    <2>5. placed' = Landed(orders, OrdersOf(paid))
      BY <1>9 DEF SoldAll
    <2>6. Relabelled(placed', orders, OrdersOf(paid))
      BY <1>4, <2>5, LandedFacts
    <2>7. /\ placed' \in Seq(OrderType)
          /\ \A o \in DOMAIN placed' : placed'[o].queued => placed'[o].provider = "sumistore"
      BY <1>5, <2>6
    <2> QED BY <1>1, <2>3, <2>4, <2>7, TypedFrom
  <1> QED BY <1>3, <1>6, <1>7, <1>8, <1>9

\* A purchase is claimed by a handler.
LEMMA StartTyped ==
    ASSUME Typed, NEW h \in Handler, NEW k \in Key, Start(h, k)
    PROVE  /\ IsFcn(run') /\ DOMAIN run' = Handler /\ \A g \in Handler : RunTyped(run'[g])
           /\ run'[h].pc = "claimed" /\ run'[h].key = k
           /\ \A g \in Handler \ {h} : run'[g] = run[g]
           /\ run[h].pc = "idle"
           /\ runs' \in [Key -> Nat] /\ raced' \subseteq Key
           /\ runs'[k] = runs[k] + 1 /\ \A j \in Key \ {k} : runs'[j] = runs[j]
  <1>1. PICK r : r = [pc |-> "claimed", key |-> k]
    OBVIOUS
  <1>2. r.pc = "claimed" /\ r.key = k /\ run' = [run EXCEPT ![h] = r]
    BY <1>1 DEF Start
  <1>3. RunTyped(r)
    BY <1>1, <1>2 DEF RunTyped
  <1>4. /\ IsFcn(run') /\ DOMAIN run' = Handler /\ \A g \in Handler : RunTyped(run'[g])
        /\ run'[h] = r /\ \A g \in Handler \ {h} : run'[g] = run[g]
    BY <1>2, <1>3, RunStep
  <1>5. runs \in [Key -> Nat] /\ raced \subseteq Key
    BY DEF Typed
  <1>6. runs' = [runs EXCEPT ![k] = runs[k] + 1]
    BY DEF Start
  <1>7. raced' \subseteq Key
    <2> HIDE DEF Key
    <2> QED BY <1>5 DEF Start
  <1>8. runs[k] + 1 \in Nat
    <2> HIDE DEF Key
    <2> QED BY <1>5
  <1>9. runs' \in [Key -> Nat] /\ runs'[k] = runs[k] + 1 /\ \A j \in Key \ {k} : runs'[j] = runs[j]
    <2> HIDE DEF Key
    <2> QED BY <1>5, <1>6, <1>8
  <1>10. run[h].pc = "idle"
    BY DEF Start
  <1> QED BY <1>2, <1>4, <1>7, <1>9, <1>10

LEMMA CreateOrderTyped ==
    ASSUME Typed, NEW h \in Handler, NEW k \in ApiKey, CreateOrder(h, k)
    PROVE  Typed'
  <1>1. k \in Key /\ Start(h, k)
    BY DEF CreateOrder, Key
  <1>2. /\ IsFcn(run') /\ DOMAIN run' = Handler /\ \A g \in Handler : RunTyped(run'[g])
        /\ runs' \in [Key -> Nat] /\ raced' \subseteq Key
    BY <1>1, StartTyped
  <1>3. UNCHANGED <<product, catalog, placed, inv, wallet, debit, shown, loaded, terms, left>>
    BY DEF CreateOrder
  <1>4. request[k] \in ApiType
    BY DEF Typed
  <1>5. PICK v \in ApiType : request' = [request EXCEPT ![k] = v]
    <2>1. CASE request' = [request EXCEPT ![k] =
                            [status |-> "processing", error |-> None, fresh |-> TRUE]]
      <3>1. [status |-> "processing", error |-> None, fresh |-> TRUE] \in ApiType
        BY DEF ApiType, Reason
      <3> QED BY <2>1, <3>1
    <2>2. CASE request' = [request EXCEPT ![k] = Reclaimed(request[k])]
      <3>1. Reclaimed(request[k]) \in ApiType
        BY <1>4 DEF Reclaimed, ApiType, Reason
      <3> QED BY <2>2, <3>1
    <2> QED BY <2>1, <2>2 DEF CreateOrder
  <1>6. RequestTyped(request')
    BY <1>5, RequestStep
  <1>7. /\ product' \in ProductType /\ catalog' \in CatalogType
        /\ placed' \in Seq(OrderType)
        /\ \A o \in DOMAIN placed' : placed'[o].queued => placed'[o].provider = "sumistore"
        /\ wallet' \in [Customer -> Nat] /\ debit' \in [Key -> Nat]
        /\ shown' \in [BotKey -> Nat] /\ terms' \in TermsType
    BY <1>3 DEF Typed
  <1>8. InvTyped(inv')
    BY <1>3, TypedTable
  <1> QED BY <1>2, <1>6, <1>7, <1>8, TypedFrom

LEMMA PressPayTyped ==
    ASSUME Typed, NEW h \in Handler, NEW k \in BotKey \cup QrKey, PressBuy(h, k) \/ Pay(h, k)
    PROVE  Typed'
  <1>1. k \in Key /\ Start(h, k)
    BY DEF PressBuy, Pay, Key
  <1>2. /\ IsFcn(run') /\ DOMAIN run' = Handler /\ \A g \in Handler : RunTyped(run'[g])
        /\ runs' \in [Key -> Nat] /\ raced' \subseteq Key
    BY <1>1, StartTyped
  <1>3. UNCHANGED <<product, catalog, placed, inv, wallet, debit, shown, request, loaded, terms, left>>
    BY DEF PressBuy, Pay
  <1>7. /\ product' \in ProductType /\ catalog' \in CatalogType
        /\ placed' \in Seq(OrderType)
        /\ \A o \in DOMAIN placed' : placed'[o].queued => placed'[o].provider = "sumistore"
        /\ wallet' \in [Customer -> Nat] /\ debit' \in [Key -> Nat]
        /\ shown' \in [BotKey -> Nat] /\ terms' \in TermsType
    BY <1>3 DEF Typed
  <1>8. InvTyped(inv')
    BY <1>3, TypedTable
  <1>9. RequestTyped(request')
    BY <1>3 DEF Typed, RequestTyped
  <1> QED BY <1>2, <1>7, <1>8, <1>9, TypedFrom

\* Steps that write only the row of a key.
LEMMA RequestOnlyTyped ==
    ASSUME Typed, RequestTyped(request'),
           UNCHANGED <<product, catalog, placed, inv, wallet, debit, shown, run, runs, raced>>,
           terms' \in TermsType
    PROVE  Typed'
  <1>1. /\ product' \in ProductType /\ catalog' \in CatalogType
        /\ placed' \in Seq(OrderType)
        /\ \A o \in DOMAIN placed' : placed'[o].queued => placed'[o].provider = "sumistore"
        /\ wallet' \in [Customer -> Nat] /\ debit' \in [Key -> Nat]
        /\ shown' \in [BotKey -> Nat]
        /\ IsFcn(run') /\ DOMAIN run' = Handler /\ \A g \in Handler : RunTyped(run'[g])
        /\ runs' \in [Key -> Nat] /\ raced' \subseteq Key
    BY DEF Typed
  <1>2. InvTyped(inv')
    BY TypedTable
  <1> QED BY <1>1, <1>2, TypedFrom

LEMMA GrowStaleTyped ==
    ASSUME Typed, NEW k \in ApiKey, GrowStale(k)
    PROVE  Typed'
  <1>1. request[k] \in ApiType
    BY DEF Typed
  <1>2. PICK v : v = [request[k] EXCEPT !.fresh = FALSE]
    OBVIOUS
  <1>3. v \in ApiType
    BY <1>1, <1>2 DEF ApiType
  <1>4. request' = [request EXCEPT ![k] = v]
    BY <1>2 DEF GrowStale
  <1>5. RequestTyped(request')
    BY <1>3, <1>4, RequestStep
  <1>6. terms' \in TermsType
    BY DEF GrowStale, Typed
  <1> QED BY <1>5, <1>6, RequestOnlyTyped DEF GrowStale

\* The quote of the checkout.
LEMMA CheckoutFacts ==
    ASSUME Typed, NEW k \in Key
    PROVE  /\ QuoteTyped(CheckoutQuote(k))
           /\ CheckoutQuote(k).pricing \in PricingType /\ CheckoutQuote(k).total \in Nat
  <1>1. product \in ProductType /\ catalog \in CatalogType
    BY DEF Typed
  <1>2. PICK n : n = Body[k].quantity
    OBVIOUS
  <1>3. n \in Nat
    BY <1>2, KeyAssumption
  <1>4. PICK rows : rows = Reserve(n)
    OBVIOUS
  <1>5. rows \subseteq Available /\ n - Cardinality(rows) \in Nat
    BY <1>3, <1>4, ReserveFacts
  <1>6. rows \in SUBSET Rows
    BY <1>5 DEF Available
  <1>7. PICK up, need : up = (IF product.external THEN Provider ELSE {}) /\ need = n - Cardinality(rows)
    OBVIOUS
  <1>8. up \in SUBSET Provider /\ need \in Int
    BY <1>5, <1>7
  <1>9. PICK plan : plan = PlanRoutes(RoutesOf(up), need)
    OBVIOUS
  <1>10. PlanTyped(plan)
    BY <1>1, <1>8, <1>9, PlanFacts
  <1>11. PICK q, p : q = Quote(p, k, rows, plan) /\ p = product
    OBVIOUS
  <1>12. QuoteTyped(q)
    BY <1>1, <1>6, <1>10, <1>11, QuoteFacts
  <1>13. q = CheckoutQuote(k)
    BY <1>2, <1>4, <1>7, <1>9, <1>11 DEF CheckoutQuote, CheckoutPlan
  <1> QED BY <1>12, <1>13 DEF QuoteTyped

LEMMA ShowTotalTyped ==
    ASSUME Typed, NEW k \in BotKey, ShowTotal(k)
    PROVE  Typed'
  <1>1. k \in Key
    BY DEF Key
  <1>2. PICK n : n = CheckoutQuote(k).total
    OBVIOUS
  <1>3. n \in Nat
    BY <1>1, <1>2, CheckoutFacts
  <1>4. shown \in [BotKey -> Nat] /\ shown' = [shown EXCEPT ![k] = n]
    BY <1>2 DEF ShowTotal, Typed
  <1>5. shown' \in [BotKey -> Nat]
    BY <1>3, <1>4
  <1>6. UNCHANGED <<product, catalog, placed, inv, wallet, debit, request, loaded, terms,
                   run, runs, raced, left>>
    BY DEF ShowTotal
  <1>7. /\ product' \in ProductType /\ catalog' \in CatalogType
        /\ placed' \in Seq(OrderType)
        /\ \A o \in DOMAIN placed' : placed'[o].queued => placed'[o].provider = "sumistore"
        /\ wallet' \in [Customer -> Nat] /\ debit' \in [Key -> Nat] /\ terms' \in TermsType
        /\ IsFcn(run') /\ DOMAIN run' = Handler /\ \A g \in Handler : RunTyped(run'[g])
        /\ runs' \in [Key -> Nat] /\ raced' \subseteq Key
    BY <1>6 DEF Typed
  <1>8. InvTyped(inv')
    BY <1>6, TypedTable
  <1>9. RequestTyped(request')
    BY <1>6 DEF Typed, RequestTyped
  <1> QED BY <1>5, <1>7, <1>8, <1>9, TypedFrom

LEMMA CreateRequestTyped ==
    ASSUME Typed, NEW k \in QrKey, CreateRequest(k)
    PROVE  Typed'
  <1>1. k \in Key
    BY DEF Key
  <1>2. PICK a, pr, b : a = CheckoutQuote(k).total /\ pr = CheckoutQuote(k).pricing /\ b = product.locked
    OBVIOUS
  <1>3. a \in Nat /\ pr \in PricingType
    BY <1>1, <1>2, CheckoutFacts
  <1>4. b \in BOOLEAN
    BY <1>2 DEF Typed, ProductType
  <1>5. PICK v : v = [status |-> "open", amount |-> a, pricing |-> pr, locked |-> b]
    OBVIOUS
  <1>6. v \in QrType
    BY <1>3, <1>4, <1>5 DEF QrType
  <1>7. request' = [request EXCEPT ![k] = v]
    BY <1>2, <1>5 DEF CreateRequest
  <1>8. RequestTyped(request')
    BY <1>6, <1>7, RequestStep
  <1>9. terms' \in TermsType
    BY DEF CreateRequest, Typed
  <1> QED BY <1>8, <1>9, RequestOnlyTyped DEF CreateRequest

\* Lines of a file are stored, or an order is recovered: new rows for D, that row gives.
Stores(D, row) == \E id : Files(inv', inv, D, row, id)

LEMMA StoredFiles ==
    ASSUME Typed, NEW accounts, IsFiniteSet(accounts), NEW place \in Lines(accounts),
           NEW cost, NEW again, inv' = Stored(place, cost, again)
    PROVE  Stores(accounts, [a \in accounts |-> [Row(a, cost, "available") EXCEPT !.again = again]])
  <1>1. /\ place \in [accounts -> 1 .. Cardinality(accounts)]
        /\ \A a, b \in accounts : place[a] = place[b] => a = b
    BY DEF Lines
  <1>2. DOMAIN place = accounts /\ place = [a \in accounts |-> place[a]]
        /\ \A a \in accounts : place[a] \in 1 .. Cardinality(accounts)
    BY <1>1
  <1>3. \A a \in accounts : place[a] \in Nat \ {0}
    <2>1. Cardinality(accounts) \in Nat
      BY FS_CardinalityType
    <2> PICK n : n = Cardinality(accounts)
      OBVIOUS
    <2> QED BY <1>2, <2>1
  <1>4. PICK row : row = [a \in accounts |-> [Row(a, cost, "available") EXCEPT !.again = again]]
    OBVIOUS
  <1>5. inv' = Filed(inv, place, row)
    BY <1>2, <1>4 DEF Stored
  <1>6. DOMAIN inv \subseteq Nat \ {0} /\ IsFiniteSet(DOMAIN inv)
    BY DEF Typed, Rows, Positive
  <1>7. \E id : Files(Filed(inv, place, row), inv, accounts, row, id)
    BY <1>1, <1>2, <1>3, <1>6, FiledFiles
  <1> QED BY <1>4, <1>5, <1>7 DEF Stores

LEMMA StoresTyped ==
    ASSUME Typed, NEW D, NEW row, Stores(D, row),
           \A a \in D : row[a] \in RowType /\ (row[a].key # None <=> row[a].status = "sold")
    PROVE  InvTyped(inv')
  <1>1. PICK id : Files(inv', inv, D, row, id)
    BY DEF Stores
  <1>2. InvTyped(inv)
    BY TypedTable
  <1> QED BY <1>1, <1>2, FilesTyped

\* A row of the account a that waits for a customer.
Waits(w, a) ==
    w \in RowType /\ w.key = None /\ w.status = "available" /\ w.acct = a /\ ~w.rule

\* Rows that an import files.
LEMMA ImportedRow ==
    ASSUME NEW a \in Account, NEW cost \in Nat, NEW again \in BOOLEAN,
           NEW w, w = [Row(a, cost, "available") EXCEPT !.again = again]
    PROVE  Waits(w, a)
  BY KeyAssumption DEF Row, RowType, Waits

\* The rows of an order that is recovered.
LEMMA RecoveredRow ==
    ASSUME NEW o \in Nat, NEW j \in Nat, NEW cost \in Nat,
           NEW w, w = Row(<<o, j>>, cost, "available")
    PROVE  Waits(w, <<o, j>>)
  <1>1. PICK a : a = <<o, j>>
    OBVIOUS
  <1>2. a \in Account \cup (Nat \X Nat)
    BY <1>1
  <1>3. w = Row(a, cost, "available")
    BY <1>1
  <1> QED BY <1>1, <1>2, <1>3 DEF Row, RowType, Waits

LEMMA RecoverFiles ==
    ASSUME Typed, NEW o \in DOMAIN placed, RecoverOrder(o)
    PROVE  LET D == 1 .. placed[o].quantity
           IN Stores(D, [j \in D |-> Row(<<o, j>>, placed[o].cost, "available")])
  <1> PICK n : n = placed[o].quantity
    OBVIOUS
  <1>1. placed[o] \in OrderType
    BY DEF Typed
  <1>2. n \in Nat
    BY <1>1 DEF OrderType, Positive
  <1> PICK D : D = 1 .. n
    OBVIOUS
  <1>3. IsFiniteSet(D) /\ \A j \in D : j \in Nat \ {0}
    BY <1>2, FS_Interval
  <1>4. PICK place : place = [j \in D |-> j]
    OBVIOUS
  <1>5. place = [j \in D |-> place[j]]
    BY <1>4
  <1>6. (\A j \in D : place[j] \in Nat \ {0}) /\ \A i, j \in D : place[i] = place[j] => i = j
    BY <1>3, <1>4
  <1>7. PICK row : row = [j \in D |-> Row(<<o, j>>, placed[o].cost, "available")]
    OBVIOUS
  <1>8. inv' = Filed(inv, place, row)
    BY <1>4, <1>7 DEF RecoverOrder
  <1>9. DOMAIN inv \subseteq Nat \ {0} /\ IsFiniteSet(DOMAIN inv)
    BY DEF Typed, Rows, Positive
  <1>10. \E id : Files(Filed(inv, place, row), inv, D, row, id)
    BY ONLY <1>3, <1>5, <1>6, <1>9, FiledFiles
  <1> QED BY <1>7, <1>8, <1>10 DEF Stores

LEMMA RecoverOrderTyped ==
    ASSUME Typed, NEW o \in DOMAIN placed, RecoverOrder(o)
    PROVE  /\ Typed'
           /\ placed' \in Seq(OrderType) /\ DOMAIN placed' = DOMAIN placed
           /\ \A s \in DOMAIN placed : s # o => placed'[s] = placed[s]
           /\ ~placed'[o].adrift /\ ~placed'[o].queued
           /\ placed'[o].quantity = placed[o].quantity
  <1>1. placed \in Seq(OrderType) /\ placed[o] \in OrderType
    BY DEF Typed
  <1>2. PICK v : v = [placed[o] EXCEPT !.adrift = FALSE, !.queued = FALSE]
    OBVIOUS
  <1>3. v \in OrderType /\ ~v.adrift /\ ~v.queued /\ v.provider = placed[o].provider
        /\ v.quantity = placed[o].quantity
    BY <1>1, <1>2 DEF OrderType
  <1>4. placed' = [placed EXCEPT ![o] = v]
    BY <1>2 DEF RecoverOrder
  <1>5. placed' \in Seq(OrderType) /\ DOMAIN placed' = DOMAIN placed
    BY <1>1, <1>3, <1>4
  <1>6. placed'[o] = v /\ \A s \in DOMAIN placed : s # o => placed'[s] = placed[s]
    BY <1>1, <1>4
  <1>7. \A s \in DOMAIN placed' : placed'[s].queued => placed'[s].provider = "sumistore"
    BY <1>3, <1>5, <1>6 DEF Typed
  <1>8. InvTyped(inv')
    <2> PICK D, row : /\ D = 1 .. placed[o].quantity
                      /\ row = [j \in D |-> Row(<<o, j>>, placed[o].cost, "available")]
      OBVIOUS
    <2>1. Stores(D, row)
      BY RecoverFiles
    <2>2. ASSUME NEW j \in D
          PROVE  row[j] \in RowType /\ (row[j].key # None <=> row[j].status = "sold")
      <3>1. placed[o].quantity \in Nat /\ placed[o].cost \in Nat
        BY <1>1, PriceAssumption DEF OrderType, Positive
      <3>2. j \in Nat
        BY <3>1
      <3>3. o \in Nat
        BY <1>1
      <3>4. PICK w, c : w = Row(<<o, j>>, c, "available") /\ c = placed[o].cost
        OBVIOUS
      <3>5. w \in RowType /\ w.key = None /\ w.status = "available"
        BY <3>1, <3>2, <3>3, <3>4, RecoveredRow DEF Waits
      <3>6. row[j] = w
        BY <3>4
      <3> QED BY <3>5, <3>6
    <2> QED BY <2>1, <2>2, StoresTyped
  <1>9. UNCHANGED <<product, catalog, wallet, debit, shown, request, loaded, terms, run,
                   runs, raced, left>>
    BY DEF RecoverOrder
  <1>10. /\ product' \in ProductType /\ catalog' \in CatalogType
         /\ wallet' \in [Customer -> Nat] /\ debit' \in [Key -> Nat] /\ terms' \in TermsType
         /\ shown' \in [BotKey -> Nat]
         /\ IsFcn(run') /\ DOMAIN run' = Handler /\ \A g \in Handler : RunTyped(run'[g])
         /\ runs' \in [Key -> Nat] /\ raced' \subseteq Key
    BY <1>9 DEF Typed
  <1>11. RequestTyped(request')
    BY <1>9 DEF Typed, RequestTyped
  <1>12. Typed'
    BY <1>5, <1>7, <1>8, <1>10, <1>11, TypedFrom
  <1> QED BY <1>3, <1>5, <1>6, <1>12

\* Steps that write only the table and the product.
LEMMA TableOnlyTyped ==
    ASSUME Typed, InvTyped(inv'), product' \in ProductType, terms' \in TermsType,
           UNCHANGED <<catalog, placed, wallet, debit, shown, request, run, runs, raced>>
    PROVE  Typed'
  <1>1. /\ catalog' \in CatalogType
        /\ placed' \in Seq(OrderType)
        /\ \A o \in DOMAIN placed' : placed'[o].queued => placed'[o].provider = "sumistore"
        /\ wallet' \in [Customer -> Nat] /\ debit' \in [Key -> Nat]
        /\ shown' \in [BotKey -> Nat]
        /\ IsFcn(run') /\ DOMAIN run' = Handler /\ \A g \in Handler : RunTyped(run'[g])
        /\ runs' \in [Key -> Nat] /\ raced' \subseteq Key
    BY DEF Typed
  <1>2. RequestTyped(request')
    BY DEF Typed, RequestTyped
  <1> QED BY <1>1, <1>2, TypedFrom

\* An import: accounts the shop does not hold, or again on purpose.
Imports(D, cost, again) ==
    /\ D \subseteq Account /\ cost \in Nat /\ again \in BOOLEAN
    /\ Stores(D, [a \in D |-> [Row(a, cost, "available") EXCEPT !.again = again]])
    /\ \A a \in D : IsHeld(a) => again /\ \A i \in Available : inv[i].acct # a
    /\ product' \in ProductType
    /\ UNCHANGED <<catalog, placed, wallet, debit, shown, request, terms, run, runs, raced>>

LEMMA ImportAgainImports ==
    ASSUME Typed, NEW a \in Account, ImportAgain(a)
    PROVE  \E D, cost, again : Imports(D, cost, again)
  <1>1. PICK D, cost, again : D = {a} /\ cost = product.cost /\ again = TRUE
    OBVIOUS
  <1>2. PICK place \in Lines(D) : inv' = Stored(place, cost, again)
    BY <1>1 DEF ImportAgain
  <1>3. IsFiniteSet(D)
    BY <1>1, FS_Singleton
  <1>4. Stores(D, [x \in D |-> [Row(x, cost, "available") EXCEPT !.again = again]])
    BY <1>2, <1>3, StoredFiles
  <1>5. product \in ProductType
    BY DEF Typed
  <1>6. cost \in Nat
    BY <1>1, <1>5 DEF ProductType, Positive
  <1>7. D \subseteq Account /\ again \in BOOLEAN /\ again
    BY <1>1
  <1>8. a \in Accepted({a}, TRUE)
    BY DEF ImportAgain, Accepted
  <1>9. \A x \in D : IsHeld(x) => again /\ \A i \in Available : inv[i].acct # x
    BY <1>1, <1>8 DEF Accepted
  <1>10. /\ product' \in ProductType
         /\ UNCHANGED <<catalog, placed, wallet, debit, shown, request, terms, run, runs, raced>>
    BY <1>5 DEF ImportAgain
  <1>11. Imports(D, cost, again)
    BY <1>4, <1>6, <1>7, <1>9, <1>10 DEF Imports
  <1> QED BY <1>11

LEMMA ImportBatchImports ==
    ASSUME Typed, NEW b \in Batch, ImportBatch(b)
    PROVE  \/ \E D, cost, again : Imports(D, cost, again)
           \/ UNCHANGED <<product, catalog, placed, inv, wallet, debit, shown, request, terms,
                          run, runs, raced>>
  <1>1. CASE ~product.active
    BY <1>1 DEF ImportBatch
  <1>2. CASE product.active
    <2>1. PICK D, cost, again :
             D = Accepted(Load[b].accounts, FALSE) /\ cost = Load[b].cost /\ again = FALSE
      OBVIOUS
    <2>2. PICK place \in Lines(D) : inv' = Stored(place, cost, again)
      BY <1>2, <2>1 DEF ImportBatch
    <2>3. D \in SUBSET Load[b].accounts /\ IsFiniteSet(Load[b].accounts)
          /\ Load[b].accounts \subseteq Account /\ cost \in Nat
      BY <2>1, AccountAssumption DEF Accepted
    <2>4. IsFiniteSet(D) /\ D \subseteq Account
      BY <2>3, FS_Subset
    <2>5. Stores(D, [x \in D |-> [Row(x, cost, "available") EXCEPT !.again = again]])
      BY <2>2, <2>4, StoredFiles
    <2>6. \A x \in D : ~IsHeld(x)
      BY <2>1 DEF Accepted
    <2>7. product' \in ProductType
      <3>1. product \in ProductType /\ Load[b].lock \in BOOLEAN
        BY AccountAssumption DEF Typed
      <3>2. product' = [product EXCEPT !.locked = product.locked \/ (Load[b].lock /\ product.external)]
        BY <1>2 DEF ImportBatch
      <3> QED BY <3>1, <3>2 DEF ProductType
    <2>8. again \in BOOLEAN
      BY <2>1
    <2>9. UNCHANGED <<catalog, placed, wallet, debit, shown, request, terms, run, runs, raced>>
      BY DEF ImportBatch
    <2>10. Imports(D, cost, again)
      BY <2>3, <2>4, <2>5, <2>6, <2>7, <2>8, <2>9 DEF Imports
    <2> QED BY <2>10
  <1> QED BY <1>1, <1>2

LEMMA ImportsTyped ==
    ASSUME Typed, NEW D, NEW cost, NEW again, Imports(D, cost, again)
    PROVE  Typed'
  <1>1. PICK row : row = [a \in D |-> [Row(a, cost, "available") EXCEPT !.again = again]]
    OBVIOUS
  <1>2. Stores(D, row) /\ D \subseteq Account /\ cost \in Nat /\ again \in BOOLEAN
    BY <1>1 DEF Imports
  <1>3. ASSUME NEW a \in D
        PROVE  row[a] \in RowType /\ (row[a].key # None <=> row[a].status = "sold")
    <2>1. a \in Account
      BY <1>2
    <2>2. PICK w : w = [Row(a, cost, "available") EXCEPT !.again = again]
      OBVIOUS
    <2>3. Waits(w, a)
      BY <1>2, <2>1, <2>2, ImportedRow
    <2> QED BY <1>1, <2>2, <2>3 DEF Waits
  <1>4. InvTyped(inv')
    BY <1>2, <1>3, StoresTyped
  <1>5. terms' \in TermsType
    BY DEF Imports, Typed
  <1> QED BY <1>4, <1>5, TableOnlyTyped DEF Imports

\* Rows are taken out of the stock.
Fewer ==
    /\ IsFcn(inv') /\ DOMAIN inv' = Rows
    /\ \A i \in Rows : inv'[i] = inv[i] \/
          /\ inv[i].status \in {"available", "withdrawn"}
          /\ \E s \in {"withdrawn", "deleted"} : inv'[i] = [inv[i] EXCEPT !.status = s]
    /\ product' \in ProductType
    /\ UNCHANGED <<catalog, placed, wallet, debit, shown, request, run, runs, raced>>

LEMMA FewerRows ==
    ASSUME Typed, Fewer, NEW i \in Rows
    PROVE  /\ inv'[i] \in RowType
           /\ inv'[i].key = inv[i].key /\ inv'[i].acct = inv[i].acct
           /\ inv'[i].amount = inv[i].amount /\ inv'[i].cost = inv[i].cost
           /\ (inv'[i].rule <=> inv[i].rule) /\ (inv'[i].again <=> inv[i].again)
           /\ \/ inv'[i].status = inv[i].status
              \/ /\ inv[i].status \in {"available", "withdrawn"} /\ inv[i].key = None
                 /\ inv'[i].status \in {"withdrawn", "deleted"}
  <1>1. inv[i] \in RowType /\ (inv[i].key # None <=> inv[i].status = "sold")
    BY DEF Typed
  <1>2. CASE inv'[i] = inv[i]
    BY <1>1, <1>2
  <1>3. ASSUME NEW s \in {"withdrawn", "deleted"}, inv'[i] = [inv[i] EXCEPT !.status = s],
               inv[i].status \in {"available", "withdrawn"}
        PROVE  /\ inv'[i] \in RowType
               /\ inv'[i].key = inv[i].key /\ inv'[i].acct = inv[i].acct
               /\ inv'[i].amount = inv[i].amount /\ inv'[i].cost = inv[i].cost
               /\ (inv'[i].rule <=> inv[i].rule) /\ (inv'[i].again <=> inv[i].again)
               /\ inv[i].key = None
               /\ inv'[i].status = s
    <2>1. inv[i].key = None
      BY <1>1, <1>3
    <2> QED BY <1>1, <1>3, <2>1 DEF RowType
  <1> QED BY <1>2, <1>3 DEF Fewer

LEMMA FewerTyped ==
    ASSUME Typed, Fewer, terms' \in TermsType
    PROVE  Typed'
  <1>1. IsFcn(inv') /\ DOMAIN inv' = Rows /\ Rows \subseteq Positive /\ IsFiniteSet(Rows)
    BY DEF Fewer, Typed
  <1>2. ASSUME NEW i \in Rows
        PROVE  inv'[i] \in RowType /\ (inv'[i].key # None <=> inv'[i].status = "sold")
    <2>1. inv[i].key # None <=> inv[i].status = "sold"
      BY DEF Typed
    <2>2. /\ inv'[i] \in RowType /\ inv'[i].key = inv[i].key
          /\ \/ inv'[i].status = inv[i].status
             \/ /\ inv[i].status \in {"available", "withdrawn"}
                /\ inv'[i].status \in {"withdrawn", "deleted"}
      BY FewerRows
    <2> QED BY <2>1, <2>2
  <1>3. InvTyped(inv')
    BY <1>1, <1>2 DEF InvTyped
  <1> QED BY <1>3, TableOnlyTyped DEF Fewer

LEMMA WithdrawFewer ==
    ASSUME Typed, Withdraw \/ Delete
    PROVE  Fewer /\ terms' = terms
  <1>1. product \in ProductType /\ IsFcn(inv)
    BY DEF Typed
  <1>2. PICK new : new = inv'
    OBVIOUS
  <1>3. ReleaseIfEmpty(product, new) \in ProductType
    BY <1>1, ReleaseTyped
  <1>4. product' \in ProductType
    BY <1>1, <1>2, <1>3 DEF Withdraw, Delete
  <1>5. CASE Withdraw
    <2>1. inv' = [i \in Rows |-> IF i \in Reserve(1) THEN [inv[i] EXCEPT !.status = "withdrawn"]
                                 ELSE inv[i]]
      BY <1>5 DEF Withdraw
    <2>2. \A i \in Reserve(1) : inv[i].status = "available"
      BY DEF Reserve, Available
    <2>3. IsFcn(inv') /\ DOMAIN inv' = Rows
      BY <2>1 DEF IsFcn
    <2>4. ASSUME NEW i \in Rows
          PROVE  inv'[i] = inv[i] \/
                   /\ inv[i].status \in {"available", "withdrawn"}
                   /\ \E s \in {"withdrawn", "deleted"} : inv'[i] = [inv[i] EXCEPT !.status = s]
      BY <2>1, <2>2
    <2> QED BY <1>4, <1>5, <2>3, <2>4 DEF Fewer, Withdraw
  <1>6. CASE Delete
    <2>1. PICK d \in Available : inv' = [inv EXCEPT ![d].status = "deleted"]
      BY <1>6 DEF Delete
    <2>2. d \in Rows /\ inv[d].status = "available"
      BY DEF Available
    <2>3. IsFcn(inv') /\ DOMAIN inv' = Rows
      BY <1>1, <2>1 DEF IsFcn, Rows
    <2>4. ASSUME NEW i \in Rows
          PROVE  inv'[i] = inv[i] \/
                   /\ inv[i].status \in {"available", "withdrawn"}
                   /\ \E s \in {"withdrawn", "deleted"} : inv'[i] = [inv[i] EXCEPT !.status = s]
      <3>1. CASE i = d
        <4>1. inv'[i] = [inv[i] EXCEPT !.status = "deleted"]
          BY <2>1, <3>1 DEF Rows
        <4> QED BY <2>2, <3>1, <4>1
      <3>2. CASE i # d
        BY <2>1, <3>2 DEF Rows
      <3> QED BY <3>1, <3>2
    <2> QED BY <1>4, <1>6, <2>3, <2>4 DEF Fewer, Delete
  <1> QED BY <1>5, <1>6

LEMMA DeleteProductFewer ==
    ASSUME Typed, DeleteProduct
    PROVE  Fewer /\ terms' \in TermsType
  <1> DEFINE named == \/ \E i \in Rows : inv[i].key # None
                      \/ \E k \in QrKey : request[k].status # None
             off(state) == IF ~named THEN "gone" ELSE IF state = "gone" THEN "gone" ELSE "off"
  <1>1. product \in ProductType /\ IsFcn(inv) /\ terms \in TermsType
    BY DEF Typed
  <1>2. product' \in ProductType
    BY <1>1 DEF DeleteProduct, ProductType
  <1>3. terms' = [terms EXCEPT !.archived = TRUE, !.coupon = off(terms.coupon), !.tier = off(terms.tier)]
    BY DEF DeleteProduct
  <1>4. off(terms.coupon) \in {"on", "off", "gone"} /\ off(terms.tier) \in {"on", "off", "gone"}
    OBVIOUS
  <1>5. terms' \in TermsType
    <2> PICK c, t : c = off(terms.coupon) /\ t = off(terms.tier)
      OBVIOUS
    <2>1. c \in {"on", "off", "gone"} /\ t \in {"on", "off", "gone"}
      BY <1>4
    <2> HIDE DEF off, named
    <2>2. terms' = [terms EXCEPT !.archived = TRUE, !.coupon = c, !.tier = t]
      BY <1>3
    <2> QED BY <1>1, <2>1, <2>2 DEF TermsType
  <1>6. inv' = [i \in Rows |->
                    IF inv[i].status = "available" \/ (~named /\ inv[i].status = "withdrawn")
                    THEN [inv[i] EXCEPT !.status = "deleted"] ELSE inv[i]]
    BY DEF DeleteProduct
  <1> HIDE DEF named
  <1>7. IsFcn(inv') /\ DOMAIN inv' = Rows
    BY <1>6 DEF IsFcn
  <1>8. ASSUME NEW i \in Rows
        PROVE  inv'[i] = inv[i] \/
                   /\ inv[i].status \in {"available", "withdrawn"}
                   /\ \E s \in {"withdrawn", "deleted"} : inv'[i] = [inv[i] EXCEPT !.status = s]
    BY <1>6
  <1> QED BY <1>2, <1>5, <1>7, <1>8 DEF Fewer, DeleteProduct

\* Steps of the administrator and the suppliers that write neither rows nor money.
Quiet ==
    /\ product' \in ProductType /\ catalog' \in CatalogType /\ terms' \in TermsType
    /\ UNCHANGED <<placed, inv, wallet, debit, shown, run, runs, raced>>

LEMMA QuietTyped ==
    ASSUME Typed, Quiet, RequestTyped(request')
    PROVE  Typed'
  <1>1. /\ product' \in ProductType /\ catalog' \in CatalogType /\ terms' \in TermsType
        /\ placed' \in Seq(OrderType)
        /\ \A o \in DOMAIN placed' : placed'[o].queued => placed'[o].provider = "sumistore"
        /\ wallet' \in [Customer -> Nat] /\ debit' \in [Key -> Nat]
        /\ shown' \in [BotKey -> Nat]
        /\ IsFcn(run') /\ DOMAIN run' = Handler /\ \A g \in Handler : RunTyped(run'[g])
        /\ runs' \in [Key -> Nat] /\ raced' \subseteq Key
    BY DEF Typed, Quiet
  <1>2. InvTyped(inv')
    BY TypedTable DEF Quiet
  <1> QED BY <1>1, <1>2, TypedFrom

LEMMA SupplyQuiet ==
    ASSUME Typed,
           \/ SwitchProduct
           \/ \E up \in SUBSET Provider : Sync(up)
           \/ \E p \in Provider, c \in Cost : Reprice(p, c)
    PROVE  Quiet /\ request' = request
  <1>1. product \in ProductType /\ catalog \in CatalogType /\ terms \in TermsType
    BY DEF Typed
  <1>2. CASE SwitchProduct
    <2>1. product' \in ProductType
      BY <1>1, <1>2 DEF SwitchProduct, ProductType
    <2> QED BY <1>1, <1>2, <2>1 DEF SwitchProduct, Quiet
  <1>3. ASSUME NEW up \in SUBSET Provider, Sync(up) PROVE Quiet /\ request' = request
    <2>1. PICK p : p = product
      OBVIOUS
    <2>2. Refresh(p, up) \in ProductType
      BY <1>1, <2>1, RefreshTyped
    <2>3. product' \in ProductType
      BY <1>3, <2>1, <2>2 DEF Sync
    <2> QED BY <1>1, <1>3, <2>3 DEF Sync, Quiet
  <1>4. ASSUME NEW p \in Provider, NEW c \in Cost, Reprice(p, c) PROVE Quiet /\ request' = request
    <2>1. catalog' = [catalog EXCEPT ![p].cost = c]
      BY <1>4 DEF Reprice
    <2>2. \A q \in Provider : catalog'[q] \in [cost : Cost, stock : Nat]
      BY <1>1, <2>1 DEF CatalogType
    <2>3. catalog' = [q \in Provider |-> catalog'[q]]
      BY <1>1, <2>1 DEF CatalogType
    <2>4. catalog' \in CatalogType
      BY <2>2, <2>3 DEF CatalogType
    <2> QED BY <1>1, <1>4, <2>4 DEF Reprice, Quiet
  <1> QED BY <1>2, <1>3, <1>4

\* The terms with other values.
LEMMA TermsWith ==
    ASSUME terms \in TermsType
    PROVE  /\ \A u \in Customer, b \in BOOLEAN : [terms EXCEPT !.on[u] = b] \in TermsType
           /\ \A u \in Customer, b \in BOOLEAN, n \in Nat :
                 [terms EXCEPT !.profit[u] = n, !.on[u] = b] \in TermsType
           /\ \A u \in Customer, b \in BOOLEAN, n \in Nat :
                 [terms EXCEPT !.on[u] = b, !.profit[u] = n] \in TermsType
           /\ \A s \in {"on", "off", "gone"} : [terms EXCEPT !.tier = s] \in TermsType
           /\ \A s \in {"on", "off", "gone"} : [terms EXCEPT !.coupon = s] \in TermsType
           /\ [terms EXCEPT !.counted = TRUE] \in TermsType
           /\ [terms EXCEPT !.coupon = "gone", !.counted = FALSE] \in TermsType
  <1>1. \A u \in Customer, b \in BOOLEAN : [terms EXCEPT !.on[u] = b] \in TermsType
    BY DEF TermsType
  <1>2. \A u \in Customer, b \in BOOLEAN, n \in Nat :
                 [terms EXCEPT !.profit[u] = n, !.on[u] = b] \in TermsType
    BY DEF TermsType
  <1>3. \A u \in Customer, b \in BOOLEAN, n \in Nat :
                 [terms EXCEPT !.on[u] = b, !.profit[u] = n] \in TermsType
    BY DEF TermsType
  <1>4. \A s \in {"on", "off", "gone"} : [terms EXCEPT !.tier = s] \in TermsType
    BY DEF TermsType
  <1>5. \A s \in {"on", "off", "gone"} : [terms EXCEPT !.coupon = s] \in TermsType
    BY DEF TermsType
  <1>6. [terms EXCEPT !.counted = TRUE] \in TermsType
    BY DEF TermsType
  <1>7. [terms EXCEPT !.coupon = "gone", !.counted = FALSE] \in TermsType
    BY DEF TermsType
  <1> QED BY <1>1, <1>2, <1>3, <1>4, <1>5, <1>6, <1>7

\* What the administrator grants.
Grants ==
    \/ \E u \in Customer :
         \/ \E n \in Profits, on \in BOOLEAN : SaveSellerPrice(u, n, on)
         \/ ToggleSellerPrice(u)
         \/ DeleteSellerPrice(u)
    \/ CreateTier \/ ToggleTier \/ DeleteTier
    \/ ToggleDiscount \/ CountDiscount

LEMMA GrantsQuiet ==
    ASSUME Typed, Grants
    PROVE  Quiet /\ request' = request
  <1>1. product \in ProductType /\ catalog \in CatalogType /\ terms \in TermsType
    BY DEF Typed
  <1>2. UNCHANGED offers
    BY DEF Grants, SaveSellerPrice, ToggleSellerPrice, DeleteSellerPrice, CreateTier, ToggleTier,
           DeleteTier, ToggleDiscount, CountDiscount
  <1>3. ASSUME NEW u \in Customer PROVE Withdrawn(u) \in TermsType
    <2>1. PICK b : b = FALSE
      OBVIOUS
    <2>2. PICK n : n = 0
      OBVIOUS
    <2>3. [terms EXCEPT !.on[u] = b] \in TermsType /\ [terms EXCEPT !.on[u] = b, !.profit[u] = n] \in TermsType
      BY <1>1, <2>1, <2>2, TermsWith
    <2> QED BY <2>1, <2>2, <2>3 DEF Withdrawn
  <1>4. terms' \in TermsType
    <2>1. ASSUME NEW u \in Customer, NEW n \in Profits, NEW on \in BOOLEAN, SaveSellerPrice(u, n, on)
          PROVE  terms' \in TermsType
      <3>1. n \in Nat
        BY PriceAssumption
      <3>2. terms' = Withdrawn(u) \/ terms' = [terms EXCEPT !.profit[u] = n, !.on[u] = on]
        BY <2>1 DEF SaveSellerPrice
      <3>3. [terms EXCEPT !.profit[u] = n, !.on[u] = on] \in TermsType
        BY <1>1, <3>1, TermsWith
      <3> QED BY <1>3, <3>2, <3>3
    <2>2. ASSUME NEW u \in Customer, ToggleSellerPrice(u) PROVE terms' \in TermsType
      <3>1. PICK b : b = ~terms.on[u]
        OBVIOUS
      <3>2. b \in BOOLEAN
        BY <3>1
      <3>3. terms' = [terms EXCEPT !.on[u] = b]
        BY <2>2, <3>1 DEF ToggleSellerPrice
      <3> QED BY <1>1, <3>2, <3>3, TermsWith
    <2>3. ASSUME NEW u \in Customer, DeleteSellerPrice(u) PROVE terms' \in TermsType
      BY <1>3, <2>3 DEF DeleteSellerPrice
    <2>4. ASSUME CreateTier \/ ToggleTier \/ DeleteTier PROVE terms' \in TermsType
      <3>1. Toggled(terms.tier) \in {"on", "off", "gone"}
        BY DEF Toggled
      <3>2. PICK s \in {"on", "off", "gone"} : terms' = [terms EXCEPT !.tier = s]
        BY <2>4, <3>1 DEF CreateTier, ToggleTier, DeleteTier
      <3> QED BY <1>1, <3>2, TermsWith
    <2>5. CASE ToggleDiscount
      <3>1. Toggled(terms.coupon) \in {"on", "off", "gone"}
        BY DEF Toggled
      <3>2. PICK s \in {"on", "off", "gone"} : terms' = [terms EXCEPT !.coupon = s]
        BY <2>5, <3>1 DEF ToggleDiscount
      <3> QED BY <1>1, <3>2, TermsWith
    <2>6. CASE CountDiscount
      <3>1. \/ terms' = [terms EXCEPT !.counted = TRUE]
            \/ \E s \in {"on", "off", "gone"} : terms' = [terms EXCEPT !.coupon = s]
        BY <2>6 DEF CountDiscount
      <3> QED BY <1>1, <3>1, TermsWith
    <2> QED BY <2>1, <2>2, <2>3, <2>4, <2>5, <2>6 DEF Grants
  <1> QED BY <1>1, <1>2, <1>4 DEF Quiet, offers

LEMMA DeleteDiscountQuiet ==
    ASSUME Typed, DeleteDiscount
    PROVE  /\ Quiet /\ RequestTyped(request')
           /\ \A k \in ApiKey : request'[k] = request[k]
           /\ \A k \in QrKey : request'[k].status = request[k].status
                               /\ request'[k].amount = request[k].amount
  <1>1. product \in ProductType /\ catalog \in CatalogType /\ terms \in TermsType
        /\ IsFcn(request) /\ DOMAIN request = ApiKey \cup QrKey
        /\ (\A k \in ApiKey : request[k] \in ApiType)
        /\ \A k \in QrKey : request[k] \in QrType
    BY DEF Typed
  <1>2. terms' \in TermsType
    BY <1>1, TermsWith DEF DeleteDiscount
  <1>3. Quiet
    BY <1>1, <1>2 DEF Quiet, DeleteDiscount
  <1>4. request' = [k \in DOMAIN request |->
                     IF k \in QrKey THEN [request[k] EXCEPT !.pricing.coupon = 0]
                     ELSE request[k]]
    BY DEF DeleteDiscount
  <1>5. \A k \in ApiKey : request'[k] = request[k] /\ request'[k] \in ApiType
    BY <1>1, <1>4, KeyAssumption
  <1>6. ASSUME NEW k \in QrKey
        PROVE  request'[k] \in QrType /\ request'[k].status = request[k].status
               /\ request'[k].amount = request[k].amount
    <2>1. request'[k] = [request[k] EXCEPT !.pricing.coupon = 0]
      BY <1>1, <1>4
    <2>2. request[k] \in QrType
      BY <1>1
    <2>3. PICK v : v = [request[k].pricing EXCEPT !.coupon = 0]
      OBVIOUS
    <2>4. v \in PricingType
      BY <2>2, <2>3 DEF QrType, PricingType
    <2>5. request'[k] = [request[k] EXCEPT !.pricing = v]
      BY <2>1, <2>2, <2>3 DEF QrType
    <2> QED BY <2>2, <2>4, <2>5 DEF QrType
  <1>7. IsFcn(request') /\ DOMAIN request' = ApiKey \cup QrKey
    BY <1>1, <1>4 DEF IsFcn
  <1>8. RequestTyped(request')
    BY <1>5, <1>6, <1>7 DEF RequestTyped
  <1> QED BY <1>3, <1>5, <1>6, <1>8

\* A purchase stops by an exception: what it bought is adrift.
LEMMA RaiseTyped ==
    ASSUME Typed, NEW h \in Handler, Raise(h)
    PROVE  Typed'
  <1>1. run[h].key \in Key /\ run[h].pc \in {"claimed", "buying"} /\ Ended(h, "exception")
    BY RunKey DEF Raise
  <1>2. placed \in Seq(OrderType)
        /\ \A o \in DOMAIN placed : placed[o].queued => placed[o].provider = "sumistore"
    BY DEF Typed
  <1>3. PICK orders, taken : orders = placed /\ taken = OrdersOf(run[h].paid)
    OBVIOUS
  <1>4. Relabelled(Adrift(orders, taken), orders, taken)
    BY <1>2, <1>3, AdriftFacts
  <1>5. placed' = placed \/ placed' = Adrift(orders, taken)
    BY <1>3 DEF Raise
  <1>6. /\ placed' \in Seq(OrderType)
        /\ \A o \in DOMAIN placed' : placed'[o].queued => placed'[o].provider = "sumistore"
    BY <1>2, <1>3, <1>4, <1>5 DEF Relabelled
  <1>7. PICK code : code = "exception"
    OBVIOUS
  <1>8. code \in Reason \cup {"completed"} /\ Ended(h, code)
    BY <1>1, <1>7 DEF Reason
  <1>9. IsFcn(run') /\ DOMAIN run' = Handler /\ \A g \in Handler : RunTyped(run'[g])
    BY <1>1, <1>8, EndedStep
  <1>10. UNCHANGED <<product, catalog, inv, wallet, debit, shown, request, loaded, terms,
                   runs, raced>>
    BY DEF Raise
  <1>11. /\ product' \in ProductType /\ catalog' \in CatalogType /\ terms' \in TermsType
         /\ wallet' \in [Customer -> Nat] /\ debit' \in [Key -> Nat]
         /\ shown' \in [BotKey -> Nat] /\ runs' \in [Key -> Nat] /\ raced' \subseteq Key
    BY <1>10 DEF Typed
  <1>12. RequestTyped(request')
    BY <1>10 DEF Typed, RequestTyped
  <1>13. InvTyped(inv')
    BY <1>10, TypedTable
  <1> QED BY <1>6, <1>9, <1>11, <1>12, <1>13, TypedFrom

LEMMA CrashTyped ==
    ASSUME Typed, Crash
    PROVE  Typed'
  <1>1. placed \in Seq(OrderType)
        /\ \A o \in DOMAIN placed : placed[o].queued => placed[o].provider = "sumistore"
    BY DEF Typed
  <1>2. PICK orders, taken : orders = placed /\ taken = OrdersInHand
    OBVIOUS
  <1>3. Relabelled(Adrift(orders, taken), orders, taken)
    BY <1>1, <1>2, AdriftFacts
  <1>4. placed' = Adrift(orders, taken) /\ run' = [g \in Handler |-> Rest]
    BY <1>2 DEF Crash
  <1>5. /\ placed' \in Seq(OrderType)
        /\ \A o \in DOMAIN placed' : placed'[o].queued => placed'[o].provider = "sumistore"
    BY <1>1, <1>2, <1>3, <1>4 DEF Relabelled
  <1>6. IsFcn(run') /\ DOMAIN run' = Handler /\ \A g \in Handler : RunTyped(run'[g])
    BY <1>4 DEF IsFcn, RunTyped
  <1>7. UNCHANGED <<product, catalog, inv, wallet, debit, shown, request, loaded, terms,
                   runs, raced>>
    BY DEF Crash
  <1>8. /\ product' \in ProductType /\ catalog' \in CatalogType /\ terms' \in TermsType
        /\ wallet' \in [Customer -> Nat] /\ debit' \in [Key -> Nat]
        /\ shown' \in [BotKey -> Nat] /\ runs' \in [Key -> Nat] /\ raced' \subseteq Key
    BY <1>7 DEF Typed
  <1>9. RequestTyped(request')
    BY <1>7 DEF Typed, RequestTyped
  <1>10. InvTyped(inv')
    BY <1>7, TypedTable
  <1> QED BY <1>5, <1>6, <1>8, <1>9, <1>10, TypedFrom

LEMMA StopTyped ==
    ASSUME Typed, RequestTyped(request'),
           IsFcn(run') /\ DOMAIN run' = Handler /\ \A g \in Handler : RunTyped(run'[g]),
           UNCHANGED <<product, catalog, placed, inv, wallet, debit, shown, loaded, terms,
                       runs, raced, left>>
    PROVE  Typed'
  <1>1. /\ product' \in ProductType /\ catalog' \in CatalogType /\ terms' \in TermsType
        /\ placed' \in Seq(OrderType)
        /\ \A o \in DOMAIN placed' : placed'[o].queued => placed'[o].provider = "sumistore"
        /\ wallet' \in [Customer -> Nat] /\ debit' \in [Key -> Nat]
        /\ shown' \in [BotKey -> Nat] /\ runs' \in [Key -> Nat] /\ raced' \subseteq Key
    BY DEF Typed
  <1>2. InvTyped(inv')
    BY TypedTable
  <1> QED BY <1>1, <1>2, TypedFrom

\* What the handler writes to the row of the key.
Verdict(r) == IF r = "completed" THEN "completed"
              ELSE IF r \in {"supplier_unavailable", "exception"} THEN "review" ELSE "failed"

LEMMA AnswerTyped ==
    ASSUME Typed, NEW h \in Handler, Answer(h)
    PROVE  /\ Typed' /\ run' = [run EXCEPT ![h] = Rest]
           /\ run[h].key \in Key /\ run[h].pc = "answer" /\ run[h].result \in Reason \cup {"completed"}
           /\ run[h].key \notin ApiKey => request' = request
           /\ run[h].key \in ApiKey =>
                /\ request'[run[h].key].status = Verdict(run[h].result)
                /\ \A j \in (ApiKey \cup QrKey) \ {run[h].key} : request'[j] = request[j]
           /\ UNCHANGED <<product, catalog, placed, inv, wallet, debit, shown, loaded, terms,
                          runs, raced, left>>
  <1> DEFINE k == run[h].key
             r == run[h].result
  <1>1. k \in Key /\ run[h].pc = "answer" /\ r \in Reason \cup {"completed"}
    BY RunKey DEF Answer
  <1>2. UNCHANGED <<product, catalog, placed, inv, wallet, debit, shown, loaded, terms,
                    runs, raced, left>> /\ run' = [run EXCEPT ![h] = Rest]
    BY DEF Answer
  <1>3. RunTyped(Rest)
    BY DEF RunTyped
  <1>4. IsFcn(run') /\ DOMAIN run' = Handler /\ \A g \in Handler : RunTyped(run'[g])
    <2>1. PICK rest : rest = Rest
      OBVIOUS
    <2> QED BY <1>2, <1>3, <2>1, RunStep
  <1>5. CASE k \notin ApiKey
    <2>1. request' = request
      BY <1>5 DEF Answer
    <2>2. RequestTyped(request')
      BY <2>1 DEF Typed, RequestTyped
    <2> QED BY <1>1, <1>2, <1>4, <1>5, <2>1, <2>2, StopTyped
  <1>6. CASE k \in ApiKey
    <2>1. request[k] \in ApiType /\ IsFcn(request) /\ DOMAIN request = ApiKey \cup QrKey
      BY <1>6 DEF Typed
    <2>2. PICK e : e = IF r = "completed" THEN request[k].error ELSE r
      OBVIOUS
    <2>3. PICK v : v = [status |-> Verdict(r), fresh |-> TRUE, error |-> e]
      OBVIOUS
    <2>4. e \in Reason
      BY <1>1, <2>1, <2>2 DEF ApiType
    <2>5. v \in ApiType
      BY <2>3, <2>4 DEF ApiType, Verdict
    <2>6. request' = [request EXCEPT ![k] = v]
      BY <1>6, <2>1, <2>2, <2>3 DEF Answer, Verdict
    <2>7. PICK req : req = [request EXCEPT ![k] = v]
      OBVIOUS
    <2>8. k \in ApiKey \cup QrKey
      BY <1>6
    <2>81. \/ k \in ApiKey /\ v \in ApiType
           \/ k \in QrKey /\ v \in QrType
      BY <1>6, <2>5
    <2> HIDE DEF k
    <2>9. RequestTyped(req)
      BY <2>7, <2>8, <2>81, RequestStep
    <2>10. req[k] = v
      BY <2>7, <2>8, <2>81, RequestStep
    <2>11. \A j \in (ApiKey \cup QrKey) \ {k} : req[j] = request[j]
      BY <2>7, <2>8, <2>81, RequestStep
    <2>12. Typed'
      BY <1>2, <1>4, <2>6, <2>7, <2>9, StopTyped
    <2> QED BY <1>1, <1>2, <1>6, <2>3, <2>6, <2>7, <2>10, <2>11, <2>12 DEF k
  <1> QED BY <1>5, <1>6

LEMMA InitTyped == Init => Typed
  <1> SUFFICES ASSUME Init PROVE Typed
    OBVIOUS
  <1>1. PICK s \in Scene :
          /\ runs = [k \in Key |-> IF k \in s.keys THEN 0 ELSE MaxRuns[k]]
          /\ terms = [profit |-> Profit, on |-> [u \in Customer |-> Profit[u] > 0],
                      coupon |-> "on", tier |-> s.tier, counted |-> FALSE, archived |-> FALSE]
          /\ LET cost == Min({Catalog0[p].cost : p \in Provider})
             IN product = [price |-> cost + Markup, cost |-> cost, locked |-> FALSE,
                           active |-> TRUE, external |-> s.external]
    BY DEF Init
  <1>2. s.external \in BOOLEAN /\ s.tier \in {"on", "off", "gone"}
    BY PriceAssumption
  <1>3. PICK cost : cost = Min({Catalog0[p].cost : p \in Provider})
    OBVIOUS
  <1>4. cost \in Positive
    <2> PICK C : C = {Catalog0[p].cost : p \in Provider}
      OBVIOUS
    <2>1. \A p \in Provider : Catalog0[p].cost \in Positive
      BY PriceAssumption DEF Positive
    <2>2. C \subseteq Positive /\ C # {}
      BY <2>1 DEF Provider
    <2>3. C \subseteq Nat
      BY <2>2 DEF Positive
    <2>4. Min(C) \in C
      BY <2>2, <2>3, MinOfNat
    <2> QED BY <1>3, <2>2, <2>4
  <1>5. product \in ProductType
    <2>1. product = [price |-> cost + Markup, cost |-> cost, locked |-> FALSE,
                           active |-> TRUE, external |-> s.external]
      BY <1>1, <1>3
    <2>2. cost + Markup \in Positive
      BY <1>4, PriceAssumption DEF Positive
    <2> QED BY <1>2, <1>4, <2>1, <2>2 DEF ProductType
  <1>6. catalog \in CatalogType
    BY PriceAssumption DEF Init, CatalogType
  <1>7. placed \in Seq(OrderType) /\ DOMAIN placed = {}
    BY DEF Init
  <1>8. IsFcn(inv) /\ DOMAIN inv = {}
    BY DEF Init, IsFcn
  <1>9. IsFiniteSet(Rows) /\ Rows = {}
    BY <1>8, FS_EmptySet DEF Rows
  <1>10. wallet \in [Customer -> Nat] /\ debit \in [Key -> Nat] /\ shown \in [BotKey -> Nat]
    BY PriceAssumption DEF Init
  <1>11. PublicPricing \in PricingType
    BY PublicPricingType
  <1>12. /\ IsFcn(request) /\ DOMAIN request = ApiKey \cup QrKey
         /\ \A k \in ApiKey : request[k] \in ApiType
         /\ \A k \in QrKey : request[k] \in QrType
    <2>1. request = [k \in ApiKey \cup QrKey |->
                    IF k \in ApiKey THEN [status |-> None, error |-> None, fresh |-> TRUE]
                    ELSE [status |-> None, amount |-> 0, pricing |-> PublicPricing,
                          locked |-> FALSE]]
      BY DEF Init
    <2>2. [status |-> None, error |-> None, fresh |-> TRUE] \in ApiType
      BY DEF ApiType, Reason
    <2>3. [status |-> None, amount |-> 0, pricing |-> PublicPricing, locked |-> FALSE] \in QrType
      BY <1>11 DEF QrType
    <2>4. IsFcn(request) /\ DOMAIN request = ApiKey \cup QrKey
      BY <2>1 DEF IsFcn
    <2>5. \A k \in ApiKey : request[k] \in ApiType
      BY <2>1, <2>2
    <2>6. \A k \in QrKey : request[k] \in QrType
      BY <2>1, <2>3, KeyAssumption
    <2> QED BY <2>4, <2>5, <2>6
  <1>13. terms \in TermsType
    <2>1. [u \in Customer |-> Profit[u] > 0] \in [Customer -> BOOLEAN]
      OBVIOUS
    <2> PICK on : on = [u \in Customer |-> Profit[u] > 0]
      OBVIOUS
    <2>2. terms = [profit |-> Profit, on |-> on, coupon |-> "on", tier |-> s.tier,
                   counted |-> FALSE, archived |-> FALSE]
      BY <1>1
    <2>3. on \in [Customer -> BOOLEAN] /\ Profit \in [Customer -> Nat]
      BY <2>1, PriceAssumption
    <2> QED BY <1>2, <2>2, <2>3 DEF TermsType
  <1>14. IsFcn(run) /\ DOMAIN run = Handler /\ \A h \in Handler : RunTyped(run[h])
    BY DEF Init, IsFcn, RunTyped
  <1>15. runs \in [Key -> Nat] /\ raced \subseteq Key
    <2> HIDE DEF Key
    <2>1. MaxRuns \in [Key -> Nat]
      BY KeyAssumption
    <2> QED BY <1>1, <2>1 DEF Init
  <1>16. \A o \in DOMAIN placed : placed[o].queued => placed[o].provider = "sumistore"
    BY <1>7
  <1> QED BY <1>5, <1>6, <1>7, <1>8, <1>9, <1>10, <1>12, <1>13, <1>14, <1>15, <1>16 DEF Typed

-----------------------------------------------------------------------------
(* The sales *)

\* Nothing is sold, and what was sold stays as it is.
SameSales ==
    \A k \in Key :
      /\ SoldUnder(k)' = SoldUnder(k)
      /\ \A i \in SoldUnder(k) :
            /\ inv'[i].amount = inv[i].amount /\ inv'[i].cost = inv[i].cost
            /\ inv'[i].rule <=> inv[i].rule

LEMMA SameTable == inv' = inv => SameSales
  BY DEF SameSales, SoldUnder, Rows

LEMMA FewerSales ==
    ASSUME Typed, Fewer
    PROVE  SameSales
  <1>1. DOMAIN inv' = Rows
    BY DEF Fewer
  <1>2. \A i \in Rows : /\ inv'[i].key = inv[i].key /\ inv'[i].amount = inv[i].amount
                        /\ inv'[i].cost = inv[i].cost /\ (inv'[i].rule <=> inv[i].rule)
    BY FewerRows
  <1> QED BY <1>1, <1>2 DEF SameSales, SoldUnder, Rows

\* New rows that no one has bought.
LEMMA FiledSales ==
    ASSUME Typed, NEW D, NEW row, NEW id, Files(inv', inv, D, row, id), \A g \in D : row[g].key = None
    PROVE  SameSales
  <1>1. /\ DOMAIN inv \subseteq DOMAIN inv' /\ \A i \in DOMAIN inv : inv'[i] = inv[i]
        /\ \A i \in DOMAIN inv' \ DOMAIN inv : \E g \in D : id[g] = i
        /\ \A g \in D : inv'[id[g]] = row[g]
    BY DEF Files
  <1>2. \A i \in DOMAIN inv' \ DOMAIN inv : inv'[i].key = None
    BY <1>1
  <1>3. None \notin Key
    BY KeyAssumption
  <1>4. ASSUME NEW k \in Key PROVE SoldUnder(k)' = SoldUnder(k)
    BY <1>1, <1>2, <1>3 DEF SoldUnder, Rows
  <1>5. ASSUME NEW k \in Key, NEW i \in SoldUnder(k) PROVE inv'[i] = inv[i]
    BY <1>1 DEF SoldUnder, Rows
  <1> QED BY <1>4, <1>5 DEF SameSales

LEMMA KeptSales ==
    ASSUME Typed, NEW plan, PlanTyped(plan), NEW orders, NEW paid,
           Bought(plan, orders, paid), inv' = Kept(plan, orders, paid)
    PROVE  SameSales
  <1> DEFINE goods == {g \in Goods(plan, paid) : ~IsHeld(AccountOf(paid, g))}
             row == [g \in goods |-> Row(AccountOf(paid, g), orders[paid[g[1]]].cost, "available")]
  <1>1. PICK id : Files(Kept(plan, orders, paid), inv, goods, row, id)
    BY KeptFiles
  <1>2. \A g \in goods : row[g].key = None
    BY DEF Row
  <1> HIDE DEF goods, row
  <1> QED BY <1>1, <1>2, FiledSales

LEMMA ImportsSales ==
    ASSUME Typed, NEW D, NEW cost, NEW again, Imports(D, cost, again)
    PROVE  SameSales
  <1>1. PICK row : row = [a \in D |-> [Row(a, cost, "available") EXCEPT !.again = again]]
    OBVIOUS
  <1>2. PICK id : Files(inv', inv, D, row, id)
    BY <1>1 DEF Imports, Stores
  <1>3. \A a \in D : row[a].key = None
    BY <1>1 DEF Row
  <1> QED BY <1>2, <1>3, FiledSales

LEMMA RecoverSales ==
    ASSUME Typed, NEW o \in DOMAIN placed, RecoverOrder(o)
    PROVE  SameSales
  <1>1. PICK D, row : /\ D = 1 .. placed[o].quantity
                      /\ row = [j \in D |-> Row(<<o, j>>, placed[o].cost, "available")]
    OBVIOUS
  <1>2. PICK id : Files(inv', inv, D, row, id)
    BY <1>1, RecoverFiles DEF Stores
  <1>3. \A j \in D : row[j].key = None
    BY <1>1 DEF Row
  <1> QED BY <1>2, <1>3, FiledSales

\* What is sold under the keys is a set of rows, with amounts.
LEMMA SoldFacts ==
    ASSUME Typed, NEW k \in Key
    PROVE  /\ SoldUnder(k) \subseteq Rows /\ IsFiniteSet(SoldUnder(k))
           /\ Cardinality(SoldUnder(k)) \in Nat
           /\ \A i \in SoldUnder(k) : inv[i].amount \in Nat /\ inv[i].cost \in Nat
           /\ AmountsOf(k) \in Nat
           /\ SoldUnder(k) \cap Available = {}
  <1>1. IsFiniteSet(Rows) /\ \A i \in Rows : inv[i] \in RowType /\ (inv[i].key # None <=> inv[i].status = "sold")
    BY DEF Typed
  <1>2. SoldUnder(k) \in SUBSET Rows
    BY DEF SoldUnder
  <1>3. IsFiniteSet(SoldUnder(k)) /\ Cardinality(SoldUnder(k)) \in Nat
    BY <1>1, <1>2, FS_Subset, FS_CardinalityType
  <1>4. \A i \in SoldUnder(k) : inv[i].amount \in Nat /\ inv[i].cost \in Nat
    BY <1>1, <1>2 DEF RowType
  <1>5. AmountsOf(k) \in Nat
    <2>1. PICK S, f : S = SoldUnder(k) /\ f = [i \in S |-> inv[i].amount]
      OBVIOUS
    <2>2. IsFiniteSet(S) /\ \A i \in S : f[i] \in Int
      BY <1>3, <1>4, <2>1
    <2>3. SumOver(S, f) \in Nat
      BY <2>2, PairsFinite
    <2> QED BY <2>1, <2>3 DEF AmountsOf
  <1>6. SoldUnder(k) \cap Available = {}
    <2>1. None \notin Key
      BY KeyAssumption
    <2> QED BY <1>1, <2>1 DEF SoldUnder, Available
  <1> QED BY <1>2, <1>3, <1>4, <1>5, <1>6

\* A sale adds the rows of the shop and one row for each of the goods to the sales of
\* its key, as many as the quantity, and their amounts are the total.
Adds(k, quote, goods, filed, id, orders, paid, route) ==
    /\ \A j \in Key \ {k} : SoldUnder(j)' = SoldUnder(j)
    /\ \A j \in Key : \A i \in SoldUnder(j) : inv'[i] = inv[i]
    /\ SoldUnder(k)' = SoldUnder(k) \cup DOMAIN quote.local \cup filed
    /\ SoldUnder(k) \cap DOMAIN quote.local = {}
    /\ (SoldUnder(k) \cup DOMAIN quote.local) \cap filed = {}
    /\ \A i \in DOMAIN quote.local :
          /\ inv'[i].amount = quote.local[i] /\ inv'[i].cost = inv[i].cost
          /\ inv'[i].rule <=> IsSeller(quote.pricing)
    /\ \A g \in goods :
          /\ inv'[id[g]].amount = route[g[1]] /\ inv'[id[g]].cost = orders[paid[g[1]]].cost
          /\ inv'[id[g]].rule <=> IsSeller(quote.pricing)

LEMMA SaleFacts ==
    ASSUME Typed, NEW h \in Handler, NEW p, NEW plan, NEW orders, NEW paid, NEW route, NEW quote,
           NEW id, CanSell(h, p, plan, orders, paid, route, quote),
           Sale(h, plan, orders, paid, route, quote, id),
           NEW k, k = run[h].key,
           NEW goods, goods = Goods(plan, paid), NEW filed, filed = {id[g] : g \in goods}
    PROVE  Adds(k, quote, goods, filed, id, orders, paid, route)
  <1> DEFINE local == quote.local
             rows == SoldRows(k, local, IsSeller(quote.pricing))
             row == SoldGoods(k, goods, orders, paid, route, IsSeller(quote.pricing))
  <1>1. /\ DOMAIN rows \subseteq DOMAIN inv' /\ \A i \in DOMAIN rows : inv'[i] = rows[i]
        /\ id \in [goods -> DOMAIN inv' \ DOMAIN rows]
        /\ \A i \in DOMAIN inv' \ DOMAIN rows : \E g \in goods : id[g] = i
        /\ \A g \in goods : inv'[id[g]] = row[g]
    BY DEF Sale, Files
  <1>2. DOMAIN rows = Rows
    BY DEF SoldRows
  <1>3. k \in Key /\ DOMAIN local \subseteq Available
    BY DEF CanSell
  <1>4. \A i \in DOMAIN local : /\ i \in Rows /\ inv[i].key = None /\ inv[i].status = "available"
                                /\ inv[i] \in RowType
    BY <1>3, AvailableFacts DEF Available, Typed
  <1>5. \A i \in Rows : i \notin DOMAIN local => inv'[i] = inv[i]
    BY <1>1, <1>2 DEF SoldRows
  <1>6. ASSUME NEW i \in DOMAIN local
        PROVE  /\ inv'[i].key = k /\ inv'[i].amount = local[i] /\ inv'[i].cost = inv[i].cost
               /\ inv'[i].rule <=> IsSeller(quote.pricing)
    <2>1. inv'[i] = [inv[i] EXCEPT !.status = "sold", !.key = k, !.rule = IsSeller(quote.pricing),
                            !.amount = local[i]]
      BY <1>1, <1>2, <1>4 DEF SoldRows
    <2>2. inv[i] \in RowType
      BY <1>4
    <2>3. PICK b : b = IsSeller(quote.pricing)
      OBVIOUS
    <2>4. PICK n : n = local[i]
      OBVIOUS
    <2>5. inv'[i] = [inv[i] EXCEPT !.status = "sold", !.key = k, !.rule = b, !.amount = n]
      BY <2>1, <2>3, <2>4
    <2> QED BY <2>2, <2>3, <2>4, <2>5 DEF RowType
  <1>7. ASSUME NEW g \in goods
        PROVE  /\ inv'[id[g]].key = k /\ inv'[id[g]].amount = route[g[1]]
               /\ inv'[id[g]].cost = orders[paid[g[1]]].cost
               /\ inv'[id[g]].rule <=> IsSeller(quote.pricing)
    <2>1. inv'[id[g]] = [Row(AccountOf(paid, g), orders[paid[g[1]]].cost, "sold")
                EXCEPT !.key = k, !.rule = IsSeller(quote.pricing), !.amount = route[g[1]]]
      BY <1>1 DEF SoldGoods
    <2>2. PICK a, c, n, b : /\ a = AccountOf(paid, g) /\ c = orders[paid[g[1]]].cost /\ n = route[g[1]]
                            /\ b = IsSeller(quote.pricing)
      OBVIOUS
    <2>3. inv'[id[g]] = [acct |-> a, cost |-> c, status |-> "sold", key |-> k, amount |-> n,
                         again |-> FALSE, rule |-> b]
      BY <2>1, <2>2 DEF Row
    <2> QED BY <2>2, <2>3
  <1>8. filed \subseteq DOMAIN inv' \ Rows /\ \A i \in DOMAIN inv' \ Rows : i \in filed
    BY <1>1, <1>2
  <1>9. \A j \in Key : \A i \in SoldUnder(j) : i \in Rows /\ i \notin DOMAIN local /\ i \notin filed
    <2>1. \A j \in Key : j # None
      BY KeyAssumption
    <2> QED BY <1>4, <1>8, <2>1 DEF SoldUnder
  <1>10. \A j \in Key : \A i \in SoldUnder(j) : inv'[i] = inv[i]
    BY <1>5, <1>9
  <1>11. \A i \in DOMAIN inv' : i \in DOMAIN local \/ i \in filed \/ (i \in Rows /\ inv'[i] = inv[i])
    BY <1>5, <1>8
  <1>12. \A i \in filed : i \in DOMAIN inv' /\ inv'[i].key = k
    BY <1>1, <1>7
  <1>13. \A i \in DOMAIN local : i \in DOMAIN inv' /\ inv'[i].key = k
    BY <1>1, <1>2, <1>4, <1>6
  <1>14. Rows \subseteq DOMAIN inv'
    BY <1>1, <1>2
  <1> HIDE DEF rows, row, local
  <1>15. ASSUME NEW j \in Key PROVE SoldUnder(j)' = {i \in DOMAIN inv' : inv'[i].key = j}
    BY DEF SoldUnder, Rows
  <1>16. \A j \in Key \ {k} : SoldUnder(j)' = SoldUnder(j)
    <2> SUFFICES ASSUME NEW j \in Key \ {k} PROVE SoldUnder(j)' = SoldUnder(j)
      OBVIOUS
    <2>1. \A i \in SoldUnder(j) : i \in DOMAIN inv' /\ inv'[i].key = j
      BY <1>9, <1>10, <1>14 DEF SoldUnder
    <2>2. \A i \in DOMAIN inv' : inv'[i].key = j => i \in SoldUnder(j)
      BY <1>11, <1>12, <1>13 DEF SoldUnder
    <2> QED BY <1>15, <2>1, <2>2
  <1>17. SoldUnder(k)' = SoldUnder(k) \cup DOMAIN local \cup filed
    <2>1. \A i \in SoldUnder(k) : i \in DOMAIN inv' /\ inv'[i].key = k
      BY <1>3, <1>9, <1>10, <1>14 DEF SoldUnder
    <2>2. \A i \in DOMAIN inv' : inv'[i].key = k =>
             i \in SoldUnder(k) \/ i \in DOMAIN local \/ i \in filed
      BY <1>11 DEF SoldUnder
    <2> QED BY <1>3, <1>12, <1>13, <1>15, <2>1, <2>2
  <1>18. SoldUnder(k) \cap DOMAIN local = {} /\ (SoldUnder(k) \cup DOMAIN local) \cap filed = {}
    BY <1>3, <1>4, <1>8, <1>9
  <1> QED BY <1>6, <1>7, <1>10, <1>16, <1>17, <1>18 DEF Adds, local

\* The goods of a plan whose parts are all paid for, counted.
LEMMA GoodsCount ==
    ASSUME NEW plan, PlanTyped(plan), NEW paid, DOMAIN paid = DOMAIN plan
    PROVE  /\ Goods(plan, paid) = Pairs(DOMAIN plan, Quantities(plan))
           /\ Cardinality(Goods(plan, paid)) = SumOver(DOMAIN plan, Quantities(plan))
  <1>1. Goods(plan, paid) = Pairs(DOMAIN plan, Quantities(plan))
    BY DEF Goods, Quantities
  <1> QED BY <1>1 DEF SumOver

\* A sale is the whole quantity, and its amounts are its total.
LEMMA SaleCount ==
    ASSUME Typed, NEW h \in Handler, NEW p, NEW plan, NEW orders, NEW paid, NEW route, NEW quote,
           NEW id, CanSell(h, p, plan, orders, paid, route, quote),
           Sale(h, plan, orders, paid, route, quote, id),
           NEW k, k = run[h].key, NEW total, total = TotalOf(quote.local, route, plan)
    PROVE  /\ Cardinality(SoldUnder(k))' = Cardinality(SoldUnder(k)) + Body[k].quantity
           /\ AmountsOf(k)' = AmountsOf(k) + total
           /\ total \in Nat
  <1>1. PICK local, goods, filed : /\ local = quote.local /\ goods = Goods(plan, paid)
                                   /\ filed = {id[g] : g \in goods}
    OBVIOUS
  <1>2. PICK S, T : S = SoldUnder(k) /\ T = DOMAIN local
    OBVIOUS
  <1>3. /\ SoldUnder(k)' = (S \cup T) \cup filed /\ S \cap T = {} /\ (S \cup T) \cap filed = {}
        /\ \A i \in S : inv'[i] = inv[i]
        /\ \A i \in T : inv'[i].amount = local[i]
        /\ \A g \in goods : inv'[id[g]].amount = route[g[1]]
    <2>1. k \in Key
      BY DEF CanSell
    <2>2. Adds(k, quote, goods, filed, id, orders, paid, route)
      BY <1>1, SaleFacts
    <2>3. /\ SoldUnder(k)' = S \cup T \cup filed /\ S \cap T = {} /\ (S \cup T) \cap filed = {}
      BY <1>1, <1>2, <2>2 DEF Adds
    <2>4. \A i \in S : inv'[i] = inv[i]
      BY <1>2, <2>1, <2>2 DEF Adds
    <2>5. \A i \in T : inv'[i].amount = local[i]
      BY <1>1, <1>2, <2>2 DEF Adds
    <2>6. \A g \in goods : inv'[id[g]].amount = route[g[1]]
      BY <2>2 DEF Adds
    <2> QED BY <2>3, <2>4, <2>5, <2>6
  <1>4. /\ PlanTyped(plan) /\ DOMAIN paid = DOMAIN plan /\ QuoteTyped(quote) /\ k \in Key
        /\ DOMAIN route = DOMAIN plan /\ \A r \in DOMAIN plan : route[r] \in Nat
        /\ Cardinality(DOMAIN quote.local) + SumOver(DOMAIN plan, Quantities(plan)) = Body[k].quantity
    BY DEF CanSell
  <1>5. /\ IsFiniteSet(S) /\ \A i \in S : inv[i].amount \in Nat
    BY <1>2, <1>4, SoldFacts
  <1>6. IsFiniteSet(T) /\ \A i \in T : local[i] \in Nat
    BY <1>1, <1>2, <1>4 DEF QuoteTyped
  <1>7. /\ goods = Pairs(DOMAIN plan, Quantities(plan)) /\ IsFiniteSet(goods)
        /\ Cardinality(goods) = SumOver(DOMAIN plan, Quantities(plan))
    BY <1>1, <1>4, GoodsCount, GoodsFinite
  <1>8. /\ id \in [goods -> filed] /\ \A i \in filed : \E g \in goods : id[g] = i
        /\ \A g, e \in goods : id[g] = id[e] => g = e
    BY <1>1 DEF Sale, Files
  <1>9. PICK price : price = [g \in goods |-> route[g[1]]]
    OBVIOUS
  <1>10. \A g \in goods : g[1] \in DOMAIN plan /\ price[g] \in Nat /\ price[g] = route[g[1]]
    <2> SUFFICES ASSUME NEW g \in goods PROVE g[1] \in DOMAIN plan
      BY <1>4, <1>9
    <2>1. \E r \in DOMAIN plan : \E j \in 1 .. Quantities(plan)[r] : g = <<r, j>>
      BY <1>7, PairsMember
    <2> QED BY <2>1
  <1>11. PICK amount : amount = [i \in SoldUnder(k)' |-> inv'[i].amount]
    OBVIOUS
  <1>12. /\ \A i \in S : amount[i] = inv[i].amount
         /\ \A i \in T : amount[i] = local[i]
         /\ \A g \in goods : amount[id[g]] = price[g]
    BY <1>1, <1>3, <1>10, <1>11
  <1>13. /\ SumOver(filed, amount) = SumOver(goods, price) /\ IsFiniteSet(filed)
         /\ Cardinality(filed) = Cardinality(goods)
    <2>1. IsFiniteSet(goods) /\ id \in [goods -> filed]
      BY <1>7, <1>8
    <2>2. \A g \in goods : price[g] \in Int /\ amount[id[g]] = price[g]
      BY <1>10, <1>12
    <2>3. /\ \A g, e \in goods : id[g] = id[e] => g = e
          /\ \A i \in filed : \E g \in goods : id[g] = i
      BY <1>8
    <2> QED BY ONLY <2>1, <2>2, <2>3, SumRenamed
  <1>14. PICK parts : parts = [r \in DOMAIN route |-> route[r] * plan[r].quantity]
    OBVIOUS
  <1>15. SumOver(goods, price) = SumOver(DOMAIN plan, parts)
    <2>1. PICK D, q : D = DOMAIN plan /\ q = Quantities(plan)
      OBVIOUS
    <2>2. IsFiniteSet(D)
      BY <1>4, <2>1, ProviderFinite DEF PlanTyped
    <2>3. \A d \in D : q[d] \in Nat /\ route[d] \in Nat /\ parts[d] = route[d] * q[d]
      BY <1>4, <1>14, <2>1 DEF PlanTyped, Positive, Quantities
    <2>4. \A x \in Pairs(D, q) : price[x] = route[x[1]]
      BY <1>7, <1>10, <2>1
    <2>5. SumOver(Pairs(D, q), price) = SumOver(D, parts)
      BY <2>2, <2>3, <2>4, SumColumns
    <2> QED BY <1>7, <2>1, <2>5
  <1>16. total = SumOver(T, local) + SumOver(goods, price)
    BY <1>1, <1>2, <1>4, <1>14, <1>15 DEF TotalOf
  <1>17. PICK old : old = [i \in S |-> inv[i].amount]
    OBVIOUS
  <1>18. /\ SumOver(S, old) = AmountsOf(k) /\ SumOver(S, old) \in Nat /\ SumOver(T, local) \in Nat
         /\ SumOver(goods, price) \in Nat
    <2>1. SumOver(S, old) = AmountsOf(k)
      BY <1>2, <1>17 DEF AmountsOf
    <2>2. \A i \in S : old[i] \in Int
      BY <1>5, <1>17
    <2>3. SumOver(S, old) \in Nat
      BY <1>5, <2>2, PairsFinite
    <2>4. SumOver(T, local) \in Nat
      BY <1>6, PairsFinite
    <2>5. SumOver(goods, price) \in Nat
      BY <1>7, <1>10, PairsFinite
    <2> QED BY <2>1, <2>3, <2>4, <2>5
  <1>19. SumOver(S \cup T, amount) = SumOver(S, old) + SumOver(T, local)
    <2>1. \A i \in S : old[i] \in Int /\ amount[i] = old[i]
      BY <1>5, <1>12, <1>17
    <2>2. \A i \in T : local[i] \in Int /\ amount[i] = local[i]
      BY <1>6, <1>12
    <2> QED BY <1>3, <1>5, <1>6, <2>1, <2>2, SumDisjoint
  <1>20. SumOver((S \cup T) \cup filed, amount) = SumOver(S \cup T, amount) + SumOver(filed, amount)
    <2>1. IsFiniteSet(S \cup T)
      BY <1>5, <1>6, FS_Union
    <2>2. \A i \in S \cup T : amount[i] \in Int
      BY <1>5, <1>6, <1>12
    <2>3. \A i \in filed : amount[i] \in Int
      BY <1>8, <1>10, <1>12
    <2>4. PICK D : D = S \cup T
      OBVIOUS
    <2>5. SumOver(D \cup filed, amount) = SumOver(D, amount) + SumOver(filed, amount)
      BY <1>3, <1>13, <2>1, <2>2, <2>3, <2>4, SumDisjoint
    <2> QED BY <2>4, <2>5
  <1>21. AmountsOf(k)' = SumOver((S \cup T) \cup filed, amount)
    BY <1>3, <1>11 DEF AmountsOf
  <1>22. AmountsOf(k)' = AmountsOf(k) + total
    BY <1>13, <1>16, <1>18, <1>19, <1>20, <1>21
  <1>23. Cardinality(SoldUnder(k)') = Cardinality(S) + Cardinality(T) + Cardinality(filed)
    <2>1. IsFiniteSet(S \cup T) /\ Cardinality(S \cup T) = Cardinality(S) + Cardinality(T) - Cardinality({})
      BY <1>3, <1>5, <1>6, FS_Union
    <2>2. Cardinality((S \cup T) \cup filed) = Cardinality(S \cup T) + Cardinality(filed) - Cardinality({})
      BY <1>3, <1>13, <2>1, FS_Union
    <2>3. Cardinality({}) = 0
      BY FS_EmptySet
    <2>4. Cardinality(S) \in Nat /\ Cardinality(T) \in Nat /\ Cardinality(filed) \in Nat
      BY <1>5, <1>6, <1>13, FS_CardinalityType
    <2> QED BY <1>3, <2>1, <2>2, <2>3, <2>4
  <1>24. Cardinality(T) \in Nat /\ Cardinality(goods) \in Nat /\ Cardinality(S) \in Nat
    BY <1>5, <1>6, <1>7, FS_CardinalityType
  <1>25. Cardinality(SoldUnder(k))' = Cardinality(S) + Body[k].quantity
    BY <1>1, <1>2, <1>4, <1>7, <1>13, <1>23, <1>24
  <1> QED BY <1>2, <1>16, <1>18, <1>22, <1>25

-----------------------------------------------------------------------------
(* The keys *)

Working(k) == {h \in Handler : run[h].pc \in {"claimed", "buying"} /\ run[h].key = k}

\* One handler serves the key, and its purchase is the only one.
Alone(k) ==
    /\ \A g, h \in Alive(k) : g = h
    /\ Working(k) # {} => SoldUnder(k) = {}
    /\ Cardinality(SoldUnder(k)) \in {0, Body[k].quantity}
\* The row of an idempotency key says what became of its purchase.
Ordered(k) ==
    /\ Alive(k) # {} => request[k].status = "processing"
    /\ \A h \in Alive(k) : run[h].pc = "answer" =>
          (run[h].result = "completed" <=> SoldUnder(k) # {})
    /\ request[k].status \in {None, "failed"} => SoldUnder(k) = {}
    /\ request[k].status = "completed" => SoldUnder(k) # {}
\* ... and so does the payment request.
Promise(k) ==
    /\ Working(k) # {} => request[k].status = "open"
    /\ SoldUnder(k) # {} <=> request[k].status = "delivered"
KeyOk(k) ==
    /\ runs[k] = 0 => Alive(k) = {} /\ SoldUnder(k) = {}
    /\ SoldUnder(k) = {} => debit[k] = 0
    /\ k \in raced => k \in ApiKey
    /\ k \notin raced => Alone(k)
    /\ k \in ApiKey \ raced => Ordered(k)
    /\ k \in QrKey => Promise(k)
Keys == \A k \in Key : KeyOk(k)

\* Nothing of the key changes.
Untouched(k) ==
    /\ SoldUnder(k)' = SoldUnder(k) /\ debit'[k] = debit[k] /\ runs'[k] = runs[k]
    /\ k \in raced' <=> k \in raced
    /\ k \in ApiKey \cup QrKey => request'[k].status = request[k].status
    /\ \A g \in Handler :
          \/ run'[g] = run[g]
          \/ /\ run[g].pc = "idle" \/ run[g].key # k
             /\ run'[g].pc = "idle" \/ run'[g].key # k

LEMMA UntouchedKey ==
    ASSUME NEW k \in Key, KeyOk(k), Untouched(k)
    PROVE  KeyOk(k)'
  <1>1. \A g \in Handler : (g \in Alive(k)') <=> g \in Alive(k)
    BY DEF Untouched, Alive
  <1>2. Alive(k)' = Alive(k)
    BY <1>1 DEF Alive
  <1>3. \A g \in Alive(k) : g \in Handler /\ run'[g] = run[g]
    BY DEF Untouched, Alive
  <1>4. Working(k)' = Working(k)
    BY DEF Untouched, Working
  <1>5. SoldUnder(k)' = SoldUnder(k) /\ debit'[k] = debit[k] /\ runs'[k] = runs[k]
    BY DEF Untouched
  <1>6. (k \in raced') <=> k \in raced
    BY DEF Untouched
  <1>7. Alone(k) => Alone(k)'
    BY <1>2, <1>4, <1>5 DEF Alone
  <1>8. k \in ApiKey /\ Ordered(k) => Ordered(k)'
    <2>1. k \in ApiKey => request'[k].status = request[k].status
      BY DEF Untouched
    <2> QED BY <1>2, <1>3, <1>5, <2>1 DEF Ordered
  <1>9. k \in QrKey /\ Promise(k) => Promise(k)'
    <2>1. k \in QrKey => request'[k].status = request[k].status
      BY DEF Untouched
    <2> QED BY <1>4, <1>5, <2>1 DEF Promise
  <1> QED BY <1>2, <1>5, <1>6, <1>7, <1>8, <1>9 DEF KeyOk

\* One handler, which serves k, takes a step.
Serves(h, k) ==
    /\ \A g \in Handler \ {h} : run'[g] = run[g]
    /\ run[h].pc = "idle" \/ run[h].key = k
    /\ run'[h].pc = "idle" \/ run'[h].key = k
\* ... and what belongs to the other keys stays.
OthersStay(k) ==
    \A j \in Key \ {k} :
      /\ SoldUnder(j)' = SoldUnder(j) /\ debit'[j] = debit[j] /\ runs'[j] = runs[j]
      /\ j \in raced' <=> j \in raced
      /\ j \in ApiKey \cup QrKey => request'[j].status = request[j].status

LEMMA OtherKeys ==
    ASSUME Keys, NEW h \in Handler, NEW k \in Key, Serves(h, k), OthersStay(k), KeyOk(k)'
    PROVE  Keys'
  <1> SUFFICES ASSUME NEW j \in Key PROVE KeyOk(j)'
    BY DEF Keys
  <1>1. CASE j = k
    BY <1>1
  <1>2. CASE j # k
    <2>1. Untouched(j)
      BY <1>2 DEF Untouched, Serves, OthersStay
    <2> QED BY <2>1, UntouchedKey DEF Keys
  <1> QED BY <1>1, <1>2

\* Who serves the key after a step.
LEMMA ServesFacts ==
    ASSUME NEW h \in Handler, NEW k \in Key, Serves(h, k)
    PROVE  /\ \A g \in Handler \ {h} : /\ (g \in Alive(k)') <=> g \in Alive(k)
                                       /\ (g \in Working(k)') <=> g \in Working(k)
           /\ (h \in Alive(k)') <=> run'[h].pc # "idle"
           /\ h \in Alive(k) <=> run[h].pc # "idle"
           /\ (h \in Working(k)') <=> run'[h].pc \in {"claimed", "buying"}
           /\ h \in Working(k) <=> run[h].pc \in {"claimed", "buying"}
           /\ Alive(k) \subseteq Handler /\ Alive(k)' \subseteq Handler
           /\ Working(k) \subseteq Alive(k) /\ Working(k)' \subseteq Alive(k)'
  BY DEF Serves, Alive, Working

\* A purchase is claimed: the key has none, or its handlers race.
LEMMA KeyClaimed ==
    ASSUME Keys, NEW h \in Handler, NEW k \in Key, Serves(h, k),
           run[h].pc = "idle", run'[h].pc = "claimed", runs'[k] # 0,
           SoldUnder(k)' = SoldUnder(k), debit'[k] = debit[k],
           \/ Alive(k) = {} /\ (k \in raced' <=> k \in raced)
           \/ k \in raced' /\ k \in ApiKey,
           k \in ApiKey => /\ request[k].status = None \/ SoldUnder(k) = {}
                           /\ request'[k].status = "processing",
           k \in BotKey => SoldUnder(k) = {},
           k \in QrKey => request[k].status = "open" /\ request'[k].status = "open"
                          /\ (k \in raced' <=> k \in raced)
    PROVE  KeyOk(k)'
  <1>1. KeyOk(k)
    BY DEF Keys
  <1>2. k \notin raced => SoldUnder(k) = {}
    BY <1>1 DEF KeyOk, Ordered, Promise, Key
  <1>3. /\ \A g \in Handler \ {h} : /\ (g \in Alive(k)') <=> g \in Alive(k)
                                    /\ (g \in Working(k)') <=> g \in Working(k)
        /\ h \in Alive(k)' /\ h \in Working(k)'
        /\ Alive(k) \subseteq Handler /\ Alive(k)' \subseteq Handler
        /\ Working(k)' \subseteq Alive(k)'
    BY ServesFacts
  <1>4. k \notin raced' => /\ k \notin raced /\ Alive(k) = {}
                           /\ \A g \in Alive(k)' : g = h
    BY <1>3
  <1>5. k \notin raced' => Alone(k)'
    <2>1. SoldUnder(k) = {} => Cardinality(SoldUnder(k)) = 0
      BY FS_EmptySet
    <2> QED BY <1>2, <1>4, <2>1 DEF Alone
  <1>6. k \in ApiKey \ raced' => Ordered(k)'
    <2>1. run'[h].pc # "answer"
      OBVIOUS
    <2>2. None # "processing" /\ "failed" # "processing" /\ "completed" # "processing"
      BY DEF None
    <2> QED BY <1>4, <2>1, <2>2 DEF Ordered
  <1>7. k \in QrKey => Promise(k)'
    <2>1. k \in QrKey => SoldUnder(k) = {}
      BY <1>1 DEF KeyOk, Promise
    <2> QED BY <2>1 DEF Promise
  <1>8. k \in raced' => k \in ApiKey
    BY <1>1 DEF KeyOk
  <1>9. SoldUnder(k)' = {} => debit'[k] = 0
    BY <1>1 DEF KeyOk
  <1> QED BY <1>5, <1>6, <1>7, <1>8, <1>9 DEF KeyOk

\* A purchase stops without a sale.
LEMMA KeyStopped ==
    ASSUME Keys, NEW h \in Handler, NEW k \in Key, Serves(h, k),
           run[h].pc \in {"claimed", "buying"}, run'[h].pc = "answer",
           run'[h].result # "completed",
           SoldUnder(k)' = SoldUnder(k), debit'[k] = debit[k], runs'[k] = runs[k],
           k \in raced' <=> k \in raced,
           k \in ApiKey => request'[k].status = request[k].status,
           k \in QrKey => \/ request'[k].status = request[k].status
                          \/ request'[k].status = "credited"
    PROVE  KeyOk(k)'
  <1>1. KeyOk(k)
    BY DEF Keys
  <1>2. /\ \A g \in Handler \ {h} : /\ (g \in Alive(k)') <=> g \in Alive(k)
                                    /\ (g \in Working(k)') <=> g \in Working(k)
        /\ h \in Alive(k)' /\ h \in Alive(k) /\ h \notin Working(k)' /\ h \in Working(k)
        /\ Alive(k) \subseteq Handler /\ Alive(k)' \subseteq Handler
        /\ Working(k) \subseteq Alive(k) /\ Working(k)' \subseteq Alive(k)'
    BY ServesFacts
  <1>3. Alive(k)' = Alive(k) /\ Working(k)' \subseteq Working(k)
    BY <1>2
  <1>4. k \notin raced => SoldUnder(k) = {} /\ Alone(k)'
    BY <1>1, <1>2, <1>3 DEF KeyOk, Alone
  <1>5. k \in ApiKey \ raced => Ordered(k)'
    <2> SUFFICES ASSUME k \in ApiKey \ raced PROVE Ordered(k)'
      OBVIOUS
    <2>1. \A g \in Alive(k) : g = h
      BY <1>1, <1>2 DEF KeyOk, Alone
    <2> QED BY <1>1, <1>3, <1>4, <2>1 DEF KeyOk, Ordered
  <1>6. k \in QrKey => Promise(k)'
    <2> SUFFICES ASSUME k \in QrKey PROVE Promise(k)'
      OBVIOUS
    <2>1. request[k].status = "open" /\ SoldUnder(k) = {}
      BY <1>1, <1>2 DEF KeyOk, Promise
    <2>2. k \notin raced
      BY <1>1, KeyAssumption DEF KeyOk
    <2>3. Working(k)' = {}
      BY <1>1, <1>2, <2>2 DEF KeyOk, Alone
    <2> QED BY <2>1, <2>3 DEF Promise
  <1> QED BY <1>1, <1>2, <1>3, <1>4, <1>5, <1>6 DEF KeyOk

\* A purchase ends with a sale.
LEMMA KeySold ==
    ASSUME Keys, NEW h \in Handler, NEW k \in Key, Serves(h, k),
           run[h].pc \in {"claimed", "buying"}, run'[h].pc = "answer",
           run'[h].result = "completed", SoldUnder(k)' # {},
           Cardinality(SoldUnder(k))' = Cardinality(SoldUnder(k)) + Body[k].quantity,
           runs'[k] = runs[k], k \in raced' <=> k \in raced,
           k \in ApiKey => request'[k].status = request[k].status,
           k \in QrKey => request'[k].status = "delivered"
    PROVE  KeyOk(k)'
  <1>1. KeyOk(k)
    BY DEF Keys
  <1>2. /\ \A g \in Handler \ {h} : /\ (g \in Alive(k)') <=> g \in Alive(k)
                                    /\ (g \in Working(k)') <=> g \in Working(k)
        /\ h \in Alive(k)' /\ h \in Alive(k) /\ h \notin Working(k)' /\ h \in Working(k)
        /\ Alive(k) \subseteq Handler /\ Alive(k)' \subseteq Handler
        /\ Working(k) \subseteq Alive(k) /\ Working(k)' \subseteq Alive(k)'
    BY ServesFacts
  <1>3. Alive(k)' = Alive(k)
    BY <1>2
  <1>4. k \notin raced => /\ \A g \in Alive(k) : g = h
                          /\ Working(k)' = {}
    BY <1>1, <1>2 DEF KeyOk, Alone
  <1>5. k \notin raced => Alone(k)'
    <2> SUFFICES ASSUME k \notin raced PROVE Alone(k)'
      OBVIOUS
    <2>1. SoldUnder(k) = {}
      BY <1>1, <1>2 DEF KeyOk, Alone
    <2>2. Cardinality(SoldUnder(k)) = 0 /\ Body[k].quantity \in Nat
      BY <2>1, FS_EmptySet, KeyAssumption
    <2>3. Cardinality(SoldUnder(k))' = Body[k].quantity
      BY <2>2
    <2> QED BY <1>3, <1>4, <2>3 DEF Alone
  <1>6. k \in ApiKey \ raced => Ordered(k)'
    <2> SUFFICES ASSUME k \in ApiKey \ raced PROVE Ordered(k)'
      OBVIOUS
    <2>1. request'[k].status = "processing"
      BY <1>1, <1>2 DEF KeyOk, Ordered
    <2>2. None # "processing"
      BY DEF None
    <2> QED BY <1>3, <1>4, <2>1, <2>2 DEF Ordered
  <1>7. k \in QrKey => Promise(k)'
    <2>1. k \in QrKey => k \notin raced
      BY <1>1, KeyAssumption DEF KeyOk
    <2> QED BY <1>4, <2>1 DEF Promise
  <1> QED BY <1>1, <1>2, <1>3, <1>5, <1>6, <1>7 DEF KeyOk

\* A purchase goes on.
LEMMA KeyInside ==
    ASSUME Keys, NEW h \in Handler, NEW k \in Key, Serves(h, k),
           run[h].pc \in {"claimed", "buying"}, run'[h].pc = "buying",
           SoldUnder(k)' = SoldUnder(k), debit'[k] = debit[k], runs'[k] = runs[k],
           k \in raced' <=> k \in raced,
           k \in ApiKey \cup QrKey => request'[k].status = request[k].status
    PROVE  KeyOk(k)'
  <1>1. KeyOk(k)
    BY DEF Keys
  <1>2. /\ \A g \in Handler \ {h} : /\ (g \in Alive(k)') <=> g \in Alive(k)
                                    /\ (g \in Working(k)') <=> g \in Working(k)
        /\ h \in Alive(k)' /\ h \in Alive(k) /\ h \in Working(k)' /\ h \in Working(k)
        /\ Alive(k) \subseteq Handler /\ Alive(k)' \subseteq Handler
        /\ Working(k) \subseteq Alive(k) /\ Working(k)' \subseteq Alive(k)'
    BY ServesFacts
  <1>3. Alive(k)' = Alive(k) /\ Working(k)' = Working(k)
    BY <1>2
  <1>4. Alone(k) => Alone(k)'
    BY <1>3 DEF Alone
  <1>5. k \in ApiKey /\ Ordered(k) => Ordered(k)'
    <2>1. \A g \in Alive(k) : g = h \/ run'[g] = run[g]
      BY <1>2 DEF Serves
    <2> QED BY <1>3, <2>1 DEF Ordered
  <1>6. k \in QrKey /\ Promise(k) => Promise(k)'
    BY <1>3 DEF Promise
  <1> QED BY <1>1, <1>3, <1>4, <1>5, <1>6 DEF KeyOk

\* The handler has answered.
LEMMA KeyAnswered ==
    ASSUME Keys, NEW h \in Handler, NEW k \in Key, Serves(h, k),
           run[h].pc = "answer", run'[h].pc = "idle",
           SoldUnder(k)' = SoldUnder(k), debit'[k] = debit[k], runs'[k] = runs[k],
           k \in raced' <=> k \in raced,
           k \in ApiKey => request'[k].status = Verdict(run[h].result),
           k \in QrKey => request'[k].status = request[k].status
    PROVE  KeyOk(k)'
  <1>1. KeyOk(k)
    BY DEF Keys
  <1>2. /\ \A g \in Handler \ {h} : /\ (g \in Alive(k)') <=> g \in Alive(k)
                                    /\ (g \in Working(k)') <=> g \in Working(k)
        /\ h \notin Alive(k)' /\ h \in Alive(k) /\ h \notin Working(k)' /\ h \notin Working(k)
        /\ Alive(k) \subseteq Handler /\ Alive(k)' \subseteq Handler
        /\ Working(k) \subseteq Alive(k) /\ Working(k)' \subseteq Alive(k)'
    BY ServesFacts
  <1>3. Alive(k)' = Alive(k) \ {h} /\ Working(k)' = Working(k)
    BY <1>2
  <1>4. Alone(k) => Alone(k)'
    BY <1>3 DEF Alone
  <1>5. k \in ApiKey \ raced => Ordered(k)'
    <2> SUFFICES ASSUME k \in ApiKey \ raced PROVE Ordered(k)'
      OBVIOUS
    <2>1. Alive(k)' = {}
      BY <1>1, <1>2, <1>3 DEF KeyOk, Alone
    <2>2. run[h].result = "completed" <=> SoldUnder(k) # {}
      BY <1>1, <1>2 DEF KeyOk, Ordered
    <2>3. /\ Verdict(run[h].result) \in {"completed", "review", "failed"}
          /\ Verdict(run[h].result) = "completed" <=> run[h].result = "completed"
      BY DEF Verdict
    <2>4. None \notin {"completed", "review", "failed"}
      BY DEF None
    <2> QED BY <2>1, <2>2, <2>3, <2>4 DEF Ordered
  <1>6. k \in QrKey /\ Promise(k) => Promise(k)'
    BY <1>3 DEF Promise
  <1> QED BY <1>1, <1>3, <1>4, <1>5, <1>6 DEF KeyOk

\* The process stops: nobody serves a key.
LEMMA KeysAfterCrash ==
    ASSUME Keys, \A h \in Handler : run'[h] = Rest,
           \A k \in Key : SoldUnder(k)' = SoldUnder(k),
           debit' = debit, runs' = runs, raced' = raced, request' = request
    PROVE  Keys'
  <1> SUFFICES ASSUME NEW k \in Key PROVE KeyOk(k)'
    BY DEF Keys
  <1>1. KeyOk(k) /\ SoldUnder(k)' = SoldUnder(k)
    BY DEF Keys
  <1>2. Alive(k)' = {} /\ Working(k)' = {}
    BY DEF Rest, Alive, Working
  <1>3. Alone(k) => Alone(k)'
    BY <1>1, <1>2 DEF Alone
  <1>4. Ordered(k) => Ordered(k)'
    BY <1>1, <1>2 DEF Ordered
  <1>5. Promise(k) => Promise(k)'
    BY <1>1, <1>2 DEF Promise
  <1> QED BY <1>1, <1>2, <1>3, <1>4, <1>5 DEF KeyOk

\* Nobody's purchase takes a step, and at most a payment request is opened.
LEMMA KeysStay ==
    ASSUME Keys, run' = run, \A k \in Key : SoldUnder(k)' = SoldUnder(k),
           debit' = debit, runs' = runs, raced' = raced,
           \A k \in ApiKey : request'[k].status = request[k].status,
           \A k \in QrKey : \/ request'[k].status = request[k].status
                            \/ request[k].status = None /\ request'[k].status = "open"
    PROVE  Keys'
  <1> SUFFICES ASSUME NEW k \in Key PROVE KeyOk(k)'
    BY DEF Keys
  <1>1. CASE k \in ApiKey \cup QrKey => request'[k].status = request[k].status
    <2>1. Untouched(k)
      BY <1>1 DEF Untouched
    <2> QED BY <2>1, UntouchedKey DEF Keys
  <1>2. CASE k \in QrKey /\ request[k].status = None /\ request'[k].status = "open"
    <2>1. KeyOk(k) /\ SoldUnder(k)' = SoldUnder(k) /\ k \notin ApiKey
      BY <1>2, KeyAssumption DEF Keys
    <2>2. Alive(k)' = Alive(k) /\ Working(k)' = Working(k)
      BY DEF Alive, Working
    <2>3. Alone(k) => Alone(k)'
      BY <2>1, <2>2 DEF Alone
    <2>4. None # "open" /\ None # "delivered"
      BY DEF None
    <2>5. Promise(k)'
      BY <1>2, <2>1, <2>2, <2>4 DEF KeyOk, Promise
    <2> QED BY <2>1, <2>2, <2>3, <2>5 DEF KeyOk
  <1> QED BY <1>1, <1>2 DEF Key

\* A handler that has k takes up r.
LEMMA ServesStep ==
    ASSUME Typed, NEW h \in Handler, NEW k, run[h].pc = "idle" \/ run[h].key = k,
           \A g \in Handler \ {h} : run'[g] = run[g],
           run'[h].pc = "idle" \/ run'[h].key = k
    PROVE  Serves(h, k)
  BY DEF Serves

\* A purchase is claimed under a key.
LEMMA ClaimKeys ==
    ASSUME Typed, Keys, NEW h \in Handler, NEW k \in Key, Start(h, k), inv' = inv, debit' = debit,
           \A j \in (ApiKey \cup QrKey) \ {k} : request'[j].status = request[j].status,
           k \in ApiKey => /\ request[k].status = None \/ SoldUnder(k) = {}
                           /\ request'[k].status = "processing",
           k \in BotKey => Alive(k) = {} /\ SoldUnder(k) = {},
           k \in QrKey => /\ request[k].status = "open" /\ request'[k].status = "open"
                          /\ Alive(k) = {}
    PROVE  Keys'
  <1>1. /\ run'[h].pc = "claimed" /\ run'[h].key = k
        /\ \A g \in Handler \ {h} : run'[g] = run[g]
        /\ run[h].pc = "idle"
        /\ runs'[k] = runs[k] + 1 /\ \A j \in Key \ {k} : runs'[j] = runs[j]
    BY StartTyped
  <1>2. Serves(h, k)
    BY <1>1, ServesStep
  <1>3. raced' = IF Alive(k) = {} THEN raced ELSE raced \cup {k}
    BY DEF Start
  <1>4. \A j \in Key : SoldUnder(j)' = SoldUnder(j)
    BY DEF SoldUnder, Rows
  <1>5. OthersStay(k)
    BY <1>1, <1>3, <1>4 DEF OthersStay
  <1>6. runs[k] \in Nat
    BY DEF Typed
  <1>7. runs'[k] # 0
    BY <1>1, <1>6
  <1>8. \/ Alive(k) = {} /\ (k \in raced' <=> k \in raced)
        \/ k \in raced' /\ k \in ApiKey
    BY <1>3 DEF Key
  <1>9. k \in QrKey => (k \in raced' <=> k \in raced)
    BY <1>3
  <1>10. KeyOk(k)'
    BY <1>1, <1>2, <1>4, <1>7, <1>8, <1>9, KeyClaimed
  <1> QED BY <1>2, <1>5, <1>10, OtherKeys

LEMMA CreateOrderKeys ==
    ASSUME Typed, Keys, NEW h \in Handler, NEW k \in ApiKey, CreateOrder(h, k)
    PROVE  Keys'
  <1>1. Start(h, k) /\ inv' = inv /\ debit' = debit /\ k \in Key
    BY DEF CreateOrder, Key
  <1>2. request[k].status = None \/ SoldUnder(k) = {}
    BY DEF CreateOrder
  <1>3. IsFcn(request) /\ DOMAIN request = ApiKey \cup QrKey /\ request[k] \in ApiType
    BY DEF Typed
  <1>4. \E v : request' = [request EXCEPT ![k] = v] /\ v.status = "processing"
    <2>1. CASE request' = [request EXCEPT ![k] = [status |-> "processing", error |-> None, fresh |-> TRUE]]
      <3>1. PICK v : v = [status |-> "processing", error |-> None, fresh |-> TRUE]
        OBVIOUS
      <3>2. v.status = "processing" /\ request' = [request EXCEPT ![k] = v]
        BY <2>1, <3>1
      <3> QED BY <3>2
    <2>2. CASE request[k].status = "processing" /\ request' = [request EXCEPT ![k] = Reclaimed(@)]
      <3>1. PICK v : v = Reclaimed(request[k])
        OBVIOUS
      <3>2. v.status = "processing"
        BY <1>3, <2>2, <3>1 DEF Reclaimed, ApiType
      <3>3. request' = [request EXCEPT ![k] = v]
        BY <2>2, <3>1
      <3> QED BY <3>2, <3>3
    <2> QED BY <2>1, <2>2 DEF CreateOrder
  <1>5. /\ request'[k].status = "processing"
        /\ \A j \in (ApiKey \cup QrKey) \ {k} : request'[j] = request[j]
    BY <1>3, <1>4 DEF IsFcn
  <1>6. k \notin BotKey /\ k \notin QrKey
    BY KeyAssumption
  <1> QED BY <1>1, <1>2, <1>5, <1>6, ClaimKeys

LEMMA PressBuyKeys ==
    ASSUME Typed, Keys, NEW h \in Handler, NEW k \in BotKey, PressBuy(h, k)
    PROVE  Keys'
  <1>1. Start(h, k) /\ inv' = inv /\ debit' = debit /\ request' = request /\ runs[k] = 0 /\ k \in Key
    BY DEF PressBuy, Key
  <1>2. Alive(k) = {} /\ SoldUnder(k) = {}
    BY <1>1 DEF Keys, KeyOk
  <1>3. k \notin ApiKey /\ k \notin QrKey
    BY KeyAssumption
  <1> QED BY <1>1, <1>2, <1>3, ClaimKeys

LEMMA PayKeys ==
    ASSUME Typed, Keys, NEW h \in Handler, NEW k \in QrKey, Pay(h, k)
    PROVE  Keys'
  <1>1. /\ Start(h, k) /\ inv' = inv /\ debit' = debit /\ request' = request /\ k \in Key
        /\ request[k].status = "open" /\ Alive(k) = {}
    BY DEF Pay, Key
  <1>2. k \notin ApiKey /\ k \notin BotKey
    BY KeyAssumption
  <1> QED BY <1>1, <1>2, ClaimKeys

\* What a sale and a refusal do to the requests.
LEMMA CompleteRequest ==
    ASSUME Typed, NEW h \in Handler, NEW k \in Key, k = run[h].key,
           NEW p, NEW plan, NEW orders, NEW paid, NEW route, NEW quote,
           Complete(h, p, plan, orders, paid, route, quote)
    PROVE  /\ k \in QrKey => request'[k].status = "delivered"
           /\ \A j \in ApiKey \cup QrKey : j # k => request'[j] = request[j]
           /\ k \in ApiKey => request'[k] = request[k]
           /\ \A j \in QrKey : request'[j].amount = request[j].amount
  <1>1. CASE k \in QrKey
    <2>1. request' = [request EXCEPT ![k].status = "delivered"]
      BY <1>1 DEF Complete
    <2>2. PICK req : req = [request EXCEPT ![k].status = "delivered"]
      OBVIOUS
    <2>3. /\ req[k].status = "delivered" /\ req[k].amount = request[k].amount
          /\ \A j \in (ApiKey \cup QrKey) \ {k} : req[j] = request[j]
      BY <1>1, <2>2, QrEnds
    <2>4. k \notin ApiKey
      BY <1>1, KeyAssumption
    <2> QED BY <1>1, <2>1, <2>2, <2>3, <2>4
  <1>2. CASE k \notin QrKey
    BY <1>2 DEF Complete
  <1> QED BY <1>1, <1>2

LEMMA NotSoldRequest ==
    ASSUME Typed, NEW h \in Handler, NEW k \in Key, k = run[h].key, NEW code, NotSold(h, code)
    PROVE  /\ k \in QrKey => request'[k].status = "credited"
           /\ \A j \in ApiKey \cup QrKey : j # k => request'[j] = request[j]
           /\ k \in ApiKey => request'[k] = request[k]
           /\ \A j \in QrKey : request'[j].amount = request[j].amount
  <1>1. CASE k \in QrKey
    <2>1. request' = [request EXCEPT ![k].status = "credited"]
      BY <1>1 DEF NotSold
    <2>2. PICK req : req = [request EXCEPT ![k].status = "credited"]
      OBVIOUS
    <2>3. /\ req[k].status = "credited" /\ req[k].amount = request[k].amount
          /\ \A j \in (ApiKey \cup QrKey) \ {k} : req[j] = request[j]
      BY <1>1, <2>2, QrEnds
    <2>4. k \notin ApiKey
      BY <1>1, KeyAssumption
    <2> QED BY <1>1, <2>1, <2>2, <2>3, <2>4
  <1>2. CASE k \notin QrKey
    BY <1>2 DEF NotSold
  <1> QED BY <1>1, <1>2

LEMMA CompleteKeys ==
    ASSUME Typed, Keys, NEW h \in Handler, run[h].pc \in {"claimed", "buying"},
           NEW p, NEW plan, NEW orders, NEW paid, NEW route, NEW quote,
           CanSell(h, p, plan, orders, paid, route, quote),
           Complete(h, p, plan, orders, paid, route, quote), runs' = runs, raced' = raced
    PROVE  Keys'
  <1>1. PICK k : k = run[h].key
    OBVIOUS
  <1>2. k \in Key
    BY <1>1 DEF CanSell
  <1>3. PICK id : Sale(h, plan, orders, paid, route, quote, id)
    BY CompleteTyped
  <1>4. PICK total, goods, filed : /\ total = TotalOf(quote.local, route, plan)
                                   /\ goods = Goods(plan, paid) /\ filed = {id[g] : g \in goods}
    OBVIOUS
  <1>5. Adds(k, quote, goods, filed, id, orders, paid, route)
    BY <1>1, <1>3, <1>4, SaleFacts
  <1>6. Cardinality(SoldUnder(k))' = Cardinality(SoldUnder(k)) + Body[k].quantity
    BY <1>1, <1>3, <1>4, SaleCount
  <1>7. SoldUnder(k)' # {}
    <2>1. Cardinality(SoldUnder(k)) \in Nat
      BY <1>2, SoldFacts
    <2>2. Body[k].quantity \in Nat \ {0}
      BY <1>2, KeyAssumption
    <2>3. Cardinality(SoldUnder(k)') # 0
      BY <1>6, <2>1, <2>2
    <2> QED BY <2>3, FS_EmptySet
  <1>8. debit' = [debit EXCEPT ![run[h].key] = debit[run[h].key] + quote.total] /\ Ended(h, "completed")
    BY CompleteTyped
  <1>9. \A j \in Key \ {k} : debit'[j] = debit[j]
    BY <1>1, <1>8 DEF Typed
  <1>10. PICK code : code = "completed"
    OBVIOUS
  <1>11. /\ run'[h].pc = "answer" /\ run'[h].key = k /\ run'[h].result = "completed"
         /\ \A g \in Handler \ {h} : run'[g] = run[g]
    <2>1. code \in Reason \cup {"completed"} /\ Ended(h, code) /\ run[h].key \in Key
      BY <1>1, <1>2, <1>8, <1>10
    <2> QED BY <1>1, <1>10, <2>1, EndedStep
  <1>12. Serves(h, k)
    BY <1>1, <1>11, ServesStep
  <1>13. /\ k \in QrKey => request'[k].status = "delivered"
         /\ \A j \in ApiKey \cup QrKey : j # k => request'[j] = request[j]
         /\ k \in ApiKey => request'[k] = request[k]
    BY <1>1, <1>2, CompleteRequest
  <1>14. OthersStay(k)
    BY <1>5, <1>9, <1>13 DEF OthersStay, Adds
  <1>15. /\ runs'[k] = runs[k] /\ (k \in raced' <=> k \in raced)
         /\ k \in ApiKey => request'[k].status = request[k].status
    BY <1>13
  <1>16. KeyOk(k)'
    BY <1>2, <1>6, <1>7, <1>11, <1>12, <1>13, <1>15, KeySold
  <1> QED BY <1>2, <1>12, <1>14, <1>16, OtherKeys

\* A purchase stops: by a refusal, or by an exception.
LEMMA StoppedKeys ==
    ASSUME Typed, Keys, NEW h \in Handler, run[h].pc \in {"claimed", "buying"},
           NEW code \in Reason, \/ NotSold(h, code)
                                \/ Ended(h, code) /\ request' = request /\ debit' = debit,
           SameSales, runs' = runs, raced' = raced
    PROVE  Keys'
  <1>1. PICK k : k = run[h].key
    OBVIOUS
  <1>2. k \in Key
    BY <1>1, RunKey
  <1>3. debit' = debit /\ Ended(h, code)
    BY DEF NotSold
  <1>4. "completed" \notin Reason
    BY DEF Reason, None
  <1>5. /\ run'[h].pc = "answer" /\ run'[h].key = k /\ run'[h].result # "completed"
        /\ \A g \in Handler \ {h} : run'[g] = run[g]
    <2>1. code \in Reason \cup {"completed"} /\ run[h].key \in Key
      BY <1>1, <1>2
    <2> QED BY <1>1, <1>3, <1>4, <2>1, EndedStep
  <1>6. Serves(h, k)
    BY <1>1, <1>5, ServesStep
  <1>7. /\ \A j \in ApiKey \cup QrKey : j # k => request'[j].status = request[j].status
        /\ k \in ApiKey => request'[k].status = request[k].status
        /\ k \in QrKey => \/ request'[k].status = request[k].status
                          \/ request'[k].status = "credited"
    <2>1. CASE NotSold(h, code)
      BY <1>1, <1>2, <2>1, NotSoldRequest
    <2>2. CASE request' = request
      BY <2>2
    <2> QED BY <2>1, <2>2
  <1>8. \A j \in Key : SoldUnder(j)' = SoldUnder(j)
    BY DEF SameSales
  <1>9. OthersStay(k)
    BY <1>3, <1>7, <1>8 DEF OthersStay
  <1>10. SoldUnder(k)' = SoldUnder(k) /\ debit'[k] = debit[k] /\ runs'[k] = runs[k]
         /\ (k \in raced' <=> k \in raced)
    BY <1>2, <1>3, <1>8
  <1>11. KeyOk(k)'
    BY <1>2, <1>5, <1>6, <1>7, <1>10, KeyStopped
  <1> QED BY <1>2, <1>6, <1>9, <1>11, OtherKeys

\* A purchase asks the suppliers, or pays for a part.
LEMMA InsideKeys ==
    ASSUME Typed, Keys, NEW h \in Handler, run[h].pc \in {"claimed", "buying"},
           \A g \in Handler \ {h} : run'[g] = run[g],
           run'[h].pc = "buying", run'[h].key = run[h].key,
           inv' = inv, debit' = debit, request' = request, runs' = runs, raced' = raced
    PROVE  Keys'
  <1>1. PICK k : k = run[h].key
    OBVIOUS
  <1>2. k \in Key
    BY <1>1, RunKey
  <1>3. Serves(h, k)
    BY <1>1, ServesStep
  <1>4. \A j \in Key : SoldUnder(j)' = SoldUnder(j)
    BY DEF SoldUnder, Rows
  <1>5. OthersStay(k)
    BY <1>4 DEF OthersStay
  <1>6. KeyOk(k)'
    BY <1>2, <1>3, <1>4, KeyInside
  <1> QED BY <1>2, <1>3, <1>5, <1>6, OtherKeys

\* The keys are kept by a purchase that begins.
LEMMA BeginsKeys ==
    ASSUME Typed, Keys, NEW h \in Handler, Begins(h)
    PROVE  Keys'
  <1>1. /\ run[h].pc = "claimed" /\ run[h].key \in Key /\ runs' = runs /\ raced' = raced
    BY DEF Begins
  <1>2. CASE inv' = inv /\ \E code \in Reason : NotSold(h, code)
    <2>1. PICK code \in Reason : NotSold(h, code)
      BY <1>2
    <2>2. SameSales
      BY <1>2, SameTable
    <2> QED BY <1>1, <2>1, <2>2, StoppedKeys
  <1>3. ASSUME NEW src, NEW q, SaleSound(h, src, q), Proceed(h, src, q)
        PROVE  Keys'
    <2>1. CASE src.need = 0
      <3>1. PICK p, plan, orders, paid, route : /\ p = src.p /\ plan = src.plan /\ orders = placed
                                                /\ paid = NothingPaid /\ route = q.route
        OBVIOUS
      <3>2. CanSell(h, p, plan, orders, paid, route, q)
        BY <1>1, <1>3, <2>1, <3>1, RowsCanSell
      <3>3. Complete(h, p, plan, orders, paid, route, q)
        BY <1>3, <2>1, <3>1 DEF Proceed
      <3> QED BY <1>1, <3>2, <3>3, CompleteKeys
    <2>2. CASE src.need # 0
      <3>1. PICK r : r = [pc |-> "buying", key |-> run[h].key, p |-> src.p,
                          plan |-> src.plan, paid |-> NothingPaid, quote |-> q]
        OBVIOUS
      <3>2. /\ run' = [run EXCEPT ![h] = r]
            /\ UNCHANGED <<inv, wallet, debit, request>>
        BY <1>3, <2>2, <3>1 DEF Proceed
      <3>3. IsFcn(run) /\ DOMAIN run = Handler
        BY DEF Typed
      <3>4. run'[h] = r /\ \A g \in Handler \ {h} : run'[g] = run[g]
        BY <3>2, <3>3 DEF IsFcn
      <3>5. run'[h].pc = "buying" /\ run'[h].key = run[h].key
        BY <3>1, <3>4
      <3> QED BY <1>1, <3>2, <3>4, <3>5, InsideKeys
    <2> QED BY <2>1, <2>2
  <1> QED BY <1>2, <1>3 DEF Begins

\* The keys are kept by a purchase from the suppliers.
LEMMA GoesOnKeys ==
    ASSUME Typed, Deals, Keys, NEW h \in Handler, GoesOn(h)
    PROVE  Keys'
  <1>1. /\ run[h].pc = "buying" /\ run[h].key \in Key /\ runs' = runs /\ raced' = raced
    BY DEF GoesOn
  <1>2. Deal(h)
    BY <1>1 DEF Deals, Buyers
  <1>3. PICK orders, paid : /\ Buys(h, orders, paid)
                            /\ \/ PartBought(h, orders, paid) \/ KeptAll(h, orders, paid)
                               \/ Undone(h, orders, paid) \/ SoldAll(h, orders, paid)
    BY DEF GoesOn
  <1>4. CASE PartBought(h, orders, paid)
    <2>1. /\ run' = [run EXCEPT ![h].paid = paid]
          /\ UNCHANGED <<inv, wallet, debit, request>>
      BY <1>4 DEF PartBought
    <2>2. IsFcn(run) /\ DOMAIN run = Handler /\ RunTyped(run[h])
      BY DEF Typed
    <2>3. \A g \in Handler \ {h} : run'[g] = run[g]
      BY <2>1, <2>2 DEF IsFcn
    <2>4. PICK r : r = [run[h] EXCEPT !.paid = paid]
      OBVIOUS
    <2>5. run'[h] = r
      BY <2>1, <2>2, <2>4 DEF IsFcn
    <2>6. run[h] = [pc |-> "buying", key |-> run[h].key, p |-> run[h].p, plan |-> run[h].plan,
                    paid |-> run[h].paid, quote |-> run[h].quote]
      BY <1>1, <2>2 DEF RunTyped, Rest
    <2>7. r.pc = "buying" /\ r.key = run[h].key
      BY <2>4, <2>6
    <2> QED BY <1>1, <2>1, <2>3, <2>5, <2>7, InsideKeys
  <1>5. CASE KeptAll(h, orders, paid)
    <2>1. PICK code \in Reason : NotSold(h, code)
      BY <1>5 DEF KeptAll
    <2>2. PICK plan : plan = run[h].plan
      OBVIOUS
    <2>3. PlanTyped(plan) /\ Bought(plan, orders, paid) /\ inv' = Kept(plan, orders, paid)
      BY <1>1, <1>3, <1>5, <2>2, RunKey DEF Buys, KeptAll
    <2>4. SameSales
      BY <2>3, KeptSales
    <2> QED BY <1>1, <2>1, <2>4, StoppedKeys
  <1>6. CASE Undone(h, orders, paid)
    <2>1. PICK code : code = "exception"
      OBVIOUS
    <2>2. code \in Reason /\ Ended(h, code) /\ request' = request /\ debit' = debit /\ inv' = inv
      BY <1>6, <2>1 DEF Undone, Reason
    <2>3. SameSales
      BY <2>2, SameTable
    <2> QED BY <1>1, <2>2, <2>3, StoppedKeys
  <1>7. CASE SoldAll(h, orders, paid)
    <2>1. PICK p, plan, route, quote : /\ p = run[h].p /\ plan = run[h].plan /\ quote = run[h].quote
                                       /\ route = FinalPrices(h, orders, paid)
      OBVIOUS
    <2>2. CanSell(h, p, plan, orders, paid, route, quote)
      BY <1>1, <1>2, <1>3, <1>7, <2>1, PartsCanSell
    <2>3. Complete(h, p, plan, orders, paid, route, quote)
      BY <1>7, <2>1 DEF SoldAll
    <2> QED BY <1>1, <2>2, <2>3, CompleteKeys
  <1> QED BY <1>3, <1>4, <1>5, <1>6, <1>7

LEMMA RaiseKeys ==
    ASSUME Typed, Keys, NEW h \in Handler, Raise(h)
    PROVE  Keys'
  <1>1. PICK code : code = "exception"
    OBVIOUS
  <1>2. /\ code \in Reason /\ Ended(h, code) /\ request' = request /\ debit' = debit /\ inv' = inv
        /\ run[h].pc \in {"claimed", "buying"} /\ runs' = runs /\ raced' = raced
    BY <1>1 DEF Raise, Reason
  <1>3. SameSales
    BY <1>2, SameTable
  <1> QED BY <1>2, <1>3, StoppedKeys

LEMMA AnswerKeys ==
    ASSUME Typed, Keys, NEW h \in Handler, Answer(h)
    PROVE  Keys'
  <1>1. /\ run' = [run EXCEPT ![h] = Rest]
        /\ run[h].key \in Key /\ run[h].pc = "answer"
        /\ run[h].key \notin ApiKey => request' = request
        /\ run[h].key \in ApiKey =>
             /\ request'[run[h].key].status = Verdict(run[h].result)
             /\ \A j \in (ApiKey \cup QrKey) \ {run[h].key} : request'[j] = request[j]
        /\ inv' = inv /\ debit' = debit /\ runs' = runs /\ raced' = raced
    BY AnswerTyped
  <1>2. PICK k : k = run[h].key
    OBVIOUS
  <1>3. IsFcn(run) /\ DOMAIN run = Handler
    BY DEF Typed
  <1>4. run'[h].pc = "idle" /\ \A g \in Handler \ {h} : run'[g] = run[g]
    BY <1>1, <1>3 DEF IsFcn, Rest
  <1>5. Serves(h, k)
    BY <1>2, <1>4, ServesStep
  <1>6. \A j \in Key : SoldUnder(j)' = SoldUnder(j)
    BY <1>1 DEF SoldUnder, Rows
  <1>7. OthersStay(k)
    BY <1>1, <1>2, <1>6 DEF OthersStay
  <1>8. /\ k \in ApiKey => request'[k].status = Verdict(run[h].result)
        /\ k \in QrKey => request'[k].status = request[k].status
        /\ k \in Key /\ SoldUnder(k)' = SoldUnder(k) /\ debit'[k] = debit[k] /\ runs'[k] = runs[k]
        /\ (k \in raced' <=> k \in raced)
    BY <1>1, <1>2, <1>6, KeyAssumption
  <1>9. KeyOk(k)'
    BY <1>1, <1>4, <1>5, <1>8, KeyAnswered
  <1> QED BY <1>5, <1>7, <1>8, <1>9, OtherKeys

LEMMA CrashKeys ==
    ASSUME Typed, Keys, Crash
    PROVE  Keys'
  <1>1. /\ run' = [h \in Handler |-> Rest]
        /\ inv' = inv /\ debit' = debit /\ runs' = runs /\ raced' = raced /\ request' = request
    BY DEF Crash
  <1>2. \A k \in Key : SoldUnder(k)' = SoldUnder(k)
    BY <1>1 DEF SoldUnder, Rows
  <1>3. \A h \in Handler : run'[h] = Rest
    BY <1>1
  <1> QED BY <1>1, <1>2, <1>3, KeysAfterCrash

\* Steps that are no part of a purchase.
LEMMA StayKeys ==
    ASSUME Keys, SameSales, UNCHANGED <<debit, run, runs, raced>>,
           \A k \in ApiKey : request'[k].status = request[k].status,
           \A k \in QrKey : \/ request'[k].status = request[k].status
                            \/ request[k].status = None /\ request'[k].status = "open"
    PROVE  Keys'
  <1>1. \A k \in Key : SoldUnder(k)' = SoldUnder(k)
    BY DEF SameSales
  <1> QED BY <1>1, KeysStay

LEMMA GrowStaleKeys ==
    ASSUME Typed, Keys, NEW k \in ApiKey, GrowStale(k)
    PROVE  Keys'
  <1>1. /\ request' = [request EXCEPT ![k].fresh = FALSE]
        /\ inv' = inv /\ debit' = debit /\ run' = run /\ runs' = runs /\ raced' = raced
    BY DEF GrowStale
  <1>2. IsFcn(request) /\ DOMAIN request = ApiKey \cup QrKey /\ request[k] \in ApiType
    BY DEF Typed
  <1>3. PICK v : v = [request[k] EXCEPT !.fresh = FALSE]
    OBVIOUS
  <1>4. v.status = request[k].status
    BY <1>2, <1>3 DEF ApiType
  <1>5. request'[k] = v /\ \A j \in (ApiKey \cup QrKey) \ {k} : request'[j] = request[j]
    BY <1>1, <1>2, <1>3 DEF IsFcn
  <1>6. \A j \in ApiKey \cup QrKey : request'[j].status = request[j].status
    BY <1>4, <1>5
  <1>7. SameSales
    BY <1>1, SameTable
  <1> QED BY <1>1, <1>6, <1>7, StayKeys

LEMMA ShowTotalKeys ==
    ASSUME Typed, Keys, NEW k \in BotKey, ShowTotal(k)
    PROVE  Keys'
  <1>1. UNCHANGED <<inv, debit, request, run, runs, raced>>
    BY DEF ShowTotal
  <1>2. SameSales
    BY <1>1, SameTable
  <1> QED BY <1>1, <1>2, StayKeys

LEMMA CreateRequestKeys ==
    ASSUME Typed, Keys, NEW k \in QrKey, CreateRequest(k)
    PROVE  /\ Keys'
           /\ request[k].status = None /\ request'[k].status = "open"
           /\ \A j \in ApiKey \cup QrKey : j # k => request'[j] = request[j]
  <1>1. /\ UNCHANGED <<inv, debit, run, runs, raced>> /\ request[k].status = None
        /\ request' = [request EXCEPT ![k] =
                         [status |-> "open", amount |-> CheckoutQuote(k).total,
                          pricing |-> CheckoutQuote(k).pricing, locked |-> product.locked]]
    BY DEF CreateRequest
  <1>2. IsFcn(request) /\ DOMAIN request = ApiKey \cup QrKey
    BY DEF Typed
  <1>3. PICK v : v = [status |-> "open", amount |-> CheckoutQuote(k).total,
                      pricing |-> CheckoutQuote(k).pricing, locked |-> product.locked]
    OBVIOUS
  <1>4. v.status = "open" /\ request' = [request EXCEPT ![k] = v]
    BY <1>1, <1>3
  <1>5. request'[k] = v /\ \A j \in (ApiKey \cup QrKey) \ {k} : request'[j] = request[j]
    BY <1>2, <1>4 DEF IsFcn
  <1>6. k \notin ApiKey
    BY KeyAssumption
  <1>7. SameSales
    BY <1>1, SameTable
  <1>8. /\ \A j \in ApiKey : request'[j].status = request[j].status
        /\ \A j \in QrKey : \/ request'[j].status = request[j].status
                            \/ request[j].status = None /\ request'[j].status = "open"
    BY <1>1, <1>4, <1>5, <1>6
  <1>9. Keys'
    BY <1>1, <1>7, <1>8, StayKeys
  <1> QED BY <1>1, <1>4, <1>5, <1>9

\* Steps that write the table, the product, the terms or the catalog.
LEMMA RowsKeys ==
    ASSUME Typed, Keys,
           \/ \E o \in DOMAIN placed : RecoverOrder(o)
           \/ \E D, cost, again : Imports(D, cost, again)
           \/ Fewer
    PROVE  Keys'
  <1>1. UNCHANGED <<debit, request, run, runs, raced>>
    BY DEF RecoverOrder, Imports, Fewer
  <1>2. SameSales
    BY RecoverSales, ImportsSales, FewerSales
  <1> QED BY <1>1, <1>2, StayKeys

LEMMA QuietKeys ==
    ASSUME Typed, Keys, Quiet, \A j \in ApiKey \cup QrKey : request'[j].status = request[j].status
    PROVE  Keys'
  <1>1. UNCHANGED <<inv, debit, run, runs, raced>>
    BY DEF Quiet
  <1>2. SameSales
    BY <1>1, SameTable
  <1> QED BY <1>1, <1>2, StayKeys

\* The keys at first.
LEMMA InitKeys == Init => Keys
  <1> SUFFICES ASSUME Init PROVE Keys
    OBVIOUS
  <1>1. /\ inv = [i \in {} |-> Row(None, 0, None)] /\ debit = [k \in Key |-> 0]
        /\ run = [h \in Handler |-> Rest] /\ raced = {}
        /\ request = [k \in ApiKey \cup QrKey |->
                        IF k \in ApiKey THEN [status |-> None, error |-> None, fresh |-> TRUE]
                        ELSE [status |-> None, amount |-> 0, pricing |-> PublicPricing,
                              locked |-> FALSE]]
    BY DEF Init
  <1> SUFFICES ASSUME NEW k \in Key PROVE KeyOk(k)
    BY DEF Keys
  <1>2. Alive(k) = {} /\ Working(k) = {} /\ SoldUnder(k) = {}
    BY <1>1 DEF Alive, Working, SoldUnder, Rows, Rest
  <1>3. debit[k] = 0 /\ k \notin raced
    BY <1>1
  <1>4. Alone(k)
    BY <1>2, FS_EmptySet DEF Alone
  <1>5. k \in ApiKey \cup QrKey => request[k].status = None
    BY <1>1
  <1>6. k \in ApiKey => Ordered(k)
    BY <1>2, <1>5 DEF Ordered, None
  <1>7. k \in QrKey => Promise(k)
    BY <1>2, <1>5 DEF Promise, None
  <1> QED BY <1>2, <1>3, <1>4, <1>6, <1>7 DEF KeyOk

-----------------------------------------------------------------------------
(* The deals *)

\* Who buys goes on buying, on the same terms.
SameDeals ==
    /\ UNCHANGED <<inv, placed, wallet>>
    /\ \A h \in Handler : run'[h].pc = "buying" =>
          /\ run'[h] = run[h]
          /\ run[h].key \in BotKey => shown'[run[h].key] = shown[run[h].key]
          /\ run[h].key \in QrKey => request'[run[h].key].amount = request[run[h].key].amount

LEMMA SameDealsKept ==
    ASSUME Typed, Deals, SameDeals
    PROVE  Deals'
  <1>1. OneBuyer'
    BY DEF Deals, SameDeals, OneBuyer, Buyers
  <1>2. ASSUME NEW h \in Handler, run'[h].pc = "buying"
        PROVE  Deal(h)'
    <2>1. run'[h] = run[h]
      BY <1>2 DEF SameDeals
    <2>2. PICK r : r = run[h]
      OBVIOUS
    <2>3. Deal(h)
      BY <1>2, <2>1 DEF Deals, Buyers
    <2>4. Agreed(r.key)' <=> Agreed(r.key)
      BY <1>2, <2>1, <2>2 DEF Agreed, SameDeals
    <2>5. TotalMoved(r.key, r.quote.total)' <=> TotalMoved(r.key, r.quote.total)
      BY <1>2, <2>1, <2>2, <2>4 DEF Agreed, TotalMoved, SameDeals
    <2>6. Available' = Available
      BY DEF Available, Rows, SameDeals
    <2>7. Gains(r.quote, r.plan)' <=> Gains(r.quote, r.plan)
      BY DEF Gains, SameDeals
    <2>8. r.key \in QrKey => request'[r.key].amount = request[r.key].amount
      BY <1>2, <2>1, <2>2 DEF SameDeals
    <2>9. placed' = placed /\ wallet' = wallet /\ run'[h] = r
      BY <2>1, <2>2 DEF SameDeals
    <2> QED BY <2>2, <2>3, <2>5, <2>6, <2>7, <2>8, <2>9 DEF Deal
  <1> QED BY <1>1, <1>2 DEF Deals, Buyers

LEMMA NoDeals ==
    ASSUME \A h \in Handler : run'[h].pc # "buying"
    PROVE  Deals'
  BY DEF Deals, OneBuyer, Buyers

\* Nobody buys, and a handler that stops does not either.
LEMMA StopDeals ==
    ASSUME Deals, NEW h \in Handler, run[h].pc = "buying" \/ ~IsBuying, run'[h].pc # "buying",
           \A g \in Handler \ {h} : run'[g] = run[g]
    PROVE  Deals'
  <1>1. \A g \in Handler \ {h} : run[g].pc # "buying"
    BY DEF Deals, OneBuyer, Buyers, IsBuying
  <1> QED BY <1>1, NoDeals

\* The deal of a purchase that begins.
LEMMA DealBegins ==
    ASSUME Typed, NEW h \in Handler, run[h].key \in Key, NEW src, NEW q, SaleSound(h, src, q),
           src.need # 0, UNCHANGED <<inv, placed, wallet, request, shown>>,
           NEW r, r = [pc |-> "buying", key |-> run[h].key, p |-> src.p,
                       plan |-> src.plan, paid |-> NothingPaid, quote |-> q],
           run'[h] = r
    PROVE  Deal(h)'
  <1>1. PICK k, plan, paid : k = run[h].key /\ plan = src.plan /\ paid = NothingPaid
    OBVIOUS
  <1>2. SourcesSound(src, k) /\ src.need \in Nat /\ src.need > 0
    BY <1>1 DEF SaleSound, SourcesSound
  <1>3. DOMAIN plan # {}
    BY <1>1, <1>2 DEF SaleSound
  <1>4. /\ DOMAIN q.local \subseteq Available
        /\ Cardinality(DOMAIN q.local) + SumOver(DOMAIN plan, Quantities(plan)) = Body[k].quantity
    BY <1>1, <1>2, <1>3 DEF SaleSound, SourcesSound
  <1>5. DOMAIN q.route = DOMAIN plan /\ Gains(q, plan)
    BY <1>1 DEF SaleSound
  <1>6. IsFcn(paid) /\ DOMAIN paid = {}
    BY <1>1 DEF NothingPaid, IsFcn
  <1>7. Bought(plan, placed, paid) /\ DOMAIN paid # DOMAIN plan
    BY <1>3, <1>6 DEF Bought
  <1>8. /\ ~TooDear(k, Amounts(q.local) \cup Amounts(q.route))
        /\ ~TotalMoved(k, q.total)
        /\ q.total = TotalOf(q.local, q.route, plan)
        /\ IF k \in QrKey THEN q.total = request[k].amount ELSE wallet[Body[k].user] >= q.total
    <2>1. CASE k \in QrKey
      <3>1. PaidSound(q, src, k)
        BY <1>1, <2>1 DEF SaleSound
      <3>2. k \notin ApiKey /\ k \notin BotKey
        BY <2>1, KeyAssumption
      <3>3. ~TooDear(k, Amounts(q.local) \cup Amounts(q.route)) /\ ~TotalMoved(k, q.total)
        BY <3>2 DEF TooDear, TotalMoved, Agreed
      <3> QED BY <1>1, <1>2, <2>1, <3>1, <3>3 DEF PaidSound
    <2>2. CASE k \notin QrKey
      BY <1>1, <2>2 DEF SaleSound
    <2> QED BY <2>1, <2>2
  <1>9. run'[h].key = k /\ run'[h].quote = q /\ run'[h].plan = plan /\ run'[h].paid = paid
    BY <1>1
  <1>10. Available' = Available
    BY DEF Available, Rows
  <1>11. Gains(q, plan)'
    BY <1>5 DEF Gains
  <1>12. ~TotalMoved(k, q.total)'
    BY <1>8 DEF TotalMoved, Agreed
  <1>13. placed' = placed /\ wallet' = wallet /\ request' = request
    OBVIOUS
  <1>14. Bought(plan, placed', paid)
    BY <1>7
  <1> QED BY <1>4, <1>5, <1>7, <1>8, <1>9, <1>10, <1>11, <1>12, <1>13, <1>14 DEF Deal

LEMMA BeginsDeals ==
    ASSUME Typed, Deals, NEW h \in Handler, Begins(h)
    PROVE  Deals'
  <1>1. /\ run[h].pc = "claimed" /\ run[h].key \in Key /\ ~IsBuying
        /\ placed' = placed /\ shown' = shown
    BY DEF Begins
  <1>2. ASSUME NEW code, Ended(h, code) PROVE Deals'
    <2>1. IsFcn(run) /\ DOMAIN run = Handler
      BY DEF Typed
    <2>2. run'[h].pc # "buying" /\ \A g \in Handler \ {h} : run'[g] = run[g]
      BY <1>2, <2>1 DEF Ended, IsFcn
    <2> QED BY <1>1, <2>2, StopDeals
  <1>3. CASE \E code \in Reason : NotSold(h, code)
    BY <1>2, <1>3 DEF NotSold
  <1>4. ASSUME NEW src, NEW q, SaleSound(h, src, q), Proceed(h, src, q)
        PROVE  Deals'
    <2>1. CASE src.need = 0
      BY <1>2, <1>4, <2>1 DEF Proceed, Complete
    <2>2. CASE src.need # 0
      <3>1. PICK r : r = [pc |-> "buying", key |-> run[h].key, p |-> src.p,
                          plan |-> src.plan, paid |-> NothingPaid, quote |-> q]
        OBVIOUS
      <3>2. run' = [run EXCEPT ![h] = r] /\ UNCHANGED <<inv, wallet, request>>
        BY <1>4, <2>2, <3>1 DEF Proceed
      <3>3. IsFcn(run) /\ DOMAIN run = Handler
        BY DEF Typed
      <3>4. run'[h] = r /\ \A g \in Handler \ {h} : run'[g] = run[g]
        BY <3>2, <3>3 DEF IsFcn
      <3>5. Deal(h)'
        BY <1>1, <1>4, <2>2, <3>1, <3>2, <3>4, DealBegins
      <3>6. \A g \in Handler \ {h} : run'[g].pc # "buying"
        BY <1>1, <3>4 DEF IsBuying
      <3> QED BY <3>5, <3>6 DEF Deals, OneBuyer, Buyers
    <2> QED BY <2>1, <2>2
  <1> QED BY <1>3, <1>4 DEF Begins

LEMMA GoesOnDeals ==
    ASSUME Typed, Deals, NEW h \in Handler, GoesOn(h)
    PROVE  Deals'
  <1>1. run[h].pc = "buying" /\ run[h].key \in Key /\ shown' = shown
    BY DEF GoesOn
  <1>2. Deal(h) /\ \A g \in Handler \ {h} : run[g].pc # "buying"
    BY <1>1 DEF Deals, OneBuyer, Buyers
  <1>3. PICK orders, paid : /\ Buys(h, orders, paid)
                            /\ \/ PartBought(h, orders, paid) \/ KeptAll(h, orders, paid)
                               \/ Undone(h, orders, paid) \/ SoldAll(h, orders, paid)
    BY DEF GoesOn
  <1>4. IsFcn(run) /\ DOMAIN run = Handler /\ RunTyped(run[h])
    BY DEF Typed
  <1>5. ASSUME NEW code, Ended(h, code) PROVE Deals'
    <2>1. run'[h].pc # "buying" /\ \A g \in Handler \ {h} : run'[g] = run[g]
      BY <1>4, <1>5 DEF Ended, IsFcn
    <2> QED BY <1>1, <2>1, StopDeals
  <1>6. CASE PartBought(h, orders, paid)
    <2>1. /\ run' = [run EXCEPT ![h].paid = paid] /\ DOMAIN paid # DOMAIN run[h].plan
          /\ placed' = orders /\ UNCHANGED <<inv, wallet, request>>
      BY <1>6 DEF PartBought
    <2>2. PICK r : r = [run[h] EXCEPT !.paid = paid]
      OBVIOUS
    <2>3. run'[h] = r /\ \A g \in Handler \ {h} : run'[g] = run[g]
      BY <1>4, <2>1, <2>2 DEF IsFcn
    <2>4. run[h] = [pc |-> "buying", key |-> run[h].key, p |-> run[h].p, plan |-> run[h].plan,
                    paid |-> run[h].paid, quote |-> run[h].quote]
      BY <1>1, <1>4 DEF RunTyped, Rest
    <2>5. PICK k, plan, q : k = run[h].key /\ plan = run[h].plan /\ q = run[h].quote
      OBVIOUS
    <2>6. run'[h].key = k /\ run'[h].plan = plan /\ run'[h].quote = q /\ run'[h].paid = paid
      BY <2>2, <2>3, <2>4, <2>5
    <2>7. Available' = Available
      BY <2>1 DEF Available, Rows
    <2>8. Gains(q, plan)' <=> Gains(q, plan)
      BY <2>1 DEF Gains
    <2>9. TotalMoved(k, q.total)' <=> TotalMoved(k, q.total)
      BY <1>1 DEF TotalMoved, Agreed
    <2>10. Bought(plan, placed', paid) /\ DOMAIN paid # DOMAIN plan
      BY <1>3, <2>1, <2>5 DEF Buys
    <2>11. wallet' = wallet /\ request' = request
      BY <2>1
    <2>12. Deal(h)'
      BY <1>2, <2>5, <2>6, <2>7, <2>8, <2>9, <2>10, <2>11 DEF Deal
    <2>13. \A g \in Handler \ {h} : run'[g].pc # "buying"
      BY <1>2, <2>3
    <2> QED BY <2>12, <2>13 DEF Deals, OneBuyer, Buyers
  <1>7. CASE KeptAll(h, orders, paid)
    BY <1>5, <1>7 DEF KeptAll, NotSold
  <1>8. CASE Undone(h, orders, paid)
    BY <1>5, <1>8 DEF Undone
  <1>9. CASE SoldAll(h, orders, paid)
    BY <1>5, <1>9 DEF SoldAll, Complete
  <1> QED BY <1>3, <1>6, <1>7, <1>8, <1>9

LEMMA ClaimDeals ==
    ASSUME Typed, Deals, NEW h \in Handler, NEW k \in Key, Start(h, k),
           UNCHANGED <<inv, placed, wallet, shown>>,
           \A j \in QrKey : request'[j] = request[j]
    PROVE  Deals'
  <1>1. /\ run'[h].pc = "claimed"
        /\ \A g \in Handler \ {h} : run'[g] = run[g]
    BY StartTyped
  <1>2. SameDeals
    BY <1>1 DEF SameDeals
  <1> QED BY <1>2, SameDealsKept

LEMMA ClaimsDeals ==
    ASSUME Typed, Deals, NEW h \in Handler,
           \/ \E k \in ApiKey : CreateOrder(h, k)
           \/ \E k \in BotKey : PressBuy(h, k)
           \/ \E k \in QrKey : Pay(h, k)
    PROVE  Deals'
  <1>1. ASSUME NEW k \in ApiKey, CreateOrder(h, k) PROVE Deals'
    <2>1. /\ Start(h, k) /\ UNCHANGED <<inv, placed, wallet, shown>> /\ k \in Key
          /\ \E v : request' = [request EXCEPT ![k] = v]
      BY <1>1 DEF CreateOrder, Key
    <2>2. IsFcn(request) /\ DOMAIN request = ApiKey \cup QrKey
      BY DEF Typed
    <2>3. k \notin QrKey
      BY KeyAssumption
    <2>4. \A j \in QrKey : request'[j] = request[j]
      BY <2>1, <2>2, <2>3 DEF IsFcn
    <2> QED BY <2>1, <2>4, ClaimDeals
  <1>2. ASSUME NEW k \in BotKey, PressBuy(h, k) PROVE Deals'
    <2>1. /\ Start(h, k) /\ UNCHANGED <<inv, placed, wallet, shown>> /\ k \in Key
          /\ request' = request
      BY <1>2 DEF PressBuy, Key
    <2> QED BY <2>1, ClaimDeals
  <1>3. ASSUME NEW k \in QrKey, Pay(h, k) PROVE Deals'
    <2>1. /\ Start(h, k) /\ UNCHANGED <<inv, placed, wallet, shown>> /\ k \in Key
          /\ request' = request
      BY <1>3 DEF Pay, Key
    <2> QED BY <2>1, ClaimDeals
  <1> QED BY <1>1, <1>2, <1>3

LEMMA GrowStaleDeals ==
    ASSUME Typed, Deals, NEW k \in ApiKey, GrowStale(k)
    PROVE  Deals'
  <1>1. /\ UNCHANGED <<inv, placed, wallet, shown, run>>
        /\ request' = [request EXCEPT ![k].fresh = FALSE]
    BY DEF GrowStale
  <1>2. IsFcn(request) /\ DOMAIN request = ApiKey \cup QrKey /\ k \notin QrKey
    BY KeyAssumption DEF Typed
  <1>3. \A j \in QrKey : request'[j] = request[j]
    BY <1>1, <1>2 DEF IsFcn
  <1>4. SameDeals
    BY <1>1, <1>3 DEF SameDeals
  <1> QED BY <1>4, SameDealsKept

\* The button of a key under which nothing runs yet.
LEMMA ShowTotalDeals ==
    ASSUME Typed, Deals, Keys, NEW k \in BotKey, ShowTotal(k)
    PROVE  /\ Deals'
           /\ runs[k] = 0 /\ \A j \in BotKey \ {k} : shown'[j] = shown[j]
  <1>1. /\ UNCHANGED <<inv, placed, wallet, request, run>> /\ runs[k] = 0
        /\ shown' = [shown EXCEPT ![k] = CheckoutQuote(k).total]
    BY DEF ShowTotal
  <1>2. Alive(k) = {}
    BY <1>1 DEF Keys, KeyOk, Key
  <1>3. shown \in [BotKey -> Nat]
    BY DEF Typed
  <1>4. \A j \in BotKey \ {k} : shown'[j] = shown[j]
    BY <1>1, <1>3
  <1>5. \A h \in Handler : run[h].pc = "buying" => run[h].key # k
    BY <1>2 DEF Alive
  <1>6. SameDeals
    BY <1>1, <1>4, <1>5 DEF SameDeals
  <1> QED BY <1>1, <1>4, <1>6, SameDealsKept

LEMMA CreateRequestDeals ==
    ASSUME Typed, Deals, Keys, NEW k \in QrKey, CreateRequest(k)
    PROVE  Deals'
  <1>1. UNCHANGED <<inv, placed, wallet, shown, run>>
    BY DEF CreateRequest
  <1>2. /\ request[k].status = None
        /\ \A j \in ApiKey \cup QrKey : j # k => request'[j] = request[j]
    BY CreateRequestKeys
  <1>3. Working(k) = {}
    <2>1. Promise(k)
      BY DEF Keys, KeyOk, Key
    <2>2. None # "open"
      BY DEF None
    <2> QED BY <1>2, <2>1, <2>2 DEF Promise
  <1>4. \A h \in Handler : run[h].pc = "buying" => run[h].key # k
    BY <1>3 DEF Working
  <1>5. SameDeals
    BY <1>1, <1>2, <1>4 DEF SameDeals
  <1> QED BY <1>5, SameDealsKept

LEMMA AnswerDeals ==
    ASSUME Typed, Deals, NEW h \in Handler, Answer(h)
    PROVE  Deals'
  <1>1. /\ run' = [run EXCEPT ![h] = Rest] /\ UNCHANGED <<inv, placed, wallet, shown>>
        /\ run[h].key \notin ApiKey => request' = request
        /\ run[h].key \in ApiKey =>
             \A j \in (ApiKey \cup QrKey) \ {run[h].key} : request'[j] = request[j]
    BY AnswerTyped
  <1>2. \A j \in QrKey : request'[j] = request[j]
    BY <1>1, KeyAssumption
  <1>3. IsFcn(run) /\ DOMAIN run = Handler
    BY DEF Typed
  <1>4. run'[h].pc = "idle" /\ \A g \in Handler \ {h} : run'[g] = run[g]
    BY <1>1, <1>3 DEF IsFcn, Rest
  <1>5. SameDeals
    BY <1>1, <1>2, <1>4 DEF SameDeals
  <1> QED BY <1>5, SameDealsKept

LEMMA RaiseDeals ==
    ASSUME Typed, Deals, NEW h \in Handler, Raise(h)
    PROVE  Deals'
  <1>1. /\ Ended(h, "exception") /\ UNCHANGED <<inv, wallet, shown, request>>
        /\ run[h].pc \in {"claimed", "buying"}
        /\ run[h].pc # "buying" => placed' = placed
    BY DEF Raise
  <1>2. IsFcn(run) /\ DOMAIN run = Handler
    BY DEF Typed
  <1>3. run'[h].pc # "buying" /\ \A g \in Handler \ {h} : run'[g] = run[g]
    BY <1>1, <1>2 DEF Ended, IsFcn
  <1>4. CASE run[h].pc = "buying"
    BY <1>3, <1>4, StopDeals
  <1>5. CASE run[h].pc # "buying"
    <2>1. SameDeals
      BY <1>1, <1>3, <1>5 DEF SameDeals
    <2> QED BY <2>1, SameDealsKept
  <1> QED BY <1>4, <1>5

LEMMA CrashDeals ==
    ASSUME Crash
    PROVE  Deals'
  <1>1. \A h \in Handler : run'[h].pc # "buying"
    BY DEF Crash, Rest
  <1> QED BY <1>1, NoDeals

LEMMA IdleDeals ==
    ASSUME ~IsBuying, run' = run
    PROVE  Deals'
  <1>1. \A h \in Handler : run'[h].pc # "buying"
    BY DEF IsBuying
  <1> QED BY <1>1, NoDeals

LEMMA QuietDeals ==
    ASSUME Typed, Deals, Quiet, \A j \in QrKey : request'[j].amount = request[j].amount
    PROVE  Deals'
  <1>1. SameDeals
    BY DEF SameDeals, Quiet
  <1> QED BY <1>1, SameDealsKept

LEMMA InitDeals == Init => Deals
  BY DEF Init, Deals, OneBuyer, Buyers, Rest

-----------------------------------------------------------------------------
(* The steps *)

Core == Typed /\ Deals /\ Keys

\* A purchase takes a step, or its handler does.
BuyStep ==
    \E h \in Handler :
      \/ Begins(h) \/ GoesOn(h) \/ Raise(h) \/ Answer(h)
      \/ \E k \in ApiKey : CreateOrder(h, k)
      \/ \E k \in BotKey : PressBuy(h, k)
      \/ \E k \in QrKey : Pay(h, k)
\* Only the row of a key is written, or the total on a button.
KeyStep ==
    \/ \E k \in ApiKey : GrowStale(k)
    \/ \E k \in BotKey : ShowTotal(k)
    \/ \E k \in QrKey : CreateRequest(k)
    \/ DeleteDiscount
\* The table changes while nobody buys.
TableStep ==
    /\ ~IsBuying
    /\ \/ \E o \in DOMAIN placed : RecoverOrder(o)
       \/ \E D, cost, again : Imports(D, cost, again)
       \/ Fewer /\ terms' \in TermsType
OtherStep == Quiet /\ request' = request

LEMMA StepKinds ==
    ASSUME Typed, Deals, Next
    PROVE  BuyStep \/ KeyStep \/ Crash \/ TableStep \/ OtherStep
  <1>1. ASSUME NEW h \in Handler, NEW k \in ApiKey, CreateOrder(h, k) PROVE BuyStep
    BY <1>1 DEF BuyStep
  <1>2. ASSUME NEW k \in ApiKey, GrowStale(k) PROVE KeyStep
    BY <1>2 DEF KeyStep
  <1>3. ASSUME NEW k \in BotKey, ShowTotal(k) PROVE KeyStep
    BY <1>3 DEF KeyStep
  <1>4. ASSUME NEW h \in Handler, NEW k \in BotKey, PressBuy(h, k) PROVE BuyStep
    BY <1>4 DEF BuyStep
  <1>5. ASSUME NEW h \in Handler, NEW up \in SUBSET Provider, Purchase(h, up) PROVE BuyStep
    BY <1>5, PurchaseBegins DEF BuyStep
  <1>6. ASSUME NEW k \in QrKey, CreateRequest(k) PROVE KeyStep
    BY <1>6 DEF KeyStep
  <1>7. ASSUME NEW h \in Handler, NEW k \in QrKey, Pay(h, k) PROVE BuyStep
    BY <1>7 DEF BuyStep
  <1>8. ASSUME NEW h \in Handler, NEW up \in SUBSET Provider, Fulfil(h, up) PROVE BuyStep
    BY <1>8, FulfilBegins DEF BuyStep
  <1>9. ASSUME NEW h \in Handler, Deliver(h) PROVE BuyStep
    BY <1>9, DeliverGoesOn DEF BuyStep
  <1>10. ASSUME NEW h \in Handler, Refuse(h) \/ Unavailable(h) \/ AnswerLost(h) PROVE BuyStep
    BY <1>10, RefuseGoesOn DEF BuyStep
  <1>11. ASSUME NEW h \in Handler, Raise(h) \/ Answer(h) PROVE BuyStep
    BY <1>11 DEF BuyStep
  <1>12. ASSUME NEW o \in DOMAIN placed, RecoverOrder(o) PROVE TableStep
    <2>1. ~IsBuying
      BY <1>12 DEF RecoverOrder
    <2> QED BY <1>12, <2>1 DEF TableStep
  <1>13. ASSUME NEW b \in Batch, ImportBatch(b) PROVE TableStep \/ OtherStep
    <2>1. ~IsBuying
      BY <1>13 DEF ImportBatch
    <2>2. CASE \E D, cost, again : Imports(D, cost, again)
      BY <2>1, <2>2 DEF TableStep
    <2>3. CASE UNCHANGED <<product, catalog, placed, inv, wallet, debit, shown, request, terms,
                           run, runs, raced>>
      BY <2>3 DEF OtherStep, Quiet, Typed
    <2> QED BY <1>13, <2>2, <2>3, ImportBatchImports
  <1>14. ASSUME NEW a \in Account, ImportAgain(a) PROVE TableStep
    <2>1. ~IsBuying
      BY <1>14 DEF ImportAgain
    <2>2. \E D, cost, again : Imports(D, cost, again)
      BY <1>14, ImportAgainImports
    <2> QED BY <2>1, <2>2 DEF TableStep
  <1>15. ASSUME Withdraw \/ Delete PROVE TableStep
    <2>1. ~IsBuying
      BY <1>15 DEF Withdraw, Delete
    <2>2. Fewer /\ terms' \in TermsType
      BY <1>15, WithdrawFewer DEF Typed
    <2> QED BY <2>1, <2>2 DEF TableStep
  <1>16. ASSUME DeleteProduct PROVE TableStep
    <2>1. ~IsBuying
      BY <1>16 DEF DeleteProduct
    <2>2. Fewer /\ terms' \in TermsType
      BY <1>16, DeleteProductFewer
    <2> QED BY <2>1, <2>2 DEF TableStep
  <1>17. ASSUME \/ SwitchProduct
                \/ \E up \in SUBSET Provider : Sync(up)
                \/ \E p \in Provider, c \in Cost : Reprice(p, c)
         PROVE  OtherStep
    BY <1>17, SupplyQuiet DEF OtherStep
  <1>18. ASSUME Grants PROVE OtherStep
    BY <1>18, GrantsQuiet DEF OtherStep
  <1>19. ASSUME DeleteDiscount PROVE KeyStep
    BY <1>19 DEF KeyStep
  <1>20. \/ \E h \in Handler, k \in ApiKey : CreateOrder(h, k)
         \/ \E k \in ApiKey : GrowStale(k)
         \/ \E k \in BotKey : ShowTotal(k)
         \/ \E h \in Handler, k \in BotKey : PressBuy(h, k)
         \/ \E h \in Handler, up \in SUBSET Provider : Purchase(h, up)
         \/ \E k \in QrKey : CreateRequest(k)
         \/ \E h \in Handler, k \in QrKey : Pay(h, k)
         \/ \E h \in Handler, up \in SUBSET Provider : Fulfil(h, up)
         \/ \E h \in Handler : Deliver(h)
         \/ \E h \in Handler : Refuse(h) \/ Unavailable(h) \/ AnswerLost(h)
         \/ \E h \in Handler : Raise(h) \/ Answer(h)
         \/ Crash
         \/ \E o \in DOMAIN placed : RecoverOrder(o)
         \/ \E b \in Batch : ImportBatch(b)
         \/ \E a \in Account : ImportAgain(a)
         \/ Withdraw \/ Delete
         \/ \/ SwitchProduct
            \/ \E up \in SUBSET Provider : Sync(up)
            \/ \E p \in Provider, c \in Cost : Reprice(p, c)
         \/ Grants \/ DeleteDiscount \/ DeleteProduct
    BY DEF Next, Grants
  <1> QED BY <1>1, <1>2, <1>3, <1>4, <1>5, <1>6, <1>7, <1>8, <1>9, <1>10, <1>11, <1>12, <1>13,
             <1>14, <1>15, <1>16, <1>17, <1>18, <1>19, <1>20

LEMMA BuyStepCore ==
    ASSUME Core, BuyStep
    PROVE  Core'
  <1>1. Typed /\ Deals /\ Keys
    BY DEF Core
  <1>2. PICK h \in Handler :
           \/ Begins(h) \/ GoesOn(h) \/ Raise(h) \/ Answer(h)
           \/ \E k \in ApiKey : CreateOrder(h, k)
           \/ \E k \in BotKey : PressBuy(h, k)
           \/ \E k \in QrKey : Pay(h, k)
    BY DEF BuyStep
  <1>3. CASE Begins(h)
    BY <1>1, <1>3, BeginsTyped, BeginsDeals, BeginsKeys DEF Core
  <1>4. CASE GoesOn(h)
    BY <1>1, <1>4, GoesOnTyped, GoesOnDeals, GoesOnKeys DEF Core
  <1>5. CASE Raise(h)
    BY <1>1, <1>5, RaiseTyped, RaiseDeals, RaiseKeys DEF Core
  <1>6. CASE Answer(h)
    BY <1>1, <1>6, AnswerTyped, AnswerDeals, AnswerKeys DEF Core
  <1>7. ASSUME NEW k \in ApiKey, CreateOrder(h, k) PROVE Core'
    BY <1>1, <1>7, CreateOrderTyped, ClaimsDeals, CreateOrderKeys DEF Core
  <1>8. ASSUME NEW k \in BotKey, PressBuy(h, k) PROVE Core'
    BY <1>1, <1>8, PressPayTyped, ClaimsDeals, PressBuyKeys DEF Core
  <1>9. ASSUME NEW k \in QrKey, Pay(h, k) PROVE Core'
    BY <1>1, <1>9, PressPayTyped, ClaimsDeals, PayKeys DEF Core
  <1> QED BY <1>2, <1>3, <1>4, <1>5, <1>6, <1>7, <1>8, <1>9

LEMMA KeyStepCore ==
    ASSUME Core, KeyStep
    PROVE  Core'
  <1>1. Typed /\ Deals /\ Keys
    BY DEF Core
  <1>2. ASSUME NEW k \in ApiKey, GrowStale(k) PROVE Core'
    BY <1>1, <1>2, GrowStaleTyped, GrowStaleDeals, GrowStaleKeys DEF Core
  <1>3. ASSUME NEW k \in BotKey, ShowTotal(k) PROVE Core'
    BY <1>1, <1>3, ShowTotalTyped, ShowTotalDeals, ShowTotalKeys DEF Core
  <1>4. ASSUME NEW k \in QrKey, CreateRequest(k) PROVE Core'
    BY <1>1, <1>4, CreateRequestTyped, CreateRequestDeals, CreateRequestKeys DEF Core
  <1>5. ASSUME DeleteDiscount PROVE Core'
    <2>1. /\ Quiet /\ RequestTyped(request')
          /\ \A k \in ApiKey : request'[k] = request[k]
          /\ \A k \in QrKey : request'[k].status = request[k].status
                              /\ request'[k].amount = request[k].amount
      BY <1>1, <1>5, DeleteDiscountQuiet
    <2>2. \A k \in ApiKey \cup QrKey : request'[k].status = request[k].status
      BY <2>1
    <2> QED BY <1>1, <2>1, <2>2, QuietTyped, QuietDeals, QuietKeys DEF Core
  <1> QED BY <1>2, <1>3, <1>4, <1>5 DEF KeyStep

LEMMA TableStepCore ==
    ASSUME Core, TableStep
    PROVE  Core'
  <1>1. Typed /\ Deals /\ Keys /\ ~IsBuying
    BY DEF Core, TableStep
  <1>2. ASSUME NEW o \in DOMAIN placed, RecoverOrder(o) PROVE Core'
    <2>1. run' = run
      BY <1>2 DEF RecoverOrder
    <2>2. Keys'
      BY <1>1, <1>2, RowsKeys
    <2> QED BY <1>1, <1>2, <2>1, <2>2, RecoverOrderTyped, IdleDeals DEF Core
  <1>3. ASSUME NEW D, NEW cost, NEW again, Imports(D, cost, again) PROVE Core'
    <2>1. run' = run
      BY <1>3 DEF Imports
    <2>2. Keys'
      BY <1>1, <1>3, RowsKeys
    <2> QED BY <1>1, <1>3, <2>1, <2>2, ImportsTyped, IdleDeals DEF Core
  <1>4. ASSUME Fewer, terms' \in TermsType PROVE Core'
    <2>1. run' = run
      BY <1>4 DEF Fewer
    <2>2. Keys'
      BY <1>1, <1>4, RowsKeys
    <2> QED BY <1>1, <1>4, <2>1, <2>2, FewerTyped, IdleDeals DEF Core
  <1> QED BY <1>2, <1>3, <1>4 DEF TableStep

LEMMA OtherStepCore ==
    ASSUME Core, OtherStep
    PROVE  Core'
  <1>1. Typed /\ Deals /\ Keys /\ Quiet /\ request' = request
    BY DEF Core, OtherStep
  <1>2. RequestTyped(request')
    BY <1>1 DEF Typed, RequestTyped
  <1> QED BY <1>1, <1>2, QuietTyped, QuietDeals, QuietKeys DEF Core

LEMMA CrashCore ==
    ASSUME Core, Crash
    PROVE  Core'
  BY CrashTyped, CrashDeals, CrashKeys DEF Core

\* The types, the deals and the keys are kept.
LEMMA CoreNext ==
    ASSUME Core, [Next]_vars
    PROVE  Core'
  <1>1. CASE Next
    <2>1. BuyStep \/ KeyStep \/ Crash \/ TableStep \/ OtherStep
      BY <1>1, StepKinds DEF Core
    <2> QED BY <2>1, BuyStepCore, KeyStepCore, CrashCore, TableStepCore, OtherStepCore
  <1>2. CASE UNCHANGED vars
    <2>1. OtherStep
      BY <1>2 DEF vars, OtherStep, Quiet, Core, Typed
    <2> QED BY <2>1, OtherStepCore
  <1> QED BY <1>1, <1>2

LEMMA InitCore == Init => Core
  BY InitTyped, InitDeals, InitKeys DEF Core

\* The inductive invariant: everything keeps its type, a purchase in hand is one that the
\* rows, routes and prices it holds allow, and the rows of a key agree with its request.
THEOREM CoreInvariant == Spec => []Core
  <1>1. Core /\ [Next]_vars => Core'
    BY CoreNext
  <1> QED BY <1>1, InitCore, PTL DEF Spec

\* Prices are positive, no wallet is overdrawn, and a row is sold exactly when it
\* belongs to an order: for any prices, wallets and scenes.
THEOREM TypesCorrect == Spec => []TypeOK
  <1>1. Typed => TypeOK
    <2> SUFFICES ASSUME Typed PROVE TypeOK
      OBVIOUS
    <2>1. \A u \in Customer : wallet[u] >= 0
      BY DEF Typed
    <2>2. product.price > 0
      BY DEF Typed, ProductType, Positive
    <2>3. \A i \in Rows : /\ inv[i].status \in {"available", "sold", "withdrawn", "deleted"}
                          /\ (inv[i].key # None) <=> inv[i].status = "sold"
      BY DEF Typed, RowType
    <2> QED BY <2>1, <2>2, <2>3 DEF TypeOK
  <1> QED BY <1>1, CoreInvariant, PTL DEF Core

\* However often a partner repeats a key, and wherever the process stops, its order is
\* delivered whole or not at all, and once; "completed" has its accounts, "failed" cost
\* nothing: for any partners, handlers, suppliers' answers and crashes.
THEOREM KeysOrderedOnce == Spec => []OrderedOnce
  <1>1. Typed /\ Keys => OrderedOnce
    <2> SUFFICES ASSUME Typed, Keys, NEW k \in ApiKey \ raced
                 PROVE  LET n == Cardinality(SoldUnder(k))
                        IN /\ n \in {0, Body[k].quantity}
                           /\ request[k].status = "completed" => n > 0
                           /\ request[k].status = "failed" => n = 0 /\ debit[k] = 0
      BY DEF OrderedOnce
    <2>1. KeyOk(k) /\ k \in Key
      BY DEF Keys, Key
    <2>2. Alone(k) /\ Ordered(k) /\ (SoldUnder(k) = {} => debit[k] = 0)
      BY <2>1 DEF KeyOk
    <2>3. Cardinality(SoldUnder(k)) \in {0, Body[k].quantity} /\ Body[k].quantity \in Nat \ {0}
      BY <2>1, <2>2, KeyAssumption DEF Alone
    <2>4. SoldUnder(k) = {} <=> Cardinality(SoldUnder(k)) = 0
      BY <2>1, SoldFacts, FS_EmptySet
    <2>5. request[k].status = "failed" => SoldUnder(k) = {}
      BY <2>2 DEF Ordered
    <2>6. request[k].status = "completed" => SoldUnder(k) # {}
      BY <2>2 DEF Ordered
    <2> QED BY <2>2, <2>3, <2>4, <2>5, <2>6
  <1> QED BY <1>1, CoreInvariant, PTL DEF Core

-----------------------------------------------------------------------------
(* The stock *)

On(a) == Recorded(a) # {}

\* The accounts in N get a row.
Reaches(N) == \A a : On(a)' <=> On(a) \/ a \in N

\* A row of a supplier's account belongs to an order; an order that awaits its recovery
\* is in no row; every other order is in the rows, in hand or adrift; and an account is
\* in two rows only if the older one is deleted, or consumed and imported again.
Sourced == \A i \in Rows : inv[i].acct \notin Account =>
              \E o \in DOMAIN placed : \E j \in 1 .. placed[o].quantity : inv[i].acct = <<o, j>>
Awaited == \A o \in DOMAIN placed : placed[o].queued =>
              \A j \in 1 .. placed[o].quantity : ~On(<<o, j>>)
Covered == \A o \in DOMAIN placed :
              \/ placed[o].adrift
              \/ o \in OrdersInHand
              \/ \A j \in 1 .. placed[o].quantity : On(<<o, j>>)
Single == \A i, j \in Rows :
              i < j /\ inv[i].acct = inv[j].acct =>
                \/ inv[i].status = "deleted"
                \/ inv[j].again /\ inv[i].status \in {"sold", "withdrawn"}
Stocked == Sourced /\ Awaited /\ Covered /\ Single

LEMMA InHandMember ==
    ASSUME NEW o
    PROVE  /\ o \in OrdersInHand <=>
                \E h \in Handler : run[h].pc = "buying" /\ o \in OrdersOf(run[h].paid)
           /\ (o \in OrdersInHand') <=>
                \E h \in Handler : run'[h].pc = "buying" /\ o \in OrdersOf(run'[h].paid)
  BY DEF OrdersInHand, OrdersOf

LEMMA OrdersOfMember ==
    ASSUME NEW paid, NEW o
    PROVE  o \in OrdersOf(paid) <=> \E r \in DOMAIN paid : o = paid[r]
  BY DEF OrdersOf

\* An order is a number, so that its accounts are no accounts of the warehouse.
LEMMA OrderNumber ==
    ASSUME Typed, NEW orders \in Seq(OrderType), NEW o \in DOMAIN orders,
           NEW j \in 1 .. orders[o].quantity
    PROVE  <<o, j>> \notin Account /\ o \in Nat /\ orders[o].quantity \in Nat
  <1>1. o \in Nat /\ orders[o] \in OrderType
    OBVIOUS
  <1>2. orders[o].quantity \in Nat /\ j \in Nat
    BY <1>1 DEF OrderType, Positive
  <1>3. <<o, j>> \in Nat \X Nat
    BY <1>1, <1>2
  <1> QED BY <1>1, <1>2, <1>3, AccountAssumption

\* The orders and the rows after a step that adds rows of the accounts in N.
LEMMA OrdersStocked ==
    ASSUME Typed, Sourced, Awaited, placed' \in Seq(OrderType), NEW N,
           Reaches(N),
           DOMAIN placed \subseteq DOMAIN placed',
           \A o \in DOMAIN placed : placed'[o].quantity = placed[o].quantity,
           \A a \in N : a \in Account \/
              \E o \in DOMAIN placed' : \E j \in 1 .. placed'[o].quantity : a = <<o, j>>,
           \A o \in DOMAIN placed' : placed'[o].queued =>
              /\ o \in DOMAIN placed => placed[o].queued
              /\ \A j \in 1 .. placed'[o].quantity : <<o, j>> \notin N,
           \A o \in DOMAIN placed' :
              \/ placed'[o].adrift \/ o \in OrdersInHand'
              \/ \A j \in 1 .. placed'[o].quantity : <<o, j>> \in N \/ On(<<o, j>>)
    PROVE  Sourced' /\ Awaited' /\ Covered'
  <1>1. ASSUME NEW a, a \notin Account, On(a)
        PROVE  \E o \in DOMAIN placed : \E j \in 1 .. placed[o].quantity : a = <<o, j>>
    <2>1. PICK i \in Rows : inv[i].acct = a
      BY <1>1 DEF On, Recorded
    <2> QED BY <1>1, <2>1 DEF Sourced
  <1>2. ASSUME NEW a, a \notin Account, On(a)'
        PROVE  \E o \in DOMAIN placed' : \E j \in 1 .. placed'[o].quantity : a = <<o, j>>
    <2>1. CASE a \in N
      BY <1>2, <2>1
    <2>2. CASE On(a)
      BY <1>1, <1>2, <2>2
    <2> QED BY <1>2, <2>1, <2>2 DEF Reaches
  <1>3. Sourced'
    <2> SUFFICES ASSUME NEW i \in DOMAIN inv', inv'[i].acct \notin Account
                 PROVE  \E o \in DOMAIN placed' : \E j \in 1 .. placed'[o].quantity :
                           inv'[i].acct = <<o, j>>
      BY DEF Sourced, Rows
    <2>1. PICK a : a = inv'[i].acct
      OBVIOUS
    <2>2. On(a)'
      BY <2>1 DEF On, Recorded, Rows
    <2> QED BY <1>2, <2>1, <2>2
  <1>4. Awaited'
    <2> SUFFICES ASSUME NEW o \in DOMAIN placed', placed'[o].queued,
                        NEW j \in 1 .. placed'[o].quantity
                 PROVE  ~On(<<o, j>>)'
      BY DEF Awaited
    <2>1. PICK a : a = <<o, j>>
      OBVIOUS
    <2>2. a \notin N
      BY <2>1
    <2>3. ~On(a)
      <3>1. CASE o \in DOMAIN placed
        BY <2>1, <3>1 DEF Awaited
      <3>2. CASE o \notin DOMAIN placed
        <4>1. a \notin Account
          BY <2>1, OrderNumber
        <4> QED BY <1>1, <2>1, <3>2, <4>1
      <3> QED BY <3>1, <3>2
    <2> QED BY <2>1, <2>2, <2>3 DEF Reaches
  <1>5. Covered'
    <2> SUFFICES ASSUME NEW o \in DOMAIN placed', ~placed'[o].adrift, o \notin OrdersInHand',
                        NEW j \in 1 .. placed'[o].quantity
                 PROVE  On(<<o, j>>)'
      BY DEF Covered
    <2>1. PICK a : a = <<o, j>>
      OBVIOUS
    <2>2. a \in N \/ On(a)
      BY <2>1
    <2> QED BY <2>1, <2>2 DEF Reaches
  <1> QED BY <1>3, <1>4, <1>5

\* New rows: which accounts are in the table then.
LEMMA FilesOn ==
    ASSUME Typed, NEW rows, DOMAIN rows = Rows, \A i \in Rows : rows[i].acct = inv[i].acct,
           NEW D, NEW row, NEW id, Files(inv', rows, D, row, id),
           NEW acct, \A g \in D : row[g].acct = acct[g],
           NEW N, N = {acct[g] : g \in D}
    PROVE  Reaches(N)
  <1>1. /\ Rows \subseteq DOMAIN inv' /\ \A i \in Rows : inv'[i] = rows[i]
        /\ id \in [D -> DOMAIN inv' \ Rows]
        /\ \A i \in DOMAIN inv' \ Rows : \E g \in D : id[g] = i
        /\ \A g \in D : inv'[id[g]] = row[g]
    BY DEF Files
  <1> SUFFICES ASSUME NEW a PROVE On(a)' <=> On(a) \/ a \in N
    BY DEF Reaches
  <1>2. On(a)' <=> \E i \in DOMAIN inv' : inv'[i].acct = a
    BY DEF On, Recorded, Rows
  <1>3. On(a) <=> \E i \in Rows : inv[i].acct = a
    BY DEF On, Recorded
  <1>4. ASSUME On(a)' PROVE On(a) \/ a \in N
    BY <1>1, <1>2, <1>3, <1>4
  <1>5. ASSUME On(a) PROVE On(a)'
    BY <1>1, <1>2, <1>3, <1>5
  <1>6. ASSUME a \in N PROVE On(a)'
    BY <1>1, <1>2, <1>6
  <1> QED BY <1>4, <1>5, <1>6

\* ... and that no account is in stock twice.
LEMMA FilesSingle ==
    ASSUME Typed, Single, NEW rows, DOMAIN rows = Rows,
           \A i \in Rows : /\ rows[i].acct = inv[i].acct
                           /\ rows[i].again <=> inv[i].again
                           /\ rows[i].status = inv[i].status \/ inv[i].status = "available",
           NEW D, NEW row, NEW id, Files(inv', rows, D, row, id),
           NEW acct, \A g \in D : row[g].acct = acct[g],
           \A g, e \in D : acct[g] = acct[e] => g = e,
           \A g \in D : \A i \in Recorded(acct[g]) :
              \/ inv[i].status = "deleted"
              \/ row[g].again /\ inv[i].status \in {"sold", "withdrawn"}
    PROVE  Single'
  <1>1. /\ Rows \subseteq DOMAIN inv' /\ \A i \in Rows : inv'[i] = rows[i]
        /\ id \in [D -> DOMAIN inv' \ Rows]
        /\ \A i \in DOMAIN inv' \ Rows : \E g \in D : id[g] = i
        /\ \A g \in D : inv'[id[g]] = row[g]
        /\ \A g \in D, i \in Rows : i < id[g]
        /\ DOMAIN inv' \subseteq Nat
    BY DEF Files, Positive
  <1> SUFFICES ASSUME NEW i \in DOMAIN inv', NEW j \in DOMAIN inv', i < j,
                      inv'[i].acct = inv'[j].acct
               PROVE  \/ inv'[i].status = "deleted"
                      \/ inv'[j].again /\ inv'[i].status \in {"sold", "withdrawn"}
    BY DEF Single, Rows
  <1>2. CASE i \in Rows /\ j \in Rows
    <2>1. /\ inv'[i].acct = inv[i].acct /\ inv'[j].acct = inv[j].acct
          /\ inv'[j].again <=> inv[j].again
          /\ inv'[i].status = inv[i].status \/ inv[i].status = "available"
      BY <1>1, <1>2
    <2>2. \/ inv[i].status = "deleted"
          \/ inv[j].again /\ inv[i].status \in {"sold", "withdrawn"}
      BY <1>2, <2>1 DEF Single
    <2> QED BY <2>1, <2>2
  <1>3. CASE i \in Rows /\ j \notin Rows
    <2>1. PICK g \in D : id[g] = j
      BY <1>1, <1>3
    <2>2. inv'[j] = row[g] /\ row[g].acct = acct[g]
      BY <1>1, <2>1
    <2>3. inv'[i].acct = inv[i].acct /\ (inv'[i].status = inv[i].status \/ inv[i].status = "available")
      BY <1>1, <1>3
    <2>4. i \in Recorded(acct[g])
      BY <1>3, <2>2, <2>3 DEF Recorded
    <2> QED BY <2>2, <2>3, <2>4
  <1>4. CASE i \notin Rows
    <2>1. PICK g \in D : id[g] = i
      BY <1>1, <1>4
    <2>2. CASE j \in Rows
      BY <1>1, <2>1, <2>2
    <2>3. CASE j \notin Rows
      <3>1. PICK e \in D : id[e] = j
        BY <1>1, <2>3
      <3>2. acct[g] = acct[e]
        BY <1>1, <2>1, <3>1
      <3> QED BY <1>1, <2>1, <3>1, <3>2
    <2> QED BY <2>2, <2>3
  <1> QED BY <1>2, <1>3, <1>4

\* Nothing is filed.
LEMMA SameOn ==
    ASSUME DOMAIN inv' = Rows, \A i \in Rows : inv'[i].acct = inv[i].acct
    PROVE  Reaches({})
  BY DEF Reaches, On, Recorded, Rows

LEMMA SameSingle ==
    ASSUME Single, inv' = inv
    PROVE  Single'
  BY DEF Single, Rows

LEMMA FewerSingle ==
    ASSUME Typed, Single, Fewer
    PROVE  Single'
  <1> SUFFICES ASSUME NEW i \in Rows, NEW j \in Rows, i < j, inv'[i].acct = inv'[j].acct
               PROVE  \/ inv'[i].status = "deleted"
                      \/ inv'[j].again /\ inv'[i].status \in {"sold", "withdrawn"}
    BY DEF Single, Rows, Fewer
  <1>1. inv'[i].acct = inv[i].acct
    BY FewerRows
  <1>2. inv'[j].acct = inv[j].acct /\ (inv'[j].again <=> inv[j].again)
    BY FewerRows
  <1>3. \/ inv[i].status = "deleted"
        \/ inv[j].again /\ inv[i].status \in {"sold", "withdrawn"}
    BY <1>1, <1>2 DEF Single
  <1>4. \/ inv'[i].status = inv[i].status
        \/ /\ inv[i].status \in {"available", "withdrawn"}
           /\ inv'[i].status \in {"withdrawn", "deleted"}
    BY FewerRows
  <1> QED BY <1>2, <1>3, <1>4

\* The accounts of the goods: the parts that are paid for, account by account.
LEMMA GoodsAccounts ==
    ASSUME NEW plan, PlanTyped(plan), NEW orders \in Seq(OrderType), NEW paid,
           Bought(plan, orders, paid)
    PROVE  /\ \A g, e \in Goods(plan, paid) : AccountOf(paid, g) = AccountOf(paid, e) => g = e
           /\ \A g \in Goods(plan, paid) :
                 /\ g[1] \in DOMAIN paid /\ paid[g[1]] \in OrdersOf(paid)
                 /\ AccountOf(paid, g) = <<paid[g[1]], g[2]>>
                 /\ g[2] \in 1 .. orders[paid[g[1]]].quantity
           /\ \A o \in OrdersOf(paid) : \A j \in 1 .. orders[o].quantity :
                 \E g \in Goods(plan, paid) : AccountOf(paid, g) = <<o, j>>
  <1>1. ASSUME NEW g \in Goods(plan, paid)
        PROVE  /\ g[1] \in DOMAIN paid /\ g[2] \in 1 .. orders[paid[g[1]]].quantity
               /\ g = <<g[1], g[2]>> /\ AccountOf(paid, g) = <<paid[g[1]], g[2]>>
               /\ orders[paid[g[1]]].provider = g[1]
    BY AccountOfType DEF Bought
  <1>2. \A g \in Goods(plan, paid) : paid[g[1]] \in OrdersOf(paid)
    BY <1>1, OrdersOfMember
  <1>3. ASSUME NEW g \in Goods(plan, paid), NEW e \in Goods(plan, paid),
               AccountOf(paid, g) = AccountOf(paid, e)
        PROVE  g = e
    <2>1. paid[g[1]] = paid[e[1]] /\ g[2] = e[2]
      BY <1>1, <1>3
    <2>2. g[1] = e[1]
      BY <1>1, <2>1
    <2>3. g = <<g[1], g[2]>> /\ e = <<e[1], e[2]>>
      BY <1>1
    <2> QED BY <2>1, <2>2, <2>3
  <1>4. ASSUME NEW o \in OrdersOf(paid), NEW j \in 1 .. orders[o].quantity
        PROVE  \E g \in Goods(plan, paid) : AccountOf(paid, g) = <<o, j>>
    <2>1. PICK r \in DOMAIN paid : o = paid[r]
      BY <1>4, OrdersOfMember
    <2>2. j \in 1 .. plan[r].quantity
      BY <1>4, <2>1 DEF Bought
    <2>3. PICK g : g = <<r, j>>
      OBVIOUS
    <2>4. g \in Goods(plan, paid)
      BY <2>2, <2>3, GoodsMember
    <2>5. AccountOf(paid, g) = <<o, j>>
      BY <2>1, <2>3 DEF AccountOf
    <2> QED BY <2>4, <2>5
  <1> QED BY <1>1, <1>2, <1>3, <1>4

\* The stock after a step that neither orders nor files anything.
LEMMA SameStocked ==
    ASSUME Typed, Stocked, DOMAIN inv' = Rows, \A i \in Rows : inv'[i].acct = inv[i].acct,
           placed' = placed, OrdersInHand \subseteq OrdersInHand', Single'
    PROVE  Stocked'
  <1>1. PICK N : N = {}
    OBVIOUS
  <1>2. Reaches(N)
    BY <1>1, SameOn
  <1>3. Sourced /\ Awaited /\ Covered /\ placed \in Seq(OrderType)
    BY DEF Stocked, Typed
  <1>4. \A o \in DOMAIN placed' :
           \/ placed'[o].adrift \/ o \in OrdersInHand'
           \/ \A j \in 1 .. placed'[o].quantity : <<o, j>> \in N \/ On(<<o, j>>)
    BY <1>3 DEF Covered
  <1>5. /\ placed' \in Seq(OrderType) /\ DOMAIN placed \subseteq DOMAIN placed'
        /\ \A o \in DOMAIN placed : placed'[o].quantity = placed[o].quantity
        /\ \A a \in N : a \in Account \/
              \E o \in DOMAIN placed' : \E j \in 1 .. placed'[o].quantity : a = <<o, j>>
        /\ \A o \in DOMAIN placed' : placed'[o].queued =>
              /\ o \in DOMAIN placed => placed[o].queued
              /\ \A j \in 1 .. placed'[o].quantity : <<o, j>> \notin N
    BY <1>1, <1>3
  <1>6. Sourced' /\ Awaited' /\ Covered'
    BY <1>2, <1>3, <1>4, <1>5, OrdersStocked
  <1> QED BY <1>6 DEF Stocked

\* The stock after a purchase from the suppliers.
LEMMA EndsStocked ==
    ASSUME Typed, Deals, Stocked, NEW h \in Handler, run[h].pc = "buying",
           NEW orders, NEW paid, NEW taken, taken = OrdersOf(paid),
           Buys(h, orders, paid), Relabelled(placed', orders, taken),
           NEW N, Reaches(N),
           \A a \in N : \E o \in taken : \E j \in 1 .. orders[o].quantity : a = <<o, j>>,
           \A o \in taken : \/ placed'[o].adrift \/ o \in OrdersInHand'
                            \/ \A j \in 1 .. orders[o].quantity : <<o, j>> \in N \/ On(<<o, j>>)
    PROVE  Sourced' /\ Awaited' /\ Covered'
  <1>1. /\ orders \in Seq(OrderType) /\ DOMAIN placed \subseteq DOMAIN orders
        /\ \A o \in DOMAIN placed : orders[o] = placed[o]
        /\ \A o \in DOMAIN orders \ DOMAIN placed : o \in taken \/ orders[o].adrift
        /\ Bought(run[h].plan, orders, paid)
        /\ OrdersOf(run[h].paid) \subseteq taken
    BY DEF Buys
  <1>2. /\ placed' \in Seq(OrderType) /\ DOMAIN placed' = DOMAIN orders
        /\ \A o \in DOMAIN orders :
              /\ o \notin taken => placed'[o] = orders[o]
              /\ placed'[o].quantity = orders[o].quantity
              /\ placed'[o].queued = orders[o].queued
    BY DEF Relabelled
  <1>3. \A o \in taken : o \in DOMAIN orders /\ ~orders[o].queued
    BY <1>1, OrdersOfMember DEF Bought
  <1>4. Sourced /\ Awaited /\ Covered
    BY DEF Stocked
  <1>5. \A o \in OrdersInHand : o \in taken
    <2> SUFFICES ASSUME NEW o \in OrdersInHand PROVE o \in taken
      OBVIOUS
    <2>1. PICK g \in Handler : run[g].pc = "buying" /\ o \in OrdersOf(run[g].paid)
      BY InHandMember
    <2>2. g = h
      BY <2>1 DEF Deals, OneBuyer, Buyers
    <2> QED BY <1>1, <2>1, <2>2
  <1>6. ASSUME NEW o \in DOMAIN placed'
        PROVE  \/ placed'[o].adrift \/ o \in OrdersInHand'
               \/ \A j \in 1 .. placed'[o].quantity : <<o, j>> \in N \/ On(<<o, j>>)
    <2>1. CASE o \in taken
      BY <1>2, <1>3, <2>1
    <2>2. CASE o \notin taken
      <3>1. placed'[o] = orders[o]
        BY <1>2, <2>2
      <3>2. CASE o \in DOMAIN placed
        <4>1. placed'[o] = placed[o]
          BY <1>1, <3>1, <3>2
        <4>2. \/ placed[o].adrift \/ \A j \in 1 .. placed[o].quantity : On(<<o, j>>)
          BY <1>4, <1>5, <2>2, <3>2 DEF Covered
        <4> QED BY <4>1, <4>2
      <3>3. CASE o \notin DOMAIN placed
        BY <1>1, <1>2, <2>2, <3>1, <3>3
      <3> QED BY <3>2, <3>3
    <2> QED BY <2>1, <2>2
  <1>7. ASSUME NEW o \in DOMAIN placed', placed'[o].queued
        PROVE  /\ o \in DOMAIN placed => placed[o].queued
               /\ \A j \in 1 .. placed'[o].quantity : <<o, j>> \notin N
    <2>1. orders[o].queued /\ o \notin taken
      BY <1>2, <1>3, <1>7
    <2>2. o \in DOMAIN placed => placed[o].queued
      BY <1>1, <2>1
    <2>3. ASSUME NEW j \in 1 .. placed'[o].quantity PROVE <<o, j>> \notin N
      BY <2>1
    <2> QED BY <2>2, <2>3
  <1>8. ASSUME NEW a \in N
        PROVE  \E o \in DOMAIN placed' : \E j \in 1 .. placed'[o].quantity : a = <<o, j>>
    <2>1. PICK o \in taken : \E j \in 1 .. orders[o].quantity : a = <<o, j>>
      OBVIOUS
    <2>2. o \in DOMAIN placed' /\ placed'[o].quantity = orders[o].quantity
      BY <1>2, <1>3
    <2> QED BY <2>1, <2>2
  <1>9. /\ DOMAIN placed \subseteq DOMAIN placed'
        /\ \A o \in DOMAIN placed : placed'[o].quantity = placed[o].quantity
    BY <1>1, <1>2
  <1> QED BY <1>2, <1>4, <1>6, <1>7, <1>8, <1>9, OrdersStocked

LEMMA HeldDeleted ==
    ASSUME NEW a, ~IsHeld(a), NEW i \in Recorded(a)
    PROVE  inv[i].status = "deleted"
  BY DEF IsHeld

LEMMA HeldOn == ASSUME NEW a, IsHeld(a) PROVE On(a)
  BY DEF IsHeld, On

\* The stock after a sale.
LEMMA SaleStocked ==
    ASSUME Typed, Single, NEW h \in Handler, NEW p, NEW plan, NEW orders, NEW paid, NEW route, NEW quote,
           NEW id, CanSell(h, p, plan, orders, paid, route, quote),
           Sale(h, plan, orders, paid, route, quote, id),
           NEW goods, goods = Goods(plan, paid),
           NEW acct, acct = [g \in goods |-> AccountOf(paid, g)],
           NEW N, N = {acct[g] : g \in goods}
    PROVE  Single' /\ Reaches(N)
  <1>1. PICK k, local, row, rows :
           /\ k = run[h].key /\ local = quote.local
           /\ rows = SoldRows(k, local, IsSeller(quote.pricing))
           /\ row = SoldGoods(k, goods, orders, paid, route, IsSeller(quote.pricing))
    OBVIOUS
  <1>2. Files(inv', rows, goods, row, id)
    BY <1>1 DEF Sale
  <1>3. /\ k \in Key /\ PlanTyped(plan) /\ orders \in Seq(OrderType) /\ Bought(plan, orders, paid)
        /\ DOMAIN local \subseteq Available /\ DOMAIN paid = DOMAIN plan
        /\ \A r \in DOMAIN paid : route[r] \in Nat
        /\ \A g \in goods : ~IsHeld(AccountOf(paid, g))
        /\ QuoteTyped(quote)
    BY <1>1 DEF CanSell
  <1>4. /\ DOMAIN rows = Rows
        /\ \A i \in Rows : /\ rows[i].acct = inv[i].acct
                           /\ rows[i].again <=> inv[i].again
                           /\ rows[i].status = inv[i].status \/ inv[i].status = "available"
    <2>1. PICK rule : rule = IsSeller(quote.pricing)
      OBVIOUS
    <2>2. rows = SoldRows(k, local, rule) /\ rule \in BOOLEAN
      BY <1>1, <2>1 DEF IsSeller
    <2>3. \A i \in DOMAIN local : local[i] \in Nat
      BY <1>1, <1>3 DEF QuoteTyped
    <2>4. DOMAIN rows = Rows
      BY <2>2 DEF SoldRows
    <2>5. \A i \in Rows : i \notin DOMAIN local => rows[i] = inv[i]
      BY <2>2 DEF SoldRows
    <2>6. ASSUME NEW i \in Rows, i \in DOMAIN local
          PROVE  /\ rows[i].acct = inv[i].acct
                 /\ rows[i].again <=> inv[i].again
                 /\ inv[i].status = "available"
      <3>1. inv[i].status = "available" /\ inv[i] \in RowType
        BY <1>3, <2>6 DEF Available, Typed
      <3>2. PICK n : n = local[i]
        OBVIOUS
      <3>3. rows[i] = [inv[i] EXCEPT !.status = "sold", !.key = k, !.rule = rule, !.amount = n]
        BY <2>2, <2>6, <3>2 DEF SoldRows
      <3> QED BY <3>1, <3>3 DEF RowType
    <2> QED BY <2>4, <2>5, <2>6
  <1>5. GoodsSound(plan, orders, paid, route)
    BY <1>3 DEF GoodsSound
  <1>6. ASSUME NEW g \in goods PROVE row[g].acct = acct[g]
    <2>1. PICK pr : pr = quote.pricing
      OBVIOUS
    <2>2. PICK w : w = row[g]
      OBVIOUS
    <2>3. w = SoldGoods(k, goods, orders, paid, route, IsSeller(pr))[g]
      BY <1>1, <2>1, <2>2
    <2>4. g \in Goods(plan, paid)
      OBVIOUS
    <2>5. w.acct = AccountOf(paid, g)
      BY <1>3, <1>5, <2>3, <2>4, SoldGoodsTyped
    <2> QED BY <2>2, <2>5
  <1>7. \A g, e \in goods : acct[g] = acct[e] => g = e
    <2>1. \A g, e \in Goods(plan, paid) : AccountOf(paid, g) = AccountOf(paid, e) => g = e
      BY <1>3, GoodsAccounts
    <2> QED BY <2>1
  <1>8. \A g \in goods : \A i \in Recorded(acct[g]) : inv[i].status = "deleted"
    BY <1>3, HeldDeleted
  <1>9. Single'
    BY <1>2, <1>4, <1>6, <1>7, <1>8, FilesSingle
  <1>10. Reaches(N)
    BY <1>2, <1>4, <1>6, FilesOn
  <1> QED BY <1>9, <1>10

\* The goods of a purchase that are kept for sale, with their accounts: those that
\* are in no row yet.
ToKeep(plan, paid, goods, acct, N) ==
    /\ goods = {g \in Goods(plan, paid) : ~IsHeld(AccountOf(paid, g))}
    /\ acct = [g \in goods |-> AccountOf(paid, g)]
    /\ N = {acct[g] : g \in goods}

\* The stock after the parts of a purchase are kept.
LEMMA KeptSingle ==
    ASSUME Typed, Single, NEW plan, PlanTyped(plan), NEW orders \in Seq(OrderType), NEW paid,
           Bought(plan, orders, paid), inv' = Kept(plan, orders, paid),
           NEW goods, NEW acct, NEW N, ToKeep(plan, paid, goods, acct, N)
    PROVE  Single' /\ Reaches(N)
  <1>0. /\ goods = {g \in Goods(plan, paid) : ~IsHeld(AccountOf(paid, g))}
        /\ acct = [g \in goods |-> AccountOf(paid, g)]
        /\ N = {acct[g] : g \in goods}
    BY DEF ToKeep
  <1>1. PICK row : row = [g \in goods |-> Row(AccountOf(paid, g), orders[paid[g[1]]].cost, "available")]
    OBVIOUS
  <1>2. PICK id : Files(inv', inv, goods, row, id)
    BY <1>0, <1>1, KeptFiles
  <1>3. \A g \in goods : row[g].acct = acct[g]
    BY <1>0, <1>1 DEF Row
  <1>4. \A g, e \in goods : acct[g] = acct[e] => g = e
    <2>1. \A g, e \in Goods(plan, paid) : AccountOf(paid, g) = AccountOf(paid, e) => g = e
      BY GoodsAccounts
    <2> QED BY <1>0, <2>1
  <1>5. \A g \in goods : \A i \in Recorded(acct[g]) : inv[i].status = "deleted"
    BY <1>0, HeldDeleted
  <1>6. /\ DOMAIN inv = Rows
        /\ \A i \in Rows : /\ inv[i].acct = inv[i].acct
                           /\ inv[i].again <=> inv[i].again
                           /\ inv[i].status = inv[i].status \/ inv[i].status = "available"
    BY DEF Rows
  <1>7. Single'
    BY <1>2, <1>3, <1>4, <1>5, <1>6, FilesSingle
  <1>8. Reaches(N)
    BY <1>0, <1>2, <1>3, <1>6, FilesOn
  <1> QED BY <1>7, <1>8

\* Nobody has an order in hand when nobody buys.
LEMMA EmptyHands ==
    /\ (\A h \in Handler : run[h].pc # "buying") => OrdersInHand = {}
    /\ (\A h \in Handler : run'[h].pc # "buying") => OrdersInHand' = {}
  <1>1. ASSUME \A h \in Handler : run[h].pc # "buying" PROVE OrdersInHand = {}
    BY <1>1, InHandMember
  <1>2. ASSUME \A h \in Handler : run'[h].pc # "buying" PROVE OrdersInHand' = {}
    BY <1>2, InHandMember
  <1> QED BY <1>1, <1>2

\* Who buys goes on buying with what it has in hand.
LEMMA SameHands ==
    ASSUME \A h \in Handler : run[h].pc = "buying" => run'[h] = run[h]
    PROVE  OrdersInHand \subseteq OrdersInHand'
  <1> SUFFICES ASSUME NEW o \in OrdersInHand PROVE o \in OrdersInHand'
    OBVIOUS
  <1>1. PICK h \in Handler : run[h].pc = "buying" /\ o \in OrdersOf(run[h].paid)
    BY InHandMember
  <1>2. run'[h].pc = "buying" /\ o \in OrdersOf(run'[h].paid)
    BY <1>1
  <1> QED BY <1>2, InHandMember

\* The stock is kept by steps that leave the table and the orders.
LEMMA IdleStocked ==
    ASSUME Typed, Stocked, inv' = inv, placed' = placed,
           \A h \in Handler : run[h].pc = "buying" => run'[h] = run[h]
    PROVE  Stocked'
  <1>1. DOMAIN inv' = Rows /\ \A i \in Rows : inv'[i].acct = inv[i].acct
    BY DEF Rows
  <1>2. OrdersInHand \subseteq OrdersInHand'
    BY SameHands
  <1>3. Single'
    BY SameSingle DEF Stocked
  <1> QED BY <1>1, <1>2, <1>3, SameStocked

\* A purchase is undone: the orders whose accounts are in no row are adrift.
LEMMA UndoneStocked ==
    ASSUME Typed, Deals, Stocked, NEW h \in Handler, run[h].pc = "buying",
           NEW orders, NEW paid, Buys(h, orders, paid), inv' = inv,
           placed' = Adrift(orders, OrdersOf(paid))
    PROVE  Stocked'
  <1>1. PICK taken, N : taken = OrdersOf(paid) /\ N = {}
    OBVIOUS
  <1>2. orders \in Seq(OrderType) /\ \A o \in taken : o \in DOMAIN orders
    BY <1>1, OrdersOfMember DEF Buys, Bought
  <1>3. Reaches(N)
    BY <1>1, SameOn DEF Rows
  <1>4. /\ Relabelled(placed', orders, taken)
        /\ \A o \in DOMAIN orders :
              \/ placed'[o].adrift
              \/ /\ ~orders[o].adrift
                 /\ o \in taken => \A j \in 1 .. orders[o].quantity : Recorded(<<o, j>>) # {}
    BY <1>1, <1>2, AdriftFacts
  <1>5. \A o \in taken : \/ placed'[o].adrift \/ o \in OrdersInHand'
                         \/ \A j \in 1 .. orders[o].quantity : <<o, j>> \in N \/ On(<<o, j>>)
    BY <1>2, <1>4 DEF On
  <1>6. \A a \in N : \E o \in taken : \E j \in 1 .. orders[o].quantity : a = <<o, j>>
    BY <1>1
  <1>7. Sourced' /\ Awaited' /\ Covered'
    BY <1>1, <1>3, <1>4, <1>5, <1>6, EndsStocked
  <1>8. Single'
    BY SameSingle DEF Stocked
  <1> QED BY <1>7, <1>8 DEF Stocked

\* The parts of a purchase are kept for sale.
LEMMA KeptStocked ==
    ASSUME Typed, Deals, Stocked, NEW h \in Handler, run[h].pc = "buying",
           NEW orders, NEW paid, Buys(h, orders, paid),
           inv' = Kept(run[h].plan, orders, paid), placed' = Landed(orders, OrdersOf(paid))
    PROVE  Stocked'
  <1>1. PICK plan, taken, goods, acct, N :
           /\ plan = run[h].plan /\ taken = OrdersOf(paid)
           /\ goods = {g \in Goods(plan, paid) : ~IsHeld(AccountOf(paid, g))}
           /\ acct = [g \in goods |-> AccountOf(paid, g)]
           /\ N = {acct[g] : g \in goods}
    OBVIOUS
  <1>2. /\ orders \in Seq(OrderType) /\ Bought(plan, orders, paid) /\ PlanTyped(plan)
    BY <1>1, RunKey DEF Buys
  <1>3. inv' = Kept(plan, orders, paid) /\ Single
    BY <1>1 DEF Stocked
  <1>4. Single' /\ Reaches(N)
    <2>1. PICK p : p = paid
      OBVIOUS
    <2>2. Bought(plan, orders, p) /\ inv' = Kept(plan, orders, p)
      BY ONLY <1>2, <1>3, <2>1
    <2>3. orders \in Seq(OrderType) /\ PlanTyped(plan) /\ Single
      BY ONLY <1>2, <1>3
    <2>4. ToKeep(plan, p, goods, acct, N)
      BY ONLY <1>1, <2>1 DEF ToKeep
    <2> QED BY ONLY Typed, <2>2, <2>3, <2>4, KeptSingle
  <1>5. Relabelled(placed', orders, taken)
    BY <1>1, <1>2, LandedFacts
  <1>6. /\ \A g \in Goods(plan, paid) :
              /\ g[1] \in DOMAIN paid /\ paid[g[1]] \in OrdersOf(paid)
              /\ AccountOf(paid, g) = <<paid[g[1]], g[2]>>
              /\ g[2] \in 1 .. orders[paid[g[1]]].quantity
        /\ \A o \in OrdersOf(paid) : \A j \in 1 .. orders[o].quantity :
              \E g \in Goods(plan, paid) : AccountOf(paid, g) = <<o, j>>
    BY <1>2, GoodsAccounts
  <1>7. \A a \in N : \E o \in taken : \E j \in 1 .. orders[o].quantity : a = <<o, j>>
    BY <1>1, <1>6
  <1>8. ASSUME NEW o \in taken, NEW j \in 1 .. orders[o].quantity
        PROVE  <<o, j>> \in N \/ On(<<o, j>>)
    <2>1. PICK g \in Goods(plan, paid) : AccountOf(paid, g) = <<o, j>>
      BY <1>1, <1>6
    <2>2. CASE IsHeld(AccountOf(paid, g))
      BY <2>1, <2>2, HeldOn
    <2>3. CASE ~IsHeld(AccountOf(paid, g))
      <3>1. g \in goods /\ acct[g] = <<o, j>>
        BY <1>1, <2>1, <2>3
      <3> QED BY <1>1, <3>1
    <2> QED BY <2>2, <2>3
  <1>9. Sourced' /\ Awaited' /\ Covered'
    BY <1>1, <1>4, <1>5, <1>7, <1>8, EndsStocked
  <1> QED BY <1>4, <1>9 DEF Stocked

\* The parts of a purchase are sold.
LEMMA SoldStocked ==
    ASSUME Typed, Deals, Stocked, NEW h \in Handler, run[h].pc = "buying",
           NEW orders, NEW paid, Buys(h, orders, paid), SoldAll(h, orders, paid)
    PROVE  Stocked'
  <1>1. PICK p, plan, route, quote, taken, goods, acct, N :
           /\ p = run[h].p /\ plan = run[h].plan /\ quote = run[h].quote
           /\ route = FinalPrices(h, orders, paid) /\ taken = OrdersOf(paid)
           /\ goods = Goods(plan, paid)
           /\ acct = [g \in goods |-> AccountOf(paid, g)]
           /\ N = {acct[g] : g \in goods}
    OBVIOUS
  <1>2. /\ orders \in Seq(OrderType) /\ Bought(plan, orders, paid) /\ PlanTyped(plan) /\ Single
    BY <1>1, RunKey DEF Buys, Stocked
  <1>3. Deal(h)
    BY DEF Deals, Buyers
  <1>4. CanSell(h, p, plan, orders, paid, route, quote)
    BY <1>1, <1>3, PartsCanSell
  <1>5. Complete(h, p, plan, orders, paid, route, quote)
    BY <1>1 DEF SoldAll
  <1>6. PICK id : Sale(h, plan, orders, paid, route, quote, id)
    BY <1>4, <1>5, CompleteTyped
  <1>7. Single' /\ Reaches(N)
    BY <1>1, <1>2, <1>4, <1>6, SaleStocked
  <1>8. Relabelled(placed', orders, taken)
    BY <1>1, <1>2, LandedFacts DEF SoldAll
  <1>9. /\ \A g \in Goods(plan, paid) :
              /\ g[1] \in DOMAIN paid /\ paid[g[1]] \in OrdersOf(paid)
              /\ AccountOf(paid, g) = <<paid[g[1]], g[2]>>
              /\ g[2] \in 1 .. orders[paid[g[1]]].quantity
        /\ \A o \in OrdersOf(paid) : \A j \in 1 .. orders[o].quantity :
              \E g \in Goods(plan, paid) : AccountOf(paid, g) = <<o, j>>
    BY <1>2, GoodsAccounts
  <1>10. \A a \in N : \E o \in taken : \E j \in 1 .. orders[o].quantity : a = <<o, j>>
    BY <1>1, <1>9
  <1>11. ASSUME NEW o \in taken, NEW j \in 1 .. orders[o].quantity
         PROVE  <<o, j>> \in N
    BY <1>1, <1>9
  <1>12. Sourced' /\ Awaited' /\ Covered'
    BY <1>1, <1>7, <1>8, <1>10, <1>11, EndsStocked
  <1> QED BY <1>7, <1>12 DEF Stocked

LEMMA GoesOnStocked ==
    ASSUME Typed, Deals, Stocked, NEW h \in Handler, GoesOn(h)
    PROVE  Stocked'
  <1>1. run[h].pc = "buying"
    BY DEF GoesOn
  <1>2. PICK orders, paid : /\ Buys(h, orders, paid)
                            /\ \/ PartBought(h, orders, paid) \/ KeptAll(h, orders, paid)
                               \/ Undone(h, orders, paid) \/ SoldAll(h, orders, paid)
    BY DEF GoesOn
  <1>3. CASE PartBought(h, orders, paid)
    <2>1. inv' = inv /\ placed' = orders /\ run' = [run EXCEPT ![h].paid = paid]
      BY <1>3 DEF PartBought
    <2>2. IsFcn(run) /\ DOMAIN run = Handler /\ RunTyped(run[h])
      BY DEF Typed
    <2>3. run[h] = [pc |-> "buying", key |-> run[h].key, p |-> run[h].p, plan |-> run[h].plan,
                    paid |-> run[h].paid, quote |-> run[h].quote]
      BY <1>1, <2>2 DEF RunTyped, Rest
    <2>4. PICK r : r = [run[h] EXCEPT !.paid = paid]
      OBVIOUS
    <2>5. run'[h] = r
      BY <2>1, <2>2, <2>4 DEF IsFcn
    <2>6. run'[h].pc = "buying" /\ run'[h].paid = paid
      BY <2>3, <2>4, <2>5
    <2>7. PICK taken, N : taken = OrdersOf(paid) /\ N = {}
      OBVIOUS
    <2>8. \A o \in taken : o \in OrdersInHand'
      BY <2>6, <2>7, InHandMember
    <2>9. orders \in Seq(OrderType)
      BY <1>2 DEF Buys
    <2>10. Relabelled(placed', orders, taken)
      BY <2>1, <2>9 DEF Relabelled
    <2>11. Reaches(N)
      BY <2>1, <2>7, SameOn DEF Rows
    <2>12. \A a \in N : \E o \in taken : \E j \in 1 .. orders[o].quantity : a = <<o, j>>
      BY <2>7
    <2>13. Sourced' /\ Awaited' /\ Covered'
      BY <1>1, <1>2, <2>7, <2>8, <2>10, <2>11, <2>12, EndsStocked
    <2>14. Single'
      BY <2>1, SameSingle DEF Stocked
    <2> QED BY <2>13, <2>14 DEF Stocked
  <1>4. CASE KeptAll(h, orders, paid)
    BY <1>1, <1>2, <1>4, KeptStocked DEF KeptAll
  <1>5. CASE Undone(h, orders, paid)
    BY <1>1, <1>2, <1>5, UndoneStocked DEF Undone
  <1>6. CASE SoldAll(h, orders, paid)
    BY <1>1, <1>2, <1>6, SoldStocked
  <1> QED BY <1>2, <1>3, <1>4, <1>5, <1>6

LEMMA BeginsStocked ==
    ASSUME Typed, Stocked, NEW h \in Handler, Begins(h)
    PROVE  Stocked'
  <1>1. /\ run[h].pc = "claimed" /\ run[h].key \in Key /\ placed' = placed
        /\ \A g \in Handler : run[g].pc # "buying"
    BY DEF Begins, IsBuying
  <1>2. CASE inv' = inv
    BY <1>1, <1>2, IdleStocked
  <1>3. ASSUME NEW src, NEW q, SaleSound(h, src, q), Proceed(h, src, q)
        PROVE  Stocked'
    <2>1. CASE src.need = 0
      <3>1. PICK p, plan, orders, paid, route, goods, acct, N :
               /\ p = src.p /\ plan = src.plan /\ orders = placed
               /\ paid = NothingPaid /\ route = q.route
               /\ goods = Goods(plan, paid)
               /\ acct = [g \in goods |-> AccountOf(paid, g)]
               /\ N = {acct[g] : g \in goods}
        OBVIOUS
      <3>2. CanSell(h, p, plan, orders, paid, route, q)
        BY <1>1, <1>3, <2>1, <3>1, RowsCanSell
      <3>3. Complete(h, p, plan, orders, paid, route, q)
        BY <1>3, <2>1, <3>1 DEF Proceed
      <3>4. PICK id : Sale(h, plan, orders, paid, route, q, id)
        BY <3>2, <3>3, CompleteTyped
      <3>5. Single
        BY DEF Stocked
      <3>6. Single' /\ Reaches(N)
        BY <3>1, <3>2, <3>4, <3>5, SaleStocked
      <3>7. N = {}
        <4>1. DOMAIN paid = {}
          BY <3>1 DEF NothingPaid
        <4>2. goods = {}
          BY <3>1, <4>1, GoodsMember
        <4> QED BY <3>1, <4>2
      <3>8. Sourced /\ Awaited /\ Covered /\ placed \in Seq(OrderType)
        BY DEF Stocked, Typed
      <3>9. OrdersInHand = {}
        BY <1>1, EmptyHands
      <3>10. /\ placed' \in Seq(OrderType) /\ DOMAIN placed \subseteq DOMAIN placed'
             /\ \A o \in DOMAIN placed : placed'[o].quantity = placed[o].quantity
             /\ \A a \in N : a \in Account \/
                   \E o \in DOMAIN placed' : \E j \in 1 .. placed'[o].quantity : a = <<o, j>>
             /\ \A o \in DOMAIN placed' : placed'[o].queued =>
                   /\ o \in DOMAIN placed => placed[o].queued
                   /\ \A j \in 1 .. placed'[o].quantity : <<o, j>> \notin N
        BY <1>1, <3>7, <3>8
      <3>11. \A o \in DOMAIN placed' :
                \/ placed'[o].adrift \/ o \in OrdersInHand'
                \/ \A j \in 1 .. placed'[o].quantity : <<o, j>> \in N \/ On(<<o, j>>)
        BY <1>1, <3>8, <3>9 DEF Covered
      <3>12. Sourced' /\ Awaited' /\ Covered'
        BY <3>6, <3>8, <3>10, <3>11, OrdersStocked
      <3> QED BY <3>6, <3>12 DEF Stocked
    <2>2. CASE src.need # 0
      <3>1. inv' = inv
        BY <1>3, <2>2 DEF Proceed
      <3> QED BY <1>2, <3>1
    <2> QED BY <2>1, <2>2
  <1> QED BY <1>2, <1>3 DEF Begins

LEMMA RaiseStocked ==
    ASSUME Typed, Deals, Stocked, NEW h \in Handler, Raise(h)
    PROVE  Stocked'
  <1>1. CASE run[h].pc = "buying"
    <2>1. PICK orders, paid : orders = placed /\ paid = run[h].paid
      OBVIOUS
    <2>2. Deal(h)
      BY <1>1 DEF Deals, Buyers
    <2>3. Buys(h, orders, paid)
      BY <1>1, <2>1, <2>2, BuysBefore
    <2>4. inv' = inv /\ placed' = Adrift(orders, OrdersOf(paid))
      BY <1>1, <2>1 DEF Raise
    <2> QED BY <1>1, <2>3, <2>4, UndoneStocked
  <1>2. CASE run[h].pc # "buying"
    <2>1. inv' = inv /\ placed' = placed /\ Ended(h, "exception")
      BY <1>2 DEF Raise
    <2>2. IsFcn(run) /\ DOMAIN run = Handler
      BY DEF Typed
    <2>3. \A g \in Handler \ {h} : run'[g] = run[g]
      BY <2>1, <2>2 DEF Ended, IsFcn
    <2> QED BY <1>2, <2>1, <2>3, IdleStocked
  <1> QED BY <1>1, <1>2

LEMMA CrashStocked ==
    ASSUME Typed, Deals, Stocked, Crash
    PROVE  Stocked'
  <1>1. /\ inv' = inv /\ placed' = Adrift(placed, OrdersInHand)
        /\ run' = [g \in Handler |-> Rest]
    BY DEF Crash
  <1>2. CASE \E h \in Handler : run[h].pc = "buying"
    <2>1. PICK h \in Handler : run[h].pc = "buying"
      BY <1>2
    <2>2. \A o : o \in OrdersInHand <=> o \in OrdersOf(run[h].paid)
      <3> SUFFICES ASSUME NEW o PROVE o \in OrdersInHand <=> o \in OrdersOf(run[h].paid)
        OBVIOUS
      <3>1. \A g \in Handler : run[g].pc = "buying" => g = h
        BY <2>1 DEF Deals, OneBuyer, Buyers
      <3> QED BY <2>1, <3>1, InHandMember
    <2>3. OrdersInHand = OrdersOf(run[h].paid)
      BY <2>2
    <2>4. PICK orders, paid : orders = placed /\ paid = run[h].paid
      OBVIOUS
    <2>5. Deal(h)
      BY <2>1 DEF Deals, Buyers
    <2>6. Buys(h, orders, paid)
      BY <2>1, <2>4, <2>5, BuysBefore
    <2>7. placed' = Adrift(orders, OrdersOf(paid))
      BY <1>1, <2>3, <2>4
    <2> QED BY <1>1, <2>1, <2>6, <2>7, UndoneStocked
  <1>3. CASE \A h \in Handler : run[h].pc # "buying"
    <2>1. OrdersInHand = {}
      BY <1>3, EmptyHands
    <2>2. placed \in Seq(OrderType)
      BY DEF Typed
    <2>3. placed' = [o \in DOMAIN placed |-> placed[o]]
      BY <1>1, <2>1 DEF Adrift
    <2>4. placed' = placed
      BY <2>2, <2>3
    <2> QED BY <1>1, <1>3, <2>4, IdleStocked
  <1> QED BY <1>2, <1>3

LEMMA RecoverStocked ==
    ASSUME Typed, Stocked, NEW o \in DOMAIN placed, RecoverOrder(o)
    PROVE  Stocked'
  <1>1. PICK D, row, acct, N :
           /\ D = 1 .. placed[o].quantity
           /\ row = [j \in D |-> Row(<<o, j>>, placed[o].cost, "available")]
           /\ acct = [j \in D |-> <<o, j>>]
           /\ N = {acct[j] : j \in D}
    OBVIOUS
  <1>2. PICK id : Files(inv', inv, D, row, id)
    BY <1>1, RecoverFiles DEF Stores
  <1>3. /\ placed' \in Seq(OrderType) /\ DOMAIN placed' = DOMAIN placed
        /\ \A s \in DOMAIN placed : s # o => placed'[s] = placed[s]
        /\ ~placed'[o].queued
        /\ placed'[o].quantity = placed[o].quantity
    BY RecoverOrderTyped
  <1>4. Sourced /\ Awaited /\ Covered /\ Single /\ placed[o].queued /\ run' = run
    BY DEF Stocked, RecoverOrder
  <1>5. \A j \in D : row[j].acct = acct[j]
    BY <1>1 DEF Row
  <1>6. \A i, j \in D : acct[i] = acct[j] => i = j
    BY <1>1
  <1>7. \A j \in D : Recorded(acct[j]) = {}
    BY <1>1, <1>4 DEF Awaited, On
  <1>8. /\ DOMAIN inv = Rows
        /\ \A i \in Rows : /\ inv[i].acct = inv[i].acct
                           /\ inv[i].again <=> inv[i].again
                           /\ inv[i].status = inv[i].status \/ inv[i].status = "available"
    BY DEF Rows
  <1>9. Single'
    <2>1. \A j \in D : \A i \in Recorded(acct[j]) :
             \/ inv[i].status = "deleted"
             \/ row[j].again /\ inv[i].status \in {"sold", "withdrawn"}
      BY ONLY <1>7
    <2>2. PICK rows : rows = inv
      OBVIOUS
    <2>3. DOMAIN rows = Rows
      BY ONLY <1>8, <2>2
    <2>4. \A i \in Rows : /\ rows[i].acct = inv[i].acct
                          /\ rows[i].again <=> inv[i].again
                          /\ rows[i].status = inv[i].status \/ inv[i].status = "available"
      BY ONLY <1>8, <2>2
    <2>5. Files(inv', rows, D, row, id)
      BY ONLY <1>2, <2>2
    <2>6. Single
      BY ONLY <1>4
    <2> QED BY ONLY Typed, <1>5, <1>6, <2>1, <2>3, <2>4, <2>5, <2>6, FilesSingle
  <1>10. Reaches(N)
    <2>1. PICK rows : rows = inv
      OBVIOUS
    <2>2. DOMAIN rows = Rows /\ \A i \in Rows : rows[i].acct = inv[i].acct
      BY ONLY <1>8, <2>1
    <2>3. Files(inv', rows, D, row, id)
      BY ONLY <1>2, <2>1
    <2>4. N = {acct[j] : j \in D}
      BY ONLY <1>1
    <2> QED BY ONLY Typed, <1>5, <2>2, <2>3, <2>4, FilesOn
  <1>11. OrdersInHand \subseteq OrdersInHand'
    BY <1>4, SameHands
  <1>12. \A s \in DOMAIN placed : placed'[s].quantity = placed[s].quantity
    BY <1>3
  <1>13. \A a \in N : \E s \in DOMAIN placed' : \E j \in 1 .. placed'[s].quantity : a = <<s, j>>
    BY <1>1, <1>3
  <1>14. ASSUME NEW s \in DOMAIN placed', placed'[s].queued
         PROVE  placed[s].queued /\ \A j \in 1 .. placed'[s].quantity : <<s, j>> \notin N
    <2>1. s # o
      BY <1>3, <1>14
    <2> QED BY <1>1, <1>3, <1>14, <2>1
  <1>15. ASSUME NEW s \in DOMAIN placed'
         PROVE  \/ placed'[s].adrift \/ s \in OrdersInHand'
                \/ \A j \in 1 .. placed'[s].quantity : <<s, j>> \in N \/ On(<<s, j>>)
    <2>1. CASE s = o
      BY <1>1, <1>3, <2>1
    <2>2. CASE s # o
      BY <1>3, <1>4, <1>11, <2>2 DEF Covered
    <2> QED BY <2>1, <2>2
  <1>16. Sourced' /\ Awaited' /\ Covered'
    BY <1>3, <1>4, <1>10, <1>12, <1>13, <1>14, <1>15, OrdersStocked
  <1> QED BY <1>9, <1>16 DEF Stocked

LEMMA ImportsStocked ==
    ASSUME Typed, Stocked, NEW D, NEW cost, NEW again, Imports(D, cost, again)
    PROVE  Stocked'
  <1>1. PICK row, acct, N :
           /\ row = [a \in D |-> [Row(a, cost, "available") EXCEPT !.again = again]]
           /\ acct = [a \in D |-> a]
           /\ N = {acct[a] : a \in D}
    OBVIOUS
  <1>2. /\ D \subseteq Account /\ run' = run /\ placed' = placed
        /\ \A a \in D : IsHeld(a) => again /\ \A i \in Available : inv[i].acct # a
    BY DEF Imports
  <1>3. PICK id : Files(inv', inv, D, row, id)
    BY <1>1 DEF Imports, Stores
  <1>4. Sourced /\ Awaited /\ Covered /\ Single /\ placed \in Seq(OrderType)
    BY DEF Stocked, Typed
  <1>5. \A a \in D : row[a].acct = acct[a] /\ row[a].again = again
    BY <1>1 DEF Row
  <1>6. \A a, b \in D : acct[a] = acct[b] => a = b
    BY <1>1
  <1>7. ASSUME NEW a \in D, NEW i \in Recorded(acct[a])
        PROVE  \/ inv[i].status = "deleted"
               \/ row[a].again /\ inv[i].status \in {"sold", "withdrawn"}
    <2>1. i \in Rows /\ inv[i].acct = a /\ inv[i] \in RowType
      BY <1>1, <1>7 DEF Recorded, Typed
    <2>2. CASE IsHeld(a)
      <3>1. inv[i].status # "available"
        BY <1>2, <2>1, <2>2 DEF Available
      <3> QED BY <1>2, <1>5, <2>1, <2>2, <3>1 DEF RowType
    <2>3. CASE ~IsHeld(a)
      BY <1>1, <1>7, <2>3, HeldDeleted
    <2> QED BY <2>2, <2>3
  <1>8. /\ DOMAIN inv = Rows
        /\ \A i \in Rows : /\ inv[i].acct = inv[i].acct
                           /\ inv[i].again <=> inv[i].again
                           /\ inv[i].status = inv[i].status \/ inv[i].status = "available"
    BY DEF Rows
  <1>9. Single'
    <2>1. \A a \in D : row[a].acct = acct[a]
      BY <1>5
    <2> QED BY <1>3, <1>4, <1>6, <1>7, <1>8, <2>1, FilesSingle
  <1>10. Reaches(N)
    <2>1. \A a \in D : row[a].acct = acct[a]
      BY <1>5
    <2> QED BY <1>1, <1>3, <1>8, <2>1, FilesOn
  <1>11. OrdersInHand \subseteq OrdersInHand'
    BY <1>2, SameHands
  <1>12. \A a \in N : a \in Account
    BY <1>1, <1>2
  <1>13. ASSUME NEW s \in DOMAIN placed', placed'[s].queued
         PROVE  placed[s].queued /\ \A j \in 1 .. placed'[s].quantity : <<s, j>> \notin N
    <2>1. ASSUME NEW j \in 1 .. placed[s].quantity PROVE <<s, j>> \notin Account
      BY <1>2, <1>4, OrderNumber
    <2> QED BY <1>2, <1>12, <1>13, <2>1
  <1>14. \A o \in DOMAIN placed' :
            \/ placed'[o].adrift \/ o \in OrdersInHand'
            \/ \A j \in 1 .. placed'[o].quantity : <<o, j>> \in N \/ On(<<o, j>>)
    BY <1>2, <1>4, <1>11 DEF Covered
  <1>15. /\ placed' \in Seq(OrderType) /\ DOMAIN placed \subseteq DOMAIN placed'
         /\ \A o \in DOMAIN placed : placed'[o].quantity = placed[o].quantity
    BY <1>2, <1>4
  <1>16. Sourced' /\ Awaited' /\ Covered'
    BY <1>4, <1>10, <1>12, <1>13, <1>14, <1>15, OrdersStocked
  <1> QED BY <1>9, <1>16 DEF Stocked

LEMMA FewerStocked ==
    ASSUME Typed, Stocked, Fewer
    PROVE  Stocked'
  <1>1. DOMAIN inv' = Rows /\ placed' = placed /\ run' = run
    BY DEF Fewer
  <1>2. \A i \in Rows : inv'[i].acct = inv[i].acct
    BY FewerRows
  <1>3. OrdersInHand \subseteq OrdersInHand'
    BY <1>1, SameHands
  <1>4. Single'
    BY FewerSingle DEF Stocked
  <1> QED BY <1>1, <1>2, <1>3, <1>4, SameStocked

LEMMA ClaimStocked ==
    ASSUME Typed, Stocked, NEW h \in Handler, NEW k \in Key, Start(h, k), inv' = inv, placed' = placed
    PROVE  Stocked'
  <1>1. /\ run[h].pc = "idle" /\ \A g \in Handler \ {h} : run'[g] = run[g]
    BY StartTyped
  <1>2. \A g \in Handler : run[g].pc = "buying" => run'[g] = run[g]
    BY <1>1
  <1> QED BY <1>2, IdleStocked

\* The stock is kept by every step.
LEMMA StockedNext ==
    ASSUME Core, Stocked, [Next]_vars
    PROVE  Stocked'
  <1>1. Typed /\ Deals /\ Keys
    BY DEF Core
  <1>2. CASE BuyStep
    <2>1. PICK h \in Handler :
             \/ Begins(h) \/ GoesOn(h) \/ Raise(h) \/ Answer(h)
             \/ \E k \in ApiKey : CreateOrder(h, k)
             \/ \E k \in BotKey : PressBuy(h, k)
             \/ \E k \in QrKey : Pay(h, k)
      BY <1>2 DEF BuyStep
    <2>2. ASSUME Answer(h) PROVE Stocked'
      <3>1. run' = [run EXCEPT ![h] = Rest] /\ inv' = inv /\ placed' = placed /\ run[h].pc = "answer"
        BY <2>2 DEF Answer
      <3>2. IsFcn(run) /\ DOMAIN run = Handler
        BY <1>1 DEF Typed
      <3>3. \A g \in Handler \ {h} : run'[g] = run[g]
        BY <3>1, <3>2 DEF IsFcn
      <3>4. \A g \in Handler : run[g].pc = "buying" => run'[g] = run[g]
        BY <3>1, <3>3
      <3> QED BY <1>1, <3>1, <3>4, IdleStocked
    <2>3. ASSUME NEW k \in ApiKey, CreateOrder(h, k) PROVE Stocked'
      BY <1>1, <2>3, ClaimStocked DEF CreateOrder, Key
    <2>4. ASSUME NEW k \in BotKey, PressBuy(h, k) PROVE Stocked'
      BY <1>1, <2>4, ClaimStocked DEF PressBuy, Key
    <2>5. ASSUME NEW k \in QrKey, Pay(h, k) PROVE Stocked'
      BY <1>1, <2>5, ClaimStocked DEF Pay, Key
    <2> QED BY <1>1, <2>1, <2>2, <2>3, <2>4, <2>5, BeginsStocked, GoesOnStocked, RaiseStocked
  <1>3. CASE KeyStep
    <2>1. inv' = inv /\ placed' = placed /\ run' = run
      BY <1>3 DEF KeyStep, GrowStale, ShowTotal, CreateRequest, DeleteDiscount
    <2> QED BY <1>1, <2>1, IdleStocked
  <1>4. CASE Crash
    BY <1>1, <1>4, CrashStocked
  <1>5. CASE TableStep
    BY <1>1, <1>5, RecoverStocked, ImportsStocked, FewerStocked DEF TableStep
  <1>6. CASE OtherStep
    <2>1. inv' = inv /\ placed' = placed /\ run' = run
      BY <1>6 DEF OtherStep, Quiet
    <2> QED BY <1>1, <2>1, IdleStocked
  <1>7. CASE UNCHANGED vars
    <2>1. inv' = inv /\ placed' = placed /\ run' = run
      BY <1>7 DEF vars
    <2> QED BY <1>1, <2>1, IdleStocked
  <1> QED BY <1>1, <1>2, <1>3, <1>4, <1>5, <1>6, <1>7, StepKinds

LEMMA InitStocked == Init => Stocked
  <1> SUFFICES ASSUME Init PROVE Stocked
    OBVIOUS
  <1>1. DOMAIN inv = {} /\ placed = <<>>
    BY DEF Init
  <1>2. Rows = {} /\ DOMAIN placed = {}
    BY <1>1 DEF Rows
  <1> QED BY <1>2 DEF Stocked, Sourced, Awaited, Covered, Single

\* Whatever a supplier was paid for is in the shop's rows, once, sold or kept for sale,
\* unless its answer was lost or the transaction was undone; and an account is in stock
\* twice only after it was deleted, or consumed and imported again on purpose.
THEOREM AccountsOnce == Spec => []EachAccountOnce
  <1>1. Core /\ Stocked /\ [Next]_vars => Stocked'
    BY StockedNext
  <1>2. Stocked => EachAccountOnce
    <2> SUFFICES ASSUME Stocked PROVE EachAccountOnce
      OBVIOUS
    <2>1. ASSUME NEW o \in DOMAIN placed
          PROVE  placed[o].adrift \/ o \in OrdersInHand \/ \A a \in Accounts(o) : Recorded(a) # {}
      BY DEF Stocked, Covered, On, Accounts
    <2> QED BY <2>1 DEF Stocked, Single, EachAccountOnce
  <1> QED BY <1>1, <1>2, InitStocked, CoreInvariant, PTL DEF Spec

-----------------------------------------------------------------------------
(* The money *)

\* Equal shares of an amount leave less than one for each.
LEMMA Shares ==
    ASSUME NEW a \in Nat, NEW n \in Nat \ {0}
    PROVE  n * (a \div n) <= a /\ a < n * (a \div n) + n
  <1>1. a = n * (a \div n) + (a % n) /\ a % n \in 0 .. (n - 1)
    BY SMTT(30)
  <1>2. a \div n \in Nat
    BY ShareNat
  <1>3. PICK x : x = n * (a \div n)
    OBVIOUS
  <1>4. x \in Nat
    BY <1>2, <1>3
  <1> QED BY <1>1, <1>3, <1>4

\* What is taken under a key, against what was agreed and what is booked.
Charged(k) ==
    /\ Agreed(k) => debit[k] \in {0, shown[k]}
    /\ k \in ApiKey => \A i \in SoldUnder(k) : inv[i].amount <= Body[k].max
    /\ \A i \in SoldUnder(k) : inv[i].rule => inv[i].amount > inv[i].cost
    /\ AmountsOf(k) <= debit[k]
    /\ k \notin QrKey /\ (Agreed(k) \/ \A i \in SoldUnder(k) : ~inv[i].rule) =>
         AmountsOf(k) = debit[k]
    /\ k \in QrKey /\ SoldUnder(k) # {} =>
         debit[k] = request[k].amount /\ debit[k] < AmountsOf(k) + Body[k].quantity
\* What is in a wallet: what was there and was credited, less what was spent.
Balanced(u) == wallet[u] = Wallet0[u] + Credited(u) - Spent(u)
Money == (\A k \in Key : Charged(k)) /\ (\A u \in Customer : Balanced(u))

\* The sales of k stay as they are.
SameSale(k) ==
    /\ SoldUnder(k)' = SoldUnder(k)
    /\ \A i \in SoldUnder(k) :
          /\ inv'[i].amount = inv[i].amount /\ inv'[i].cost = inv[i].cost
          /\ inv'[i].rule <=> inv[i].rule

LEMMA NothingSold == ASSUME NEW k, SoldUnder(k) = {} PROVE AmountsOf(k) = 0
  BY SumEmpty DEF AmountsOf

LEMMA SameAmounts == ASSUME NEW k, SameSale(k) PROVE AmountsOf(k)' = AmountsOf(k)
  <1>1. [i \in SoldUnder(k)' |-> inv'[i].amount] = [i \in SoldUnder(k) |-> inv[i].amount]
    BY DEF SameSale
  <1> QED BY <1>1 DEF AmountsOf, SameSale

\* A key whose sales and debit stay; the total on its button may change before them.
LEMMA ChargedKept ==
    ASSUME Typed, NEW k \in Key, Charged(k), SameSale(k), debit'[k] = debit[k],
           k \in BotKey => shown'[k] = shown[k] \/ (SoldUnder(k) = {} /\ debit[k] = 0),
           k \in QrKey /\ SoldUnder(k) # {} => request'[k].amount = request[k].amount
    PROVE  Charged(k)'
  <1>1. AmountsOf(k)' = AmountsOf(k)
    BY SameAmounts
  <1>2. /\ SoldUnder(k)' = SoldUnder(k)
        /\ \A i \in SoldUnder(k) :
              /\ inv'[i].amount = inv[i].amount /\ inv'[i].cost = inv[i].cost
              /\ inv'[i].rule <=> inv[i].rule
    BY DEF SameSale
  <1>3. CASE k \in BotKey => shown'[k] = shown[k]
    BY <1>1, <1>2, <1>3 DEF Charged, Agreed
  <1>4. CASE k \in BotKey /\ SoldUnder(k) = {} /\ debit[k] = 0
    <2>1. AmountsOf(k) = 0
      BY <1>4, NothingSold
    <2>2. k \notin QrKey
      BY <1>4, KeyAssumption
    <2> QED BY <1>1, <1>2, <1>4, <2>1, <2>2 DEF Charged, Agreed
  <1> QED BY <1>3, <1>4

\* What was spent and credited is a number.
LEMMA LedgerTyped ==
    ASSUME Typed, NEW u \in Customer
    PROVE  Spent(u) \in Nat /\ Credited(u) \in Nat
  <1>1. PICK D, C, f : /\ D = {k \in Key \ QrKey : Body[k].user = u} /\ C = CreditedTo(u)
                       /\ f = [k \in C |-> request[k].amount]
    OBVIOUS
  <1>2. D \subseteq Key /\ C \subseteq QrKey /\ IsFiniteSet(Key)
    BY <1>1, KeyAssumption DEF CreditedTo
  <1>3. IsFiniteSet(D) /\ IsFiniteSet(C)
    BY <1>2, FS_Subset DEF Key
  <1>4. \A k \in D : debit[k] \in Int
    BY <1>2 DEF Typed
  <1>5. \A k \in C : f[k] \in Int
    BY <1>1, <1>2 DEF Typed, QrType
  <1>6. SumOver(D, debit) \in Nat /\ SumOver(C, f) \in Nat
    BY <1>3, <1>4, <1>5, PairsFinite
  <1> QED BY <1>1, <1>6 DEF Spent, Credited

\* Nobody pays and nobody is credited.
LEMMA SpentKept ==
    ASSUME NEW u, \A k \in Key \ QrKey : debit'[k] = debit[k], debit \in [Key -> Nat],
           debit' \in [Key -> Nat]
    PROVE  Spent(u)' = Spent(u)
  <1>1. PICK D : D = {k \in Key \ QrKey : Body[k].user = u}
    OBVIOUS
  <1>2. \A k \in D : debit[k] \in Nat /\ debit'[k] = debit[k]
    BY <1>1
  <1>3. Pairs(D, debit') = Pairs(D, debit)
    BY <1>2, PairsEqual
  <1> QED BY <1>1, <1>3 DEF Spent, SumOver

LEMMA CreditedKept ==
    ASSUME NEW u,
           \A k \in QrKey : request'[k].status = "credited" <=> request[k].status = "credited",
           \A k \in QrKey : request[k].status = "credited" => request'[k].amount = request[k].amount
    PROVE  Credited(u)' = Credited(u)
  <1>1. CreditedTo(u)' = CreditedTo(u)
    BY DEF CreditedTo
  <1>2. [k \in CreditedTo(u)' |-> request'[k].amount] = [k \in CreditedTo(u) |-> request[k].amount]
    BY <1>1 DEF CreditedTo
  <1> QED BY <1>1, <1>2 DEF Credited

LEMMA BalancedKept ==
    ASSUME NEW u \in Customer, Balanced(u), wallet' = wallet, debit' = debit, 
           \A k \in QrKey : request'[k].status = "credited" <=> request[k].status = "credited",
           \A k \in QrKey : request[k].status = "credited" => request'[k].amount = request[k].amount
    PROVE  Balanced(u)'
  <1>1. Credited(u)' = Credited(u)
    BY CreditedKept
  <1>2. Spent(u)' = Spent(u)
    BY DEF Spent
  <1> QED BY <1>1, <1>2 DEF Balanced

\* What a key has been charged while its purchase is on its way.
LEMMA UnsoldYet ==
    ASSUME Typed, Keys, NEW h \in Handler, run[h].pc \in {"claimed", "buying"},
           NEW k \in Key, k = run[h].key, k \notin ApiKey
    PROVE  /\ SoldUnder(k) = {} /\ debit[k] = 0 /\ AmountsOf(k) = 0
           /\ k \in QrKey => request[k].status = "open"
  <1>1. KeyOk(k)
    BY DEF Keys
  <1>2. h \in Working(k)
    BY DEF Working
  <1>3. SoldUnder(k) = {}
    BY <1>1, <1>2 DEF KeyOk, Alone
  <1>4. debit[k] = 0
    BY <1>1, <1>3 DEF KeyOk
  <1>5. AmountsOf(k) = 0
    BY <1>3, NothingSold
  <1>6. k \in QrKey => request[k].status = "open"
    BY <1>1, <1>2 DEF KeyOk, Promise
  <1> QED BY <1>3, <1>4, <1>5, <1>6

\* The amounts of a sale: none dearer than was accepted, a seller's above the cost.
LEMMA SaleAmounts ==
    ASSUME Typed, NEW h \in Handler, NEW p, NEW plan, NEW orders, NEW paid, NEW route, NEW quote,
           NEW id, CanSell(h, p, plan, orders, paid, route, quote),
           Sale(h, plan, orders, paid, route, quote, id), NEW k, k = run[h].key
    PROVE  /\ \A i \in SoldUnder(k) : i \in SoldUnder(k)' /\ inv'[i] = inv[i]
           /\ \A i \in SoldUnder(k)' : i \in SoldUnder(k) \/
                 /\ k \in ApiKey => inv'[i].amount <= Body[k].max
                 /\ inv'[i].rule <=> IsSeller(quote.pricing)
                 /\ IsSeller(quote.pricing) => inv'[i].amount > inv'[i].cost
  <1>1. PICK goods, filed : goods = Goods(plan, paid) /\ filed = {id[g] : g \in goods}
    OBVIOUS
  <1>2. Adds(k, quote, goods, filed, id, orders, paid, route)
    BY <1>1, SaleFacts
  <1>3. k \in Key
    BY DEF CanSell
  <1>4. /\ SoldUnder(k)' = SoldUnder(k) \cup DOMAIN quote.local \cup filed
        /\ \A i \in SoldUnder(k) : inv'[i] = inv[i]
    BY <1>2, <1>3 DEF Adds
  <1>5. \A i \in DOMAIN quote.local :
          /\ inv'[i].amount = quote.local[i] /\ inv'[i].cost = inv[i].cost
          /\ inv'[i].rule <=> IsSeller(quote.pricing)
    BY <1>2 DEF Adds
  <1>6. \A g \in goods :
          /\ inv'[id[g]].amount = route[g[1]] /\ inv'[id[g]].cost = orders[paid[g[1]]].cost
          /\ inv'[id[g]].rule <=> IsSeller(quote.pricing)
    BY <1>2 DEF Adds
  <1>7. /\ QuoteTyped(quote) /\ PlanTyped(plan) /\ DOMAIN paid = DOMAIN plan /\ DOMAIN route = DOMAIN plan
        /\ \A r \in DOMAIN plan : route[r] \in Nat
        /\ ~TooDear(k, Amounts(quote.local) \cup Amounts(route))
        /\ IsSeller(quote.pricing) =>
            /\ \A i \in DOMAIN quote.local : quote.local[i] > inv[i].cost
            /\ \A r \in DOMAIN plan : route[r] > orders[paid[r]].cost
    BY DEF CanSell
  <1>8. k \in ApiKey => /\ \A i \in DOMAIN quote.local : quote.local[i] <= Body[k].max
                        /\ \A r \in DOMAIN plan : route[r] <= Body[k].max
    <2> SUFFICES ASSUME k \in ApiKey
                 PROVE  /\ \A i \in DOMAIN quote.local : quote.local[i] <= Body[k].max
                        /\ \A r \in DOMAIN plan : route[r] <= Body[k].max
      OBVIOUS
    <2>1. \A x \in Amounts(quote.local) \cup Amounts(route) : ~(x > Body[k].max)
      BY <1>7 DEF TooDear
    <2>2. Body[k].max \in Nat
      BY <1>3, KeyAssumption
    <2>3. \A i \in DOMAIN quote.local : quote.local[i] \in Nat /\ quote.local[i] \in Amounts(quote.local)
      BY <1>7 DEF QuoteTyped, Amounts
    <2>4. \A r \in DOMAIN plan : route[r] \in Nat /\ route[r] \in Amounts(route)
      BY <1>7 DEF Amounts
    <2> QED BY <2>1, <2>2, <2>3, <2>4
  <1>9. \A g \in goods : g[1] \in DOMAIN plan
    BY <1>1, <1>7, GoodsMember
  <1>10. ASSUME NEW i \in DOMAIN quote.local
         PROVE  /\ k \in ApiKey => inv'[i].amount <= Body[k].max
                /\ inv'[i].rule <=> IsSeller(quote.pricing)
                /\ IsSeller(quote.pricing) => inv'[i].amount > inv'[i].cost
    BY <1>5, <1>7, <1>8
  <1>11. ASSUME NEW i \in filed
         PROVE  /\ k \in ApiKey => inv'[i].amount <= Body[k].max
                /\ inv'[i].rule <=> IsSeller(quote.pricing)
                /\ IsSeller(quote.pricing) => inv'[i].amount > inv'[i].cost
    <2>1. PICK g \in goods : i = id[g]
      BY <1>1
    <2> QED BY <1>6, <1>7, <1>8, <1>9, <2>1
  <1> QED BY <1>4, <1>10, <1>11

\* What is booked of a payment by QR: all of it, up to the remainder of a division.
LEMMA SharesBooked ==
    ASSUME Typed, NEW h \in Handler, NEW p, NEW plan, NEW orders, NEW paid, NEW route, NEW quote,
           CanSell(h, p, plan, orders, paid, route, quote), NEW k, k = run[h].key, k \in QrKey,
           NEW total, total = TotalOf(quote.local, route, plan), total \in Nat
    PROVE  total <= quote.total /\ quote.total < total + Body[k].quantity
  <1>1. /\ k \in Key /\ QuoteTyped(quote) /\ DOMAIN route = DOMAIN plan
        /\ Cardinality(DOMAIN quote.local) + SumOver(DOMAIN plan, Quantities(plan)) = Body[k].quantity
        /\ quote.total = request[k].amount
        /\ \/ total = quote.total
           \/ /\ DOMAIN plan = {}
              /\ \A i \in DOMAIN quote.local :
                    quote.local[i] = request[k].amount \div Body[k].quantity
    BY DEF CanSell
  <1>2. Body[k].quantity \in Nat \ {0} /\ quote.total \in Nat
    BY <1>1, KeyAssumption DEF QuoteTyped
  <1>3. CASE total = quote.total
    BY <1>2, <1>3
  <1>4. CASE /\ DOMAIN plan = {}
             /\ \A i \in DOMAIN quote.local :
                   quote.local[i] = request[k].amount \div Body[k].quantity
    <2>1. PICK a, n, share, local, S :
             /\ a = quote.total /\ n = Body[k].quantity /\ share = a \div n
             /\ local = quote.local /\ S = DOMAIN quote.local
      OBVIOUS
    <2>2. a \in Nat /\ n \in Nat \ {0} /\ share \in Nat
      BY <1>2, <2>1, ShareNat
    <2>3. IsFiniteSet(S) /\ \A i \in S : local[i] = share
      BY <1>1, <1>4, <2>1 DEF QuoteTyped
    <2>4. SumOver(S, local) = Cardinality(S) * share
      BY <2>2, <2>3, SumConstant
    <2>5. Cardinality(S) = n
      <3>1. Cardinality(S) + SumOver({}, Quantities(plan)) = n
        BY <1>1, <1>4, <2>1
      <3>2. SumOver({}, Quantities(plan)) = 0
        BY SumEmpty
      <3>3. Cardinality(S) \in Nat
        BY <2>3, FS_CardinalityType
      <3> QED BY <3>1, <3>2, <3>3
    <2>6. total = n * share
      <3>1. SumOver(DOMAIN route, [r \in DOMAIN route |-> route[r] * plan[r].quantity]) = 0
        BY <1>1, <1>4, SumEmpty
      <3>2. total = SumOver(S, local) + 0
        BY <2>1, <3>1 DEF TotalOf
      <3>3. PICK x : x = n * share
        OBVIOUS
      <3>4. x \in Int
        BY <2>2, <3>3
      <3>5. SumOver(S, local) = x
        BY <2>4, <2>5, <3>3
      <3> QED BY <3>2, <3>3, <3>4, <3>5
    <2>7. n * share <= a /\ a < n * share + n
      BY <2>1, <2>2, Shares
    <2> QED BY <2>1, <2>6, <2>7
  <1> QED BY <1>1, <1>3, <1>4

\* What is booked is not more than what is taken, and less only where a seller who has
\* agreed on no total has got the goods cheaper, or by the remainder of a payment.
LEMMA SaleBooked ==
    ASSUME Typed, NEW h \in Handler, NEW p, NEW plan, NEW orders, NEW paid, NEW route, NEW quote,
           CanSell(h, p, plan, orders, paid, route, quote), NEW k, k = run[h].key,
           NEW total, total = TotalOf(quote.local, route, plan), total \in Nat
    PROVE  /\ total <= quote.total /\ quote.total \in Nat
           /\ k \notin QrKey /\ (Agreed(k) \/ ~IsSeller(quote.pricing)) => total = quote.total
           /\ k \in QrKey => quote.total < total + Body[k].quantity
           /\ k \in QrKey => quote.total = request[k].amount
           /\ Agreed(k) => quote.total = shown[k]
  <1>1. k \in QrKey => total <= quote.total /\ quote.total < total + Body[k].quantity
    BY SharesBooked
  <1>2. /\ k \notin QrKey => /\ total <= quote.total
                             /\ Agreed(k) \/ ~IsSeller(quote.pricing) => total = quote.total
        /\ k \in QrKey => quote.total = request[k].amount
        /\ ~TotalMoved(k, quote.total) /\ QuoteTyped(quote)
    BY DEF CanSell
  <1>3. quote.total \in Nat
    BY <1>2 DEF QuoteTyped
  <1>4. Agreed(k) => quote.total = shown[k]
    BY <1>2 DEF TotalMoved
  <1> QED BY <1>1, <1>2, <1>3, <1>4

\* The charge of a key after a sale under it.
LEMMA SaleCharged ==
    ASSUME Typed, Keys, NEW h \in Handler, run[h].pc \in {"claimed", "buying"},
           NEW p, NEW plan, NEW orders, NEW paid, NEW route, NEW quote,
           CanSell(h, p, plan, orders, paid, route, quote),
           Complete(h, p, plan, orders, paid, route, quote), shown' = shown,
           NEW k, k = run[h].key, Charged(k)
    PROVE  Charged(k)'
  <1>1. k \in Key
    BY DEF CanSell
  <1>2. PICK id : Sale(h, plan, orders, paid, route, quote, id)
    BY CompleteTyped
  <1>3. PICK total : total = TotalOf(quote.local, route, plan)
    OBVIOUS
  <1>4. /\ Cardinality(SoldUnder(k))' = Cardinality(SoldUnder(k)) + Body[k].quantity
        /\ AmountsOf(k)' = AmountsOf(k) + total
        /\ total \in Nat
    BY <1>2, <1>3, SaleCount
  <1>5. /\ \A i \in SoldUnder(k) : i \in SoldUnder(k)' /\ inv'[i] = inv[i]
        /\ \A i \in SoldUnder(k)' : i \in SoldUnder(k) \/
              /\ k \in ApiKey => inv'[i].amount <= Body[k].max
              /\ inv'[i].rule <=> IsSeller(quote.pricing)
              /\ IsSeller(quote.pricing) => inv'[i].amount > inv'[i].cost
    BY <1>2, SaleAmounts
  <1>6. /\ total <= quote.total /\ quote.total \in Nat
        /\ k \notin QrKey /\ (Agreed(k) \/ ~IsSeller(quote.pricing)) => total = quote.total
        /\ k \in QrKey => quote.total < total + Body[k].quantity
        /\ k \in QrKey => quote.total = request[k].amount
        /\ Agreed(k) => quote.total = shown[k]
    BY <1>3, <1>4, SaleBooked
  <1>7. debit'[k] = debit[k] + quote.total /\ debit[k] \in Nat
    <2>1. debit' = [debit EXCEPT ![run[h].key] = debit[run[h].key] + quote.total]
      BY CompleteTyped
    <2> QED BY <1>1, <2>1 DEF Typed
  <1>8. AmountsOf(k) \in Nat /\ Cardinality(SoldUnder(k)) \in Nat /\ Body[k].quantity \in Nat \ {0}
    BY <1>1, SoldFacts, KeyAssumption
  <1>9. k \notin ApiKey => /\ SoldUnder(k) = {} /\ debit[k] = 0 /\ AmountsOf(k) = 0
    BY <1>1, UnsoldYet
  <1>10. k \in QrKey => request'[k].amount = request[k].amount
    BY <1>1, CompleteRequest
  <1>11. PICK i \in SoldUnder(k)' : i \notin SoldUnder(k)
    <2>1. SoldUnder(k)' # SoldUnder(k)
      BY <1>4, <1>8
    <2> QED BY <1>5, <2>1
  <1>12. Agreed(k)' => debit'[k] \in {0, shown'[k]}
    <2>1. Agreed(k) => k \notin ApiKey
      BY KeyAssumption DEF Agreed
    <2>2. Agreed(k)' <=> Agreed(k)
      BY DEF Agreed
    <2> QED BY <1>6, <1>7, <1>9, <2>1, <2>2
  <1>13. k \in ApiKey => \A j \in SoldUnder(k)' : inv'[j].amount <= Body[k].max
    BY <1>5 DEF Charged
  <1>14. \A j \in SoldUnder(k)' : inv'[j].rule => inv'[j].amount > inv'[j].cost
    BY <1>5 DEF Charged
  <1>15. AmountsOf(k) <= debit[k]
    BY DEF Charged
  <1>16. AmountsOf(k)' <= debit'[k]
    BY <1>4, <1>6, <1>7, <1>8, <1>15
  <1>17. k \notin QrKey /\ (Agreed(k)' \/ \A j \in SoldUnder(k)' : ~inv'[j].rule) =>
           AmountsOf(k)' = debit'[k]
    <2>1. ASSUME k \notin QrKey, Agreed(k) PROVE AmountsOf(k)' = debit'[k]
      <3>1. k \notin ApiKey
        BY <2>1, KeyAssumption DEF Agreed
      <3> QED BY <1>4, <1>6, <1>7, <1>9, <2>1, <3>1
    <2>2. ASSUME k \notin QrKey, \A j \in SoldUnder(k)' : ~inv'[j].rule
          PROVE  AmountsOf(k)' = debit'[k]
      <3>1. ~IsSeller(quote.pricing)
        BY <1>5, <1>11, <2>2
      <3>2. \A j \in SoldUnder(k) : ~inv[j].rule
        BY <1>5, <2>2
      <3>3. AmountsOf(k) = debit[k]
        BY <2>2, <3>2 DEF Charged
      <3> QED BY <1>4, <1>6, <1>7, <1>8, <2>2, <3>1, <3>3
    <2>3. Agreed(k)' <=> Agreed(k)
      BY DEF Agreed
    <2> QED BY <2>1, <2>2, <2>3
  <1>18. k \in QrKey => /\ debit'[k] = request'[k].amount
                        /\ debit'[k] < AmountsOf(k)' + Body[k].quantity
    <2>1. k \in QrKey => k \notin ApiKey
      BY KeyAssumption
    <2> QED BY <1>4, <1>6, <1>7, <1>8, <1>9, <1>10, <2>1
  <1> QED BY <1>12, <1>13, <1>14, <1>16, <1>17, <1>18 DEF Charged

\* ... and of every other key.
LEMMA SaleChargedAll ==
    ASSUME Typed, Keys, NEW h \in Handler, run[h].pc \in {"claimed", "buying"},
           NEW p, NEW plan, NEW orders, NEW paid, NEW route, NEW quote,
           CanSell(h, p, plan, orders, paid, route, quote),
           Complete(h, p, plan, orders, paid, route, quote), shown' = shown,
           \A k \in Key : Charged(k)
    PROVE  \A k \in Key : Charged(k)'
  <1>1. PICK k : k = run[h].key
    OBVIOUS
  <1>2. k \in Key
    BY <1>1 DEF CanSell
  <1>3. Charged(k)
    BY <1>2
  <1>4. Charged(k)'
    BY <1>1, <1>3, SaleCharged
  <1>5. PICK id : Sale(h, plan, orders, paid, route, quote, id)
    BY CompleteTyped
  <1>6. PICK goods, filed : goods = Goods(plan, paid) /\ filed = {id[g] : g \in goods}
    OBVIOUS
  <1>7. Adds(k, quote, goods, filed, id, orders, paid, route)
    BY <1>1, <1>5, <1>6, SaleFacts
  <1>8. \A j \in QrKey : request'[j].amount = request[j].amount
    BY <1>1, <1>2, CompleteRequest
  <1>9. ASSUME NEW j \in Key, j # k PROVE Charged(j)'
    <2>1. SameSale(j)
      BY <1>7, <1>9 DEF Adds, SameSale
    <2>2. debit'[j] = debit[j]
      <3>1. debit' = [debit EXCEPT ![run[h].key] = debit[run[h].key] + quote.total]
        BY CompleteTyped
      <3> QED BY <1>1, <1>9, <3>1 DEF Typed
    <2>3. Charged(j)
      BY <1>9
    <2>4. j \in BotKey => shown'[j] = shown[j] \/ (SoldUnder(j) = {} /\ debit[j] = 0)
      OBVIOUS
    <2>5. j \in QrKey /\ SoldUnder(j) # {} => request'[j].amount = request[j].amount
      BY <1>8
    <2> QED BY <2>1, <2>2, <2>3, <2>4, <2>5, ChargedKept
  <1> QED BY <1>4, <1>9

\* A purchase is paid from the wallet, or by QR past it.
LEMMA SaleBalanced ==
    ASSUME Typed, Keys, NEW h \in Handler, run[h].pc \in {"claimed", "buying"},
           NEW p, NEW plan, NEW orders, NEW paid, NEW route, NEW quote,
           CanSell(h, p, plan, orders, paid, route, quote),
           Complete(h, p, plan, orders, paid, route, quote),
           NEW u \in Customer, Balanced(u)
    PROVE  Balanced(u)'
  <1>1. PICK k : k = run[h].key
    OBVIOUS
  <1>2. k \in Key /\ k \in Key
    BY <1>1 DEF CanSell
  <1>3. debit' = [debit EXCEPT ![k] = debit[k] + quote.total] /\ quote.total \in Nat
    BY <1>1, CompleteTyped
  <1>4. debit \in [Key -> Nat] /\ debit' \in [Key -> Nat]
    BY <1>3, CompleteTyped DEF Typed
  <1>5. /\ k \in QrKey => request'[k].status = "delivered"
        /\ \A j \in ApiKey \cup QrKey : j # k => request'[j] = request[j]
        /\ \A j \in QrKey : request'[j].amount = request[j].amount
    BY <1>1, <1>2, CompleteRequest
  <1>6. k \in QrKey => request[k].status = "open"
    <2>1. k \in QrKey => k \notin ApiKey
      BY KeyAssumption
    <2> QED BY <1>1, <1>2, <2>1, UnsoldYet
  <1>7. Credited(u)' = Credited(u)
    <2>1. \A j \in QrKey : request'[j].status = "credited" <=> request[j].status = "credited"
      BY <1>5, <1>6
    <2> QED BY <1>5, <2>1, CreditedKept
  <1>8. CASE k \in QrKey
    <2>1. wallet' = wallet
      BY <1>1, <1>8 DEF Complete
    <2>2. \A j \in Key \ QrKey : debit'[j] = debit[j]
      BY <1>3, <1>4, <1>8
    <2>3. Spent(u)' = Spent(u)
      BY <1>4, <2>2, SpentKept
    <2> QED BY <1>7, <2>1, <2>3 DEF Balanced
  <1>9. CASE k \notin QrKey /\ Body[k].user # u
    <2>1. wallet' = [wallet EXCEPT ![Body[k].user] = @ - quote.total]
      BY <1>1, <1>9 DEF Complete
    <2>2. wallet'[u] = wallet[u]
      BY <1>9, <2>1 DEF Typed
    <2>3. PICK D : D = {j \in Key \ QrKey : Body[j].user = u}
      OBVIOUS
    <2>4. \A j \in D : debit[j] \in Nat /\ debit'[j] = debit[j]
      BY <1>3, <1>4, <1>9, <2>3
    <2>5. Pairs(D, debit') = Pairs(D, debit)
      BY <2>4, PairsEqual
    <2>6. Spent(u)' = Spent(u)
      BY <2>3, <2>5 DEF Spent, SumOver
    <2> QED BY <1>7, <2>2, <2>6 DEF Balanced
  <1>10. CASE k \notin QrKey /\ Body[k].user = u
    <2>1. wallet' = [wallet EXCEPT ![Body[k].user] = @ - quote.total]
      BY <1>1, <1>10 DEF Complete
    <2>2. wallet'[u] = wallet[u] - quote.total /\ wallet[u] \in Nat
      BY <1>10, <2>1 DEF Typed
    <2>3. PICK D, f, g : D = {j \in Key \ QrKey : Body[j].user = u} /\ f = debit /\ g = debit'
      OBVIOUS
    <2>4. /\ k \in D /\ \A j \in D : f[j] \in Nat /\ g[j] \in Nat
          /\ \A j \in D : j # k => g[j] = f[j]
          /\ g[k] = f[k] + quote.total
      BY <1>2, <1>3, <1>4, <1>10, <2>3
    <2>5. IsFiniteSet(D)
      <3>1. IsFiniteSet(Key) /\ D \subseteq Key
        BY <2>3, KeyAssumption
      <3> QED BY <3>1, FS_Subset
    <2>6. IsFiniteSet(Pairs(D, f))
      <3>1. \A j \in D : f[j] \in Int
        BY <2>4
      <3> QED BY <2>5, <3>1, PairsFinite
    <2>7. SumOver(D, f) \in Nat /\ SumOver(D, g) = SumOver(D, f) - f[k] + g[k]
      <3>1. /\ k \in D
            /\ \A j \in D : f[j] \in Nat
            /\ \A j \in D : g[j] \in Nat
            /\ \A j \in D : j # k => g[j] = f[j]
        BY <2>4
      <3>2. SumOver(D, f) \in Nat
        BY ONLY <2>6, <3>1, PairsChange
      <3>3. SumOver(D, g) = SumOver(D, f) - f[k] + g[k]
        BY ONLY <2>6, <3>1, PairsChange
      <3> QED BY <3>2, <3>3
    <2>8. Spent(u) = SumOver(D, f) /\ Spent(u)' = SumOver(D, g)
      BY <2>3 DEF Spent
    <2>9. Spent(u)' = Spent(u) + quote.total
      BY <1>3, <2>4, <2>7, <2>8
    <2>10. Credited(u) \in Nat /\ Spent(u) \in Nat /\ Wallet0[u] \in Nat
      BY LedgerTyped, PriceAssumption
    <2> QED BY <1>3, <1>7, <2>2, <2>9, <2>10 DEF Balanced
  <1> QED BY <1>8, <1>9, <1>10

\* What was paid by QR and is not sold goes to the wallet.
LEMMA NotSoldBalanced ==
    ASSUME Typed, Keys, NEW h \in Handler, run[h].pc \in {"claimed", "buying"},
           NEW code, NotSold(h, code), NEW u \in Customer, Balanced(u)
    PROVE  Balanced(u)'
  <1>1. PICK k : k = run[h].key
    OBVIOUS
  <1>2. k \in Key
    BY <1>1, RunKey
  <1>3. /\ k \in QrKey => request'[k].status = "credited"
        /\ \A j \in ApiKey \cup QrKey : j # k => request'[j] = request[j]
        /\ k \in ApiKey => request'[k] = request[k]
        /\ \A j \in QrKey : request'[j].amount = request[j].amount
    BY <1>1, <1>2, NotSoldRequest
  <1>4. k \in QrKey => request[k].status = "open"
    <2>1. k \in QrKey => k \notin ApiKey
      BY KeyAssumption
    <2> QED BY <1>1, <1>2, <2>1, UnsoldYet
  <1>5. debit' = debit
    BY DEF NotSold
  <1>6. Spent(u)' = Spent(u)
    BY <1>5 DEF Spent
  <1>7. CASE k \notin QrKey
    <2>1. wallet' = wallet /\ request' = request
      BY <1>1, <1>7 DEF NotSold
    <2>2. Credited(u)' = Credited(u)
      BY <2>1 DEF Credited, CreditedTo
    <2> QED BY <1>6, <2>1, <2>2 DEF Balanced
  <1>8. CASE k \in QrKey /\ Body[k].user # u
    <2>1. wallet' = [wallet EXCEPT ![Body[k].user] = @ + request[k].amount]
      BY <1>1, <1>8 DEF NotSold
    <2>2. wallet'[u] = wallet[u]
      BY <1>8, <2>1 DEF Typed
    <2>3. CreditedTo(u)' = CreditedTo(u)
      BY <1>3, <1>8 DEF CreditedTo
    <2>4. [j \in CreditedTo(u)' |-> request'[j].amount] = [j \in CreditedTo(u) |-> request[j].amount]
      BY <1>3, <2>3 DEF CreditedTo
    <2>5. Credited(u)' = Credited(u)
      BY <2>3, <2>4 DEF Credited
    <2> QED BY <1>6, <2>2, <2>5 DEF Balanced
  <1>9. CASE k \in QrKey /\ Body[k].user = u
    <2>1. wallet' = [wallet EXCEPT ![Body[k].user] = @ + request[k].amount]
      BY <1>1, <1>9 DEF NotSold
    <2>2. wallet'[u] = wallet[u] + request[k].amount /\ wallet[u] \in Nat /\ request[k].amount \in Nat
      BY <1>9, <2>1 DEF Typed, QrType
    <2>3. PICK D, f, E, g : /\ D = CreditedTo(u) /\ f = [j \in D |-> request[j].amount]
                            /\ E = D \cup {k} /\ g = [j \in E |-> request'[j].amount]
      OBVIOUS
    <2>4. CreditedTo(u)' = E /\ k \notin D
      BY <1>3, <1>4, <1>9, <2>3 DEF CreditedTo
    <2>5. /\ g[k] = request[k].amount
          /\ \A j \in D : f[j] \in Nat /\ g[j] = f[j]
      BY <1>3, <1>9, <2>3, <2>4 DEF CreditedTo, Typed, QrType
    <2>6. IsFiniteSet(D)
      <3>1. IsFiniteSet(Key) /\ D \subseteq Key
        BY <2>3, KeyAssumption DEF CreditedTo, Key
      <3> QED BY <3>1, FS_Subset
    <2>7. IsFiniteSet(Pairs(D, f)) /\ SumOver(D, f) \in Nat
      <3>1. \A j \in D : f[j] \in Int
        BY <2>5
      <3> QED BY <2>6, <3>1, PairsFinite
    <2>8. SumOver(D \cup {k}, g) = SumOver(D, f) + g[k]
      <3>1. k \notin D
        BY <2>4
      <3>2. g[k] \in Nat
        BY <2>2, <2>5
      <3>3. \A j \in D : f[j] \in Nat /\ g[j] = f[j]
        BY <2>5
      <3>4. IsFiniteSet(Pairs(D, f))
        BY <2>7
      <3> QED BY ONLY <3>1, <3>2, <3>3, <3>4, SumAdd
    <2>9. Credited(u) = SumOver(D, f) /\ Credited(u)' = SumOver(E, g)
      BY <2>3, <2>4 DEF Credited
    <2>10. Credited(u)' = Credited(u) + request[k].amount
      BY <2>3, <2>5, <2>8, <2>9
    <2>11. Credited(u) \in Nat /\ Spent(u) \in Nat /\ Wallet0[u] \in Nat
      BY LedgerTyped, PriceAssumption
    <2> QED BY <1>6, <2>2, <2>10, <2>11 DEF Balanced
  <1> QED BY <1>7, <1>8, <1>9

\* A sale.
LEMMA CompleteMoney ==
    ASSUME Typed, Keys, Money, NEW h \in Handler, run[h].pc \in {"claimed", "buying"},
           NEW p, NEW plan, NEW orders, NEW paid, NEW route, NEW quote,
           CanSell(h, p, plan, orders, paid, route, quote),
           Complete(h, p, plan, orders, paid, route, quote), shown' = shown
    PROVE  Money'
  <1>1. \A k \in Key : Charged(k)'
    BY SaleChargedAll DEF Money
  <1>2. ASSUME NEW u \in Customer PROVE Balanced(u)'
    <2>1. Balanced(u)
      BY DEF Money
    <2> QED BY <2>1, SaleBalanced
  <1> QED BY <1>1, <1>2 DEF Money

\* A purchase that is not sold.
LEMMA StoppedMoney ==
    ASSUME Typed, Keys, Money, NEW h \in Handler, run[h].pc \in {"claimed", "buying"},
           NEW code, NotSold(h, code), SameSales, shown' = shown
    PROVE  Money'
  <1>1. PICK k : k = run[h].key
    OBVIOUS
  <1>2. k \in Key
    BY <1>1, RunKey
  <1>3. \A j \in QrKey : request'[j].amount = request[j].amount
    BY <1>1, <1>2, NotSoldRequest
  <1>4. debit' = debit
    BY DEF NotSold
  <1>5. ASSUME NEW j \in Key PROVE Charged(j)'
    <2>1. Charged(j) /\ SameSale(j)
      BY DEF Money, SameSales, SameSale
    <2>2. debit'[j] = debit[j] /\ shown'[j] = shown[j]
      BY <1>4
    <2> QED BY <1>3, <2>1, <2>2, ChargedKept
  <1>6. ASSUME NEW u \in Customer PROVE Balanced(u)'
    <2>1. Balanced(u)
      BY DEF Money
    <2> QED BY <2>1, NotSoldBalanced
  <1> QED BY <1>5, <1>6 DEF Money

\* Steps that neither sell nor pay.
LEMMA MoneyStays ==
    ASSUME Typed, Money, SameSales, wallet' = wallet, debit' = debit,
           \A k \in BotKey : shown'[k] = shown[k] \/ (SoldUnder(k) = {} /\ debit[k] = 0),
           \A k \in QrKey :
              \/ request'[k].status = request[k].status /\ request'[k].amount = request[k].amount
              \/ /\ SoldUnder(k) = {}
                 /\ request[k].status # "credited" /\ request'[k].status # "credited"
    PROVE  Money'
  <1>1. ASSUME NEW j \in Key PROVE Charged(j)'
    <2>1. Charged(j) /\ SameSale(j)
      BY DEF Money, SameSales, SameSale
    <2>2. debit'[j] = debit[j]
      OBVIOUS
    <2>3. j \in BotKey => shown'[j] = shown[j] \/ (SoldUnder(j) = {} /\ debit[j] = 0)
      OBVIOUS
    <2>4. j \in QrKey /\ SoldUnder(j) # {} => request'[j].amount = request[j].amount
      OBVIOUS
    <2> QED BY <2>1, <2>2, <2>3, <2>4, ChargedKept
  <1>2. ASSUME NEW u \in Customer PROVE Balanced(u)'
    <2>1. Balanced(u)
      BY DEF Money
    <2>2. \A k \in QrKey : request'[k].status = "credited" <=> request[k].status = "credited"
      OBVIOUS
    <2>3. \A k \in QrKey : request[k].status = "credited" => request'[k].amount = request[k].amount
      OBVIOUS
    <2> QED BY <2>1, <2>2, <2>3, BalancedKept
  <1> QED BY <1>1, <1>2 DEF Money

\* Steps that leave the money, and what is paid by QR.
LEMMA IdleMoney ==
    ASSUME Typed, Money, SameSales, UNCHANGED <<wallet, debit, shown>>,
           \A k \in QrKey : request'[k].status = request[k].status
                            /\ request'[k].amount = request[k].amount
    PROVE  Money'
  <1>1. \A k \in BotKey : shown'[k] = shown[k] \/ (SoldUnder(k) = {} /\ debit[k] = 0)
    OBVIOUS
  <1>2. \A k \in QrKey :
           \/ request'[k].status = request[k].status /\ request'[k].amount = request[k].amount
           \/ /\ SoldUnder(k) = {}
              /\ request[k].status # "credited" /\ request'[k].status # "credited"
    OBVIOUS
  <1> QED BY <1>1, <1>2, MoneyStays

LEMMA BeginsMoney ==
    ASSUME Typed, Keys, Money, NEW h \in Handler, Begins(h)
    PROVE  Money'
  <1>1. /\ run[h].pc = "claimed" /\ run[h].pc \in {"claimed", "buying"}
        /\ run[h].key \in Key /\ shown' = shown
    BY DEF Begins
  <1>2. CASE inv' = inv /\ \E code \in Reason : NotSold(h, code)
    <2>1. PICK code \in Reason : NotSold(h, code)
      BY <1>2
    <2>2. SameSales
      BY <1>2, SameTable
    <2> QED BY <1>1, <2>1, <2>2, StoppedMoney
  <1>3. ASSUME NEW src, NEW q, SaleSound(h, src, q), Proceed(h, src, q)
        PROVE  Money'
    <2>1. CASE src.need = 0
      <3>1. PICK p, plan, orders, paid, route : /\ p = src.p /\ plan = src.plan /\ orders = placed
                                                /\ paid = NothingPaid /\ route = q.route
        OBVIOUS
      <3>2. CanSell(h, p, plan, orders, paid, route, q)
        BY <1>1, <1>3, <2>1, <3>1, RowsCanSell
      <3>3. Complete(h, p, plan, orders, paid, route, q)
        BY <1>3, <2>1, <3>1 DEF Proceed
      <3> QED BY <1>1, <3>2, <3>3, CompleteMoney
    <2>2. CASE src.need # 0
      <3>1. UNCHANGED <<inv, wallet, debit, request>>
        BY <1>3, <2>2 DEF Proceed
      <3>2. SameSales
        BY <3>1, SameTable
      <3> QED BY <1>1, <3>1, <3>2, IdleMoney
    <2> QED BY <2>1, <2>2
  <1> QED BY <1>2, <1>3 DEF Begins

LEMMA GoesOnMoney ==
    ASSUME Typed, Deals, Keys, Money, NEW h \in Handler, GoesOn(h)
    PROVE  Money'
  <1>1. /\ run[h].pc = "buying" /\ run[h].pc \in {"claimed", "buying"}
        /\ run[h].key \in Key /\ shown' = shown
    BY DEF GoesOn
  <1>2. Deal(h)
    BY <1>1 DEF Deals, Buyers
  <1>3. PICK orders, paid : /\ Buys(h, orders, paid)
                            /\ \/ PartBought(h, orders, paid) \/ KeptAll(h, orders, paid)
                               \/ Undone(h, orders, paid) \/ SoldAll(h, orders, paid)
    BY DEF GoesOn
  <1>4. CASE PartBought(h, orders, paid) \/ Undone(h, orders, paid)
    <2>1. UNCHANGED <<inv, wallet, debit, request>>
      BY <1>4 DEF PartBought, Undone
    <2>2. SameSales
      BY <2>1, SameTable
    <2> QED BY <1>1, <2>1, <2>2, IdleMoney
  <1>5. CASE KeptAll(h, orders, paid)
    <2>1. PICK code \in Reason : NotSold(h, code)
      BY <1>5 DEF KeptAll
    <2>2. PICK plan : plan = run[h].plan
      OBVIOUS
    <2>3. PlanTyped(plan) /\ Bought(plan, orders, paid) /\ inv' = Kept(plan, orders, paid)
      BY <1>1, <1>3, <1>5, <2>2, RunKey DEF Buys, KeptAll
    <2>4. SameSales
      BY <2>3, KeptSales
    <2> QED BY <1>1, <2>1, <2>4, StoppedMoney
  <1>6. CASE SoldAll(h, orders, paid)
    <2>1. PICK p, plan, route, quote : /\ p = run[h].p /\ plan = run[h].plan /\ quote = run[h].quote
                                       /\ route = FinalPrices(h, orders, paid)
      OBVIOUS
    <2>2. CanSell(h, p, plan, orders, paid, route, quote)
      BY <1>1, <1>2, <1>3, <1>6, <2>1, PartsCanSell
    <2>3. Complete(h, p, plan, orders, paid, route, quote)
      BY <1>6, <2>1 DEF SoldAll
    <2> QED BY <1>1, <2>2, <2>3, CompleteMoney
  <1> QED BY <1>3, <1>4, <1>5, <1>6

LEMMA HandlerMoney ==
    ASSUME Typed, Money, NEW h \in Handler,
           \/ Raise(h) \/ Answer(h)
           \/ \E k \in ApiKey : CreateOrder(h, k)
           \/ \E k \in BotKey : PressBuy(h, k)
           \/ \E k \in QrKey : Pay(h, k)
    PROVE  Money'
  <1>1. UNCHANGED <<inv, wallet, debit, shown>>
    BY DEF Raise, Answer, CreateOrder, PressBuy, Pay
  <1>2. SameSales
    BY <1>1, SameTable
  <1>3. IsFcn(request) /\ DOMAIN request = ApiKey \cup QrKey /\ ApiKey \cap QrKey = {}
    BY KeyAssumption DEF Typed
  <1>4. CASE Raise(h) \/ (\E k \in BotKey : PressBuy(h, k)) \/ \E k \in QrKey : Pay(h, k)
    <2>1. request' = request
      BY <1>4 DEF Raise, PressBuy, Pay
    <2> QED BY <1>1, <1>2, <2>1, IdleMoney
  <1>5. ASSUME NEW k \in ApiKey, CreateOrder(h, k) PROVE Money'
    <2>1. \E v : request' = [request EXCEPT ![k] = v]
      BY <1>5 DEF CreateOrder
    <2>2. \A j \in QrKey : request'[j] = request[j]
      BY <1>3, <2>1 DEF IsFcn
    <2> QED BY <1>1, <1>2, <2>2, IdleMoney
  <1>6. CASE Answer(h)
    <2>1. /\ run[h].key \in Key
          /\ run[h].key \notin ApiKey => request' = request
          /\ run[h].key \in ApiKey =>
                \A j \in (ApiKey \cup QrKey) \ {run[h].key} : request'[j] = request[j]
      BY <1>6, AnswerTyped
    <2>2. \A j \in QrKey : request'[j] = request[j]
      BY <1>3, <2>1
    <2> QED BY <1>1, <1>2, <2>2, IdleMoney
  <1> QED BY <1>4, <1>5, <1>6

LEMMA KeyStepMoney ==
    ASSUME Typed, Deals, Keys, Money, KeyStep
    PROVE  Money'
  <1>1. ASSUME NEW k \in ApiKey, GrowStale(k) PROVE Money'
    <2>1. /\ UNCHANGED <<inv, wallet, debit, shown>>
          /\ request' = [request EXCEPT ![k].fresh = FALSE]
      BY <1>1 DEF GrowStale
    <2>2. IsFcn(request) /\ DOMAIN request = ApiKey \cup QrKey /\ k \notin QrKey
      BY KeyAssumption DEF Typed
    <2>3. \A j \in QrKey : request'[j] = request[j]
      BY <2>1, <2>2 DEF IsFcn
    <2>4. SameSales
      BY <2>1, SameTable
    <2> QED BY <2>1, <2>3, <2>4, IdleMoney
  <1>2. ASSUME NEW k \in BotKey, ShowTotal(k) PROVE Money'
    <2>1. UNCHANGED <<inv, wallet, debit, request>>
      BY <1>2 DEF ShowTotal
    <2>2. runs[k] = 0 /\ \A j \in BotKey \ {k} : shown'[j] = shown[j]
      BY <1>2, ShowTotalDeals
    <2>3. SoldUnder(k) = {} /\ debit[k] = 0
      BY <2>2 DEF Keys, KeyOk, Key
    <2>4. \A j \in BotKey : shown'[j] = shown[j] \/ (SoldUnder(j) = {} /\ debit[j] = 0)
      BY <2>2, <2>3
    <2>5. SameSales
      BY <2>1, SameTable
    <2>6. \A j \in QrKey :
             \/ request'[j].status = request[j].status /\ request'[j].amount = request[j].amount
             \/ /\ SoldUnder(j) = {}
                /\ request[j].status # "credited" /\ request'[j].status # "credited"
      BY <2>1
    <2> QED BY <2>1, <2>4, <2>5, <2>6, MoneyStays
  <1>3. ASSUME NEW k \in QrKey, CreateRequest(k) PROVE Money'
    <2>1. UNCHANGED <<inv, wallet, debit, shown>>
      BY <1>3 DEF CreateRequest
    <2>2. /\ request[k].status = None /\ request'[k].status = "open"
          /\ \A j \in ApiKey \cup QrKey : j # k => request'[j] = request[j]
      BY <1>3, CreateRequestKeys
    <2>3. SoldUnder(k) = {}
      BY <2>2 DEF Keys, KeyOk, Promise, Key, None
    <2>4. \A j \in QrKey :
             \/ request'[j].status = request[j].status /\ request'[j].amount = request[j].amount
             \/ /\ SoldUnder(j) = {}
                /\ request[j].status # "credited" /\ request'[j].status # "credited"
      BY <2>2, <2>3 DEF None
    <2>5. SameSales
      BY <2>1, SameTable
    <2>6. \A j \in BotKey : shown'[j] = shown[j] \/ (SoldUnder(j) = {} /\ debit[j] = 0)
      BY <2>1
    <2> QED BY <2>1, <2>4, <2>5, <2>6, MoneyStays
  <1>4. ASSUME DeleteDiscount PROVE Money'
    <2>1. /\ Quiet
          /\ \A k \in QrKey : request'[k].status = request[k].status
                              /\ request'[k].amount = request[k].amount
      BY <1>4, DeleteDiscountQuiet
    <2>2. UNCHANGED <<inv, wallet, debit, shown>>
      BY <2>1 DEF Quiet
    <2>3. SameSales
      BY <2>2, SameTable
    <2> QED BY <2>1, <2>2, <2>3, IdleMoney
  <1> QED BY <1>1, <1>2, <1>3, <1>4 DEF KeyStep

\* The money is kept by every step.
LEMMA MoneyNext ==
    ASSUME Core, Money, [Next]_vars
    PROVE  Money'
  <1>1. Typed /\ Deals /\ Keys
    BY DEF Core
  <1>2. CASE BuyStep
    <2>1. PICK h \in Handler :
             \/ Begins(h) \/ GoesOn(h) \/ Raise(h) \/ Answer(h)
             \/ \E k \in ApiKey : CreateOrder(h, k)
             \/ \E k \in BotKey : PressBuy(h, k)
             \/ \E k \in QrKey : Pay(h, k)
      BY <1>2 DEF BuyStep
    <2>2. CASE \/ Raise(h) \/ Answer(h)
               \/ \E k \in ApiKey : CreateOrder(h, k)
               \/ \E k \in BotKey : PressBuy(h, k)
               \/ \E k \in QrKey : Pay(h, k)
      BY <1>1, <2>2, HandlerMoney
    <2> QED BY <1>1, <2>1, <2>2, BeginsMoney, GoesOnMoney
  <1>3. CASE KeyStep
    BY <1>1, <1>3, KeyStepMoney
  <1>4. CASE TableStep
    <2>1. SameSales
      BY <1>1, <1>4, RecoverSales, ImportsSales, FewerSales DEF TableStep
    <2>2. UNCHANGED <<wallet, debit, shown, request>>
      BY <1>4 DEF TableStep, RecoverOrder, Imports, Fewer
    <2> QED BY <1>1, <2>1, <2>2, IdleMoney
  <1>5. CASE Crash \/ OtherStep \/ UNCHANGED vars
    <2>1. UNCHANGED <<inv, wallet, debit, shown, request>>
      BY <1>5 DEF Crash, OtherStep, Quiet, vars
    <2>2. SameSales
      BY <2>1, SameTable
    <2> QED BY <1>1, <2>1, <2>2, IdleMoney
  <1> QED BY <1>1, <1>2, <1>3, <1>4, <1>5, StepKinds

LEMMA InitMoney == Init => Money
  <1> SUFFICES ASSUME Init PROVE Money
    OBVIOUS
  <1>1. /\ inv = [i \in {} |-> Row(None, 0, None)] /\ debit = [k \in Key |-> 0]
        /\ shown = [k \in BotKey |-> 0] /\ wallet = Wallet0
        /\ request = [k \in ApiKey \cup QrKey |->
                        IF k \in ApiKey THEN [status |-> None, error |-> None, fresh |-> TRUE]
                        ELSE [status |-> None, amount |-> 0, pricing |-> PublicPricing,
                              locked |-> FALSE]]
    BY DEF Init
  <1>2. ASSUME NEW k \in Key PROVE Charged(k)
    <2>1. SoldUnder(k) = {} /\ debit[k] = 0
      BY <1>1 DEF SoldUnder, Rows
    <2>2. AmountsOf(k) = 0
      BY <2>1, NothingSold
    <2> QED BY <2>1, <2>2 DEF Charged, Agreed
  <1>3. ASSUME NEW u \in Customer PROVE Balanced(u)
    <2>1. CreditedTo(u) = {}
      <3>1. \A k \in QrKey : request[k].status = None
        BY <1>1, KeyAssumption
      <3> QED BY <3>1 DEF CreditedTo, None
    <2>2. Credited(u) = 0
      BY <2>1, SumEmpty DEF Credited
    <2>3. PICK D, n : D = {k \in Key \ QrKey : Body[k].user = u} /\ n = 0
      OBVIOUS
    <2>4. IsFiniteSet(D)
      <3>1. IsFiniteSet(Key) /\ D \subseteq Key
        BY <2>3, KeyAssumption
      <3> QED BY <3>1, FS_Subset
    <2>5. n \in Nat /\ \A k \in D : debit[k] = n
      BY <1>1, <2>3
    <2>6. SumOver(D, debit) = Cardinality(D) * n
      BY <2>4, <2>5, SumConstant
    <2>7. Cardinality(D) \in Nat
      BY <2>4, FS_CardinalityType
    <2>8. Spent(u) = 0
      BY <2>3, <2>6, <2>7 DEF Spent
    <2> QED BY <1>1, <2>2, <2>8, PriceAssumption DEF Balanced
  <1> QED BY <1>2, <1>3 DEF Money

\* A seller pays the total on the button or nothing, no account costs a partner more than
\* was accepted, none is sold at a seller's price without a profit, and what is taken is
\* the sum of the orders: for any prices, discounts, grants and answers of the suppliers.
THEOREM Charges == Spec => []ChargedAsAgreed
  <1>1. Core /\ Money /\ [Next]_vars => Money'
    BY MoneyNext
  <1>2. Core /\ Money => ChargedAsAgreed
    <2> SUFFICES ASSUME Core, Money PROVE ChargedAsAgreed
      OBVIOUS
    <2>1. ASSUME NEW k \in Key
          PROVE  /\ Agreed(k) => debit[k] \in {0, shown[k]}
                 /\ k \in ApiKey => \A i \in SoldUnder(k) : inv[i].amount <= Body[k].max
                 /\ \A i \in SoldUnder(k) : inv[i].rule => inv[i].amount > inv[i].cost
                 /\ IF k \in QrKey \/ (~Agreed(k) /\ \E i \in SoldUnder(k) : inv[i].rule)
                    THEN debit[k] >= AmountsOf(k)
                    ELSE debit[k] = AmountsOf(k)
      <3>1. Charged(k) /\ Typed
        BY DEF Money, Core
      <3>2. AmountsOf(k) \in Nat /\ debit[k] \in Nat
        BY <3>1, SoldFacts DEF Typed
      <3>3. AmountsOf(k) <= debit[k]
        BY <3>1 DEF Charged
      <3>4. k \notin QrKey /\ (Agreed(k) \/ \A i \in SoldUnder(k) : ~inv[i].rule) =>
              AmountsOf(k) = debit[k]
        BY <3>1 DEF Charged
      <3>5. /\ Agreed(k) => debit[k] \in {0, shown[k]}
            /\ k \in ApiKey => \A i \in SoldUnder(k) : inv[i].amount <= Body[k].max
            /\ \A i \in SoldUnder(k) : inv[i].rule => inv[i].amount > inv[i].cost
        BY <3>1 DEF Charged
      <3> QED BY <3>2, <3>3, <3>4, <3>5
    <2> QED BY <2>1 DEF ChargedAsAgreed
  <1> QED BY <1>1, <1>2, InitMoney, CoreInvariant, PTL DEF Spec

\* What is paid by QR ends as the whole order or as money in the wallet, never as both,
\* and every wallet is what was in it, what was credited and what was spent: however often
\* a payment is reported, and wherever a supplier fails or the process stops.
THEOREM QrPayments == Spec => []PaidByQr
  <1>1. Core /\ Money /\ [Next]_vars => Money'
    BY MoneyNext
  <1>2. Core /\ Money => PaidByQr
    <2> SUFFICES ASSUME Core, Money PROVE PaidByQr
      OBVIOUS
    <2>1. Typed /\ Keys
      BY DEF Core
    <2>2. ASSUME NEW k \in QrKey
          PROVE  /\ SoldUnder(k) # {} <=> request[k].status = "delivered"
                 /\ SoldUnder(k) # {} =>
                      /\ Cardinality(SoldUnder(k)) = Body[k].quantity
                      /\ debit[k] = request[k].amount
                      /\ AmountsOf(k) \in (debit[k] - Body[k].quantity + 1) .. debit[k]
      <3>1. k \in Key /\ k \notin ApiKey
        BY KeyAssumption DEF Key
      <3>2. KeyOk(k) /\ Charged(k)
        BY <2>1, <3>1 DEF Keys, Money
      <3>3. SoldUnder(k) # {} <=> request[k].status = "delivered"
        BY <3>2 DEF KeyOk, Promise
      <3>4. SoldUnder(k) # {} => Cardinality(SoldUnder(k)) = Body[k].quantity
        <4>1. k \notin raced
          BY <3>1, <3>2 DEF KeyOk
        <4>2. Cardinality(SoldUnder(k)) \in {0, Body[k].quantity}
          BY <3>2, <4>1 DEF KeyOk, Alone
        <4>3. IsFiniteSet(SoldUnder(k))
          BY <2>1, <3>1, SoldFacts
        <4> QED BY <4>2, <4>3, FS_EmptySet
      <3>5. SoldUnder(k) # {} => /\ debit[k] = request[k].amount
                                 /\ debit[k] < AmountsOf(k) + Body[k].quantity
        BY <3>2 DEF Charged
      <3>6. AmountsOf(k) \in Nat /\ debit[k] \in Nat /\ Body[k].quantity \in Nat
        BY <2>1, <3>1, SoldFacts, KeyAssumption DEF Typed
      <3>7. AmountsOf(k) <= debit[k]
        BY <3>2 DEF Charged
      <3> QED BY <3>3, <3>4, <3>5, <3>6, <3>7
    <2>3. \A u \in Customer : wallet[u] = Wallet0[u] + Credited(u) - Spent(u)
      BY DEF Money, Balanced
    <2> QED BY <2>2, <2>3 DEF PaidByQr
  <1> QED BY <1>1, <1>2, InitMoney, CoreInvariant, PTL DEF Spec

-----------------------------------------------------------------------------
(* The cheapest plan *)

LEMMA SumOne == ASSUME NEW f, NEW a, f[a] \in Nat PROVE SumOver({a}, f) = f[a]
  <1>1. PICK D : D = {}
    OBVIOUS
  <1>2. a \notin D /\ \A e \in D : f[e] \in Nat /\ f[e] = f[e]
    BY <1>1
  <1>3. IsFiniteSet(D) /\ \A e \in D : f[e] \in Int
    BY <1>1, FS_EmptySet
  <1>4. IsFiniteSet(Pairs(D, f))
    BY <1>3, PairsFinite
  <1>5. SumOver(D \cup {a}, f) = SumOver(D, f) + f[a]
    BY <1>2, <1>4, SumAdd
  <1>6. SumOver(D, f) = 0 /\ D \cup {a} = {a}
    BY <1>1, SumEmpty
  <1> QED BY <1>5, <1>6

LEMMA SumTwo ==
    ASSUME NEW f, NEW a, NEW b, a # b, f[a] \in Nat, f[b] \in Nat
    PROVE  SumOver({a, b}, f) = f[a] + f[b]
  <1>1. PICK D : D = {a}
    OBVIOUS
  <1>2. b \notin D /\ \A e \in D : f[e] \in Nat /\ f[e] = f[e]
    BY <1>1
  <1>3. IsFiniteSet(D) /\ \A e \in D : f[e] \in Int
    <2>1. IsFiniteSet({a})
      BY FS_Singleton
    <2> QED BY <1>1, <2>1
  <1>4. IsFiniteSet(Pairs(D, f))
    BY <1>3, PairsFinite
  <1>5. SumOver(D \cup {b}, f) = SumOver(D, f) + f[b]
    BY <1>2, <1>4, SumAdd
  <1>6. SumOver(D, f) = f[a] /\ D \cup {b} = {a, b}
    BY <1>1, SumOne
  <1> QED BY <1>5, <1>6

\* Taking more from the cheaper of two routes costs no more.
LEMMA CheaperFirst ==
    ASSUME NEW x \in Nat, NEW u \in Nat, NEW y \in Nat, NEW v \in Nat, x + u = y + v, y <= x,
           NEW c \in Nat, NEW d \in Nat, c <= d
    PROVE  x * c + u * d <= y * c + v * d
  <1>1. PICK z \in Nat : x = y + z /\ v = u + z
    <2>1. x - y \in Nat /\ x = y + (x - y) /\ v = u + (x - y)
      OBVIOUS
    <2> QED BY <2>1
  <1>2. PICK e \in Nat : d = c + e
    <2>1. d - c \in Nat /\ d = c + (d - c)
      OBVIOUS
    <2> QED BY <2>1
  <1>3. x * c = y * c + z * c /\ v * d = u * d + z * d /\ z * d = z * c + z * e
    BY <1>1, <1>2
  <1>4. /\ z * e \in Nat /\ z * c \in Nat /\ z * d \in Nat /\ y * c \in Nat /\ u * d \in Nat
        /\ x * c \in Nat /\ v * d \in Nat
    OBVIOUS
  <1> QED BY <1>3, <1>4

\* What each route gives, the cheapest first.
Greedy(up, n) == [p \in up |-> Part(RoutesOf(up), n, p)]

LEMMA RoutesFacts ==
    ASSUME catalog \in CatalogType, NEW up \in SUBSET Provider, NEW p \in up
    PROVE  LET routes == RoutesOf(up)
           IN /\ DOMAIN routes = up
              /\ routes[p].provider = p /\ routes[p].cost = catalog[p].cost
              /\ routes[p].stock = catalog[p].stock
              /\ routes[p].cost \in Nat /\ routes[p].stock \in Nat
  BY PriceAssumption DEF RoutesOf, CatalogType

\* The part of a route behind which there is none, and of one behind another.
LEMMA FirstPart ==
    ASSUME NEW routes, NEW n \in Nat, NEW p,
           \A q \in DOMAIN routes : ~RouteBefore(routes[q], routes[p])
    PROVE  Part(routes, n, p) = Least(routes[p].stock, n)
  <1>1. PICK ahead : ahead = {q \in DOMAIN routes : RouteBefore(routes[q], routes[p])}
    OBVIOUS
  <1>2. ahead = {}
    BY <1>1
  <1>3. SumOver(ahead, [q \in ahead |-> routes[q].stock]) = 0
    BY <1>2, SumEmpty
  <1>4. Most(0, n - 0) = n
    BY DEF Most
  <1> QED BY <1>1, <1>3, <1>4 DEF Part

LEMMA SecondPart ==
    ASSUME NEW routes, NEW n \in Nat, NEW p, NEW a \in DOMAIN routes, routes[a].stock \in Nat,
           \A q \in DOMAIN routes : RouteBefore(routes[q], routes[p]) <=> q = a
    PROVE  Part(routes, n, p) = Least(routes[p].stock, Most(0, n - routes[a].stock))
  <1>1. PICK ahead, stock : /\ ahead = {q \in DOMAIN routes : RouteBefore(routes[q], routes[p])}
                            /\ stock = [q \in ahead |-> routes[q].stock]
    OBVIOUS
  <1>2. ahead = {a}
    BY <1>1
  <1>3. stock[a] = routes[a].stock
    BY <1>1, <1>2
  <1>4. SumOver(ahead, stock) = routes[a].stock
    BY <1>2, <1>3, SumOne
  <1> QED BY <1>1, <1>4 DEF Part

\* Two providers, the cheaper one first.
LEMMA TwoRoutes ==
    ASSUME catalog \in CatalogType, NEW up \in SUBSET Provider, NEW routes, routes = RoutesOf(up),
           up = Provider
    PROVE  \E a, b \in up :
              /\ a # b /\ up = {a, b}
              /\ routes[a].cost <= routes[b].cost
              /\ \A q \in up : ~RouteBefore(routes[q], routes[a])
              /\ \A q \in up : RouteBefore(routes[q], routes[b]) <=> q = a
  <1>1. PICK s, l : s = "sumistore" /\ l = "lehai"
    OBVIOUS
  <1>2. s \in up /\ l \in up /\ s # l /\ up = {s, l}
    BY <1>1 DEF Provider
  <1>3. /\ routes[s].provider = s /\ routes[s].cost \in Nat
        /\ routes[l].provider = l /\ routes[l].cost \in Nat
    BY <1>2, RoutesFacts
  <1>4. CASE routes[s].cost <= routes[l].cost
    <2>1. /\ \A q \in up : ~RouteBefore(routes[q], routes[s])
          /\ \A q \in up : RouteBefore(routes[q], routes[l]) <=> q = s
      BY <1>1, <1>2, <1>3, <1>4 DEF RouteBefore
    <2> QED BY <1>2, <1>4, <2>1
  <1>5. CASE ~(routes[s].cost <= routes[l].cost)
    <2>1. /\ \A q \in up : ~RouteBefore(routes[q], routes[l])
          /\ \A q \in up : RouteBefore(routes[q], routes[s]) <=> q = l
          /\ routes[l].cost <= routes[s].cost
      BY <1>1, <1>2, <1>3, <1>5 DEF RouteBefore
    <2> QED BY <1>2, <2>1
  <1> QED BY <1>4, <1>5

\* A way to take n accounts from the routes.
IsWay(f, up, n) ==
    /\ f \in [up -> 0 .. n]
    /\ \A r \in up : f[r] <= catalog[r].stock
    /\ SumOver(up, f) = n

\* The greedy parts cover the quantity whenever some way does, and cost no more.
LEMMA GreedyCheapest ==
    ASSUME catalog \in CatalogType, NEW up \in SUBSET Provider, NEW n \in Nat \ {0},
           NEW f, IsWay(f, up, n), NEW routes, routes = RoutesOf(up),
           NEW part, part = Greedy(up, n)
    PROVE  SumOver(up, part) = n /\ CostOf(routes, part) <= CostOf(routes, f)
  <1>1. /\ \A p \in up : /\ routes[p].provider = p
                         /\ routes[p].cost \in Nat /\ routes[p].stock \in Nat
                         /\ routes[p].stock = catalog[p].stock
        /\ DOMAIN routes = up
    <2>1. ASSUME NEW p \in up
          PROVE  /\ routes[p].provider = p
                 /\ routes[p].cost \in Nat /\ routes[p].stock \in Nat
                 /\ routes[p].stock = catalog[p].stock
      BY RoutesFacts
    <2>2. DOMAIN routes = up
      BY DEF RoutesOf
    <2> QED BY <2>1, <2>2
  <1>2. /\ DOMAIN f = up /\ \A p \in up : f[p] \in Nat /\ f[p] <= n /\ f[p] <= routes[p].stock
        /\ SumOver(up, f) = n
    BY <1>1 DEF IsWay
  <1>3. DOMAIN part = up /\ \A p \in up : part[p] = Part(routes, n, p)
    BY DEF Greedy
  <1>4. PICK x, y : /\ x = [r \in up |-> part[r] * routes[r].cost]
                    /\ y = [r \in up |-> f[r] * routes[r].cost]
    OBVIOUS
  <1>5. CostOf(routes, part) = SumOver(up, x) /\ CostOf(routes, f) = SumOver(up, y)
    BY <1>2, <1>3, <1>4 DEF CostOf
  <1>6. up # {}
    <2>1. up = {} => SumOver(up, f) = 0
      BY SumEmpty
    <2> QED BY <1>2, <2>1
  <1>7. CASE \E a \in up : up = {a}
    <2>1. PICK a \in up : up = {a}
      BY <1>7
    <2>2. f[a] = n
      BY <1>2, <2>1, SumOne
    <2>3. ~RouteBefore(routes[a], routes[a])
      BY <1>1 DEF RouteBefore
    <2>4. part[a] = Least(routes[a].stock, n)
      BY <1>1, <1>3, <2>1, <2>3, FirstPart
    <2>5. part[a] = n
      BY <1>1, <1>2, <2>2, <2>4 DEF Least
    <2>6. SumOver(up, part) = n
      BY <2>1, <2>5, SumOne
    <2>7. x = y
      BY <1>4, <2>1, <2>2, <2>5
    <2>8. SumOver(up, y) \in Nat
      <3>1. y[a] \in Nat
        BY <1>1, <1>2, <1>4
      <3> QED BY <2>1, <3>1, SumOne
    <2> QED BY <1>5, <2>6, <2>7, <2>8
  <1>8. CASE up = Provider
    <2>1. PICK a, b \in up :
              /\ a # b /\ up = {a, b}
              /\ routes[a].cost <= routes[b].cost
              /\ \A q \in up : ~RouteBefore(routes[q], routes[a])
              /\ \A q \in up : RouteBefore(routes[q], routes[b]) <=> q = a
      BY <1>8, TwoRoutes
    <2>2. part[a] = Least(routes[a].stock, n)
      <3>1. \A q \in DOMAIN routes : ~RouteBefore(routes[q], routes[a])
        BY <1>1, <2>1
      <3> QED BY <1>3, <3>1, FirstPart
    <2>3. part[b] = Least(routes[b].stock, Most(0, n - routes[a].stock))
      <3>1. a \in DOMAIN routes /\ routes[a].stock \in Nat
        BY <1>1
      <3>2. \A q \in DOMAIN routes : RouteBefore(routes[q], routes[b]) <=> q = a
        BY <1>1, <2>1
      <3> QED BY <1>3, <3>1, <3>2, SecondPart
    <2>4. /\ f[a] \in Nat /\ f[b] \in Nat /\ routes[a].stock \in Nat /\ routes[b].stock \in Nat
          /\ f[a] <= routes[a].stock /\ f[b] <= routes[b].stock /\ f[a] <= n
          /\ routes[a].cost \in Nat /\ routes[b].cost \in Nat
      BY <1>1, <1>2
    <2>5. f[a] + f[b] = n
      BY <1>2, <2>1, <2>4, SumTwo
    <2>6. part[a] \in Nat /\ part[b] \in Nat /\ part[a] + part[b] = n /\ f[a] <= part[a]
      BY <2>2, <2>3, <2>4, <2>5 DEF Least, Most
    <2>7. SumOver(up, part) = n
      BY <2>1, <2>6, SumTwo
    <2>8. /\ x[a] = part[a] * routes[a].cost /\ x[b] = part[b] * routes[b].cost
          /\ y[a] = f[a] * routes[a].cost /\ y[b] = f[b] * routes[b].cost
      BY <1>4
    <2>9. x[a] + x[b] <= y[a] + y[b]
      <3>1. PICK c, d, xa, xb, ya, yb : /\ c = routes[a].cost /\ d = routes[b].cost
                                        /\ xa = part[a] /\ xb = part[b] /\ ya = f[a] /\ yb = f[b]
        OBVIOUS
      <3>2. /\ xa \in Nat /\ xb \in Nat /\ ya \in Nat /\ yb \in Nat /\ c \in Nat /\ d \in Nat
            /\ xa + xb = ya + yb /\ ya <= xa /\ c <= d
        BY <2>1, <2>4, <2>5, <2>6, <3>1
      <3>3. xa * c + xb * d <= ya * c + yb * d
        BY ONLY <3>2, CheaperFirst
      <3> QED BY <2>8, <3>1, <3>3
    <2>10. x[a] \in Nat /\ x[b] \in Nat /\ y[a] \in Nat /\ y[b] \in Nat
      BY <2>4, <2>6, <2>8
    <2>11. SumOver(up, x) = x[a] + x[b] /\ SumOver(up, y) = y[a] + y[b]
      BY <2>1, <2>10, SumTwo
    <2> QED BY <1>5, <2>7, <2>9, <2>11
  <1>9. up = Provider \/ \E a \in up : up = {a}
    BY <1>6 DEF Provider
  <1> QED BY <1>7, <1>8, <1>9

\* The greedy parts are numbers, not more than the routes have or than is needed.
LEMMA GreedyTyped ==
    ASSUME catalog \in CatalogType, NEW up \in SUBSET Provider, NEW n \in Nat \ {0},
           NEW part, part = Greedy(up, n)
    PROVE  /\ part \in [up -> 0 .. n]
           /\ \A r \in up : part[r] <= catalog[r].stock
  <1>1. DOMAIN part = up /\ part = [r \in up |-> part[r]]
    BY DEF Greedy
  <1>2. ASSUME NEW r \in up PROVE part[r] \in 0 .. n /\ part[r] <= catalog[r].stock
    <2>1. PICK routes, ahead, stock, s :
             /\ routes = RoutesOf(up)
             /\ ahead = {q \in DOMAIN routes : RouteBefore(routes[q], routes[r])}
             /\ stock = [q \in ahead |-> routes[q].stock]
             /\ s = SumOver(ahead, stock)
      OBVIOUS
    <2>2. ahead \in SUBSET Provider /\ \A q \in ahead : q \in up
      BY <2>1 DEF RoutesOf
    <2>3. \A q \in ahead : stock[q] \in Int
      <3> SUFFICES ASSUME NEW q \in ahead PROVE stock[q] \in Int
        OBVIOUS
      <3>1. q \in up
        BY <2>2
      <3>2. routes[q].stock \in Nat
        BY <2>1, <3>1, RoutesFacts
      <3> QED BY <2>1, <3>2
    <2>4. IsFiniteSet(ahead)
      BY <2>2, ProviderFinite
    <2>5. s \in Nat
      BY <2>1, <2>3, <2>4, PairsFinite
    <2>6. part[r] = Least(routes[r].stock, Most(0, n - s))
      BY <2>1 DEF Greedy, Part
    <2>7. routes[r].stock \in Nat /\ routes[r].stock = catalog[r].stock
      BY <2>1, RoutesFacts
    <2> QED BY <2>5, <2>6, <2>7 DEF Least, Most
  <1> QED BY <1>1, <1>2

\* What a way costs is a number.
LEMMA WayCost ==
    ASSUME catalog \in CatalogType, NEW up \in SUBSET Provider, NEW n \in Nat \ {0},
           NEW f \in [up -> 0 .. n], NEW routes, routes = RoutesOf(up)
    PROVE  CostOf(routes, f) \in Nat
  <1>1. PICK g : g = [r \in up |-> f[r] * routes[r].cost]
    OBVIOUS
  <1>2. \A r \in up : g[r] \in Int
    <2> SUFFICES ASSUME NEW r \in up PROVE g[r] \in Int
      OBVIOUS
    <2>1. routes[r].cost \in Nat
      BY RoutesFacts
    <2>2. f[r] \in Nat
      OBVIOUS
    <2> QED BY <1>1, <2>1, <2>2
  <1>3. IsFiniteSet(up)
    BY ProviderFinite
  <1>4. SumOver(up, g) \in Nat
    BY <1>2, <1>3, PairsFinite
  <1> QED BY <1>1, <1>4 DEF CostOf

\* A plan is the greedy way without the routes that give nothing; without a plan the
\* greedy parts do not cover the quantity.
LEMMA PlanIsGreedy ==
    ASSUME catalog \in CatalogType, NEW up \in SUBSET Provider, NEW n \in Nat \ {0},
           NEW routes, routes = RoutesOf(up), NEW part, part = Greedy(up, n),
           NEW plan, plan = PlanRoutes(routes, n)
    PROVE  /\ DOMAIN plan = {} <=> SumOver(up, part) # n
           /\ DOMAIN plan # {} =>
                SumOver(DOMAIN plan, [r \in DOMAIN plan |-> plan[r].cost * plan[r].quantity])
                  = CostOf(routes, part)
  <1>1. /\ DOMAIN routes = up
        /\ part = [p \in DOMAIN routes |-> Part(routes, n, p)]
    BY DEF RoutesOf, Greedy
  <1>2. PICK parts : parts = IF n > 0 /\ SumOver(DOMAIN routes, part) = n
                             THEN {p \in DOMAIN routes : part[p] > 0} ELSE {}
    OBVIOUS
  <1>3. plan = [p \in parts |-> [provider |-> p, cost |-> routes[p].cost, quantity |-> part[p]]]
    BY <1>1, <1>2 DEF PlanRoutes
  <1>4. /\ part \in [up -> 0 .. n] /\ DOMAIN part = up
        /\ \A p \in up : part[p] \in Nat
    BY GreedyTyped
  <1>5. SumOver(up, part) # n => DOMAIN plan = {}
    BY <1>1, <1>2, <1>3
  <1>6. ASSUME SumOver(up, part) = n PROVE DOMAIN plan = {p \in up : part[p] > 0}
    BY <1>1, <1>2, <1>3, <1>6
  <1>7. ASSUME SumOver(up, part) = n PROVE DOMAIN plan # {}
    <2>1. SUFFICES ASSUME DOMAIN plan = {} PROVE FALSE
      OBVIOUS
    <2>2. \A p \in up : ~(part[p] > 0)
      BY <1>6, <1>7, <2>1
    <2>3. PICK D : D = {}
      OBVIOUS
    <2>4. /\ \A d \in up : part[d] \in Nat /\ (part[d] > 0 => d \in D /\ part[d] = part[d])
          /\ \A d \in D : part[d] \in Nat /\ (part[d] > 0 => d \in up /\ part[d] = part[d])
      BY <1>4, <2>2, <2>3
    <2>5. Pairs(up, part) = Pairs(D, part)
      BY <2>4, PairsEqual
    <2>6. SumOver(up, part) = SumOver(D, part)
      BY <2>5 DEF SumOver
    <2>7. SumOver(D, part) = 0
      BY <2>3, SumEmpty
    <2> QED BY <1>7, <2>6, <2>7
  <1>8. ASSUME SumOver(up, part) = n
        PROVE  SumOver(DOMAIN plan, [r \in DOMAIN plan |-> plan[r].cost * plan[r].quantity])
                  = CostOf(routes, part)
    <2>1. PICK D, x, y : /\ D = DOMAIN plan
                         /\ x = [r \in D |-> plan[r].cost * plan[r].quantity]
                         /\ y = [r \in up |-> part[r] * routes[r].cost]
      OBVIOUS
    <2>2. D = {p \in up : part[p] > 0} /\ D = parts
      BY <1>3, <1>6, <1>8, <2>1
    <2>3. \A p \in up : routes[p].cost \in Nat /\ part[p] \in Nat
      <3> SUFFICES ASSUME NEW p \in up PROVE routes[p].cost \in Nat /\ part[p] \in Nat
        OBVIOUS
      <3> QED BY <1>4, RoutesFacts
    <2>4. \A p \in D : x[p] = routes[p].cost * part[p]
      BY <1>3, <2>1, <2>2
    <2>5. \A p \in D : p \in up /\ x[p] \in Nat /\ y[p] = x[p]
      <3> SUFFICES ASSUME NEW p \in D PROVE p \in up /\ x[p] \in Nat /\ y[p] = x[p]
        OBVIOUS
      <3>1. p \in up
        BY <2>2
      <3>2. PICK c, q : c = routes[p].cost /\ q = part[p]
        OBVIOUS
      <3>3. c \in Nat /\ q \in Nat
        BY <2>3, <3>1, <3>2
      <3>4. x[p] = c * q /\ y[p] = q * c
        BY <2>1, <2>4, <3>1, <3>2
      <3> QED BY <3>1, <3>3, <3>4
    <2>6. \A p \in up : y[p] \in Nat /\ (y[p] > 0 => p \in D)
      <3> SUFFICES ASSUME NEW p \in up PROVE y[p] \in Nat /\ (y[p] > 0 => p \in D)
        OBVIOUS
      <3>1. PICK c, q : c = routes[p].cost /\ q = part[p]
        OBVIOUS
      <3>2. c \in Nat /\ q \in Nat /\ y[p] = q * c
        BY <2>1, <2>3, <3>1
      <3>3. q = 0 => y[p] = 0
        BY <3>2
      <3>4. y[p] \in Nat
        BY <3>2
      <3> QED BY <2>2, <3>1, <3>2, <3>3, <3>4
    <2>7. /\ \A d \in D : x[d] \in Nat /\ (x[d] > 0 => d \in up /\ y[d] = x[d])
          /\ \A d \in up : y[d] \in Nat /\ (y[d] > 0 => d \in D /\ x[d] = y[d])
      BY <2>5, <2>6
    <2>8. Pairs(D, x) = Pairs(up, y)
      BY <2>7, PairsEqual
    <2>9. SumOver(D, x) = SumOver(up, y)
      BY <2>8 DEF SumOver
    <2>10. CostOf(routes, part) = SumOver(up, y)
      BY <1>4, <2>1 DEF CostOf
    <2> QED BY <2>1, <2>9, <2>10
  <1> QED BY <1>5, <1>7, <1>8

\* The plan of the suppliers covers the quantity exactly when they can, and no other split
\* over them costs less: for any prices, stocks and quantities.
THEOREM CheapestPlan == Spec => []PlanIsCheapest
  <1>1. Core => PlanIsCheapest
    <2> SUFFICES ASSUME Core PROVE PlanIsCheapest
      OBVIOUS
    <2>1. catalog \in CatalogType
      BY DEF Core, Typed
    <2>2. ASSUME NEW up \in SUBSET Provider, NEW k \in Key
          PROVE  LET n == Body[k].quantity
                     routes == RoutesOf(up)
                     plan == PlanRoutes(routes, n)
                     ways == Allocations(routes, n)
                 IN IF DOMAIN plan = {} THEN ways = {}
                    ELSE SumOver(DOMAIN plan, [r \in DOMAIN plan |-> plan[r].cost * plan[r].quantity])
                         = Min({CostOf(routes, f) : f \in ways})
      <3>1. PICK n, routes, plan, ways, part, costs :
               /\ n = Body[k].quantity /\ routes = RoutesOf(up) /\ plan = PlanRoutes(routes, n)
               /\ ways = Allocations(routes, n) /\ part = Greedy(up, n)
               /\ costs = {CostOf(routes, f) : f \in ways}
        OBVIOUS
      <3>2. n \in Nat \ {0}
        BY <3>1, KeyAssumption
      <3>3. /\ DOMAIN plan = {} <=> SumOver(up, part) # n
            /\ DOMAIN plan # {} =>
                 SumOver(DOMAIN plan, [r \in DOMAIN plan |-> plan[r].cost * plan[r].quantity])
                   = CostOf(routes, part)
        BY <2>1, <3>1, <3>2, PlanIsGreedy
      <3>4. \A f : f \in ways <=> IsWay(f, up, n)
        <4>1. /\ DOMAIN routes = up
              /\ \A r \in up : routes[r].stock = catalog[r].stock
          BY <3>1 DEF RoutesOf
        <4> QED BY <3>1, <4>1 DEF Allocations, IsWay
      <3>5. \A f \in ways : SumOver(up, part) = n /\ CostOf(routes, part) <= CostOf(routes, f)
        BY <2>1, <3>1, <3>2, <3>4, GreedyCheapest
      <3>6. CASE DOMAIN plan = {}
        <4>1. ways = {}
          BY <3>3, <3>5, <3>6
        <4> QED BY <3>1, <3>6, <4>1
      <3>7. CASE DOMAIN plan # {}
        <4>1. SumOver(up, part) = n
          BY <3>3, <3>7
        <4>2. part \in ways
          BY <2>1, <3>1, <3>2, <3>4, <4>1, GreedyTyped DEF IsWay
        <4>3. \A f \in ways : CostOf(routes, f) \in Nat
          <5> SUFFICES ASSUME NEW f \in ways PROVE CostOf(routes, f) \in Nat
            OBVIOUS
          <5>1. f \in [up -> 0 .. n]
            BY <3>4 DEF IsWay
          <5> QED BY <2>1, <3>1, <3>2, <5>1, WayCost
        <4>4. costs \subseteq Nat /\ costs # {} /\ CostOf(routes, part) \in costs
          BY <3>1, <4>2, <4>3
        <4>5. Min(costs) \in costs /\ \A y \in costs : Min(costs) <= y
          BY <4>4, MinOfNat
        <4>6. \A y \in costs : CostOf(routes, part) <= y
          BY <3>1, <3>5
        <4>7. CostOf(routes, part) = Min(costs)
          <5>1. PICK a, b : a = CostOf(routes, part) /\ b = Min(costs)
            OBVIOUS
          <5>2. a \in Nat /\ b \in Nat /\ a <= b /\ b <= a
            BY <4>4, <4>5, <4>6, <5>1
          <5> QED BY <5>1, <5>2
        <4> QED BY <3>1, <3>3, <3>7, <4>7
      <3> QED BY <3>6, <3>7
    <2> QED BY <2>2 DEF PlanIsCheapest
  <1> QED BY <1>1, CoreInvariant, PTL
=============================================================================
