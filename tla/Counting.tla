------------------------------ MODULE Counting ------------------------------
(***************************************************************************)
(* Sums over sets, counted: the sum of f over D is the number of pairs of a *)
(* d in D and an i in 1 .. f[d].  Written this way a sum needs no recursion, *)
(* and the lemmas below say what one more and one less member does to it.   *)
(***************************************************************************)
EXTENDS Integers, FiniteSets, FiniteSetTheorems, TLAPS

Pairs(D, f) == UNION {{d} \X (1 .. f[d]) : d \in D}
SumOver(D, f) == Cardinality(Pairs(D, f))
-----------------------------------------------------------------------------
\* What is counted.
LEMMA PairsMember ==
    ASSUME NEW D, NEW f, NEW x
    PROVE  x \in Pairs(D, f) <=> \E d \in D : \E i \in 1 .. f[d] : x = <<d, i>>
  BY DEF Pairs

\* What counts for nothing does not count.
LEMMA PairsEqual ==
    ASSUME NEW D, NEW E, NEW f, NEW g,
           \A d \in D : f[d] \in Nat /\ (f[d] > 0 => d \in E /\ g[d] = f[d]),
           \A d \in E : g[d] \in Nat /\ (g[d] > 0 => d \in D /\ g[d] = f[d])
    PROVE  Pairs(D, f) = Pairs(E, g)
  <1>1. \A d, i : d \in D /\ i \in 1 .. f[d] <=> d \in E /\ i \in 1 .. g[d]
    OBVIOUS
  <1>2. \A x : x \in Pairs(D, f) <=> x \in Pairs(E, g)
    BY <1>1, PairsMember
  <1> QED BY <1>2

\* What d alone counts for.
LEMMA Column ==
    ASSUME NEW d, NEW n \in Nat
    PROVE  IsFiniteSet({d} \X (1 .. n)) /\ Cardinality({d} \X (1 .. n)) = n
  <1>1. IsFiniteSet(1 .. n) /\ Cardinality(1 .. n) = n
    BY FS_Interval
  <1>2. IsFiniteSet({d}) /\ Cardinality({d}) = 1
    BY FS_Singleton
  <1> QED BY <1>1, <1>2, FS_Product

\* One more member.
LEMMA PairsAdd ==
    ASSUME NEW D, NEW E, NEW f, NEW g, NEW d \in E, g[d] \in Nat,
           \A e \in D : f[e] \in Nat,
           d \in D => f[d] = 0,
           \A e : e # d => (e \in D <=> e \in E),
           \A e \in D : e # d => g[e] = f[e],
           IsFiniteSet(Pairs(D, f))
    PROVE  /\ IsFiniteSet(Pairs(E, g))
           /\ Cardinality(Pairs(E, g)) = Cardinality(Pairs(D, f)) + g[d]
  <1> DEFINE P == Pairs(D, f)
             C == {d} \X (1 .. g[d])
  <1>1. IsFiniteSet(C) /\ Cardinality(C) = g[d]
    BY Column
  <1>2. \A x : x \in C <=> \E i \in 1 .. g[d] : x = <<d, i>>
    OBVIOUS
  <1>3. \A x : x \in Pairs(E, g) <=> x \in P \/ x \in C
    <2> SUFFICES ASSUME NEW x PROVE x \in Pairs(E, g) <=> x \in P \/ x \in C
      OBVIOUS
    <2>1. ASSUME x \in Pairs(E, g) PROVE x \in P \/ x \in C
      BY <2>1, <1>2, PairsMember
    <2>2. ASSUME x \in P PROVE x \in Pairs(E, g)
      <3>1. PICK e \in D : \E i \in 1 .. f[e] : x = <<e, i>>
        BY <2>2, PairsMember
      <3>2. e # d
        BY <3>1
      <3> QED BY <3>1, <3>2, PairsMember
    <2>3. ASSUME x \in C PROVE x \in Pairs(E, g)
      BY <2>3, <1>2, PairsMember
    <2> QED BY <2>1, <2>2, <2>3
  <1>4. P \cap C = {}
    <2> SUFFICES ASSUME NEW x, x \in P, x \in C PROVE FALSE
      OBVIOUS
    <2>1. PICK e \in D : \E i \in 1 .. f[e] : x = <<e, i>>
      BY PairsMember
    <2>2. e = d
      BY <1>2, <2>1
    <2> QED BY <2>1, <2>2
  <1>5. Pairs(E, g) = P \cup C
    BY <1>3
  <1> HIDE DEF P, C
  <1>6. /\ IsFiniteSet(P) /\ IsFiniteSet(P \cup C)
        /\ Cardinality(P \cup C) = Cardinality(P) + Cardinality(C) - Cardinality(P \cap C)
    BY <1>1, FS_Union DEF P
  <1>7. Cardinality(P \cap C) = 0 /\ Cardinality(P) \in Nat
    BY <1>4, <1>6, FS_EmptySet, FS_CardinalityType
  <1> QED BY <1>1, <1>5, <1>6, <1>7 DEF P

\* One member less.
LEMMA PairsDrop ==
    ASSUME NEW D, NEW f, NEW g, NEW d \in D, g[d] = 0,
           \A e \in D : f[e] \in Nat,
           \A e \in D : e # d => g[e] = f[e],
           IsFiniteSet(Pairs(D, f))
    PROVE  /\ IsFiniteSet(Pairs(D, g))
           /\ Cardinality(Pairs(D, g)) \in Nat
           /\ Cardinality(Pairs(D, f)) = Cardinality(Pairs(D, g)) + f[d]
  <1>1. Pairs(D, g) \subseteq Pairs(D, f)
    <2> SUFFICES ASSUME NEW x, x \in Pairs(D, g) PROVE x \in Pairs(D, f)
      OBVIOUS
    <2>1. PICK e \in D : \E i \in 1 .. g[e] : x = <<e, i>>
      BY PairsMember
    <2>2. e # d
      BY <2>1
    <2> QED BY <2>1, <2>2, PairsMember
  <1>2. IsFiniteSet(Pairs(D, g))
    BY <1>1, FS_Subset
  <1>3. Cardinality(Pairs(D, f)) = Cardinality(Pairs(D, g)) + f[d]
    <2>1. \A e \in D : g[e] \in Nat
      OBVIOUS
    <2>2. \A e \in D : e # d => f[e] = g[e]
      OBVIOUS
    <2> QED BY <1>2, <2>1, <2>2, PairsAdd
  <1> QED BY <1>2, <1>3, FS_CardinalityType

\* One member counts for something else.
LEMMA PairsChange ==
    ASSUME NEW D, NEW f, NEW g, NEW d \in D,
           \A e \in D : f[e] \in Nat /\ g[e] \in Nat,
           \A e \in D : e # d => g[e] = f[e],
           IsFiniteSet(Pairs(D, f))
    PROVE  /\ IsFiniteSet(Pairs(D, g))
           /\ SumOver(D, f) \in Nat
           /\ SumOver(D, g) = SumOver(D, f) - f[d] + g[d]
  <1> DEFINE h == [e \in D |-> IF e = d THEN 0 ELSE f[e]]
  <1>1. h[d] = 0 /\ \A e \in D : h[e] \in Nat /\ (e # d => h[e] = f[e] /\ h[e] = g[e])
    OBVIOUS
  <1> HIDE DEF h
  <1>2. /\ IsFiniteSet(Pairs(D, h)) /\ Cardinality(Pairs(D, h)) \in Nat
        /\ Cardinality(Pairs(D, f)) = Cardinality(Pairs(D, h)) + f[d]
    BY <1>1, PairsDrop
  <1>3. /\ IsFiniteSet(Pairs(D, g))
        /\ Cardinality(Pairs(D, g)) = Cardinality(Pairs(D, h)) + g[d]
    <2>1. /\ g[d] \in Nat /\ h[d] = 0 /\ \A e \in D : h[e] \in Nat
          /\ \A e \in D : e # d => g[e] = h[e]
      BY <1>1
    <2> QED BY <1>2, <2>1, PairsAdd
  <1>4. f[d] \in Nat /\ g[d] \in Nat
    OBVIOUS
  <1> QED BY <1>2, <1>3, <1>4 DEF SumOver

\* The pairs of a finite set are finitely many: of the subsets that break
\* this none is smallest.
LEMMA PairsFinite ==
    ASSUME NEW D, IsFiniteSet(D), NEW f, \A d \in D : f[d] \in Int
    PROVE  IsFiniteSet(Pairs(D, f)) /\ SumOver(D, f) \in Nat
  <1> DEFINE R == StrictSubsetOrdering(D)
             T == {E \in FiniteSubsetsOf(D) : ~IsFiniteSet(Pairs(E, f))}
  <1>1. IsWellFoundedOn(R, FiniteSubsetsOf(D))
    BY FS_StrictSubsetOrderingWellFounded
  <1>2. T = {}
    <2> SUFFICES ASSUME T # {} PROVE FALSE
      OBVIOUS
    <2>1. PICK E \in T : \A F \in T : <<F, E>> \notin R
      <3>1. T \subseteq FiniteSubsetsOf(D)
        OBVIOUS
      <3> HIDE DEF T, R
      <3> QED BY <1>1, <3>1, WFMin
    <2>2. E \subseteq D /\ IsFiniteSet(E) /\ ~IsFiniteSet(Pairs(E, f))
      BY <2>1 DEF FiniteSubsetsOf
    <2>3. E # {}
      <3>1. Pairs({}, f) = {}
        BY DEF Pairs
      <3> QED BY <2>2, <3>1, FS_EmptySet
    <2>4. PICK d \in E : TRUE
      BY <2>3
    <2> DEFINE F == E \ {d}
               C == {d} \X (1 .. f[d])
    <2>5. F \in FiniteSubsetsOf(D) /\ <<F, E>> \in R
      <3>1. IsFiniteSet(F) /\ F \subseteq D /\ F \subseteq E /\ F # E
        BY <2>2, <2>4, FS_Subset
      <3> HIDE DEF F
      <3> QED BY <2>2, <3>1 DEF StrictSubsetOrdering, FiniteSubsetsOf
    <2>6. IsFiniteSet(Pairs(F, f))
      BY <2>1, <2>5
    <2>7. IsFiniteSet(C)
      <3>0. f[d] \in Int /\ 1 \in Int
        BY <2>2, <2>4
      <3>1. IsFiniteSet(1 .. f[d]) /\ IsFiniteSet({d})
        BY <3>0, FS_Interval, FS_Singleton
      <3> QED BY <3>1, FS_Product
    <2>8. Pairs(E, f) = Pairs(F, f) \cup C
      BY <2>4 DEF Pairs
    <2> HIDE DEF C
    <2>9. IsFiniteSet(Pairs(F, f) \cup C)
      BY <2>6, <2>7, FS_Union
    <2> QED BY <2>2, <2>8, <2>9
  <1>3. D \in FiniteSubsetsOf(D)
    BY DEF FiniteSubsetsOf
  <1> QED BY <1>2, <1>3, FS_CardinalityType DEF SumOver

\* A sum is not more than one whose members are at least as many and as large.
LEMMA SumInjection ==
    ASSUME NEW D, NEW E, NEW f, NEW g, NEW h \in [D -> E],
           IsFiniteSet(Pairs(E, g)),
           \A d \in D : f[d] \in Int /\ g[h[d]] \in Int /\ f[d] <= g[h[d]],
           \A d, e \in D : h[d] = h[e] => d = e
    PROVE  /\ IsFiniteSet(Pairs(D, f))
           /\ SumOver(D, f) <= SumOver(E, g)
  <1> DEFINE P == Pairs(D, f)
             Q == Pairs(E, g)
             k == [p \in P |-> <<h[p[1]], p[2]>>]
  <1>1. ASSUME NEW p \in P
        PROVE  /\ p[1] \in D /\ p[2] \in 1 .. f[p[1]] /\ p = <<p[1], p[2]>>
               /\ <<h[p[1]], p[2]>> \in Q
    <2>1. PICK d \in D : \E i \in 1 .. f[d] : p = <<d, i>>
      BY <1>1, PairsMember
    <2>2. PICK i \in 1 .. f[d] : p = <<d, i>>
      BY <2>1
    <2>3. h[d] \in E /\ i \in 1 .. g[h[d]]
      BY <2>1
    <2> QED BY <2>2, <2>3, PairsMember
  <1>2. k \in [P -> Q]
    <2> HIDE DEF P, Q
    <2> QED BY <1>1
  <1>3. \A p, q \in P : k[p] = k[q] => p = q
    <2> HIDE DEF P, Q
    <2> QED BY <1>1
  <1>4. k \in Injection(P, Q)
    <2> HIDE DEF P, Q, k
    <2> QED BY <1>2, <1>3 DEF Injection, IsInjective
  <1> QED BY <1>4, FS_Injection DEF SumOver

\* A sum is not more than the sums of two parts.
LEMMA SumParts ==
    ASSUME NEW D, NEW f, NEW S, NEW g, NEW T, NEW h,
           D = S \cup T, \A d \in S : g[d] = f[d], \A d \in T : h[d] = f[d],
           IsFiniteSet(Pairs(S, g)), IsFiniteSet(Pairs(T, h))
    PROVE  SumOver(D, f) <= SumOver(S, g) + SumOver(T, h)
  <1> DEFINE P == Pairs(S, g)
             Q == Pairs(T, h)
  <1>1. Pairs(D, f) \subseteq P \cup Q
    <2> SUFFICES ASSUME NEW p \in Pairs(D, f) PROVE p \in P \cup Q
      OBVIOUS
    <2>1. PICK d \in D : \E i \in 1 .. f[d] : p = <<d, i>>
      BY PairsMember
    <2> QED BY <2>1, PairsMember
  <1>2. /\ IsFiniteSet(P \cup Q) /\ Cardinality(P) \in Nat /\ Cardinality(Q) \in Nat
        /\ Cardinality(P \cup Q) = Cardinality(P) + Cardinality(Q) - Cardinality(P \cap Q)
    BY FS_Union, FS_CardinalityType
  <1>3. IsFiniteSet(P \cap Q)
    BY FS_Subset
  <1>4. Cardinality(P \cap Q) \in Nat /\ Cardinality(P \cup Q) \in Nat
    BY <1>2, <1>3, FS_CardinalityType
  <1>5. Cardinality(Pairs(D, f)) <= Cardinality(P \cup Q) /\ Cardinality(Pairs(D, f)) \in Nat
    BY <1>1, <1>2, FS_Subset, FS_CardinalityType
  <1> HIDE DEF P, Q
  <1> QED BY <1>2, <1>4, <1>5 DEF SumOver, P, Q

\* The sum with one more member.
LEMMA SumAdd ==
    ASSUME NEW D, NEW f, NEW d, d \notin D, NEW g, g[d] \in Nat,
           \A e \in D : f[e] \in Nat /\ g[e] = f[e], IsFiniteSet(Pairs(D, f))
    PROVE  SumOver(D \cup {d}, g) = SumOver(D, f) + g[d]
  <1>1. d \in D \cup {d} /\ \A e : e # d => (e \in D <=> e \in D \cup {d})
    OBVIOUS
  <1>2. /\ IsFiniteSet(Pairs(D \cup {d}, g))
        /\ Cardinality(Pairs(D \cup {d}, g)) = Cardinality(Pairs(D, f)) + g[d]
    BY <1>1, PairsAdd
  <1> QED BY <1>2 DEF SumOver

-----------------------------------------------------------------------------
\* Of the subsets of a finite set that have a property one is smallest.
LEMMA SmallestSubset ==
    ASSUME NEW D, IsFiniteSet(D), NEW T, T \subseteq SUBSET D, T # {}
    PROVE  \E E \in T : \A F \in T : F \subseteq E => F = E
  <1> DEFINE R == StrictSubsetOrdering(D)
  <1>1. IsWellFoundedOn(R, FiniteSubsetsOf(D))
    BY FS_StrictSubsetOrderingWellFounded
  <1>2. T \subseteq FiniteSubsetsOf(D)
    BY FS_Subset DEF FiniteSubsetsOf
  <1>3. PICK E \in T : \A F \in T : <<F, E>> \notin R
    <2> HIDE DEF R
    <2> QED BY <1>1, <1>2, WFMin
  <1>4. ASSUME NEW F \in T, F \subseteq E, F # E PROVE FALSE
    <2>1. F \in FiniteSubsetsOf(D) /\ E \in FiniteSubsetsOf(D)
      BY <1>2
    <2>2. <<F, E>> \in R
      BY <1>4, <2>1 DEF StrictSubsetOrdering, FiniteSubsetsOf
    <2> QED BY <1>3, <2>2
  <1> QED BY <1>3, <1>4

\* The sum over two sets that share nothing.
LEMMA SumDisjoint ==
    ASSUME NEW D, NEW E, D \cap E = {}, NEW f, NEW g, NEW h,
           IsFiniteSet(D), IsFiniteSet(E),
           \A d \in D : f[d] \in Int /\ h[d] = f[d],
           \A e \in E : g[e] \in Int /\ h[e] = g[e]
    PROVE  SumOver(D \cup E, h) = SumOver(D, f) + SumOver(E, g)
  <1> DEFINE P == Pairs(D, f)
             Q == Pairs(E, g)
  <1>1. IsFiniteSet(P) /\ IsFiniteSet(Q)
    BY PairsFinite
  <1>2. \A x : x \in Pairs(D \cup E, h) <=> x \in P \/ x \in Q
    <2>1. \A d \in D : 1 .. h[d] = 1 .. f[d]
      OBVIOUS
    <2>2. \A e \in E : 1 .. h[e] = 1 .. g[e]
      OBVIOUS
    <2> QED BY <2>1, <2>2, PairsMember
  <1>3. Pairs(D \cup E, h) = P \cup Q
    BY <1>2
  <1>4. P \cap Q = {}
    <2> SUFFICES ASSUME NEW x \in P, x \in Q PROVE FALSE
      OBVIOUS
    <2>1. PICK d \in D : \E i \in 1 .. f[d] : x = <<d, i>>
      BY PairsMember
    <2>2. PICK e \in E : \E i \in 1 .. g[e] : x = <<e, i>>
      BY PairsMember
    <2>3. d = e
      BY <2>1, <2>2
    <2> QED BY <2>3
  <1> HIDE DEF P, Q
  <1>5. Cardinality(P \cup Q) = Cardinality(P) + Cardinality(Q) - Cardinality(P \cap Q)
    BY <1>1, FS_Union
  <1>6. Cardinality(P \cap Q) = 0 /\ Cardinality(P) \in Nat /\ Cardinality(Q) \in Nat
    BY <1>1, <1>4, FS_EmptySet, FS_CardinalityType
  <1>7. SumOver(D \cup E, h) = Cardinality(P \cup Q)
    BY <1>3 DEF SumOver
  <1>8. SumOver(D, f) = Cardinality(P) /\ SumOver(E, g) = Cardinality(Q)
    BY DEF SumOver, P, Q
  <1> QED BY <1>5, <1>6, <1>7, <1>8

\* The sum does not change when its members are renamed.
LEMMA SumRenamed ==
    ASSUME NEW D, NEW E, NEW f, NEW g, NEW h \in [D -> E], IsFiniteSet(D),
           \A d, e \in D : h[d] = h[e] => d = e,
           \A e \in E : \E d \in D : h[d] = e,
           \A d \in D : f[d] \in Int /\ g[h[d]] = f[d]
    PROVE  SumOver(E, g) = SumOver(D, f) /\ IsFiniteSet(E) /\ Cardinality(E) = Cardinality(D)
  <1>1. IsFiniteSet(E) /\ Cardinality(E) = Cardinality(D)
    <2>1. h \in Bijection(D, E)
      BY DEF Bijection, Injection, Surjection, IsInjective
    <2> QED BY <2>1, FS_Bijection DEF ExistsBijection
  <1> DEFINE b == [e \in E |-> CHOOSE d \in D : h[d] = e]
  <1>2. \A e \in E : b[e] \in D /\ h[b[e]] = e
    OBVIOUS
  <1>3. b \in [E -> D]
    BY <1>2
  <1> HIDE DEF b
  <1>4. IsFiniteSet(Pairs(D, f)) /\ SumOver(D, f) \in Nat
    BY PairsFinite
  <1>5. \A e \in E : g[e] \in Int /\ f[b[e]] = g[e]
    BY <1>2
  <1>6. IsFiniteSet(Pairs(E, g)) /\ SumOver(E, g) \in Nat
    BY <1>1, <1>5, PairsFinite
  <1>7. SumOver(D, f) <= SumOver(E, g)
    <2>1. \A d \in D : f[d] \in Int /\ g[h[d]] \in Int /\ f[d] <= g[h[d]]
      OBVIOUS
    <2> QED BY <1>6, <2>1, SumInjection
  <1>8. SumOver(E, g) <= SumOver(D, f)
    <2>1. \A e \in E : g[e] \in Int /\ f[b[e]] \in Int /\ g[e] <= f[b[e]]
      BY <1>2, <1>5
    <2>2. \A d, e \in E : b[d] = b[e] => d = e
      BY <1>2
    <2> QED BY <1>3, <1>4, <2>1, <2>2, SumInjection
  <1> QED BY <1>1, <1>4, <1>6, <1>7, <1>8

\* Every member counts the same.
LEMMA SumConstant ==
    ASSUME NEW D, IsFiniteSet(D), NEW n \in Nat, NEW f, \A d \in D : f[d] = n
    PROVE  SumOver(D, f) = Cardinality(D) * n
  <1>1. IsFiniteSet(1 .. n) /\ Cardinality(1 .. n) = n
    BY FS_Interval
  <1>2. Pairs(D, f) = D \X (1 .. n)
    <2>1. \A x : x \in Pairs(D, f) <=> \E d \in D : \E i \in 1 .. n : x = <<d, i>>
      BY PairsMember
    <2>2. \A x : x \in D \X (1 .. n) <=> \E d \in D : \E i \in 1 .. n : x = <<d, i>>
      OBVIOUS
    <2> QED BY <2>1, <2>2
  <1> QED BY <1>1, <1>2, FS_Product DEF SumOver

\* The sum over pairs: the members of a column count the same.
LEMMA SumColumns ==
    ASSUME NEW D, IsFiniteSet(D), NEW q, NEW f, NEW g, NEW r,
           \A d \in D : q[d] \in Nat /\ r[d] \in Nat /\ f[d] = r[d] * q[d],
           \A x \in Pairs(D, q) : g[x] = r[x[1]]
    PROVE  SumOver(Pairs(D, q), g) = SumOver(D, f)
  <1> DEFINE T == {E \in SUBSET D : SumOver(Pairs(E, q), g) # SumOver(E, f)}
  <1>0. \A d \in D : f[d] \in Nat
    <2>1. ASSUME NEW a \in Nat, NEW b \in Nat PROVE a * b \in Nat
      OBVIOUS
    <2> QED BY <2>1
  <1>1. T = {}
    <2> SUFFICES ASSUME T # {} PROVE FALSE
      OBVIOUS
    <2>1. PICK E \in T : \A F \in T : F \subseteq E => F = E
      <3>1. T \subseteq SUBSET D
        OBVIOUS
      <3> HIDE DEF T
      <3> QED BY <3>1, SmallestSubset
    <2>2. E \subseteq D /\ IsFiniteSet(E) /\ SumOver(Pairs(E, q), g) # SumOver(E, f)
      BY <2>1, FS_Subset
    <2>3. E # {}
      <3>1. Pairs({}, q) = {} /\ Pairs({}, g) = {} /\ Pairs({}, f) = {}
        BY DEF Pairs
      <3> QED BY <2>2, <3>1 DEF SumOver
    <2>4. PICK d \in E : TRUE
      BY <2>3
    <2> DEFINE F == E \ {d}
               C == {d} \X (1 .. q[d])
    <2>5. F \subseteq D /\ IsFiniteSet(F) /\ F \cap {d} = {} /\ E = F \cup {d} /\ d \in D
      BY <2>2, <2>4, FS_Subset
    <2>6. SumOver(Pairs(F, q), g) = SumOver(F, f)
      <3>1. F \notin T
        BY <2>1, <2>4
      <3> QED BY <2>5, <3>1
    <2> HIDE DEF F
    <2>7. SumOver(E, f) = SumOver(F, f) + SumOver({d}, f)
      <3>1. \A e \in F : f[e] \in Int
        BY <1>0, <2>5
      <3>2. \A e \in {d} : f[e] \in Int
        BY <1>0, <2>5
      <3>3. IsFiniteSet({d})
        BY FS_Singleton
      <3> QED BY <2>5, <3>1, <3>2, <3>3, SumDisjoint
    <2>8. SumOver({d}, f) = f[d]
      <3>1. IsFiniteSet({d}) /\ Cardinality({d}) = 1
        BY FS_Singleton
      <3>2. \A e \in {d} : f[e] = f[d]
        OBVIOUS
      <3>3. SumOver({d}, f) = Cardinality({d}) * f[d]
        BY <1>0, <2>5, <3>1, <3>2, SumConstant
      <3> QED BY <1>0, <2>5, <3>1, <3>3
    <2>9. IsFiniteSet(C) /\ Cardinality(C) = q[d]
      BY <2>5, Column
    <2>10. \A x \in C : g[x] = r[d] /\ x \in Pairs(D, q)
      <3> SUFFICES ASSUME NEW x \in C PROVE g[x] = r[d] /\ x \in Pairs(D, q)
        OBVIOUS
      <3>1. PICK i \in 1 .. q[d] : x = <<d, i>>
        OBVIOUS
      <3>2. x \in Pairs(D, q) /\ x[1] = d
        BY <2>5, <3>1, PairsMember
      <3> QED BY <3>2
    <2>11. SumOver(C, g) = f[d]
      <3>1. SumOver(C, g) = Cardinality(C) * r[d]
        BY <2>5, <2>9, <2>10, SumConstant
      <3> QED BY <2>5, <2>9, <3>1
    <2>12. Pairs(E, q) = Pairs(F, q) \cup C
      BY <2>5 DEF Pairs
    <2>13. Pairs(F, q) \cap C = {}
      <3> SUFFICES ASSUME NEW x \in Pairs(F, q), x \in C PROVE FALSE
        OBVIOUS
      <3>1. PICK e \in F : \E i \in 1 .. q[e] : x = <<e, i>>
        BY PairsMember
      <3>2. x[1] = e /\ x[1] = d
        BY <3>1
      <3> QED BY <2>5, <3>2
    <2>14. IsFiniteSet(Pairs(F, q))
      <3>1. \A e \in F : q[e] \in Int
        BY <2>5
      <3> QED BY <2>5, <3>1, PairsFinite
    <2>15. SumOver(Pairs(E, q), g) = SumOver(Pairs(F, q), g) + SumOver(C, g)
      <3>1. \A x \in C : g[x] \in Int
        BY <2>5, <2>10
      <3>2. \A x \in Pairs(F, q) : g[x] \in Int
        <4> SUFFICES ASSUME NEW x \in Pairs(F, q) PROVE g[x] \in Int
          OBVIOUS
        <4>1. PICK e \in F : \E i \in 1 .. q[e] : x = <<e, i>>
          BY PairsMember
        <4>2. x[1] = e /\ e \in D /\ x \in Pairs(D, q)
          BY <2>5, <4>1, PairsMember
        <4> QED BY <4>2
      <3> HIDE DEF C
      <3> QED BY <2>9, <2>12, <2>13, <2>14, <3>1, <3>2, SumDisjoint
    <2> QED BY <2>2, <2>6, <2>7, <2>8, <2>11, <2>15
  <1>2. D \notin T
    BY <1>1
  <1> QED BY <1>2
=============================================================================
