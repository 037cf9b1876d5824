------------------------------- MODULE MCShop -------------------------------
EXTENDS Shop, TLC
CONSTANTS u1, u2, k1, k2, k3, b1, q1, q2, h1, h2, x1, x2, w1

MCBody == [k \in {k1, k2, k3, b1, q1, q2} |->
    CASE k = k1 -> [user |-> u1, quantity |-> 2, max |-> 3, coupon |-> TRUE]
      [] k = k2 -> [user |-> u1, quantity |-> 1, max |-> 3, coupon |-> TRUE]
      [] k = k3 -> [user |-> u2, quantity |-> 1, max |-> 4, coupon |-> FALSE]
      [] k = b1 -> [user |-> u2, quantity |-> 2, max |-> 0, coupon |-> FALSE]
      [] k = q1 -> [user |-> u1, quantity |-> 2, max |-> 0, coupon |-> TRUE]
      [] k = q2 -> [user |-> u2, quantity |-> 2, max |-> 0, coupon |-> FALSE]]
MCLoad == [w \in {w1} |-> [accounts |-> {x1}, cost |-> 1, lock |-> TRUE]]
MCProfit == [u \in {u1, u2} |-> IF u = u2 THEN 1 ELSE 0]
MCMaxRuns == [k \in {k1, k2, k3, b1, q1, q2} |-> IF k \in {k1, k3, q1} THEN 2 ELSE 1]
Plain == [changes |-> 0, grants |-> 0, crashes |-> 0, external |-> TRUE, tier |-> "on"]
Of(keys, scene) == [f \in DOMAIN scene \cup {"keys"} |->
                      IF f = "keys" THEN keys ELSE scene[f]]
\* goods and prices change, handlers stop
Dealing == {Of({k1, k2}, [Plain EXCEPT !.crashes = 1]),
            Of({k2, b1}, [Plain EXCEPT !.changes = 1]),
            Of({k3}, [Plain EXCEPT !.changes = 1, !.crashes = 1]),
            Of({k2, b1}, [Plain EXCEPT !.changes = 1, !.crashes = 1, !.external = FALSE]),
            Of({q1, k2}, [Plain EXCEPT !.crashes = 1]),
            Of({q2}, [Plain EXCEPT !.changes = 2])}
\* the administrator changes the terms
Granting == {Of({k}, [Plain EXCEPT !.grants = 2]) : k \in {b1, q1, q2}} \cup
            {Of({k}, [Plain EXCEPT !.grants = 1, !.changes = 1]) : k \in {b1, q1, q2}} \cup
            {Of({k}, [Plain EXCEPT !.grants = 1]) : k \in {k1, k3}} \cup
            {Of({q1, q2}, [Plain EXCEPT !.grants = 1, !.changes = 1, !.external = FALSE,
                             !.tier = "gone"])}
MCScene == Dealing \cup Granting
MCSymmetry == Permutations(Handler)
MCTier == [least |-> 2, off |-> 1]
MCCatalog0 == [p \in {"sumistore", "lehai"} |->
    IF p = "lehai" THEN [cost |-> 3, stock |-> 2] ELSE [cost |-> 2, stock |-> 1]]
MCWallet0 == [u \in {u1, u2} |-> 10]
=============================================================================
