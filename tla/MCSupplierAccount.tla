--------------------------- MODULE MCSupplierAccount ---------------------------
(***************************************************************************)
(* Instances of SupplierAccount for TLC.                                   *)
(***************************************************************************)
EXTENDS SupplierAccount

CONSTANTS k1, k2, k3, g1, g2

MCWants == [k \in Key |-> IF k = k1 THEN g1 ELSE g2]
MCCost == [g \in Goods |-> 1]

\* One key is open; the others are over.
From(name, key, off, hidden, noTopUp) ==
    [provider |-> name, over |-> Key \ {key}, retired |-> off, scant |-> hidden,
     toppedUp |-> noTopUp]

\* A preorder at Sumi, whose first order may be shown with too few accounts;
\* a warranty withdrawal of a product that may be taken off Sumi; at Le Hai a
\* preorder and a customer's request, with undelivered orders paid back.
MCStart ==
    {From("sumistore", k1, {g2}, {}, TRUE), From("sumistore", k1, {g2}, {1}, TRUE),
     From("sumistore", k2, {g1}, {}, FALSE),
     From("lehai", k1, {g2}, {}, FALSE), From("lehai", k3, {g1}, {}, FALSE)}

=============================================================================
