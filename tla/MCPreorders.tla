----------------------------- MODULE MCPreorders -----------------------------
(***************************************************************************)
(* Instances of Preorders for TLC.                                         *)
(***************************************************************************)
EXTENDS Preorders

CONSTANTS u1, u2

\* u1 was invited by u2.
MCReferrer == [u \in User |-> IF u = u1 /\ u2 \in User THEN u2 ELSE NoUser]
=============================================================================
