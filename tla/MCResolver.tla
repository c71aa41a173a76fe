----------------------------- MODULE MCResolver -----------------------------
(***************************************************************************)
(* Instances of Resolver for TLC.                                          *)
(***************************************************************************)
EXTENDS Resolver

CONSTANTS n1, a1, pk1, k1, k2, b1, b2, w1

oneSecond == [b \in Bodies |-> 1]
=============================================================================
