----------------------------- MODULE MCPayments -----------------------------
(***************************************************************************)
(* An instance of ResolverIncentives and PaymentCLI for TLC: the contract  *)
(* is called by anybody in any order, or through the commands only.        *)
(* MAX_UINT64 is so small that a long lifetime overflows.                  *)
(***************************************************************************)
EXTENDS PaymentCLI, TLC

CONSTANTS a1, a2, p1, p2

VARIABLE byCommand

accountOf == p1 :> a1 @@ p2 :> a2

(* With four wei to the ether, three eighths are one and a half wei, and   *)
(* an eighth is less than one.                                             *)
eighths(n) == [num |-> n, den |-> 8]
amounts == {eighths(1), eighths(3), eighths(6)}

openings == {[client |-> a1, resolver |-> a2, amount |-> eighths(3), duration |-> 0],
             [client |-> a1, resolver |-> a2, amount |-> eighths(6), duration |-> 3]}

MCInit == byCommand \in BOOLEAN /\ PayInit

MCNext ==
    /\ UNCHANGED byCommand
    /\ \/ byCommand /\ PayNext
       \/ ~byCommand /\ Next /\ UNCHANGED payVars

MCSpec == MCInit /\ [][MCNext]_<<vars, payVars, byCommand>>
=============================================================================
