------------------------------- MODULE Loops --------------------------------
(***************************************************************************)
(* The loop by which the contracts' views copy the elements that pass a    *)
(* test, in their order (activeResolvers, listRecords).  It is SelectSeq   *)
(* with a set for the test, written so that proofs can follow its rounds.  *)
(***************************************************************************)
EXTENDS Naturals, Sequences

Subsequence(seq, A) ==
    LET kept[i \in 0..Len(seq)] ==
          IF i = 0 THEN << >>
          ELSE IF seq[i] \in A THEN Append(kept[i - 1], seq[i]) ELSE kept[i - 1]
    IN  kept[Len(seq)]
=============================================================================
