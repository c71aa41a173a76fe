--------------------------- MODULE MCTorrentEngine ---------------------------
(***************************************************************************)
(* Instances of TorrentEngine for TLC.  Neither the infohashes nor the     *)
(* goroutines are told apart.                                              *)
(***************************************************************************)
EXTENDS TorrentEngine, TLC

CONSTANTS x, y, z, f1, f2, s1

Symmetry == Permutations(Hashes) \cup Permutations(Fetchers)
=============================================================================
