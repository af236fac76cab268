--------------------------- MODULE MC_MpscQueue ----------------------------
(* Small instances of MpscQueue for TLC. *)
EXTENDS MpscQueue, TLC

Symmetry == Permutations(Producers) \cup Permutations(Nodes)
=============================================================================
