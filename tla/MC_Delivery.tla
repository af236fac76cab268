---------------------------- MODULE MC_Delivery ----------------------------
(* Instances of Delivery for TLC. *)
EXTENDS Delivery, TLC

Symmetry == Permutations(Workers) \cup Permutations(Packets)

=============================================================================
