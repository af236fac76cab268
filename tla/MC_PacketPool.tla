-------------------------- MODULE MC_PacketPool ---------------------------
(* Small instances of PacketPool for TLC. *)
EXTENDS PacketPool, TLC

Symmetry == Permutations(Threads)
=============================================================================
