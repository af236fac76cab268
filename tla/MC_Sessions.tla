---------------------------- MODULE MC_Sessions ----------------------------
(* Sessions with workers, handles and users interchangeable. *)
EXTENDS Sessions, TLC

Symmetry == Permutations(Workers) \cup Permutations(Sockets) \cup Permutations(Users)
              \cup Permutations(Slots)
=============================================================================
