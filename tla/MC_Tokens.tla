----------------------------- MODULE MC_Tokens -----------------------------
(* Tokens with the connections and the accounts interchangeable. *)
EXTENDS Tokens, TLC

Symmetry == Permutations(Conns) \cup Permutations(Users)
=============================================================================
