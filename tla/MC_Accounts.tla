---------------------------- MODULE MC_Accounts ----------------------------
(* Accounts with workers, addresses and names interchangeable. *)
EXTENDS Accounts, TLC

Symmetry == Permutations(Workers) \cup Permutations(Emails) \cup Permutations(Names)
=============================================================================
