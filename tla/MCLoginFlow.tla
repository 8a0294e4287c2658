---------------------------- MODULE MCLoginFlow -----------------------------
(* Symmetries of LoginFlow for TLC. *)
EXTENDS LoginFlow, TLC

Symmetry == Permutations(Request) \cup Permutations(Browser) \cup Permutations(Challenge)
=============================================================================
