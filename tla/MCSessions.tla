----------------------------- MODULE MCSessions -----------------------------
(* Symmetries of Sessions for TLC. *)
EXTENDS Sessions, TLC

Symmetry == Permutations(Request) \cup Permutations(Browser) \cup Permutations(User)
              \cup Permutations(SessionId)
=============================================================================
