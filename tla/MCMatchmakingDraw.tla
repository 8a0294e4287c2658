------------------------- MODULE MCMatchmakingDraw -------------------------
(* Values of the constants of MatchmakingDraw for TLC. *)
EXTENDS MatchmakingDraw

MCFilm == 1..5

(* Equal, within the window of 2, on its edge and far outside it. *)
MCRatings == {0, 2, 3, 9}

MCProfiles ==
  {[popularity |-> <<0, 0, 0, 0, 0>>, duelCount |-> <<0, 2, 5, 3, 9>>],
   [popularity |-> <<0, 2, 1, 0, 2>>, duelCount |-> <<3, 3, 2, 0, 1>>]}
=============================================================================
