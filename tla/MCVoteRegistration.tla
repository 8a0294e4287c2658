------------------------ MODULE MCVoteRegistration ------------------------
(* Values of the constants of VoteRegistration for TLC. *)
EXTENDS VoteRegistration, TLC

(* A curve of five steps. *)
MCExpect == [g \in -30..30 |-> IF g < -19 THEN 0 ELSE IF g < 0 THEN 1
                               ELSE IF g = 0 THEN 2 ELSE IF g < 20 THEN 3 ELSE 4]

(* Three films: the K-factor of film 2 stops falling during the run.  Two  *)
(* duels that share film 2, and no id left for another.                    *)
ThreeRatings == <<StdRating, StdRating, StdRating + 40>>
ThreeCounts == <<0, 19, 30>>
TwoDuels == (1 :> <<2, 1>>) @@ (2 :> <<2, 3>>)

(* Two films and one duel between them, and one id for the next.           *)
TwoRatings == <<StdRating, StdRating + 40>>
TwoCounts == <<0, 19>>
OneDuel == (1 :> <<2, 1>>) @@ (2 :> NoDuel)

(* Two films that have not met. *)
NoDuels == (1 :> NoDuel) @@ (2 :> NoDuel)

Symmetry == Permutations(Request)
=============================================================================
