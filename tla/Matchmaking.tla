---------------------------- MODULE Matchmaking ----------------------------
(***************************************************************************)
(* How the next opponent of a film is chosen: the FindCandidates query,    *)
(* candidateWeight and DrawFromCandidates.  Ratings, popularity and duel   *)
(* counts are what the query reads; weights are whole numbers, a           *)
(* popularity weight and a boost being given as whole factors.             *)
(***************************************************************************)
EXTENDS Integers, FiniteSets, Sequences, FiniteSetsExt, SequencesExt

CONSTANTS
  Film,                 \* ids in the catalogue
  MinCandidates,        \* MINIMUM_CANDIDATES
  MaxCandidates,        \* MAXIMUM_CANDIDATES
  RatingWindow,         \* DUEL_RATING_WINDOW
  PopularityWeight,     \* DUEL_POPULARITY_WEIGHT
  NewFilmBoost,         \* DUEL_NEW_FILM_BOOST
  NewFilmDuelThreshold  \* DUEL_NEW_FILM_THRESHOLD

(* What config.Load insists on, and the column types. *)
ASSUME MatchmakingAssumption ==
  /\ IsFiniteSet(Film) /\ Film \subseteq Nat
  /\ MinCandidates \in Nat \ {0} /\ MaxCandidates \in Nat /\ MinCandidates <= MaxCandidates
  /\ RatingWindow \in Int /\ PopularityWeight \in Nat
  /\ NewFilmBoost \in Nat /\ NewFilmDuelThreshold \in Int

-----------------------------------------------------------------------------
RatingDistance(rating, f, winner) ==
  IF rating[f] >= rating[winner] THEN rating[f] - rating[winner] ELSE rating[winner] - rating[f]

InWindow(rating, f, winner) == RatingDistance(rating, f, winner) <= RatingWindow

(* SELECT ... FROM S ORDER BY distance to the winner LIMIT n: the ways the *)
(* database may answer, films at the same distance coming in any order.    *)
Closest(rating, S, winner, n) ==
  {T \in kSubset(IF n < Cardinality(S) THEN n ELSE Cardinality(S), S) :
     \A t \in T, s \in S \ T : RatingDistance(rating, t, winner) <= RatingDistance(rating, s, winner)}

(* A winner id that is not in the catalogue joins with no row. *)
Others(winner) == IF winner \in Film THEN Film \ {winner} ELSE {}

FindCandidatesUncapped(rating, winner) ==
  UNION {Closest(rating, C, winner,
                 Max({Cardinality({f \in C : InWindow(rating, f, winner)}), MinCandidates})) :
           C \in {Others(winner)}}

FindCandidates(rating, winner) ==
  UNION {Closest(rating, C, winner,
                 Max({Cardinality({f \in C : InWindow(rating, f, winner)}), MinCandidates})) :
           C \in Closest(rating, Others(winner), winner, MaxCandidates)}

(***************************************************************************)
(* candidateWeight: never below one, so that a film of popularity zero can *)
(* still be drawn.                                                         *)
(***************************************************************************)
CandidateWeightNoBaseline(popularity, duelCount, f) ==
  popularity[f] * PopularityWeight
    * (IF NewFilmBoost > 1 /\ duelCount[f] < NewFilmDuelThreshold THEN NewFilmBoost ELSE 1)

CandidateWeight(popularity, duelCount, f) ==
  (1 + popularity[f] * PopularityWeight)
    * (IF NewFilmBoost > 1 /\ duelCount[f] < NewFilmDuelThreshold THEN NewFilmBoost ELSE 1)

(***************************************************************************)
(* DrawFromCandidates: subtract each weight from r in turn and take the    *)
(* candidate that brings it below zero; the last one if none does.         *)
(***************************************************************************)
PrefixWeight(candidates, weight, i) ==
  LET sum[n \in 0..Len(candidates)] ==
        IF n = 0 THEN 0 ELSE sum[n - 1] + weight[candidates[n]]
  IN  sum[i]

DrawFromCandidatesOffByOne(candidates, weight, r) ==
  LET hits == {i \in 1..Len(candidates) : r - PrefixWeight(candidates, weight, i) <= 0}
  IN  candidates[IF hits = {} THEN Len(candidates) ELSE Min(hits)]

DrawFromCandidates(candidates, weight, r) ==
  LET hits == {i \in 1..Len(candidates) : r - PrefixWeight(candidates, weight, i) < 0}
  IN  candidates[IF hits = {} THEN Len(candidates) ELSE Min(hits)]
=============================================================================
