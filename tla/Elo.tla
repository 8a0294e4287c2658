-------------------------------- MODULE Elo --------------------------------
(***************************************************************************)
(* The rating arithmetic of internal/film/film.go, in fixed point: a       *)
(* rating is a whole number of units of 1/Scale point.  The logistic curve *)
(* 1/(1+10^(gap/400)) is the table Expect, of which only its shape is      *)
(* assumed; the K-factors are the code's own numbers.                      *)
(***************************************************************************)
EXTENDS Integers

CONSTANTS
  Scale,     \* units per rating point; an expected score is out of Scale
  MaxGap,    \* gaps are clamped to -MaxGap..MaxGap points: a bound of the table
  Expect     \* Expect[g]: score expected of a film g points above its opponent

(***************************************************************************)
(* What the code's formula guarantees of the curve: the two expected       *)
(* scores of a duel add up to one, a better film expects more, and nobody  *)
(* expects more than the whole point.                                      *)
(***************************************************************************)
ASSUME EloAssumption ==
  /\ Scale \in Nat \ {0}
  /\ MaxGap \in Nat
  /\ Expect \in [-MaxGap..MaxGap -> 0..Scale]
  /\ \A g \in -MaxGap..MaxGap : Expect[g] + Expect[-g] = Scale
  /\ \A g, h \in -MaxGap..MaxGap : g <= h => Expect[g] <= Expect[h]

StdRating == 1400 * Scale

(***************************************************************************)
(* FilmKFromDuelCount: 40 for a film nobody has dueled, down by one per    *)
(* duel, 20 from the twentieth duel on.                                    *)
(***************************************************************************)
FilmKFromDuelCountLongRamp(duelcount) == IF duelcount < 30 THEN 40 - duelcount ELSE 20

FilmKFromDuelCount(duelcount) == IF duelcount < 20 THEN 40 - duelcount ELSE 20

(***************************************************************************)
(* The gap, in points, between two ratings, rounded towards zero and       *)
(* clamped to the table.  It is antisymmetric in its arguments.            *)
(***************************************************************************)
Gap(rating, opponent) ==
  LET points == IF rating >= opponent THEN (rating - opponent) \div Scale
                                      ELSE -((opponent - rating) \div Scale)
  IN  IF points > MaxGap THEN MaxGap ELSE IF points < -MaxGap THEN -MaxGap ELSE points

(***************************************************************************)
(* CalculateRatings: winner + K_w * (1 - E_w) and loser + K_l * (0 - E_l). *)
(***************************************************************************)
ExpectedScore(rating, opponent) == Expect[Gap(rating, opponent)]

CalculateRatingsUnsigned(winnerRating, loserRating, winnerK, loserK) ==
  [winner |-> winnerRating + winnerK * (Scale - ExpectedScore(winnerRating, loserRating)),
   loser  |-> loserRating + loserK * ExpectedScore(loserRating, winnerRating)]

CalculateRatings(winnerRating, loserRating, winnerK, loserK) ==
  [winner |-> winnerRating + winnerK * (Scale - ExpectedScore(winnerRating, loserRating)),
   loser  |-> loserRating - loserK * ExpectedScore(loserRating, winnerRating)]
=============================================================================
