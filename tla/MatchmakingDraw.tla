-------------------------- MODULE MatchmakingDraw --------------------------
(***************************************************************************)
(* DuelFromFilm over every small catalogue: ask for an opponent of a film  *)
(* (or of an id that is not in the catalogue), read the candidates, draw   *)
(* one, and let it be the next film asked about.                           *)
(***************************************************************************)
EXTENDS Matchmaking

CONSTANTS
  UnknownFilm,    \* an id that is not in the catalogue
  Ratings,        \* the ratings films may have
  Profiles        \* the [popularity, duelCount] a catalogue may have

ASSUME DrawAssumption ==
  /\ UnknownFilm \notin Film /\ Ratings \subseteq Int
  /\ Profiles \subseteq [popularity : [Film -> Nat], duelCount : [Film -> Nat]]

VARIABLES
  rating, profile,   \* the catalogue
  winner,            \* the film DuelFromFilm was called with
  phase,             \* where DuelFromFilm is
  candidates,        \* what FindCandidates answered, in order
  opponent           \* the film drawn

vars == <<rating, profile, winner, phase, candidates, opponent>>

Weight == [f \in Film |-> CandidateWeight(profile.popularity, profile.duelCount, f)]

Total == PrefixWeight(candidates, Weight, Len(candidates))

Init ==
  /\ rating \in [Film -> Ratings]
  /\ profile \in Profiles
  /\ winner \in Film \cup {UnknownFilm}
  /\ phase = "asked" /\ candidates = <<>> /\ opponent = UnknownFilm

(* FindCandidates, nearest first. *)
Find ==
  /\ phase = "asked"
  /\ \E pool \in FindCandidates(rating, winner) : \E order \in SetToSeqs(pool) :
       /\ \A i, j \in 1..Len(order) : i < j =>
            RatingDistance(rating, order[i], winner) <= RatingDistance(rating, order[j], winner)
       /\ candidates' = order
  /\ phase' = "found"
  /\ UNCHANGED <<rating, profile, winner, opponent>>

(* len(candidates) == 0: ErrNoCandidates. *)
NoCandidates ==
  /\ phase = "found" /\ candidates = <<>>
  /\ phase' = "none"
  /\ UNCHANGED <<rating, profile, winner, candidates, opponent>>

(* DrawFromCandidates with r over every value of the random number. *)
Draw ==
  /\ phase = "found" /\ candidates # <<>>
  /\ \E r \in 0..Total - 1 : opponent' = DrawFromCandidates(candidates, Weight, r)
  /\ phase' = "drawn"
  /\ UNCHANGED <<rating, profile, winner, candidates>>

(* The next vote of the page: the film drawn wins and stays. *)
AskAgain ==
  /\ phase = "drawn"
  /\ winner' = opponent /\ opponent' = UnknownFilm
  /\ phase' = "asked" /\ candidates' = <<>>
  /\ UNCHANGED <<rating, profile>>

Next == Find \/ NoCandidates \/ Draw \/ AskAgain

Spec == Init /\ [][Next]_vars

-----------------------------------------------------------------------------
(* FindCandidates against the README: "the films closest to the winner in  *)
(* rating - at most MAXIMUM_CANDIDATES, filtered to a window, then padded  *)
(* back up to MINIMUM_CANDIDATES with the next-closest films".             *)
DocumentedSize(w) ==
  LET within == Cardinality({f \in Others(w) : InWindow(rating, f, w)})
  IN  Max({Min({within, MaxCandidates}), Min({MinCandidates, Cardinality(Others(w))})})

PoolAsDocumented ==
  phase = "asked" =>
    FindCandidates(rating, winner) =
      {P \in SUBSET Others(winner) :
         /\ Cardinality(P) = DocumentedSize(winner)
         /\ \A p \in P, q \in Others(winner) \ P :
              RatingDistance(rating, p, winner) <= RatingDistance(rating, q, winner)}

(* Every candidate can come up, popularity zero or not, and over the values*)
(* of the random number each comes up in proportion to its weight.         *)
DrawnInProportion ==
  phase = "found" =>
    \A f \in Range(candidates) :
      /\ Weight[f] > 0
      /\ Cardinality({r \in 0..Total - 1 : DrawFromCandidates(candidates, Weight, r) = f})
           = Weight[f]
=============================================================================
