----------------------------- MODULE VoteLedger -----------------------------
(***************************************************************************)
(* What the vote tables promise, with no transactions, locks or requests:  *)
(* duels appear, and each may receive one vote, which at once adds its row,*)
(* moves the ratings of its two films and counts one more duel for each.   *)
(* VoteRegistration implements this specification.                         *)
(***************************************************************************)
EXTENDS Elo, FiniteSets

CONSTANTS
  Film,           \* ids in the catalogue
  DuelId,         \* ids a duel may get
  NoDuel,         \* not a row of the duels table
  User, NoUser,   \* users.id, and NULL
  InitialRating, InitialCount, InitialDuels,   \* the tables at the start
  MaxSeq          \* bound: values vote_seq may take

Pair == {p \in Film \X Film : p[1] # p[2]}

ASSUME LedgerAssumption ==
  /\ Film \subseteq Nat /\ IsFiniteSet(Film)
  /\ NoDuel \notin Film \X Film
  /\ InitialRating \in [Film -> Int]
  /\ InitialCount \in [Film -> Nat]
  /\ InitialDuels \in [DuelId -> Pair \cup {NoDuel}]
  /\ MaxSeq \in Nat

VARIABLES
  rating, duelCount,   \* films.rating, films.duel_count
  duels,               \* the duels table: id to its two films
  votes                \* the votes table

vars == <<rating, duelCount, duels, votes>>

Row == [duel : DuelId, winner : Film, loser : Film, user : User \cup {NoUser},
        winnerAfter : Int, loserAfter : Int, seq : 1..MaxSeq]

Touches(v, f) == f \in {v.winner, v.loser}

RatingAfter(v, f) == IF f = v.winner THEN v.winnerAfter ELSE v.loserAfter

(* The ratings a win of w over l leads to, from ratings rs and counts cs.  *)
Result(rs, cs, w, l) ==
  CalculateRatings(rs[w], rs[l], FilmKFromDuelCount(cs[w]), FilmKFromDuelCount(cs[l]))

Init ==
  /\ rating = InitialRating /\ duelCount = InitialCount
  /\ duels = InitialDuels /\ votes = {}

OpenDuel(d, p) ==
  /\ duels[d] = NoDuel
  /\ duels' = [duels EXCEPT ![d] = p]
  /\ UNCHANGED <<rating, duelCount, votes>>

(* The row for a win of w over l in duel d, numbered s. *)
NewRow(d, w, l, u, s) ==
  LET after == Result(rating, duelCount, w, l)
  IN  [duel |-> d, winner |-> w, loser |-> l, user |-> u,
       winnerAfter |-> after.winner, loserAfter |-> after.loser, seq |-> s]

(* s comes after every vote either film already has, and is nobody's.      *)
Latest(s, w, l) ==
  \A v \in votes : v.seq # s /\ (Touches(v, w) \/ Touches(v, l) => v.seq < s)

Record(v) ==
  /\ votes' = votes \cup {v}
  /\ rating' = [rating EXCEPT ![v.winner] = v.winnerAfter, ![v.loser] = v.loserAfter]
  /\ duelCount' = [duelCount EXCEPT ![v.winner] = @ + 1, ![v.loser] = @ + 1]
  /\ UNCHANGED duels

CastVote(d, w, l, u, s) ==
  /\ duels[d] \in {<<w, l>>, <<l, w>>}
  /\ \A v \in votes : v.duel # d
  /\ Latest(s, w, l)
  /\ Record(NewRow(d, w, l, u, s))

Next ==
  \/ \E d \in DuelId, p \in Pair : OpenDuel(d, p)
  \/ \E d \in DuelId, p \in Pair, u \in User \cup {NoUser}, s \in 1..MaxSeq :
       CastVote(d, p[1], p[2], u, s)

Spec == Init /\ [][Next]_vars

-----------------------------------------------------------------------------
(* Type invariant. *)
TypeOK ==
  /\ rating \in [Film -> Int] /\ duelCount \in [Film -> Nat]
  /\ duels \in [DuelId -> Pair \cup {NoDuel}]
  /\ votes \subseteq Row

(* votes.duel_id is UNIQUE, a vote is about the two films of its duel, and *)
(* no two votes share an applied_seq.                                      *)
VotesFitDuels ==
  /\ \A v, w \in votes : v.duel = w.duel \/ v.seq = w.seq => v = w
  /\ \A v \in votes : duels[v.duel] \in {<<v.winner, v.loser>>, <<v.loser, v.winner>>}

(* films.rating is what the vote with the highest applied_seq of that film *)
(* wrote in its own row, or the initial rating of a film without votes.    *)
RatingIsLastVote ==
  \A f \in Film :
    \/ rating[f] = InitialRating[f] /\ \A v \in votes : ~Touches(v, f)
    \/ \E v \in votes : /\ Touches(v, f) /\ rating[f] = RatingAfter(v, f)
                        /\ \A w \in votes : Touches(w, f) => w.seq <= v.seq

(* CalculateRatings, vote after vote: the winner never falls, the loser    *)
(* never rises, neither moves by more than the K-factor its duel count gave*)
(* it before the vote, and no other film moves.                            *)
ResultMovesApart ==
  [][\A v \in votes' \ votes :
       /\ rating'[v.winner] - rating[v.winner] \in 0..FilmKFromDuelCount(duelCount[v.winner]) * Scale
       /\ rating[v.loser] - rating'[v.loser] \in 0..FilmKFromDuelCount(duelCount[v.loser]) * Scale
       /\ \A f \in Film \ {v.winner, v.loser} : rating'[f] = rating[f]]_vars

(* Between films past their twentieth duel, points only change hands.      *)
EstablishedPointsConserved ==
  [][\A v \in votes' \ votes :
       duelCount[v.winner] >= 20 /\ duelCount[v.loser] >= 20 =>
         rating'[v.winner] + rating'[v.loser] = rating[v.winner] + rating[v.loser]]_vars

(* The rating and count of every film, before and after the vote v.        *)
Applied(prev, v) ==
  LET res == Result(prev.rating, prev.count, v.winner, v.loser)
  IN  [rating |-> [prev.rating EXCEPT ![v.winner] = res.winner, ![v.loser] = res.loser],
       count  |-> [prev.count EXCEPT ![v.winner] = @ + 1, ![v.loser] = @ + 1]]

(* The vote of vs with number n, if there is one, applied. *)
ReplayOne(vs, prev, n) ==
  LET now == {v \in vs : v.seq = n}
  IN  IF now = {} THEN prev ELSE Applied(prev, CHOOSE v \in now : TRUE)

(* All votes applied in the order of their numbers. *)
Replay ==
  LET after[n \in 0..MaxSeq] ==
        IF n = 0 THEN [rating |-> InitialRating, count |-> InitialCount]
        ELSE ReplayOne(votes, after[n - 1], n)
  IN  after[MaxSeq]

(* No vote is lost or computed from stale numbers: playing the votes table *)
(* back in applied_seq order gives the ratings and counts of films.        *)
RatingsReplay == Replay.rating = rating /\ Replay.count = duelCount
=============================================================================
