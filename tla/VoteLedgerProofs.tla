-------------------------- MODULE VoteLedgerProofs --------------------------
(***************************************************************************)
(* Proofs about the rating arithmetic, for every curve that meets          *)
(* EloAssumption, and about the ledger: its types, that votes fit their    *)
(* duels, that a film's rating is what its last vote says, and that the    *)
(* votes replay to the ratings and counts of films.                        *)
(***************************************************************************)
EXTENDS VoteLedger, TLAPS, WellFoundedInduction, FiniteSetTheorems

(* A gap is always one of the table's, and the opponent's gap is its       *)
(* opposite.                                                               *)
LEMMA GapInTable ==
  ASSUME NEW r \in Int, NEW o \in Int
  PROVE  Gap(r, o) \in -MaxGap..MaxGap /\ Gap(o, r) = -Gap(r, o)
<1> DEFINE up(x, y) == (x - y) \div Scale
<1>1. Scale \in Nat \ {0} /\ MaxGap \in Nat
  BY EloAssumption DEF EloAssumption
<1>2. up(r, o) \in Int /\ up(o, r) \in Int
  BY <1>1
<1>3. r = o => up(r, o) = 0 /\ up(o, r) = 0
  BY <1>1
<1> DEFINE points(x, y) == IF x >= y THEN up(x, y) ELSE -up(y, x)
           clamp(p) == IF p > MaxGap THEN MaxGap ELSE IF p < -MaxGap THEN -MaxGap ELSE p
<1>4. Gap(r, o) = clamp(points(r, o)) /\ Gap(o, r) = clamp(points(o, r))
  BY DEF Gap
<1> HIDE DEF up
<1>5. points(r, o) \in Int /\ points(o, r) = -points(r, o)
  BY <1>2, <1>3
<1> HIDE DEF points
<1>6. ASSUME NEW p \in Int PROVE clamp(p) \in -MaxGap..MaxGap /\ clamp(-p) = -clamp(p)
  BY <1>1
<1> QED
  BY <1>4, <1>5, <1>6

(* Both expected scores are scores, and add up to one.                     *)
LEMMA ExpectedScoresAddUp ==
  ASSUME NEW r \in Int, NEW o \in Int
  PROVE  /\ ExpectedScore(r, o) \in 0..Scale
         /\ ExpectedScore(r, o) + ExpectedScore(o, r) = Scale
<1> DEFINE g == Gap(r, o)
<1>1. g \in -MaxGap..MaxGap /\ Gap(o, r) = -g
  BY GapInTable
<1>2. ExpectedScore(r, o) = Expect[g] /\ ExpectedScore(o, r) = Expect[-g]
  BY <1>1 DEF ExpectedScore
<1> HIDE DEF g
<1>3. Expect[g] \in 0..Scale /\ Expect[g] + Expect[-g] = Scale
  BY <1>1, EloAssumption DEF EloAssumption
<1> QED
  BY <1>2, <1>3

(* FilmKFromDuelCount lies between 20 and 40 and never rises with the count. *)
LEMMA KBounds ==
  ASSUME NEW n \in Nat
  PROVE  /\ FilmKFromDuelCount(n) \in 20..40
         /\ FilmKFromDuelCount(n + 1) <= FilmKFromDuelCount(n)
         /\ n >= 20 => FilmKFromDuelCount(n) = 20
BY DEF FilmKFromDuelCount

(* The product of a K-factor and a score stays within the K-factor.        *)
LEMMA StakeBounded ==
  ASSUME NEW k \in Nat, NEW e \in Nat, NEW s \in Nat, e <= s
  PROVE  k * e \in Nat /\ k * e <= k * s /\ k * s \in Nat
<1>1. k * e \in Nat /\ k * s \in Nat /\ k * (s - e) \in Nat
  <2>1. s - e \in Nat
    OBVIOUS
  <2> QED
    BY <2>1
<1>2. k * s = k * e + k * (s - e)
  OBVIOUS
<1> QED
  BY <1>1, <1>2

(* CalculateRatings: for every pair of ratings and K-factors the winner    *)
(* gains between nothing and its whole K, the loser loses likewise, and    *)
(* with equal K-factors what one gains the other loses.                    *)
THEOREM CalculateRatingsMovesApart ==
  ASSUME NEW w \in Int, NEW l \in Int, NEW kw \in Nat, NEW kl \in Nat
  PROVE  LET after == CalculateRatings(w, l, kw, kl)
         IN  /\ after \in [winner : Int, loser : Int]
             /\ after.winner - w \in 0..kw * Scale
             /\ l - after.loser \in 0..kl * Scale
             /\ kw = kl => after.winner + after.loser = w + l
<1> DEFINE e == ExpectedScore(w, l)
           d == ExpectedScore(l, w)
<1>1. Scale \in Nat /\ e \in Nat /\ d \in Nat /\ e <= Scale /\ d <= Scale /\ Scale - e = d
  <2>1. e \in 0..Scale /\ d \in 0..Scale /\ e + d = Scale
    BY ExpectedScoresAddUp
  <2>2. Scale \in Nat
    BY EloAssumption DEF EloAssumption
  <2> HIDE DEF e, d
  <2> QED
    BY <2>1, <2>2
<1>2. CalculateRatings(w, l, kw, kl) = [winner |-> w + kw * d, loser |-> l - kl * d]
  BY <1>1 DEF CalculateRatings
<1> HIDE DEF e, d
<1>3. kw * d \in Nat /\ kw * d <= kw * Scale /\ kw * Scale \in Nat
  BY <1>1, StakeBounded
<1>4. kl * d \in Nat /\ kl * d <= kl * Scale /\ kl * Scale \in Nat
  BY <1>1, StakeBounded
<1>5. kw = kl => kw * d = kl * d
  OBVIOUS
<1> DEFINE x == kw * d  y == kl * d  xs == kw * Scale  ys == kl * Scale
<1> HIDE DEF x, y, xs, ys
<1>6. x \in Nat /\ x <= xs /\ xs \in Nat /\ y \in Nat /\ y <= ys /\ ys \in Nat /\ (kw = kl => x = y)
  BY <1>3, <1>4, <1>5 DEF x, y, xs, ys
<1>7. CalculateRatings(w, l, kw, kl) = [winner |-> w + x, loser |-> l - y]
  BY <1>2 DEF x, y
<1>8. (w + x) - w \in 0..xs /\ l - (l - y) \in 0..ys /\ (kw = kl => (w + x) + (l - y) = w + l)
  BY <1>6
<1> QED
  BY <1>6, <1>7, <1>8 DEF xs, ys

-----------------------------------------------------------------------------
(* The ledger.                                                             *)

(* The ratings a vote computes are whole numbers.                          *)
LEMMA ResultType ==
  ASSUME NEW rs \in [Film -> Int], NEW cs \in [Film -> Nat], NEW w \in Film, NEW l \in Film
  PROVE  Result(rs, cs, w, l) \in [winner : Int, loser : Int]
<1>1. FilmKFromDuelCount(cs[w]) \in Nat /\ FilmKFromDuelCount(cs[l]) \in Nat
  <2>1. FilmKFromDuelCount(cs[w]) \in 20..40 /\ FilmKFromDuelCount(cs[l]) \in 20..40
    BY KBounds
  <2> QED
    BY <2>1
<1>2. CalculateRatings(rs[w], rs[l], FilmKFromDuelCount(cs[w]), FilmKFromDuelCount(cs[l]))
        \in [winner : Int, loser : Int]
  BY <1>1, CalculateRatingsMovesApart
<1> QED
  BY <1>2 DEF Result

(* What one vote does to the tables, field by field.                       *)
LEMMA CastVoteEffect ==
  ASSUME TypeOK, NEW d \in DuelId, NEW p \in Pair,
         NEW u \in User \cup {NoUser}, NEW s \in 1..MaxSeq, CastVote(d, p[1], p[2], u, s)
  PROVE  LET v == NewRow(d, p[1], p[2], u, s)
         IN  /\ v \in Row /\ v.duel = d /\ v.winner = p[1] /\ v.loser = p[2] /\ v.seq = s
             /\ votes' = votes \cup {v}
             /\ rating' \in [Film -> Int]
             /\ rating'[p[1]] = v.winnerAfter /\ rating'[p[2]] = v.loserAfter
             /\ \A f \in Film \ {p[1], p[2]} : rating'[f] = rating[f]
             /\ duelCount' \in [Film -> Nat]
             /\ duels' = duels
<1> DEFINE v == NewRow(d, p[1], p[2], u, s)
<1>0. p[1] \in Film /\ p[2] \in Film /\ p[1] # p[2]
  BY DEF Pair
<1>1. Result(rating, duelCount, p[1], p[2]) \in [winner : Int, loser : Int]
  BY <1>0, ResultType DEF TypeOK
<1>2. v \in Row /\ v.duel = d /\ v.winner = p[1] /\ v.loser = p[2] /\ v.seq = s
  BY <1>0, <1>1 DEF NewRow, Row
<1>3. v.winnerAfter \in Int /\ v.loserAfter \in Int
  BY <1>2 DEF Row
<1>4. Record(v)
  BY DEF CastVote
<1> HIDE DEF v
<1> SUFFICES /\ votes' = votes \cup {v}
             /\ rating' \in [Film -> Int]
             /\ rating'[p[1]] = v.winnerAfter /\ rating'[p[2]] = v.loserAfter
             /\ \A f \in Film \ {p[1], p[2]} : rating'[f] = rating[f]
             /\ duelCount' \in [Film -> Nat]
             /\ duels' = duels
  BY <1>2 DEF v
<1> QED
  BY <1>0, <1>2, <1>3, <1>4 DEF Record, TypeOK

LEMMA CastVoteRatings ==
  ASSUME TypeOK, NEW d \in DuelId, NEW p \in Pair,
         NEW u \in User \cup {NoUser}, NEW s \in 1..MaxSeq, CastVote(d, p[1], p[2], u, s)
  PROVE  /\ rating'[p[1]] = NewRow(d, p[1], p[2], u, s).winnerAfter
         /\ rating'[p[2]] = NewRow(d, p[1], p[2], u, s).loserAfter
         /\ NewRow(d, p[1], p[2], u, s).seq = s
<1> DEFINE v == NewRow(d, p[1], p[2], u, s)
<1>1. /\ v \in Row /\ v.duel = d /\ v.winner = p[1] /\ v.loser = p[2] /\ v.seq = s
      /\ votes' = votes \cup {v}
      /\ rating' \in [Film -> Int]
      /\ rating'[p[1]] = v.winnerAfter /\ rating'[p[2]] = v.loserAfter
      /\ \A f \in Film \ {p[1], p[2]} : rating'[f] = rating[f]
      /\ duelCount' \in [Film -> Nat]
      /\ duels' = duels
  BY CastVoteEffect
<1> HIDE DEF v
<1>2. rating'[p[1]] = v.winnerAfter /\ rating'[p[2]] = v.loserAfter /\ v.seq = s
  BY <1>1
<1> QED
  BY <1>2 DEF v

(* How far a vote moves its two films, and that its row is a new one.      *)
LEMMA CastVoteMoves ==
  ASSUME TypeOK, NEW d \in DuelId, NEW p \in Pair,
         NEW u \in User \cup {NoUser}, NEW s \in 1..MaxSeq, CastVote(d, p[1], p[2], u, s)
  PROVE  /\ rating'[p[1]] - rating[p[1]] \in 0..FilmKFromDuelCount(duelCount[p[1]]) * Scale
         /\ rating[p[2]] - rating'[p[2]] \in 0..FilmKFromDuelCount(duelCount[p[2]]) * Scale
         /\ rating'[p[1]] >= rating[p[1]] /\ rating'[p[2]] <= rating[p[2]]
         /\ duelCount[p[1]] >= 20 /\ duelCount[p[2]] >= 20 =>
              rating'[p[1]] + rating'[p[2]] = rating[p[1]] + rating[p[2]]
         /\ NewRow(d, p[1], p[2], u, s) \notin votes
<1> DEFINE kw == FilmKFromDuelCount(duelCount[p[1]])
           kl == FilmKFromDuelCount(duelCount[p[2]])
           after == CalculateRatings(rating[p[1]], rating[p[2]], kw, kl)
           v == NewRow(d, p[1], p[2], u, s)
<1>1. p[1] \in Film /\ p[2] \in Film /\ p[1] # p[2]
  BY DEF Pair
<1>2. kw \in Nat /\ kl \in Nat /\ (duelCount[p[1]] >= 20 /\ duelCount[p[2]] >= 20 => kw = kl)
  <2>1. duelCount[p[1]] \in Nat /\ duelCount[p[2]] \in Nat
    BY <1>1 DEF TypeOK
  <2>2. kw \in 20..40 /\ kl \in 20..40
    BY <2>1, KBounds
  <2> QED
    BY <2>1, <2>2 DEF FilmKFromDuelCount
<1>3. rating[p[1]] \in Int /\ rating[p[2]] \in Int
  BY <1>1 DEF TypeOK
<1>4. Scale \in Nat
  BY EloAssumption DEF EloAssumption
<1> DEFINE xs == kw * Scale  ys == kl * Scale
<1>5. xs \in Nat /\ ys \in Nat
  BY <1>2, <1>4
<1>6. /\ after.winner \in Int /\ after.loser \in Int
      /\ after.winner - rating[p[1]] \in 0..xs
      /\ rating[p[2]] - after.loser \in 0..ys
      /\ kw = kl => after.winner + after.loser = rating[p[1]] + rating[p[2]]
  BY <1>2, <1>3, CalculateRatingsMovesApart
<1>7. v.winnerAfter = after.winner /\ v.loserAfter = after.loser
  BY DEF NewRow, Result
<1>8. rating'[p[1]] = v.winnerAfter /\ rating'[p[2]] = v.loserAfter /\ v.seq = s
  BY CastVoteRatings
<1>9. v \notin votes
  BY <1>8 DEF CastVote, Latest
<1> HIDE DEF kw, kl, after, v, xs, ys
<1>10. /\ rating'[p[1]] - rating[p[1]] \in 0..xs /\ rating[p[2]] - rating'[p[2]] \in 0..ys
       /\ rating'[p[1]] >= rating[p[1]] /\ rating'[p[2]] <= rating[p[2]]
       /\ duelCount[p[1]] >= 20 /\ duelCount[p[2]] >= 20 =>
            rating'[p[1]] + rating'[p[2]] = rating[p[1]] + rating[p[2]]
  BY <1>2, <1>3, <1>5, <1>6, <1>7, <1>8
<1> QED
  BY <1>9, <1>10 DEF v, kw, kl, xs, ys

(* No step of the ledger breaks its types.                                 *)
LEMMA LedgerTypeStep == TypeOK /\ [Next]_vars => TypeOK'
<1> SUFFICES ASSUME TypeOK, [Next]_vars PROVE TypeOK'
  OBVIOUS
<1>1. ASSUME NEW d \in DuelId, NEW p \in Pair, OpenDuel(d, p) PROVE TypeOK'
  BY <1>1 DEF OpenDuel, TypeOK
<1>2. ASSUME NEW d \in DuelId, NEW p \in Pair, NEW u \in User \cup {NoUser},
             NEW s \in 1..MaxSeq, CastVote(d, p[1], p[2], u, s)
      PROVE  TypeOK'
  <2>1. LET v == NewRow(d, p[1], p[2], u, s)
        IN  /\ v \in Row /\ votes' = votes \cup {v} /\ duels' = duels
            /\ rating' \in [Film -> Int] /\ duelCount' \in [Film -> Nat]
    BY <1>2, CastVoteEffect
  <2> QED
    BY <2>1 DEF TypeOK
<1>3. CASE UNCHANGED vars
  BY <1>3 DEF vars, TypeOK
<1> QED
  BY <1>1, <1>2, <1>3 DEF Next

(* Type correctness of the ledger.                                         *)
LEMMA LedgerTyping == Spec => []TypeOK
<1>1. Init => TypeOK
  BY LedgerAssumption DEF Init, TypeOK, LedgerAssumption, Pair
<1> QED
  BY <1>1, LedgerTypeStep, PTL DEF Spec

(* UNIQUE duel_id, a vote is on the films of its duel, applied_seq is      *)
(* nobody else's: for any catalogue and any number of duels.               *)
THEOREM LedgerVotesFitDuels == Spec => []VotesFitDuels
<1>1. Init => VotesFitDuels
  BY DEF Init, VotesFitDuels
<1>2. TypeOK /\ VotesFitDuels /\ [Next]_vars => VotesFitDuels'
  <2> SUFFICES ASSUME TypeOK, VotesFitDuels, [Next]_vars PROVE VotesFitDuels'
    OBVIOUS
  <2>1. ASSUME NEW d \in DuelId, NEW p \in Pair, OpenDuel(d, p) PROVE VotesFitDuels'
    <3>1. \A v \in votes : v.duel \in DuelId /\ v.winner \in Film /\ v.loser \in Film
      BY DEF TypeOK, Row
    <3>2. \A v \in votes : v.duel # d
      BY <2>1, <3>1, LedgerAssumption DEF OpenDuel, VotesFitDuels, LedgerAssumption
    <3>3. votes' = votes /\ \A v \in votes : duels'[v.duel] = duels[v.duel]
      BY <2>1, <3>1, <3>2 DEF OpenDuel, TypeOK
    <3> QED
      BY <3>3 DEF VotesFitDuels
  <2>2. ASSUME NEW d \in DuelId, NEW p \in Pair, NEW u \in User \cup {NoUser},
               NEW s \in 1..MaxSeq, CastVote(d, p[1], p[2], u, s)
        PROVE  VotesFitDuels'
    <3> DEFINE v == NewRow(d, p[1], p[2], u, s)
    <3>1. p[1] \in Film /\ p[2] \in Film /\ p[1] # p[2]
      BY DEF Pair
    <3>2. v.duel = d /\ v.winner = p[1] /\ v.loser = p[2] /\ v.seq = s
          /\ votes' = votes \cup {v} /\ duels' = duels
      BY <2>2, <3>1, CastVoteEffect
    <3>3. /\ duels[d] \in {<<p[1], p[2]>>, <<p[2], p[1]>>}
          /\ \A x \in votes : x.duel # d /\ x.seq # s
      BY <2>2 DEF CastVote, Latest
    <3> HIDE DEF v
    <3> QED
      BY <3>2, <3>3 DEF VotesFitDuels
  <2>3. CASE UNCHANGED vars
    BY <2>3 DEF vars, VotesFitDuels
  <2> QED
    BY <2>1, <2>2, <2>3 DEF Next
<1> QED
  BY <1>1, <1>2, LedgerTyping, PTL DEF Spec

(* A film's rating is the one its vote with the highest applied_seq wrote. *)
THEOREM LedgerRatingIsLastVote == Spec => []RatingIsLastVote
<1>1. Init => RatingIsLastVote
  BY DEF Init, RatingIsLastVote
<1>2. TypeOK /\ RatingIsLastVote /\ [Next]_vars => RatingIsLastVote'
  <2> SUFFICES ASSUME TypeOK, RatingIsLastVote, [Next]_vars PROVE RatingIsLastVote'
    OBVIOUS
  <2>1. ASSUME NEW d \in DuelId, NEW p \in Pair, OpenDuel(d, p) PROVE RatingIsLastVote'
    BY <2>1 DEF OpenDuel, RatingIsLastVote, Touches, RatingAfter
  <2>2. ASSUME NEW d \in DuelId, NEW p \in Pair, NEW u \in User \cup {NoUser},
               NEW s \in 1..MaxSeq, CastVote(d, p[1], p[2], u, s)
        PROVE  RatingIsLastVote'
    <3> DEFINE v == NewRow(d, p[1], p[2], u, s)
    <3>1. p[1] \in Film /\ p[2] \in Film /\ p[1] # p[2]
      BY DEF Pair
    <3>2. /\ v.winner = p[1] /\ v.loser = p[2] /\ v.seq = s
          /\ votes' = votes \cup {v}
          /\ rating'[p[1]] = v.winnerAfter /\ rating'[p[2]] = v.loserAfter
          /\ \A f \in Film \ {p[1], p[2]} : rating'[f] = rating[f]
      BY <2>2, <3>1, CastVoteEffect
    <3>3. /\ s \in Int /\ \A x \in votes : x.seq \in Int
          /\ \A x \in votes : Touches(x, p[1]) \/ Touches(x, p[2]) => x.seq < s
      BY <2>2 DEF CastVote, Latest, TypeOK, Row
    <3> HIDE DEF v
    <3>4. ASSUME NEW f \in {p[1], p[2]}
          PROVE  /\ Touches(v, f) /\ rating'[f] = RatingAfter(v, f)
                 /\ \A w \in votes' : Touches(w, f) => w.seq <= v.seq
      BY <3>1, <3>2, <3>3 DEF Touches, RatingAfter
    <3>5. ASSUME NEW f \in Film, f \notin {p[1], p[2]}
          PROVE  ~Touches(v, f) /\ rating'[f] = rating[f]
      BY <3>2, <3>5 DEF Touches
    <3>6. SUFFICES ASSUME NEW f \in Film
                   PROVE  \/ rating'[f] = InitialRating[f] /\ \A x \in votes' : ~Touches(x, f)
                          \/ \E x \in votes' : /\ Touches(x, f) /\ rating'[f] = RatingAfter(x, f)
                                               /\ \A w \in votes' : Touches(w, f) => w.seq <= x.seq
      BY DEF RatingIsLastVote, Touches, RatingAfter
    <3>7. CASE f \in {p[1], p[2]}
      BY <3>2, <3>4, <3>7
    <3>8. CASE f \notin {p[1], p[2]}
      BY <3>2, <3>5, <3>8 DEF RatingIsLastVote
    <3> QED
      BY <3>7, <3>8
  <2>3. CASE UNCHANGED vars
    BY <2>3 DEF vars, RatingIsLastVote, Touches, RatingAfter
  <2> QED
    BY <2>1, <2>2, <2>3 DEF Next
<1> QED
  BY <1>1, <1>2, LedgerTyping, PTL DEF Spec

(* The one row a step of the ledger may add, and what it does to the films. *)
LEMMA StepMoves ==
  ASSUME TypeOK, [Next]_vars, NEW v \in votes' \ votes
  PROVE  /\ rating'[v.winner] - rating[v.winner]
              \in 0..FilmKFromDuelCount(duelCount[v.winner]) * Scale
         /\ rating[v.loser] - rating'[v.loser]
              \in 0..FilmKFromDuelCount(duelCount[v.loser]) * Scale
         /\ \A f \in Film \ {v.winner, v.loser} : rating'[f] = rating[f]
         /\ duelCount[v.winner] >= 20 /\ duelCount[v.loser] >= 20 =>
              rating'[v.winner] + rating'[v.loser] = rating[v.winner] + rating[v.loser]
<1>1. PICK d \in DuelId, p \in Pair, u \in User \cup {NoUser}, s \in 1..MaxSeq :
        CastVote(d, p[1], p[2], u, s)
  BY DEF Next, vars, OpenDuel
<1> DEFINE row == NewRow(d, p[1], p[2], u, s)
<1>2. p[1] \in Film /\ p[2] \in Film
  BY DEF Pair
<1>3. /\ row.winner = p[1] /\ row.loser = p[2] /\ votes' = votes \cup {row}
      /\ \A f \in Film \ {p[1], p[2]} : rating'[f] = rating[f]
  BY <1>1, <1>2, CastVoteEffect
<1> HIDE DEF row
<1>4. v = row
  BY <1>3
<1>5. /\ rating'[p[1]] - rating[p[1]] \in 0..FilmKFromDuelCount(duelCount[p[1]]) * Scale
      /\ rating[p[2]] - rating'[p[2]] \in 0..FilmKFromDuelCount(duelCount[p[2]]) * Scale
      /\ duelCount[p[1]] >= 20 /\ duelCount[p[2]] >= 20 =>
           rating'[p[1]] + rating'[p[2]] = rating[p[1]] + rating[p[2]]
  BY <1>1, CastVoteMoves
<1> QED
  BY <1>3, <1>4, <1>5

(* Winners never fall, losers never rise, and neither by more than its K:  *)
(* for every curve, any catalogue and any number of votes.                 *)
THEOREM LedgerResultMovesApart == Spec => ResultMovesApart
<1>1. TypeOK /\ [Next]_vars =>
        [\A v \in votes' \ votes :
           /\ rating'[v.winner] - rating[v.winner]
                \in 0..FilmKFromDuelCount(duelCount[v.winner]) * Scale
           /\ rating[v.loser] - rating'[v.loser]
                \in 0..FilmKFromDuelCount(duelCount[v.loser]) * Scale
           /\ \A f \in Film \ {v.winner, v.loser} : rating'[f] = rating[f]]_vars
  BY StepMoves
<1> QED
  BY <1>1, LedgerTyping, PTL DEF Spec, ResultMovesApart

(* Points only change hands between films past their twentieth duel.       *)
THEOREM LedgerPointsConserved == Spec => EstablishedPointsConserved
<1>1. TypeOK /\ [Next]_vars =>
        [\A v \in votes' \ votes :
           duelCount[v.winner] >= 20 /\ duelCount[v.loser] >= 20 =>
             rating'[v.winner] + rating'[v.loser] = rating[v.winner] + rating[v.loser]]_vars
  BY StepMoves
<1> QED
  BY <1>1, LedgerTyping, PTL DEF Spec, EstablishedPointsConserved

-----------------------------------------------------------------------------
(* The replay of the votes.                                                *)

(* A set of naturals that is not empty has a least element.  This is all   *)
(* the induction there is below: a least counterexample is none.           *)
LEMMA NatMin ==
  ASSUME NEW T \in SUBSET Nat, T # {}
  PROVE  \E x \in T : \A y \in T : ~(y < x)
<1> DEFINE R == OpToRel(<, Nat)
<1>1. IsWellFoundedOn(R, Nat)
  BY NatLessThanWellFounded
<1>2. \A x, y \in Nat : y < x => <<y, x>> \in R
  BY Zenon DEF OpToRel
<1> HIDE DEF R
<1>3. PICK x \in T : \A y \in T : <<y, x>> \notin R
  BY <1>1, WFMin, Zenon
<1> QED
  BY <1>2, <1>3

(* The tables of films, and what it is to be a replay of the votes: the    *)
(* tables after each number.                                               *)
Tables == [rating : [Film -> Int], count : [Film -> Nat]]

IsReplay(vs, h) ==
  /\ h \in [0..MaxSeq -> Tables]
  /\ h[0] = [rating |-> InitialRating, count |-> InitialCount]
  /\ \A n \in 1..MaxSeq : h[n] = ReplayOne(vs, h[n - 1], n)

(* There is a replay, and it ends in the tables of films. *)
ReplayInv == \E h : IsReplay(votes, h) /\ h[MaxSeq] = [rating |-> rating, count |-> duelCount]

LEMMA ChosenVote ==
  ASSUME NEW vs, NEW n, NEW v \in vs, v.seq = n, \A w \in vs : w.seq = n => w = v
  PROVE  {x \in vs : x.seq = n} # {} /\ (CHOOSE x \in {x \in vs : x.seq = n} : TRUE) = v
<1>1. {x \in vs : x.seq = n} = {v}
  OBVIOUS
<1> QED
  BY <1>1

(* Playing one vote, film by film.                                         *)
LEMMA AppliedEffect ==
  ASSUME NEW p \in Tables, NEW v \in Row, v.winner # v.loser
  PROVE  LET res == Result(p.rating, p.count, v.winner, v.loser)
         IN  /\ Applied(p, v) \in Tables
             /\ Applied(p, v).rating[v.winner] = res.winner
             /\ Applied(p, v).rating[v.loser] = res.loser
             /\ Applied(p, v).count[v.winner] = p.count[v.winner] + 1
             /\ Applied(p, v).count[v.loser] = p.count[v.loser] + 1
             /\ \A f \in Film : ~Touches(v, f) =>
                  Applied(p, v).rating[f] = p.rating[f] /\ Applied(p, v).count[f] = p.count[f]
<1> DEFINE res == Result(p.rating, p.count, v.winner, v.loser)
<1>1. v.winner \in Film /\ v.loser \in Film
  BY DEF Row
<1>2. p.rating \in [Film -> Int] /\ p.count \in [Film -> Nat]
  BY DEF Tables
<1>3. res \in [winner : Int, loser : Int]
  BY <1>1, <1>2, ResultType
<1> HIDE DEF res
<1> DEFINE rs == [p.rating EXCEPT ![v.winner] = res.winner, ![v.loser] = res.loser]
           cs == [p.count EXCEPT ![v.winner] = @ + 1, ![v.loser] = @ + 1]
<1>4. /\ rs \in [Film -> Int] /\ rs[v.winner] = res.winner /\ rs[v.loser] = res.loser
      /\ \A f \in Film : ~Touches(v, f) => rs[f] = p.rating[f]
  BY <1>1, <1>2, <1>3 DEF Touches
<1>5. /\ cs \in [Film -> Nat] /\ cs[v.winner] = p.count[v.winner] + 1
      /\ cs[v.loser] = p.count[v.loser] + 1
      /\ \A f \in Film : ~Touches(v, f) => cs[f] = p.count[f]
  BY <1>1, <1>2 DEF Touches
<1>6. Applied(p, v) = [rating |-> rs, count |-> cs]
  BY DEF Applied, res
<1> HIDE DEF rs, cs
<1>7. Applied(p, v) \in Tables /\ Applied(p, v).rating = rs /\ Applied(p, v).count = cs
  BY <1>4, <1>5, <1>6 DEF Tables
<1> QED
  BY <1>4, <1>5, <1>7 DEF res

(* Playing a vote in two tables that agree on its films gives the same     *)
(* ratings to these films.                                                 *)
LEMMA ResultLocal ==
  ASSUME NEW rs, NEW cs, NEW rt, NEW ct, NEW w, NEW l,
         rs[w] = rt[w], rs[l] = rt[l], cs[w] = ct[w], cs[l] = ct[l]
  PROVE  Result(rs, cs, w, l) = Result(rt, ct, w, l)
BY DEF Result

(* A vote of the table is on two films of the catalogue.                   *)
LEMMA VotesOnTwoFilms ==
  ASSUME TypeOK, VotesFitDuels, NEW v \in votes
  PROVE  v \in Row /\ v.winner # v.loser
<1>1. v \in Row /\ v.duel \in DuelId /\ v.winner \in Film /\ v.loser \in Film
  BY DEF TypeOK, Row
<1>2. duels[v.duel] \in Pair \cup {NoDuel}
  BY <1>1 DEF TypeOK
<1>3. duels[v.duel] \in {<<v.winner, v.loser>>, <<v.loser, v.winner>>}
  BY DEF VotesFitDuels
<1>4. duels[v.duel] \in Film \X Film /\ NoDuel \notin Film \X Film
  BY <1>1, <1>3, LedgerAssumption DEF LedgerAssumption
<1>5. duels[v.duel] \in Pair
  BY <1>2, <1>4
<1> QED
  BY <1>1, <1>3, <1>5 DEF Pair

(* A film whose votes are all numbered below s keeps its rating and count  *)
(* in the replay from s - 1 on.                                            *)
LEMMA ReplayUntouched ==
  ASSUME TypeOK, VotesFitDuels, NEW h, IsReplay(votes, h), NEW s \in 1..MaxSeq, NEW f \in Film,
         \A v \in votes : Touches(v, f) => v.seq < s
  PROVE  \A n \in (s - 1)..MaxSeq :
           h[n].rating[f] = h[MaxSeq].rating[f] /\ h[n].count[f] = h[MaxSeq].count[f]
<1>0. MaxSeq \in Nat
  BY LedgerAssumption DEF LedgerAssumption
<1> DEFINE Same(m, n) == h[m].rating[f] = h[n].rating[f] /\ h[m].count[f] = h[n].count[f]
<1>1. ASSUME NEW n \in s..MaxSeq PROVE Same(n - 1, n)
  <2>1. n \in 1..MaxSeq /\ n - 1 \in 0..MaxSeq
    BY <1>0
  <2>2. h[n] = ReplayOne(votes, h[n - 1], n) /\ h[n - 1] \in Tables
    BY <2>1 DEF IsReplay
  <2>3. CASE {v \in votes : v.seq = n} = {}
    BY <2>2, <2>3 DEF ReplayOne
  <2>4. CASE {v \in votes : v.seq = n} # {}
    <3>1. PICK v \in votes : v.seq = n
      BY <2>4
    <3>2. \A w \in votes : w.seq = n => w = v
      BY <3>1 DEF VotesFitDuels
    <3>3. h[n] = Applied(h[n - 1], v)
      BY <2>2, <3>1, <3>2, ChosenVote DEF ReplayOne
    <3>4. ~Touches(v, f)
      BY <3>1
    <3>5. v \in Row /\ v.winner # v.loser
      BY VotesOnTwoFilms
    <3>6. Applied(h[n - 1], v).rating[f] = h[n - 1].rating[f]
          /\ Applied(h[n - 1], v).count[f] = h[n - 1].count[f]
      BY <2>2, <3>4, <3>5, AppliedEffect
    <3> QED
      BY <3>3, <3>6
  <2> QED
    BY <2>3, <2>4
<1> DEFINE T == {k \in 0..(MaxSeq - s + 1) : ~Same(MaxSeq - k, MaxSeq)}
<1>2. T = {}
  <2> SUFFICES ASSUME T # {} PROVE FALSE
    OBVIOUS
  <2>1. T \in SUBSET Nat
    BY <1>0
  <2>2. PICK k \in T : \A j \in T : ~(j < k)
    BY <2>1, NatMin
  <2>3. k \in 0..(MaxSeq - s + 1) /\ ~Same(MaxSeq - k, MaxSeq)
    OBVIOUS
  <2>4. k # 0
    BY <1>0, <2>3
  <2>5. k - 1 \in 0..(MaxSeq - s + 1) /\ k - 1 < k
    BY <1>0, <2>3, <2>4
  <2>6. Same(MaxSeq - (k - 1), MaxSeq)
    BY <2>2, <2>5
  <2>7. MaxSeq - (k - 1) \in s..MaxSeq /\ (MaxSeq - (k - 1)) - 1 = MaxSeq - k
    BY <1>0, <2>3, <2>4
  <2>8. Same((MaxSeq - (k - 1)) - 1, MaxSeq - (k - 1))
    BY <1>1, <2>7
  <2> QED
    BY <2>3, <2>6, <2>7, <2>8
<1> SUFFICES ASSUME NEW n \in (s - 1)..MaxSeq PROVE Same(n, MaxSeq)
  OBVIOUS
<1>3. MaxSeq - n \in 0..(MaxSeq - s + 1) /\ MaxSeq - (MaxSeq - n) = n
  BY <1>0
<1> QED
  BY <1>2, <1>3

(* A vote counts one more duel for each of its films. *)
LEMMA CastVoteCounts ==
  ASSUME TypeOK, NEW d \in DuelId, NEW p \in Pair,
         NEW u \in User \cup {NoUser}, NEW s \in 1..MaxSeq, CastVote(d, p[1], p[2], u, s)
  PROVE  /\ duelCount'[p[1]] = duelCount[p[1]] + 1 /\ duelCount'[p[2]] = duelCount[p[2]] + 1
         /\ \A f \in Film \ {p[1], p[2]} : duelCount'[f] = duelCount[f]
<1> DEFINE v == NewRow(d, p[1], p[2], u, s)
<1>1. p[1] \in Film /\ p[2] \in Film /\ p[1] # p[2]
  BY DEF Pair
<1>2. v.winner = p[1] /\ v.loser = p[2]
  BY DEF NewRow
<1>3. Record(v)
  BY DEF CastVote
<1> HIDE DEF v
<1>4. duelCount' = [duelCount EXCEPT ![p[1]] = @ + 1, ![p[2]] = @ + 1]
  BY <1>2, <1>3 DEF Record
<1> QED
  BY <1>1, <1>4 DEF TypeOK

(* The replay with one more vote: from its number on, the two films have   *)
(* the ratings and counts the vote gives them, all others what they had.   *)
LEMMA CastVoteReplay ==
  ASSUME TypeOK, VotesFitDuels, ReplayInv, NEW d \in DuelId, NEW p \in Pair,
         NEW u \in User \cup {NoUser}, NEW s \in 1..MaxSeq, CastVote(d, p[1], p[2], u, s)
  PROVE  ReplayInv'
<1> DEFINE v == NewRow(d, p[1], p[2], u, s)
           mine == {p[1], p[2]}
<1>0. MaxSeq \in Nat /\ s \in Nat
  BY LedgerAssumption DEF LedgerAssumption
<1>1. p[1] \in Film /\ p[2] \in Film /\ p[1] # p[2]
  BY DEF Pair
<1>2. /\ v \in Row /\ v.winner = p[1] /\ v.loser = p[2] /\ v.seq = s
      /\ votes' = votes \cup {v}
      /\ rating' \in [Film -> Int] /\ duelCount' \in [Film -> Nat]
      /\ rating'[p[1]] = v.winnerAfter /\ rating'[p[2]] = v.loserAfter
      /\ \A f \in Film \ mine : rating'[f] = rating[f]
  BY CastVoteEffect
<1>3. /\ duelCount'[p[1]] = duelCount[p[1]] + 1 /\ duelCount'[p[2]] = duelCount[p[2]] + 1
      /\ \A f \in Film \ mine : duelCount'[f] = duelCount[f]
  BY CastVoteCounts
<1>4. /\ v.winnerAfter = Result(rating, duelCount, p[1], p[2]).winner
      /\ v.loserAfter = Result(rating, duelCount, p[1], p[2]).loser
  BY DEF NewRow
<1>5. \A x \in votes : x.seq # s /\ (Touches(x, p[1]) \/ Touches(x, p[2]) => x.seq < s)
  BY DEF CastVote, Latest
<1> HIDE DEF v
<1>6. PICK h : IsReplay(votes, h) /\ h[MaxSeq] = [rating |-> rating, count |-> duelCount]
  BY DEF ReplayInv
<1>7. \A n \in 0..MaxSeq : /\ h[n] \in Tables /\ h[n].rating \in [Film -> Int]
                           /\ h[n].count \in [Film -> Nat]
                           /\ h[n] = [rating |-> h[n].rating, count |-> h[n].count]
  BY <1>6 DEF IsReplay, Tables
<1>8. \A f \in mine : \A n \in (s - 1)..MaxSeq :
        h[n].rating[f] = rating[f] /\ h[n].count[f] = duelCount[f]
  BY <1>1, <1>5, <1>6, ReplayUntouched
<1> DEFINE rs(n) == [f \in Film |-> IF f \in mine THEN rating'[f] ELSE h[n].rating[f]]
           cs(n) == [f \in Film |-> IF f \in mine THEN duelCount'[f] ELSE h[n].count[f]]
           g == [n \in 0..MaxSeq |-> IF n < s THEN h[n] ELSE [rating |-> rs(n), count |-> cs(n)]]
<1>9. \A n \in 0..MaxSeq : rs(n) \in [Film -> Int] /\ cs(n) \in [Film -> Nat]
  BY <1>2, <1>7
<1>10. g \in [0..MaxSeq -> Tables]
  BY <1>7, <1>9 DEF Tables
<1>11. g[0] = [rating |-> InitialRating, count |-> InitialCount]
  BY <1>0, <1>6 DEF IsReplay
<1>12. ASSUME NEW n \in 1..MaxSeq, n < s PROVE g[n] = ReplayOne(votes', g[n - 1], n)
  <2>1. g[n] = h[n] /\ g[n - 1] = h[n - 1] /\ h[n] = ReplayOne(votes, h[n - 1], n)
    BY <1>0, <1>6, <1>12 DEF IsReplay
  <2>2. {x \in votes' : x.seq = n} = {x \in votes : x.seq = n}
    BY <1>0, <1>2, <1>12
  <2> QED
    BY <2>1, <2>2 DEF ReplayOne
<1>13. g[s] = ReplayOne(votes', g[s - 1], s)
  <2>1. s - 1 \in 0..MaxSeq /\ s \in 0..MaxSeq /\ s - 1 \in (s - 1)..MaxSeq /\ s - 1 < s
    BY <1>0
  <2>2. g[s - 1] = h[s - 1] /\ g[s] = [rating |-> rs(s), count |-> cs(s)]
    BY <1>0, <2>1
  <2>3. ReplayOne(votes', g[s - 1], s) = Applied(h[s - 1], v)
    <3>1. v \in votes' /\ \A x \in votes' : x.seq = s => x = v
      BY <1>2, <1>5
    <3>2. /\ {x \in votes' : x.seq = s} # {}
          /\ (CHOOSE x \in {x \in votes' : x.seq = s} : TRUE) = v
      BY <1>2, <3>1, ChosenVote
    <3> QED
      BY <2>2, <3>2 DEF ReplayOne
  <2> DEFINE a == Applied(h[s - 1], v)
             res == Result(h[s - 1].rating, h[s - 1].count, p[1], p[2])
  <2>4. res = Result(rating, duelCount, p[1], p[2])
    BY <1>8, <2>1, ResultLocal
  <2>5. /\ a \in Tables
        /\ a.rating[p[1]] = res.winner /\ a.rating[p[2]] = res.loser
        /\ a.count[p[1]] = h[s - 1].count[p[1]] + 1 /\ a.count[p[2]] = h[s - 1].count[p[2]] + 1
        /\ \A f \in Film \ mine : a.rating[f] = h[s - 1].rating[f] /\ a.count[f] = h[s - 1].count[f]
    <3>1. h[s - 1] \in Tables /\ v \in Row /\ v.winner # v.loser
      BY <1>1, <1>2, <1>7, <2>1
    <3>2. /\ a \in Tables
          /\ a.rating[v.winner] = res.winner /\ a.rating[v.loser] = res.loser
          /\ a.count[v.winner] = h[s - 1].count[v.winner] + 1
          /\ a.count[v.loser] = h[s - 1].count[v.loser] + 1
          /\ \A f \in Film : ~Touches(v, f) =>
               a.rating[f] = h[s - 1].rating[f] /\ a.count[f] = h[s - 1].count[f]
      BY <1>2, <3>1, AppliedEffect
    <3> HIDE DEF a, res
    <3> QED
      BY <1>2, <3>2 DEF Touches
  <2>6. h[s] = h[s - 1]
    <3>1. {x \in votes : x.seq = s} = {}
      BY <1>5
    <3>2. h[s] = ReplayOne(votes, h[s - 1], s)
      BY <1>6 DEF IsReplay
    <3> QED
      BY <3>1, <3>2 DEF ReplayOne
  <2> HIDE DEF a, res, g
  <2>7. \A f \in Film : a.rating[f] = rs(s)[f] /\ a.count[f] = cs(s)[f]
    BY <1>1, <1>2, <1>3, <1>4, <1>8, <2>1, <2>4, <2>5, <2>6
  <2>8. a.rating = rs(s) /\ a.count = cs(s) /\ a = [rating |-> a.rating, count |-> a.count]
    <3>1. a.rating \in [Film -> Int] /\ a.count \in [Film -> Nat]
          /\ a = [rating |-> a.rating, count |-> a.count]
      BY <2>5 DEF Tables
    <3>2. rs(s) \in [Film -> Int] /\ cs(s) \in [Film -> Nat]
      BY <1>9, <2>1
    <3> HIDE DEF rs, cs
    <3> QED
      BY <2>7, <3>1, <3>2
  <2> QED
    BY <2>2, <2>3, <2>8 DEF a
<1>14. ASSUME NEW n \in 1..MaxSeq, s < n PROVE g[n] = ReplayOne(votes', g[n - 1], n)
  <2>0. n \in 0..MaxSeq /\ n - 1 \in 0..MaxSeq /\ ~(n < s) /\ ~(n - 1 < s)
    BY <1>0, <1>14
  <2>1. g[n] = [rating |-> rs(n), count |-> cs(n)]
        /\ g[n - 1] = [rating |-> rs(n - 1), count |-> cs(n - 1)]
    BY <2>0
  <2>2. h[n] = ReplayOne(votes, h[n - 1], n)
    BY <1>6 DEF IsReplay
  <2>3. {x \in votes' : x.seq = n} = {x \in votes : x.seq = n}
    BY <1>0, <1>2, <1>14
  <2> HIDE DEF g
  <2>4. CASE {x \in votes : x.seq = n} = {}
    <3>1. h[n] = h[n - 1] /\ ReplayOne(votes', g[n - 1], n) = g[n - 1]
      BY <2>2, <2>3, <2>4 DEF ReplayOne
    <3> QED
      BY <2>1, <3>1
  <2>5. CASE {x \in votes : x.seq = n} # {}
    <3>1. PICK x \in votes : x.seq = n
      BY <2>5
    <3>2. /\ {y \in votes : y.seq = n} # {}
          /\ (CHOOSE y \in {y \in votes : y.seq = n} : TRUE) = x
      <4>1. \A y \in votes : y.seq = n => y = x
        BY <3>1 DEF VotesFitDuels
      <4> QED
        BY <3>1, <4>1, ChosenVote
    <3>3. h[n] = Applied(h[n - 1], x)
      BY <2>2, <3>2 DEF ReplayOne
    <3>4. ReplayOne(votes', g[n - 1], n) = Applied(g[n - 1], x)
      BY <2>3, <3>2 DEF ReplayOne
    <3>5. x \in Row /\ x.winner # x.loser /\ x.winner \in Film /\ x.loser \in Film
      BY VotesOnTwoFilms DEF Row
    <3>6. x.winner \notin mine /\ x.loser \notin mine
      <4>1. ~Touches(x, p[1]) /\ ~Touches(x, p[2])
        BY <1>0, <1>5, <1>14, <3>1
      <4> QED
        BY <4>1 DEF Touches
    <3> DEFINE a == Applied(h[n - 1], x)
               b == Applied(g[n - 1], x)
               ra == Result(h[n - 1].rating, h[n - 1].count, x.winner, x.loser)
               rb == Result(g[n - 1].rating, g[n - 1].count, x.winner, x.loser)
    <3>7. g[n - 1].rating = rs(n - 1) /\ g[n - 1].count = cs(n - 1) /\ g[n - 1] \in Tables
      BY <1>9, <2>0, <2>1 DEF Tables
    <3>8. /\ rs(n - 1)[x.winner] = h[n - 1].rating[x.winner]
          /\ rs(n - 1)[x.loser] = h[n - 1].rating[x.loser]
          /\ cs(n - 1)[x.winner] = h[n - 1].count[x.winner]
          /\ cs(n - 1)[x.loser] = h[n - 1].count[x.loser]
      BY <3>5, <3>6
    <3>9. ra = rb
      BY <3>7, <3>8, ResultLocal
    <3>10. /\ a \in Tables
           /\ a.rating[x.winner] = ra.winner /\ a.rating[x.loser] = ra.loser
           /\ a.count[x.winner] = h[n - 1].count[x.winner] + 1
           /\ a.count[x.loser] = h[n - 1].count[x.loser] + 1
           /\ \A f \in Film : ~Touches(x, f) =>
                a.rating[f] = h[n - 1].rating[f] /\ a.count[f] = h[n - 1].count[f]
      BY <1>7, <2>0, <3>5, AppliedEffect
    <3>11. /\ b \in Tables
           /\ b.rating[x.winner] = rb.winner /\ b.rating[x.loser] = rb.loser
           /\ b.count[x.winner] = g[n - 1].count[x.winner] + 1
           /\ b.count[x.loser] = g[n - 1].count[x.loser] + 1
           /\ \A f \in Film : ~Touches(x, f) =>
                b.rating[f] = g[n - 1].rating[f] /\ b.count[f] = g[n - 1].count[f]
      BY <3>5, <3>7, AppliedEffect
    <3> HIDE DEF a, b, ra, rb
    <3>12. a = h[n]
      BY <3>3 DEF a
    <3>13. ASSUME NEW f \in Film PROVE b.rating[f] = rs(n)[f] /\ b.count[f] = cs(n)[f]
      <4>1. CASE Touches(x, f)
        BY <3>6, <3>7, <3>8, <3>9, <3>10, <3>11, <3>12, <4>1 DEF Touches
      <4>2. CASE ~Touches(x, f)
        BY <3>7, <3>10, <3>11, <3>12, <4>2
      <4> QED
        BY <4>1, <4>2
    <3>14. b.rating = rs(n) /\ b.count = cs(n) /\ b = [rating |-> b.rating, count |-> b.count]
      <4>1. b.rating \in [Film -> Int] /\ b.count \in [Film -> Nat]
            /\ b = [rating |-> b.rating, count |-> b.count]
        BY <3>11 DEF Tables
      <4>2. rs(n) \in [Film -> Int] /\ cs(n) \in [Film -> Nat]
        BY <1>9, <2>0
      <4> HIDE DEF rs, cs
      <4> QED
        BY <3>13, <4>1, <4>2
    <3> QED
      BY <2>1, <3>4, <3>14 DEF b
  <2> QED
    BY <2>4, <2>5
<1>15. g[MaxSeq] = [rating |-> rating', count |-> duelCount']
  <2>1. MaxSeq \in 0..MaxSeq /\ ~(MaxSeq < s)
    BY <1>0
  <2>2. g[MaxSeq] = [rating |-> rs(MaxSeq), count |-> cs(MaxSeq)]
    BY <2>1
  <2>3. h[MaxSeq].rating = rating /\ h[MaxSeq].count = duelCount
    BY <1>6
  <2>4. rs(MaxSeq) = rating' /\ cs(MaxSeq) = duelCount'
    BY <1>2, <1>3, <2>3
  <2> QED
    BY <2>2, <2>4
<1> HIDE DEF g
<1>16. \A n \in 1..MaxSeq : g[n] = ReplayOne(votes', g[n - 1], n)
  BY <1>0, <1>12, <1>13, <1>14
<1> QED
  BY <1>10, <1>11, <1>15, <1>16 DEF ReplayInv, IsReplay

(* The function Replay is defined by is the replay. *)
LEMMA ReplayIsLast ==
  ASSUME NEW h, IsReplay(votes, h)
  PROVE  Replay = h[MaxSeq]
<1> DEFINE Steps(g) == [n \in 0..MaxSeq |->
                          IF n = 0 THEN [rating |-> InitialRating, count |-> InitialCount]
                          ELSE ReplayOne(votes, g[n - 1], n)]
           after == CHOOSE g : g = Steps(g)
<1>0. MaxSeq \in Nat
  BY LedgerAssumption DEF LedgerAssumption
<1>1. Replay = after[MaxSeq]
  BY DEF Replay
<1>2. h = Steps(h)
  <2>1. \A n \in 0..MaxSeq : h[n] = Steps(h)[n]
    BY <1>0 DEF IsReplay
  <2> HIDE DEF Steps
  <2>2. h = [n \in 0..MaxSeq |-> h[n]]
    BY DEF IsReplay
  <2>3. Steps(h) = [n \in 0..MaxSeq |-> Steps(h)[n]]
    BY DEF Steps
  <2> QED
    BY <2>1, <2>2, <2>3
<1>3. after = Steps(after)
  <2> HIDE DEF Steps
  <2> QED
    BY <1>2
<1> HIDE DEF after
<1>4. \A n \in 0..MaxSeq : after[n] = IF n = 0 THEN h[0] ELSE ReplayOne(votes, after[n - 1], n)
  BY <1>0, <1>3 DEF IsReplay
<1> DEFINE T == {n \in 0..MaxSeq : after[n] # h[n]}
<1>5. T = {}
  <2> SUFFICES ASSUME T # {} PROVE FALSE
    OBVIOUS
  <2>1. T \in SUBSET Nat
    BY <1>0
  <2>2. PICK n \in T : \A m \in T : ~(m < n)
    BY <2>1, NatMin
  <2>3. n \in 1..MaxSeq /\ n - 1 \in 0..MaxSeq /\ n - 1 < n /\ n # 0 /\ n \in 0..MaxSeq
    BY <1>0, <1>4, <2>2
  <2>4. after[n - 1] = h[n - 1]
    BY <2>2, <2>3
  <2>5. h[n] = ReplayOne(votes, h[n - 1], n)
    BY <2>3 DEF IsReplay
  <2>6. after[n] = ReplayOne(votes, after[n - 1], n)
    BY <1>4, <2>3
  <2>7. after[n] = h[n]
    BY <2>4, <2>5, <2>6
  <2> QED
    BY <2>2, <2>7
<1>6. MaxSeq \in 0..MaxSeq
  BY <1>0
<1> QED
  BY <1>1, <1>5, <1>6

LEMMA LedgerReplayStep == TypeOK /\ VotesFitDuels /\ ReplayInv /\ [Next]_vars => ReplayInv'
<1> SUFFICES ASSUME TypeOK, VotesFitDuels, ReplayInv, [Next]_vars PROVE ReplayInv'
  OBVIOUS
<1>1. ASSUME NEW d \in DuelId, NEW p \in Pair, OpenDuel(d, p) PROVE ReplayInv'
  BY <1>1 DEF OpenDuel, ReplayInv
<1>2. ASSUME NEW d \in DuelId, NEW p \in Pair, NEW u \in User \cup {NoUser},
             NEW s \in 1..MaxSeq, CastVote(d, p[1], p[2], u, s)
      PROVE  ReplayInv'
  BY <1>2, CastVoteReplay
<1>3. CASE UNCHANGED vars
  BY <1>3 DEF vars, ReplayInv
<1> QED
  BY <1>1, <1>2, <1>3 DEF Next

(* Playing the votes table back in applied_seq order gives the ratings and *)
(* the counts of films, for any votes on any catalogue and every curve.    *)
THEOREM LedgerRatingsReplay == Spec => []RatingsReplay
<1>1. Init => ReplayInv
  <2> SUFFICES ASSUME Init PROVE ReplayInv
    OBVIOUS
  <2> DEFINE h == [n \in 0..MaxSeq |-> [rating |-> InitialRating, count |-> InitialCount]]
  <2>0. MaxSeq \in Nat /\ InitialRating \in [Film -> Int] /\ InitialCount \in [Film -> Nat]
    BY LedgerAssumption DEF LedgerAssumption
  <2>1. h \in [0..MaxSeq -> Tables]
    BY <2>0 DEF Tables
  <2>2. \A n \in 1..MaxSeq : h[n] = ReplayOne(votes, h[n - 1], n)
    BY <2>0 DEF Init, ReplayOne
  <2>3. h[0] = [rating |-> InitialRating, count |-> InitialCount] /\ h[MaxSeq] = h[0]
    BY <2>0
  <2> HIDE DEF h
  <2>4. IsReplay(votes, h)
    BY <2>1, <2>2, <2>3 DEF IsReplay
  <2> QED
    BY <2>3, <2>4 DEF ReplayInv, Init
<1>2. ReplayInv => RatingsReplay
  BY ReplayIsLast DEF ReplayInv, RatingsReplay
<1> QED
  BY <1>1, <1>2, LedgerReplayStep, LedgerTyping, LedgerVotesFitDuels, PTL DEF Spec

-----------------------------------------------------------------------------
(* The votes of a film, counted.                                           *)
WonBy(vs, f) == {v \in vs : v.winner = f}
LostBy(vs, f) == {v \in vs : v.loser = f}
Wins(f) == Cardinality(WonBy(votes, f))
Losses(f) == Cardinality(LostBy(votes, f))

(* films.duel_count is the number of rows of votes that name the film,     *)
(* beyond what it was at the start.                                        *)
CountsAddUp == \A f \in Film : duelCount[f] = InitialCount[f] + Wins(f) + Losses(f)

(* Forty points, the highest K-factor, is the most a win gives and the     *)
(* most a defeat takes: from its initial rating a film has come no further.*)
TopStake == 40 * Scale

RatingsEarned ==
  \A f \in Film : rating[f] - InitialRating[f] \in -(TopStake * Losses(f))..(TopStake * Wins(f))

CountingInv == IsFiniteSet(votes) /\ CountsAddUp /\ RatingsEarned

LEMMA OneMoreVote ==
  ASSUME NEW V, IsFiniteSet(V), NEW v, v \notin V, NEW f
  PROVE  /\ IsFiniteSet(V \cup {v})
         /\ Cardinality(WonBy(V, f)) \in Nat /\ Cardinality(LostBy(V, f)) \in Nat
         /\ Cardinality(WonBy(V \cup {v}, f)) =
              Cardinality(WonBy(V, f)) + (IF v.winner = f THEN 1 ELSE 0)
         /\ Cardinality(LostBy(V \cup {v}, f)) =
              Cardinality(LostBy(V, f)) + (IF v.loser = f THEN 1 ELSE 0)
<1>1. IsFiniteSet(V \cup {v})
  BY FS_AddElement
<1>2. /\ IsFiniteSet(WonBy(V, f)) /\ IsFiniteSet(LostBy(V, f))
      /\ v \notin WonBy(V, f) /\ v \notin LostBy(V, f)
  BY FS_Subset DEF WonBy, LostBy
<1>3. /\ WonBy(V \cup {v}, f) = IF v.winner = f THEN WonBy(V, f) \cup {v} ELSE WonBy(V, f)
      /\ LostBy(V \cup {v}, f) = IF v.loser = f THEN LostBy(V, f) \cup {v} ELSE LostBy(V, f)
  BY DEF WonBy, LostBy
<1>4. Cardinality(WonBy(V, f)) \in Nat /\ Cardinality(LostBy(V, f)) \in Nat
  BY <1>2, FS_CardinalityType
<1>5. /\ Cardinality(WonBy(V, f) \cup {v}) = Cardinality(WonBy(V, f)) + 1
      /\ Cardinality(LostBy(V, f) \cup {v}) = Cardinality(LostBy(V, f)) + 1
  BY <1>2, FS_AddElement
<1> QED
  BY <1>1, <1>3, <1>4, <1>5

(* One more stake.                                                         *)
LEMMA StakesAdd ==
  ASSUME NEW n \in Nat
  PROVE  /\ TopStake \in Nat /\ TopStake * n \in Nat
         /\ TopStake * (n + 1) = TopStake * n + TopStake
BY EloAssumption DEF EloAssumption, TopStake

(* No vote moves a film by more than one.                                  *)
LEMMA StakeWithinTop ==
  ASSUME NEW n \in Nat
  PROVE  \A x \in Int : x \in 0..FilmKFromDuelCount(n) * Scale => x \in 0..TopStake
<1>1. FilmKFromDuelCount(n) \in Nat /\ 40 - FilmKFromDuelCount(n) \in Nat
  BY KBounds
<1> DEFINE k == FilmKFromDuelCount(n)
<1> HIDE DEF k
<1>2. k \in Nat /\ 40 - k \in Nat /\ Scale \in Nat
  BY <1>1, EloAssumption DEF EloAssumption, k
<1>3. k * Scale \in Nat /\ (40 - k) * Scale \in Nat /\ 40 * Scale = k * Scale + (40 - k) * Scale
  BY <1>2
<1> QED
  BY <1>3 DEF TopStake, k

LEMMA CastVoteCounting ==
  ASSUME TypeOK, CountingInv, NEW d \in DuelId, NEW p \in Pair,
         NEW u \in User \cup {NoUser}, NEW s \in 1..MaxSeq, CastVote(d, p[1], p[2], u, s)
  PROVE  CountingInv'
<1> DEFINE v == NewRow(d, p[1], p[2], u, s)
<1>0. p[1] \in Film /\ p[2] \in Film /\ p[1] # p[2]
  BY DEF Pair
<1>1. /\ v.winner = p[1] /\ v.loser = p[2] /\ votes' = votes \cup {v}
      /\ rating' \in [Film -> Int] /\ \A f \in Film \ {p[1], p[2]} : rating'[f] = rating[f]
  BY CastVoteEffect
<1>2. /\ rating'[p[1]] - rating[p[1]] \in 0..FilmKFromDuelCount(duelCount[p[1]]) * Scale
      /\ rating[p[2]] - rating'[p[2]] \in 0..FilmKFromDuelCount(duelCount[p[2]]) * Scale
      /\ v \notin votes
  BY CastVoteMoves
<1> HIDE DEF v
<1>3. /\ duelCount'[p[1]] = duelCount[p[1]] + 1 /\ duelCount'[p[2]] = duelCount[p[2]] + 1
      /\ \A f \in Film \ {p[1], p[2]} : duelCount'[f] = duelCount[f]
  BY CastVoteCounts
<1>4. rating \in [Film -> Int] /\ duelCount \in [Film -> Nat] /\ InitialRating \in [Film -> Int]
      /\ InitialCount \in [Film -> Nat]
  BY LedgerAssumption DEF TypeOK, LedgerAssumption
<1>5. /\ rating'[p[1]] - rating[p[1]] \in 0..TopStake
      /\ rating[p[2]] - rating'[p[2]] \in 0..TopStake
  <2>1. duelCount[p[1]] \in Nat /\ duelCount[p[2]] \in Nat
    BY <1>0, <1>4
  <2>2. rating'[p[1]] - rating[p[1]] \in Int /\ rating[p[2]] - rating'[p[2]] \in Int
    BY <1>0, <1>1, <1>4
  <2> QED
    BY <1>2, <2>1, <2>2, StakeWithinTop
<1>6. IsFiniteSet(votes')
  BY <1>1, <1>2, OneMoreVote DEF CountingInv
<1>7. ASSUME NEW f \in Film
      PROVE  /\ duelCount'[f] = InitialCount[f] + Wins(f)' + Losses(f)'
             /\ rating'[f] - InitialRating[f]
                  \in -(TopStake * Losses(f)')..(TopStake * Wins(f)')
  <2> DEFINE w == Wins(f)  l == Losses(f)
  <2>1. /\ w \in Nat /\ l \in Nat
        /\ Wins(f)' = w + (IF p[1] = f THEN 1 ELSE 0)
        /\ Losses(f)' = l + (IF p[2] = f THEN 1 ELSE 0)
    <3>1. IsFiniteSet(votes) /\ v \notin votes
      BY <1>2 DEF CountingInv
    <3>2. /\ Cardinality(WonBy(votes, f)) \in Nat /\ Cardinality(LostBy(votes, f)) \in Nat
          /\ Cardinality(WonBy(votes \cup {v}, f)) =
               Cardinality(WonBy(votes, f)) + (IF v.winner = f THEN 1 ELSE 0)
          /\ Cardinality(LostBy(votes \cup {v}, f)) =
               Cardinality(LostBy(votes, f)) + (IF v.loser = f THEN 1 ELSE 0)
      BY <3>1, OneMoreVote, Z3
    <3>3. /\ Wins(f)' = Cardinality(WonBy(votes \cup {v}, f))
          /\ Losses(f)' = Cardinality(LostBy(votes \cup {v}, f))
      BY <1>1 DEF Wins, Losses, WonBy, LostBy
    <3> QED
      BY <1>1, <3>2, <3>3 DEF Wins, Losses
  <2>2. /\ duelCount[f] = InitialCount[f] + w + l
        /\ rating[f] - InitialRating[f] \in -(TopStake * l)..(TopStake * w)
    BY DEF CountingInv, CountsAddUp, RatingsEarned
  <2>3. /\ TopStake \in Nat /\ TopStake * w \in Nat /\ TopStake * l \in Nat
        /\ TopStake * (w + 1) = TopStake * w + TopStake
        /\ TopStake * (l + 1) = TopStake * l + TopStake
    BY <2>1, StakesAdd
  <2> DEFINE tw == TopStake * w  tl == TopStake * l
  <2>4. /\ rating[f] \in Int /\ rating'[f] \in Int /\ InitialRating[f] \in Int
        /\ InitialCount[f] \in Nat /\ duelCount[f] \in Nat
    BY <1>1, <1>4
  <2> HIDE DEF w, l
  <2>5. CASE f = p[1]
    <3>1. Wins(f)' = w + 1 /\ Losses(f)' = l
      BY <1>0, <2>1, <2>5
    <3>2. rating'[f] - InitialRating[f] \in -tl..(tw + TopStake)
      <4> HIDE DEF tw, tl
      <4>1. tw \in Nat /\ tl \in Nat /\ TopStake \in Nat
            /\ rating[f] - InitialRating[f] \in -tl..tw /\ rating'[f] - rating[f] \in 0..TopStake
        BY <1>5, <2>2, <2>3, <2>5 DEF tw, tl
      <4> QED
        BY <2>4, <4>1
    <3> QED
      BY <1>3, <2>1, <2>2, <2>3, <2>4, <2>5, <3>1, <3>2
  <2>6. CASE f = p[2]
    <3>1. Wins(f)' = w /\ Losses(f)' = l + 1
      BY <1>0, <2>1, <2>6
    <3>2. rating'[f] - InitialRating[f] \in -(tl + TopStake)..tw
      <4> HIDE DEF tw, tl
      <4>1. tw \in Nat /\ tl \in Nat /\ TopStake \in Nat
            /\ rating[f] - InitialRating[f] \in -tl..tw /\ rating[f] - rating'[f] \in 0..TopStake
        BY <1>5, <2>2, <2>3, <2>6 DEF tw, tl
      <4> QED
        BY <2>4, <4>1
    <3> QED
      BY <1>3, <2>1, <2>2, <2>3, <2>4, <2>6, <3>1, <3>2
  <2>7. CASE f \notin {p[1], p[2]}
    BY <1>1, <1>3, <2>1, <2>2, <2>7
  <2> QED
    BY <2>5, <2>6, <2>7
<1> QED
  BY <1>6, <1>7 DEF CountingInv, CountsAddUp, RatingsEarned

LEMMA LedgerCounting == Spec => []CountingInv
<1>1. Init => CountingInv
  <2> SUFFICES ASSUME Init PROVE CountingInv
    OBVIOUS
  <2>1. \A f \in Film : Wins(f) = 0 /\ Losses(f) = 0
    BY FS_EmptySet DEF Init, Wins, Losses, WonBy, LostBy
  <2>2. /\ InitialRating \in [Film -> Int] /\ InitialCount \in [Film -> Nat]
        /\ TopStake * 0 = 0
    BY LedgerAssumption, StakesAdd, EloAssumption DEF LedgerAssumption, EloAssumption, TopStake
  <2>3. IsFiniteSet(votes)
    BY FS_EmptySet DEF Init
  <2>4. CountsAddUp
    BY <2>1, <2>2 DEF Init, CountsAddUp
  <2>5. RatingsEarned
    BY <2>1, <2>2 DEF Init, RatingsEarned
  <2> QED
    BY <2>3, <2>4, <2>5 DEF CountingInv
<1>2. TypeOK /\ CountingInv /\ [Next]_vars => CountingInv'
  <2> SUFFICES ASSUME TypeOK, CountingInv, [Next]_vars PROVE CountingInv'
    OBVIOUS
  <2>1. ASSUME votes' = votes, rating' = rating, duelCount' = duelCount PROVE CountingInv'
    BY <2>1 DEF CountingInv, CountsAddUp, RatingsEarned, Wins, Losses
  <2>2. CASE \E d \in DuelId, p \in Pair : OpenDuel(d, p)
    BY <2>1, <2>2 DEF OpenDuel
  <2>3. CASE UNCHANGED vars
    BY <2>1, <2>3 DEF vars
  <2> QED
    BY <2>2, <2>3, CastVoteCounting DEF Next
<1> QED
  BY <1>1, <1>2, LedgerTyping, PTL DEF Spec

(* No vote is counted twice or not at all: films.duel_count and the votes  *)
(* table agree on every film, for any number of votes.                     *)
THEOREM LedgerCountsAddUp == Spec => []CountsAddUp
<1>1. CountingInv => CountsAddUp
  BY DEF CountingInv
<1> QED
  BY <1>1, LedgerCounting, PTL

(* However many votes there are, no rating has run away: a film that never *)
(* lost is at or above its initial rating, one that never won at or below, *)
(* and between them lie at most forty points to a vote.                    *)
THEOREM LedgerRatingsEarned == Spec => []RatingsEarned
<1>1. CountingInv => RatingsEarned
  BY DEF CountingInv
<1> QED
  BY <1>1, LedgerCounting, PTL
=============================================================================
