----------------------- MODULE VoteRegistrationProofs -----------------------
(***************************************************************************)
(* Proofs about the registration of votes: its types, that what a vote has *)
(* read stays true until it ends, and that the whole implements VoteLedger.*)
(***************************************************************************)
EXTENDS VoteRegistration, FiniteSetTheorems, TLAPS

(* What is proved of the ledger. *)
LedgerFacts == INSTANCE VoteLedgerProofs

Pairs == {p \in Film \X Film : p[1] # p[2]}
Holding == {"locked", "inserted", "updated"}
Paired == {"insert", "half", "checked"}

(* A running vote is about a duel id, once it has read a film about a duel *)
(* of two films; a duel about to be inserted has two films of the          *)
(* catalogue.                                                              *)
TaskOK(r) ==
  /\ vote[r].pc \in InTx => vote[r].duel \in DuelId
  /\ vote[r].pc \in Holding \cup {"half"} => duels[vote[r].duel] \in Pairs
  /\ next[r].pc \in Paired => next[r].a \in Film /\ next[r].b \in Film /\ next[r].a # next[r].b

(* What a vote has inserted but not committed is the row of its own task,  *)
(* computed from what it read, on a duel nobody has voted on.              *)
RowOf(r, s) ==
  LET w == vote[r].winner
      l == LoserTo(w, vote[r].duel)
  IN  [duel |-> vote[r].duel, winner |-> w, loser |-> l, user |-> vote[r].user,
       winnerAfter |-> NewRatings(r, w, l).winner, loserAfter |-> NewRatings(r, w, l).loser,
       seq |-> s]

RowOK(r) ==
  /\ vote[r].pc \in {"inserted", "updated"} <=> vote[r].row # NoRow
  /\ vote[r].row # NoRow =>
       /\ vote[r].winner \in FilmsOf(vote[r].duel)
       /\ vote[r].row = RowOf(r, vote[r].row.seq)
       /\ vote[r].row.seq <= voteSeq
       /\ \A v \in votes : v.duel # vote[r].duel
  /\ vote[r].pc = "updated" =>
       vote[r].written = [f \in Film |-> IF Ledger!Touches(vote[r].row, f)
                                         THEN Ledger!RatingAfter(vote[r].row, f) ELSE Unwritten]
  /\ vote[r].pc # "updated" => vote[r].written = [f \in Film |-> Unwritten]

FreshOK(r) ==
  \A f \in Film :
    /\ f \in Held(r) <=> forUpdate[f] = r
    /\ f \in Held(r) => /\ vote[r].read[f] = [rating |-> rating[f], duelCount |-> duelCount[f]]
                        /\ keyShare[f] = {}

(* The inductive invariant. *)
IInv == TypeOK /\ \A r \in Request : TaskOK(r) /\ RowOK(r) /\ FreshOK(r)

-----------------------------------------------------------------------------
(* Types.                                                                  *)

LEMMA Assumptions ==
  /\ Film \subseteq Int /\ NoRequest \notin Request
  /\ NoDuel \notin DuelId /\ NoDuel \notin Pairs
  /\ InitialRating \in [Film -> Int] /\ InitialCount \in [Film -> Nat]
  /\ InitialDuels \in [DuelId -> Pairs \cup {NoDuel}]
  /\ MaxSeq \in Nat /\ MaxCrashes \in Nat
  /\ Unwritten \notin Int
  /\ PostedWinner \subseteq Int /\ IntModulus \in Nat \ {0}
  /\ \A f \in Film : 0 <= f /\ 2 * f < IntModulus
BY RegistrationAssumption, MatchmakingAssumption
   DEF RegistrationAssumption, MatchmakingAssumption, Pairs

(* The ledger as its own proofs speak of it is the one implemented here:   *)
(* what they assume is so, and the same arithmetic is done.                *)
LEMMA LedgerAssumptions ==
  /\ Film \subseteq Nat /\ LedgerFacts!IsFiniteSet(Film)
  /\ NoDuel \notin Film \X Film
  /\ InitialRating \in [Film -> Int] /\ InitialCount \in [Film -> Nat]
  /\ InitialDuels \in [DuelId -> LedgerFacts!Pair \cup {NoDuel}]
  /\ MaxSeq \in Nat
  /\ Scale \in Nat \ {0} /\ MaxGap \in Nat
  /\ Expect \in [-MaxGap..MaxGap -> 0..Scale]
  /\ \A g \in -MaxGap..MaxGap : Expect[g] + Expect[-g] = Scale
  /\ \A g, h \in -MaxGap..MaxGap : g <= h => Expect[g] <= Expect[h]
<1>1. LedgerFacts!IsFiniteSet(Film) <=> IsFiniteSet(Film)
  BY DEF IsFiniteSet, LedgerFacts!IsFiniteSet
<1>2. NoDuel \notin Film \X Film
  BY RegistrationAssumption DEF RegistrationAssumption
<1> QED
  BY <1>1, <1>2, Assumptions, MatchmakingAssumption, EloAssumption
     DEF MatchmakingAssumption, EloAssumption, Pairs, LedgerFacts!Pair

LEMMA SameArithmetic ==
  \A rs, cs, w, l : LedgerFacts!Result(rs, cs, w, l) = Ledger!Result(rs, cs, w, l)
BY DEF LedgerFacts!Result, Ledger!Result, LedgerFacts!CalculateRatings, Ledger!CalculateRatings,
       LedgerFacts!FilmKFromDuelCount, Ledger!FilmKFromDuelCount,
       LedgerFacts!ExpectedScore, Ledger!ExpectedScore, LedgerFacts!Gap, Ledger!Gap

(* A vote row is not the absence of one.                                   *)
LEMMA NoRowIsNoRow ==
  ASSUME NEW v \in Ledger!Row
  PROVE  v # NoRow
BY RegistrationAssumption DEF RegistrationAssumption, Ledger!Row

LEMMA BlankTasks ==
  /\ NoVote \in VoteTask /\ [NoVote EXCEPT !.pc = "over"] \in VoteTask
  /\ NoCreation \in CreationTask /\ [NoCreation EXCEPT !.pc = "over"] \in CreationTask
BY DEF NoVote, VoteTask, Snapshot, NotRead, NoCreation, CreationTask, Creating

LEMMA InitIInv == Init => IInv
<1> SUFFICES ASSUME Init PROVE IInv
  OBVIOUS
<1>1. Ledger!TypeOK
  BY Assumptions DEF Init, Ledger!TypeOK, Ledger!Pair, Pairs
<1>2. TypeOK
  <2>1. /\ voteSeq \in 0..MaxSeq /\ forUpdate \in [Film -> Request \cup {NoRequest}]
        /\ keyShare \in [Film -> SUBSET Request] /\ pendingGauge \in Nat
        /\ votesTotal \in [Film -> Nat] /\ crashes \in 0..MaxCrashes
    BY Assumptions DEF Init
  <2>2. vote \in [Request -> VoteTask] /\ next \in [Request -> CreationTask]
    BY BlankTasks DEF Init
  <2> QED
    BY <1>1, <2>1, <2>2 DEF TypeOK
<1>3. ASSUME NEW r \in Request PROVE TaskOK(r) /\ RowOK(r)
  BY DEF Init, TaskOK, RowOK, NoVote, NoCreation, InTx, Holding, Paired
<1>4. ASSUME NEW r \in Request PROVE FreshOK(r)
  BY Assumptions DEF Init, FreshOK, Held, NoVote
<1> QED
  BY <1>2, <1>3, <1>4 DEF IInv

-----------------------------------------------------------------------------
(* What stays true of a request that a step does not concern.              *)

LEMMA SameRow ==
  ASSUME NEW q \in Request, duels' = duels \/ duels'[vote[q].duel] = duels[vote[q].duel],
         vote'[q].duel = vote[q].duel, vote'[q].winner = vote[q].winner,
         vote'[q].user = vote[q].user, vote'[q].read = vote[q].read
  PROVE  \A s : RowOf(q, s)' = RowOf(q, s)
<1>1. (LoserTo(vote[q].winner, vote[q].duel))' = LoserTo(vote[q].winner, vote[q].duel)
  BY DEF LoserTo
<1>2. ASSUME NEW w, NEW l PROVE NewRatings(q, w, l)' = NewRatings(q, w, l)
  BY DEF NewRatings, Ledger!Result, CalculateRatings, Ledger!CalculateRatings,
         Ledger!FilmKFromDuelCount, Ledger!ExpectedScore, Ledger!Gap
<1>3. ASSUME NEW s PROVE RowOf(q, s)' = RowOf(q, s)
  BY <1>1, <1>2 DEF RowOf
<1> QED
  BY <1>3

LEMMA FrameRow ==
  ASSUME NEW q \in Request, vote'[q] = vote[q], duels'[vote[q].duel] = duels[vote[q].duel],
         TypeOK, voteSeq' \in Int, voteSeq <= voteSeq', RowOK(q),
         vote[q].row # NoRow => \A v \in votes' : v.duel # vote[q].duel
  PROVE  RowOK(q)'
<1>3. \A s : RowOf(q, s)' = RowOf(q, s)
  BY SameRow
<1>4. (vote[q].winner \in FilmsOf(vote[q].duel))' <=> vote[q].winner \in FilmsOf(vote[q].duel)
  BY DEF FilmsOf
<1>5. vote[q].row # NoRow => vote[q].row.seq \in Int
  BY DEF TypeOK, VoteTask, Ledger!Row
<1> QED
  BY <1>3, <1>4, <1>5 DEF RowOK, TypeOK, Ledger!Touches, Ledger!RatingAfter

LEMMA FrameTask ==
  ASSUME NEW q \in Request, TaskOK(q), vote'[q] = vote[q], next'[q] = next[q],
         duels'[vote[q].duel] = duels[vote[q].duel]
  PROVE  TaskOK(q)'
BY DEF TaskOK

LEMMA FrameFresh ==
  ASSUME NEW q \in Request, FreshOK(q), vote'[q] = vote[q],
         duels'[vote[q].duel] = duels[vote[q].duel],
         \A f \in Film : forUpdate'[f] = q <=> forUpdate[f] = q,
         \A f \in Film : forUpdate[f] = q =>
           rating'[f] = rating[f] /\ duelCount'[f] = duelCount[f] /\ keyShare'[f] = keyShare[f]
  PROVE  FreshOK(q)'
<1>1. Held(q)' = Held(q)
  BY DEF Held, Lo, LockOrder, FilmsOf
<1> QED
  BY <1>1 DEF FreshOK

(* A step that leaves the tables and the votes alone, and gives rows       *)
(* FOR KEY SHARE only where nobody has them FOR UPDATE.                    *)
LEMMA FrameVotes ==
  ASSUME IInv, UNCHANGED <<tables, voteSeq, forUpdate, vote>>,
         \A f \in Film : keyShare'[f] \subseteq keyShare[f] \/ forUpdate[f] = NoRequest
  PROVE  \A q \in Request : RowOK(q)' /\ FreshOK(q)'
<1> SUFFICES ASSUME NEW q \in Request PROVE RowOK(q)' /\ FreshOK(q)'
  OBVIOUS
<1>0. vote'[q] = vote[q] /\ duels' = duels /\ votes' = votes /\ voteSeq' = voteSeq
      /\ rating' = rating /\ duelCount' = duelCount /\ forUpdate' = forUpdate
  BY DEF tables
<1>1. RowOK(q)'
  <2>1. TypeOK /\ RowOK(q) /\ voteSeq' \in Int /\ voteSeq <= voteSeq'
    BY <1>0 DEF IInv, TypeOK
  <2>2. vote[q].row # NoRow => \A v \in votes' : v.duel # vote[q].duel
    BY <1>0, <2>1 DEF RowOK
  <2>3. duels'[vote[q].duel] = duels[vote[q].duel]
    BY <1>0
  <2> QED
    BY <1>0, <2>1, <2>2, <2>3, FrameRow
<1>2. FreshOK(q)'
  <2>1. Held(q)' = Held(q)
    BY <1>0 DEF Held, Lo, LockOrder, FilmsOf
  <2>2. ASSUME NEW f \in Held(q), f \in Film PROVE keyShare'[f] = {}
    <3>1. forUpdate[f] = q /\ keyShare[f] = {}
      BY <2>2 DEF IInv, FreshOK
    <3>2. forUpdate[f] # NoRequest
      BY <3>1, Assumptions
    <3> QED
      BY <2>2, <3>1, <3>2
  <2> QED
    BY <1>0, <2>1, <2>2 DEF IInv, FreshOK
<1> QED
  BY <1>1, <1>2

(* A step of request r's vote leaves the other requests as they were, if it*)
(* changes the tables only at rows r holds, adds only a vote on r's duel,  *)
(* and takes only free rows.                                               *)
LEMMA OtherRequests ==
  ASSUME IInv, NEW r \in Request, NEW q \in Request \ {r},
         vote'[q] = vote[q], next'[q] = next[q], duels' = duels, keyShare' = keyShare,
         voteSeq' \in Int, voteSeq <= voteSeq',
         \A f \in Film : forUpdate'[f] # forUpdate[f] => forUpdate'[f] # q /\ forUpdate[f] # q,
         \A f \in Film : forUpdate[f] # r => rating'[f] = rating[f] /\ duelCount'[f] = duelCount[f],
         votes' = votes \/
           (vote[r].pc \in Holding /\ \E v : votes' = votes \cup {v} /\ v.duel = vote[r].duel)
  PROVE  TaskOK(q)' /\ RowOK(q)' /\ FreshOK(q)'
<1>1. TypeOK /\ TaskOK(q) /\ RowOK(q) /\ FreshOK(q) /\ TaskOK(r) /\ RowOK(r) /\ FreshOK(r)
  BY DEF IInv
<1>2. TaskOK(q)'
  BY <1>1, FrameTask
<1>3. FreshOK(q)'
  BY <1>1, FrameFresh
<1>4. vote[q].row # NoRow => \A v \in votes' : v.duel # vote[q].duel
  <2> SUFFICES ASSUME vote[q].row # NoRow, vote[r].pc \in Holding, vote[q].duel = vote[r].duel
               PROVE  FALSE
    BY <1>1 DEF RowOK
  <2>1. vote[q].pc \in Holding
    BY <1>1 DEF RowOK, Holding
  <2>2. FilmsOf(vote[q].duel) = Held(q) /\ FilmsOf(vote[r].duel) = Held(r)
    BY <2>1 DEF Held, Holding
  <2>3. vote[r].winner \in Int /\ \E f \in Film : f \in FilmsOf(vote[r].duel)
    BY <1>1 DEF TaskOK, Pairs, FilmsOf, TypeOK, VoteTask
  <2>4. PICK f \in Film : f \in Held(q) /\ f \in Held(r)
    BY <2>2, <2>3
  <2>5. forUpdate[f] = q /\ forUpdate[f] = r
    BY <1>1, <2>4 DEF FreshOK
  <2> QED
    BY <2>5
<1>5. RowOK(q)'
  BY <1>1, <1>4, FrameRow
<1> QED
  BY <1>2, <1>3, <1>5

(* EndVote, field by field.                                                *)
LEMMA EndVoteEffect ==
  ASSUME IInv, NEW r \in Request, EndVote(r)
  PROVE  /\ vote' \in [Request -> VoteTask]
         /\ vote'[r] = [NoVote EXCEPT !.pc = "over"]
         /\ \A q \in Request \ {r} : vote'[q] = vote[q]
         /\ forUpdate' \in [Film -> Request \cup {NoRequest}]
         /\ \A f \in Film : forUpdate'[f] # r
         /\ \A f \in Film : forUpdate'[f] # forUpdate[f] => forUpdate[f] = r /\ forUpdate'[f] = NoRequest
BY BlankTasks, Assumptions DEF EndVote, Unlocked, IInv, TypeOK

(* A request whose vote is over has nothing to keep.                       *)
LEMMA OverOK ==
  ASSUME NEW r \in Request, vote'[r] \in {NoVote, [NoVote EXCEPT !.pc = "over"]},
         \A f \in Film : forUpdate'[f] # r
  PROVE  RowOK(r)' /\ FreshOK(r)'
<1>1. /\ vote'[r].pc \in {"idle", "over"} /\ vote'[r].row = NoRow
      /\ vote'[r].written = [f \in Film |-> Unwritten]
  BY DEF NoVote
<1>2. Held(r)' = {}
  BY <1>1 DEF Held
<1> QED
  BY <1>1, <1>2 DEF RowOK, FreshOK

(* The transaction of a vote is rolled back: MissingDuel, NotInDuel,       *)
(* DuplicateVote, VoteFails.                                               *)
LEMMA RollbackStep ==
  ASSUME IInv, NEW r \in Request, EndVote(r),
         UNCHANGED <<tables, keyShare, next, metrics, crashes>>,
         voteSeq' \in 0..MaxSeq, voteSeq <= voteSeq'
  PROVE  IInv'
<1>1. /\ vote' \in [Request -> VoteTask]
      /\ vote'[r] = [NoVote EXCEPT !.pc = "over"]
      /\ \A q \in Request \ {r} : vote'[q] = vote[q]
      /\ forUpdate' \in [Film -> Request \cup {NoRequest}]
      /\ \A f \in Film : forUpdate'[f] # r
      /\ \A f \in Film : forUpdate'[f] # forUpdate[f] => forUpdate[f] = r /\ forUpdate'[f] = NoRequest
  BY EndVoteEffect
<1>2. TypeOK'
  BY <1>1 DEF IInv, TypeOK, Ledger!TypeOK, tables, metrics
<1>3. TaskOK(r)' /\ RowOK(r)' /\ FreshOK(r)'
  <2>1. RowOK(r)' /\ FreshOK(r)'
    BY <1>1, OverOK
  <2>2. TaskOK(r)'
    BY <1>1 DEF IInv, TaskOK, NoVote, InTx, Holding
  <2> QED
    BY <2>1, <2>2
<1>4. ASSUME NEW q \in Request \ {r} PROVE TaskOK(q)' /\ RowOK(q)' /\ FreshOK(q)'
  BY <1>1, <1>4, Assumptions, OtherRequests DEF tables
<1> QED
  BY <1>2, <1>3, <1>4 DEF IInv

-----------------------------------------------------------------------------
(* The steps of RegisterVote.                                              *)

(* LockRow, field by field.                                                *)
LEMMA LockRowEffect ==
  ASSUME IInv, NEW r \in Request, NEW f \in Film, NEW to \in InTx, LockRow(r, f, to)
  PROVE  /\ vote' \in [Request -> VoteTask]
         /\ vote'[r].pc = to /\ vote'[r].duel = vote[r].duel /\ vote'[r].row = vote[r].row
         /\ vote'[r].written = vote[r].written
         /\ vote'[r].read = [vote[r].read EXCEPT ![f] = [rating |-> rating[f],
                                                          duelCount |-> duelCount[f]]]
         /\ \A q \in Request \ {r} : vote'[q] = vote[q]
         /\ forUpdate[f] = NoRequest /\ keyShare[f] = {}
         /\ forUpdate' = [forUpdate EXCEPT ![f] = r]
         /\ forUpdate' \in [Film -> Request \cup {NoRequest}]
<1> DEFINE snap == [rating |-> rating[f], duelCount |-> duelCount[f]]
<1>1. snap \in Snapshot
  BY DEF IInv, TypeOK, Ledger!TypeOK, Snapshot
<1> HIDE DEF snap
<1>2. vote' = [vote EXCEPT ![r] = [vote[r] EXCEPT !.pc = to, !.read[f] = snap]]
  BY DEF LockRow, snap
<1>3. vote[r] \in VoteTask
  BY DEF IInv, TypeOK
<1>4. [vote[r] EXCEPT !.pc = to, !.read[f] = snap] \in VoteTask
  BY <1>1, <1>3 DEF VoteTask
<1>5. vote' \in [Request -> VoteTask] /\ vote'[r] = [vote[r] EXCEPT !.pc = to, !.read[f] = snap]
      /\ \A q \in Request \ {r} : vote'[q] = vote[q]
  BY <1>2, <1>4 DEF IInv, TypeOK
<1>6. /\ vote'[r].pc = to /\ vote'[r].duel = vote[r].duel /\ vote'[r].row = vote[r].row
      /\ vote'[r].written = vote[r].written /\ vote'[r].read = [vote[r].read EXCEPT ![f] = snap]
  BY <1>3, <1>5 DEF VoteTask
<1>7. /\ forUpdate[f] = NoRequest /\ keyShare[f] = {} /\ forUpdate' = [forUpdate EXCEPT ![f] = r]
      /\ forUpdate' \in [Film -> Request \cup {NoRequest}]
  BY DEF LockRow, IInv, TypeOK
<1> QED
  BY <1>5, <1>6, <1>7 DEF snap

(* Locking one more row keeps the invariant, if it is the row that the     *)
(* task's new state adds to those it holds.                                *)
LEMMA LockStep ==
  ASSUME IInv, NEW r \in Request, NEW f \in Film, NEW to \in {"half", "locked"},
         LockRow(r, f, to), vote[r].pc \in {"begin", "half"}, f \notin Held(r),
         Held(r)' = Held(r) \cup {f}, duels[vote[r].duel] \in Pairs,
         UNCHANGED <<tables, voteSeq, keyShare, next, metrics, crashes>>
  PROVE  IInv'
<1>1. /\ vote' \in [Request -> VoteTask]
      /\ vote'[r].pc = to /\ vote'[r].duel = vote[r].duel /\ vote'[r].row = vote[r].row
      /\ vote'[r].written = vote[r].written
      /\ vote'[r].read = [vote[r].read EXCEPT ![f] = [rating |-> rating[f],
                                                       duelCount |-> duelCount[f]]]
      /\ \A q \in Request \ {r} : vote'[q] = vote[q]
      /\ forUpdate[f] = NoRequest /\ keyShare[f] = {}
      /\ forUpdate' = [forUpdate EXCEPT ![f] = r]
      /\ forUpdate' \in [Film -> Request \cup {NoRequest}]
  BY LockRowEffect DEF InTx
<1>2. TypeOK'
  BY <1>1 DEF IInv, TypeOK, Ledger!TypeOK, tables, metrics
<1>3. TaskOK(r)'
  BY <1>1 DEF IInv, TaskOK, tables, InTx, Holding
<1>4. RowOK(r)'
  <2>1. vote[r].row = NoRow /\ vote[r].written = [x \in Film |-> Unwritten]
    BY DEF IInv, RowOK
  <2> QED
    BY <1>1, <2>1 DEF RowOK
<1>5. FreshOK(r)'
  <2>1. /\ \A x \in Film : x \in Held(r) <=> forUpdate[x] = r
        /\ \A x \in Film : x \in Held(r) =>
             /\ vote[r].read[x] = [rating |-> rating[x], duelCount |-> duelCount[x]]
             /\ keyShare[x] = {}
    BY DEF IInv, FreshOK
  <2>2. \A x \in Film : vote'[r].read[x] = IF x = f THEN [rating |-> rating[f],
                                                          duelCount |-> duelCount[f]]
                                           ELSE vote[r].read[x]
    BY <1>1 DEF IInv, TypeOK, VoteTask
  <2>3. \A x \in Film : forUpdate'[x] = IF x = f THEN r ELSE forUpdate[x]
    BY <1>1 DEF IInv, TypeOK
  <2> QED
    BY <1>1, <2>1, <2>2, <2>3 DEF FreshOK, tables
<1>6. ASSUME NEW q \in Request \ {r} PROVE TaskOK(q)' /\ RowOK(q)' /\ FreshOK(q)'
  <2>1. \A x \in Film : forUpdate'[x] # forUpdate[x] => forUpdate'[x] # q /\ forUpdate[x] # q
    BY <1>1, Assumptions DEF IInv, TypeOK
  <2>2. voteSeq' \in Int /\ voteSeq <= voteSeq' /\ votes' = votes
    BY DEF IInv, TypeOK, tables
  <2> QED
    BY <1>1, <2>1, <2>2, OtherRequests DEF tables
<1> QED
  BY <1>2, <1>3, <1>5, <1>4, <1>6 DEF IInv

(* The two films of a duel, in the order of their ids.                     *)
LEMMA LoHi ==
  ASSUME NEW d \in DuelId, duels[d] \in Pairs
  PROVE  /\ Lo(d) \in Film /\ Hi(d) \in Film /\ Lo(d) < Hi(d) /\ Lo(d) # Hi(d)
         /\ FilmsOf(d) = {Lo(d), Hi(d)}
<1> DEFINE a == duels[d][1]
           b == duels[d][2]
<1>1. a \in Film /\ b \in Film /\ a # b
  BY DEF Pairs
<1>2. a \in Int /\ b \in Int
  BY <1>1, Assumptions
<1>3. /\ Lo(d) = IF a < b THEN a ELSE b
      /\ Hi(d) = IF a < b THEN b ELSE a
      /\ FilmsOf(d) = {a, b}
  BY DEF Lo, Hi, LockOrder, FilmsOf
<1> HIDE DEF a, b
<1> QED
  BY <1>1, <1>2, <1>3

LEMMA LockFirstStep ==
  ASSUME IInv, NEW r \in Request, LockFirst(r)
  PROVE  IInv'
<1>1. vote[r].duel \in DuelId /\ duels[vote[r].duel] \in Pairs
  BY DEF LockFirst, IInv, TypeOK, Ledger!TypeOK, Ledger!Pair, Pairs, TaskOK, InTx
<1>2. Lo(vote[r].duel) \in Film
  BY <1>1, LoHi
<1>3. vote'[r].pc = "half" /\ vote'[r].duel = vote[r].duel
  BY <1>2, LockRowEffect DEF LockFirst, InTx
<1>4. Held(r) = {} /\ Held(r)' = {Lo(vote[r].duel)}
  BY <1>3 DEF LockFirst, Held, Lo, LockOrder, tables
<1> QED
  BY <1>1, <1>2, <1>4, LockStep DEF LockFirst

LEMMA LockSecondStep ==
  ASSUME IInv, NEW r \in Request, LockSecond(r)
  PROVE  IInv'
<1>1. vote[r].duel \in DuelId /\ duels[vote[r].duel] \in Pairs
  BY DEF LockSecond, IInv, TaskOK, InTx, Holding
<1>2. Hi(vote[r].duel) \in Film /\ Lo(vote[r].duel) \in Film /\ Lo(vote[r].duel) # Hi(vote[r].duel)
      /\ FilmsOf(vote[r].duel) = {Lo(vote[r].duel), Hi(vote[r].duel)}
  BY <1>1, LoHi
<1>3. vote'[r].pc = "locked" /\ vote'[r].duel = vote[r].duel
  BY <1>2, LockRowEffect DEF LockSecond, InTx
<1>4. Held(r) = {Lo(vote[r].duel)} /\ Held(r)' = FilmsOf(vote[r].duel)
  BY <1>3 DEF LockSecond, Held, FilmsOf, tables
<1> QED
  BY <1>1, <1>2, <1>4, LockStep DEF LockSecond

(* The winner posted and the other film of its duel.                       *)
LEMMA LoserIsOther ==
  ASSUME NEW d \in DuelId, duels[d] \in Pairs, NEW w \in FilmsOf(d)
  PROVE  /\ w \in Film /\ LoserTo(w, d) \in Film /\ LoserTo(w, d) # w
         /\ FilmsOf(d) = {w, LoserTo(w, d)}
         /\ duels[d] \in {<<w, LoserTo(w, d)>>, <<LoserTo(w, d), w>>}
BY DEF Pairs, FilmsOf, LoserTo

(* The ratings RegisterVote computes are whole numbers.                    *)
LEMMA NewRatingsType ==
  ASSUME IInv, NEW r \in Request, NEW w \in Film, NEW l \in Film
  PROVE  NewRatings(r, w, l) \in [winner : Int, loser : Int]
<1> DEFINE rs == [f \in Film |-> vote[r].read[f].rating]
           cs == [f \in Film |-> vote[r].read[f].duelCount]
<1>1. rs \in [Film -> Int] /\ cs \in [Film -> Nat]
  BY DEF IInv, TypeOK, VoteTask, Snapshot
<1>2. NewRatings(r, w, l) = LedgerFacts!Result(rs, cs, w, l)
  BY SameArithmetic DEF NewRatings
<1> HIDE DEF rs, cs
<1>3. LedgerFacts!Result(rs, cs, w, l) \in [winner : Int, loser : Int]
  BY <1>1, LedgerAssumptions, LedgerFacts!ResultType
<1> QED
  BY <1>2, <1>3

LEMMA InsertVoteStep ==
  ASSUME IInv, NEW r \in Request, InsertVote(r)
  PROVE  IInv'
<1> DEFINE d == vote[r].duel
           w == vote[r].winner
           row == VoteRow(r)
<1>0. /\ vote[r].pc = "locked" /\ w \in FilmsOf(d) /\ voteSeq < MaxSeq /\ voteSeq' = voteSeq + 1
      /\ \A v \in votes : v.duel # d
      /\ UNCHANGED <<tables, locks, next, metrics, crashes>>
  BY DEF InsertVote, ReachesIndex
<1>1. d \in DuelId /\ duels[d] \in Pairs
  BY <1>0 DEF IInv, TaskOK, InTx, Holding
<1>2. w \in Film /\ LoserTo(w, d) \in Film
  BY <1>0, <1>1, LoserIsOther
<1>3. row = RowOf(r, voteSeq + 1) /\ row.seq = voteSeq + 1
  BY DEF VoteRow, RowOf
<1>4. row \in Ledger!Row
  <2>1. NewRatings(r, w, LoserTo(w, d)) \in [winner : Int, loser : Int]
    BY <1>2, NewRatingsType
  <2>2. voteSeq + 1 \in 1..MaxSeq /\ vote[r].user \in User \cup {NoUser}
    BY <1>0, Assumptions DEF IInv, TypeOK, VoteTask
  <2> QED
    BY <1>1, <1>2, <2>1, <2>2 DEF VoteRow, Ledger!Row
<1> HIDE DEF row
<1>5. /\ vote' \in [Request -> VoteTask]
      /\ vote'[r] = [vote[r] EXCEPT !.pc = "inserted", !.row = row]
      /\ \A q \in Request \ {r} : vote'[q] = vote[q]
  <2>1. vote' = [vote EXCEPT ![r] = [vote[r] EXCEPT !.pc = "inserted", !.row = row]]
    BY DEF InsertVote, row
  <2>2. vote[r] \in VoteTask
    BY DEF IInv, TypeOK
  <2>3. [vote[r] EXCEPT !.pc = "inserted", !.row = row] \in VoteTask
    BY <1>4, <2>2 DEF VoteTask, InTx
  <2> QED
    BY <2>1, <2>3 DEF IInv, TypeOK
<1>6. /\ vote'[r].pc = "inserted" /\ vote'[r].row = row /\ vote'[r].duel = d /\ vote'[r].winner = w
      /\ vote'[r].user = vote[r].user /\ vote'[r].read = vote[r].read
      /\ vote'[r].written = vote[r].written
  BY <1>5 DEF IInv, TypeOK, VoteTask
<1>7. TypeOK'
  BY <1>0, <1>5, Assumptions DEF IInv, TypeOK, Ledger!TypeOK, tables, locks, metrics
<1>8. TaskOK(r)'
  BY <1>0, <1>1, <1>6 DEF IInv, TaskOK, tables, InTx, Holding
<1>9. RowOK(r)'
  <2>1. row # NoRow
    BY <1>4, NoRowIsNoRow
  <2>2. duels' = duels /\ votes' = votes
    BY <1>0 DEF tables
  <2>3. (vote[r].row = RowOf(r, vote[r].row.seq))'
    <3>1. \A s : RowOf(r, s)' = RowOf(r, s)
      BY <1>6, <2>2, SameRow
    <3>2. vote'[r].row = RowOf(r, vote'[r].row.seq)
      BY <1>3, <1>6
    <3> QED
      BY <3>1, <3>2
  <2>4. vote[r].written = [f \in Film |-> Unwritten]
    BY <1>0 DEF IInv, RowOK
  <2>5. row.seq <= voteSeq'
    BY <1>0, <1>3 DEF IInv, TypeOK
  <2>7. /\ vote'[r].row # NoRow /\ vote'[r].row.seq <= voteSeq'
        /\ vote'[r].pc = "inserted" /\ vote'[r].written = [f \in Film |-> Unwritten]
        /\ \A v \in votes' : v.duel # vote'[r].duel
    BY <1>0, <1>6, <2>1, <2>2, <2>4, <2>5
  <2>8. (vote[r].winner \in FilmsOf(vote[r].duel))'
    BY <1>0, <1>6, <2>2 DEF FilmsOf
  <2> QED
    BY <2>3, <2>7, <2>8 DEF RowOK
<1>10. FreshOK(r)'
  <2>1. Held(r)' = Held(r)
    BY <1>0, <1>6 DEF Held, FilmsOf, tables
  <2> QED
    BY <1>0, <1>6, <2>1 DEF IInv, FreshOK, tables, locks
<1>11. ASSUME NEW q \in Request \ {r} PROVE TaskOK(q)' /\ RowOK(q)' /\ FreshOK(q)'
  <2>1. voteSeq' \in Int /\ voteSeq <= voteSeq'
    BY <1>0 DEF IInv, TypeOK
  <2> QED
    BY <1>0, <1>5, <2>1, OtherRequests DEF tables, locks
<1> QED
  BY <1>7, <1>8, <1>9, <1>10, <1>11 DEF IInv

LEMMA UpdateRatingsStep ==
  ASSUME IInv, NEW r \in Request, UpdateRatings(r)
  PROVE  IInv'
<1> DEFINE row == vote[r].row
           new == [vote[r].written EXCEPT ![row.winner] = row.winnerAfter,
                                          ![row.loser] = row.loserAfter]
<1>0. /\ vote[r].pc = "inserted" /\ row # NoRow
      /\ UNCHANGED <<tables, voteSeq, locks, next, metrics, crashes>>
      /\ duels' = duels /\ votes' = votes
  BY DEF UpdateRatings, IInv, RowOK, tables
<1>1. vote[r] \in VoteTask /\ row \in Ledger!Row
  BY <1>0 DEF IInv, TypeOK, VoteTask
<1>2. /\ row.winner \in Film /\ row.loser \in Film
      /\ row.winnerAfter \in Int /\ row.loserAfter \in Int
  BY <1>1 DEF Ledger!Row
<1>3. row.winner # row.loser
  <2>1. vote[r].duel \in DuelId /\ duels[vote[r].duel] \in Pairs /\ vote[r].winner \in FilmsOf(vote[r].duel)
    BY <1>0 DEF IInv, TaskOK, RowOK, InTx, Holding
  <2>2. row = RowOf(r, row.seq)
    BY <1>0 DEF IInv, RowOK
  <2>3. row.winner = vote[r].winner /\ row.loser = LoserTo(vote[r].winner, vote[r].duel)
    BY <2>2 DEF RowOf
  <2> QED
    BY <2>1, <2>3, LoserIsOther
<1>4. vote[r].written = [f \in Film |-> Unwritten]
  BY <1>0 DEF IInv, RowOK
<1> HIDE DEF row
<1>5. new = [f \in Film |-> IF Ledger!Touches(row, f) THEN Ledger!RatingAfter(row, f) ELSE Unwritten]
  BY <1>2, <1>3, <1>4 DEF Ledger!Touches, Ledger!RatingAfter
<1>6. new \in [Film -> Int \cup {Unwritten}]
  BY <1>2, <1>4
<1> HIDE DEF new
<1>7. /\ vote' \in [Request -> VoteTask]
      /\ vote'[r] = [vote[r] EXCEPT !.pc = "updated", !.written = new]
      /\ \A q \in Request \ {r} : vote'[q] = vote[q]
  <2>1. vote' = [vote EXCEPT ![r] = [vote[r] EXCEPT !.pc = "updated", !.written = new]]
    BY DEF UpdateRatings, row, new
  <2>2. [vote[r] EXCEPT !.pc = "updated", !.written = new] \in VoteTask
    BY <1>1, <1>6 DEF VoteTask, InTx
  <2> QED
    BY <2>1, <2>2 DEF IInv, TypeOK
<1>8. /\ vote'[r].pc = "updated" /\ vote'[r].row = row /\ vote'[r].written = new
      /\ vote'[r].duel = vote[r].duel /\ vote'[r].winner = vote[r].winner
      /\ vote'[r].user = vote[r].user /\ vote'[r].read = vote[r].read
  BY <1>1, <1>7 DEF VoteTask, row
<1>9. TypeOK'
  BY <1>0, <1>7 DEF IInv, TypeOK, Ledger!TypeOK, tables, locks, metrics
<1>10. TaskOK(r)'
  BY <1>0, <1>8 DEF IInv, TaskOK, InTx, Holding
<1>11. RowOK(r)'
  <2>1. (vote[r].row = RowOf(r, vote[r].row.seq))'
    <3>1. \A s : RowOf(r, s)' = RowOf(r, s)
      BY <1>0, <1>8, SameRow
    <3>2. row = RowOf(r, row.seq)
      BY <1>0 DEF IInv, RowOK, row
    <3>3. vote'[r].row = RowOf(r, vote'[r].row.seq)
      BY <1>8, <3>2
    <3> QED
      BY <3>1, <3>3
  <2>2. (vote[r].winner \in FilmsOf(vote[r].duel))'
    BY <1>0, <1>8 DEF IInv, RowOK, FilmsOf
  <2>3. row # NoRow /\ row.seq <= voteSeq' /\ \A v \in votes' : v.duel # vote'[r].duel
    BY <1>0, <1>8 DEF IInv, RowOK, row
  <2>4. (vote[r].written = [f \in Film |-> IF Ledger!Touches(vote[r].row, f)
                                           THEN Ledger!RatingAfter(vote[r].row, f) ELSE Unwritten])'
    BY <1>5, <1>8 DEF Ledger!Touches, Ledger!RatingAfter
  <2> QED
    BY <1>8, <2>1, <2>2, <2>3, <2>4 DEF RowOK
<1>12. FreshOK(r)'
  <2>1. Held(r)' = Held(r)
    BY <1>0, <1>8 DEF Held, FilmsOf
  <2> QED
    BY <1>0, <1>8, <2>1 DEF IInv, FreshOK, tables, locks
<1>13. ASSUME NEW q \in Request \ {r} PROVE TaskOK(q)' /\ RowOK(q)' /\ FreshOK(q)'
  <2>1. voteSeq' \in Int /\ voteSeq <= voteSeq'
    BY <1>0 DEF IInv, TypeOK
  <2> QED
    BY <1>0, <1>7, <2>1, OtherRequests DEF tables, locks
<1> QED
  BY <1>9, <1>10, <1>11, <1>12, <1>13 DEF IInv

(* COMMIT: the row of r's vote, its two ratings and its two counts reach   *)
(* the tables; nobody else holds its two films.                            *)
LEMMA PublishStep ==
  ASSUME IInv, NEW r \in Request, vote[r].pc = "updated", Publish(r), EndVote(r),
         UNCHANGED <<voteSeq, keyShare, next, pendingGauge, crashes>>,
         votesTotal' \in [Film -> Nat]
  PROVE  IInv'
<1> DEFINE row == vote[r].row
<1>0. row # NoRow /\ row \in Ledger!Row /\ vote[r].duel \in DuelId /\ duels[vote[r].duel] \in Pairs
  BY DEF IInv, RowOK, TaskOK, TypeOK, VoteTask, InTx, Holding
<1>1. /\ vote' \in [Request -> VoteTask]
      /\ vote'[r] = [NoVote EXCEPT !.pc = "over"]
      /\ \A q \in Request \ {r} : vote'[q] = vote[q]
      /\ forUpdate' \in [Film -> Request \cup {NoRequest}]
      /\ \A f \in Film : forUpdate'[f] # r
      /\ \A f \in Film : forUpdate'[f] # forUpdate[f] => forUpdate[f] = r /\ forUpdate'[f] = NoRequest
  BY EndVoteEffect
<1>2. /\ row.duel = vote[r].duel
      /\ \A f \in Film : Ledger!Touches(row, f) <=> f \in FilmsOf(vote[r].duel)
  <2>1. row = RowOf(r, row.seq) /\ vote[r].winner \in FilmsOf(vote[r].duel)
    BY <1>0 DEF IInv, RowOK
  <2>2. /\ row.duel = vote[r].duel /\ row.winner = vote[r].winner
        /\ row.loser = LoserTo(vote[r].winner, vote[r].duel)
    BY <2>1 DEF RowOf
  <2>3. FilmsOf(vote[r].duel) = {row.winner, row.loser}
    BY <1>0, <2>1, <2>2, LoserIsOther
  <2> QED
    BY <2>2, <2>3 DEF Ledger!Touches
<1>3. \A f \in Film : Ledger!Touches(row, f) <=> forUpdate[f] = r
  BY <1>2 DEF IInv, FreshOK, Held
<1>4. /\ votes' = votes \cup {row} /\ duels' = duels
      /\ \A f \in Film : forUpdate[f] # r => rating'[f] = rating[f] /\ duelCount'[f] = duelCount[f]
  BY <1>3 DEF Publish, IInv, RowOK
<1>5. Ledger!TypeOK'
  <2>1. rating' \in [Film -> Int]
    BY DEF Publish, IInv, TypeOK, VoteTask, Ledger!TypeOK
  <2>2. duelCount' \in [Film -> Nat]
    BY DEF Publish, IInv, TypeOK, Ledger!TypeOK
  <2> QED
    BY <1>0, <1>4, <2>1, <2>2 DEF IInv, TypeOK, Ledger!TypeOK
<1>6. TypeOK'
  BY <1>1, <1>5 DEF IInv, TypeOK
<1>7. TaskOK(r)' /\ RowOK(r)' /\ FreshOK(r)'
  <2>1. RowOK(r)' /\ FreshOK(r)'
    BY <1>1, OverOK
  <2>2. TaskOK(r)'
    BY <1>1 DEF IInv, TaskOK, NoVote, InTx, Holding
  <2> QED
    BY <2>1, <2>2
<1>8. ASSUME NEW q \in Request \ {r} PROVE TaskOK(q)' /\ RowOK(q)' /\ FreshOK(q)'
  <2>1. voteSeq' \in Int /\ voteSeq <= voteSeq'
    BY DEF IInv, TypeOK
  <2>2. \A f \in Film : forUpdate'[f] # forUpdate[f] => forUpdate'[f] # q /\ forUpdate[f] # q
    BY <1>1, Assumptions
  <2>3. vote[r].pc \in Holding /\ \E v : votes' = votes \cup {v} /\ v.duel = vote[r].duel
    BY <1>2, <1>4 DEF Holding
  <2> QED
    BY <1>1, <1>4, <2>1, <2>2, <2>3, OtherRequests
<1> QED
  BY <1>6, <1>7, <1>8 DEF IInv

-----------------------------------------------------------------------------
(* The steps that create a duel, short of its commit: they leave the votes *)
(* alone, and lock only rows no vote has locked.                           *)
LEMMA CreationFrame ==
  ASSUME IInv, NEW r \in Request, NEW task \in CreationTask,
         next' = [next EXCEPT ![r] = task],
         task.pc \in Paired => task.a \in Film /\ task.b \in Film /\ task.a # task.b,
         UNCHANGED <<tables, voteSeq, forUpdate, vote, metrics, crashes>>,
         keyShare' \in [Film -> SUBSET Request],
         \A f \in Film : keyShare'[f] \subseteq keyShare[f] \/ forUpdate[f] = NoRequest
  PROVE  IInv'
<1>1. next' \in [Request -> CreationTask] /\ next'[r] = task
      /\ \A q \in Request \ {r} : next'[q] = next[q]
  BY DEF IInv, TypeOK
<1>2. TypeOK'
  BY <1>1 DEF IInv, TypeOK, Ledger!TypeOK, tables, metrics
<1>3. ASSUME NEW q \in Request PROVE TaskOK(q)'
  BY <1>1 DEF IInv, TaskOK, tables
<1> QED
  BY <1>2, <1>3, FrameVotes DEF IInv

LEMMA EndCreationEffect ==
  ASSUME IInv, NEW r \in Request, EndCreation(r)
  PROVE  /\ keyShare' \in [Film -> SUBSET Request]
         /\ \A f \in Film : keyShare'[f] \subseteq keyShare[f]
         /\ next' = [next EXCEPT ![r] = [NoCreation EXCEPT !.pc = "over"]]
         /\ [NoCreation EXCEPT !.pc = "over"].pc = "over"
BY DEF EndCreation, IInv, TypeOK, NoCreation

(* NotEnoughFilms, CreationFails, OutOfIds.                                *)
LEMMA CreationEndsStep ==
  ASSUME IInv, NEW r \in Request, EndCreation(r),
         UNCHANGED <<tables, voteSeq, forUpdate, vote, metrics, crashes>>
  PROVE  IInv'
BY BlankTasks, EndCreationEffect, CreationFrame DEF Paired

(* FindCandidates returns other films of the catalogue than the winner,    *)
(* and none for a winner that is not in it.                                *)
LEMMA CandidatesAreOthers ==
  ASSUME NEW rs, NEW a, NEW pool \in FindCandidates(rs, a), NEW b \in pool
  PROVE  a \in Film /\ b \in Film /\ a # b
<1>1. PICK C \in Closest(rs, Others(a), a, MaxCandidates) :
        pool \in Closest(rs, C, a, Max({Cardinality({f \in C : InWindow(rs, f, a)}), MinCandidates}))
  BY DEF FindCandidates
<1>2. pool \subseteq C
  BY <1>1 DEF Closest, kSubset
<1>3. C \subseteq Others(a)
  BY <1>1 DEF Closest, kSubset
<1> QED
  BY <1>2, <1>3 DEF Others

LEMMA ChosenStep ==
  ASSUME IInv, NEW r \in Request, NEW a \in Film, NEW b \in Film, a # b, Chosen(r, a, b),
         UNCHANGED <<tables, voteSeq, locks, vote, metrics, crashes>>
  PROVE  IInv'
<1> DEFINE task == [pc |-> "insert", a |-> a, b |-> b]
<1>1. task \in CreationTask /\ next' = [next EXCEPT ![r] = task]
  BY Assumptions DEF CreationTask, Creating, Chosen
<1>2. keyShare' \in [Film -> SUBSET Request] /\ keyShare' = keyShare /\ forUpdate' = forUpdate
  BY DEF IInv, TypeOK, locks
<1> QED
  BY <1>1, <1>2, CreationFrame

LEMMA ShareRowStep ==
  ASSUME IInv, NEW r \in Request, next[r].pc \in Paired, NEW f \in Film,
         NEW to \in {"half", "checked"}, ShareRow(r, f, to)
  PROVE  IInv'
<1> DEFINE task == [next[r] EXCEPT !.pc = to]
<1>1. next[r] \in CreationTask /\ next[r].a \in Film /\ next[r].b \in Film /\ next[r].a # next[r].b
  BY DEF IInv, TypeOK, TaskOK
<1>2. task \in CreationTask /\ task.a = next[r].a /\ task.b = next[r].b
  BY <1>1 DEF CreationTask, Creating
<1>3. next' = [next EXCEPT ![r] = task]
  BY DEF ShareRow
<1>4. keyShare' \in [Film -> SUBSET Request]
      /\ \A g \in Film : keyShare'[g] \subseteq keyShare[g] \/ forUpdate[g] = NoRequest
  BY DEF ShareRow, IInv, TypeOK
<1> HIDE DEF task
<1> QED
  BY <1>1, <1>2, <1>3, <1>4, CreationFrame DEF ShareRow

(* The commit of a duel puts two films under an id that no vote that has   *)
(* read its films is about.                                                *)
LEMMA PublishDuelStep ==
  ASSUME IInv, NEW r \in Request, PublishDuel(r), EndCreation(r),
         UNCHANGED <<voteSeq, forUpdate, vote, votesTotal, crashes>>,
         pendingGauge' \in Nat
  PROVE  IInv'
<1>1. PICK d \in DuelId : /\ duels[d] = NoDuel
                          /\ duels' = [duels EXCEPT ![d] = <<next[r].a, next[r].b>>]
  BY DEF PublishDuel
<1>2. rating' = rating /\ duelCount' = duelCount /\ votes' = votes /\ next[r].pc = "checked"
  BY DEF PublishDuel
<1>3. <<next[r].a, next[r].b>> \in Pairs
  BY <1>2 DEF IInv, TaskOK, Pairs, Paired
<1>4. /\ keyShare' \in [Film -> SUBSET Request]
      /\ \A f \in Film : keyShare'[f] \subseteq keyShare[f]
      /\ next' = [next EXCEPT ![r] = [NoCreation EXCEPT !.pc = "over"]]
      /\ [NoCreation EXCEPT !.pc = "over"].pc = "over"
  BY EndCreationEffect
<1>5. /\ next' \in [Request -> CreationTask] /\ next'[r].pc = "over"
      /\ \A q \in Request \ {r} : next'[q] = next[q]
  BY <1>4, BlankTasks DEF IInv, TypeOK
<1>6. TypeOK'
  <2>1. duels' \in [DuelId -> Pairs \cup {NoDuel}]
    BY <1>1, <1>3 DEF IInv, TypeOK, Ledger!TypeOK, Ledger!Pair, Pairs
  <2> QED
    BY <1>2, <1>4, <1>5, <2>1 DEF IInv, TypeOK, Ledger!TypeOK, Ledger!Pair, Pairs
<1>7. ASSUME NEW q \in Request PROVE TaskOK(q)' /\ RowOK(q)' /\ FreshOK(q)'
  <2>0. /\ vote'[q] = vote[q] /\ TypeOK /\ TaskOK(q) /\ RowOK(q) /\ FreshOK(q)
        /\ voteSeq' \in Int /\ voteSeq <= voteSeq'
    BY DEF IInv, TypeOK
  <2>1. CASE vote[q].pc \in Holding \cup {"half"}
    <3>1. vote[q].duel \in DuelId /\ duels[vote[q].duel] \in Pairs
      BY <2>0, <2>1 DEF TaskOK, Holding, InTx
    <3>2. vote[q].duel # d
      BY <1>1, <3>1, Assumptions
    <3>3. duels'[vote[q].duel] = duels[vote[q].duel]
      BY <1>1, <3>1, <3>2 DEF IInv, TypeOK, Ledger!TypeOK
    <3>4. TaskOK(q)'
      BY <1>5, <2>0, <3>3 DEF TaskOK, Paired
    <3>5. RowOK(q)'
      <4>1. vote[q].row # NoRow => \A v \in votes' : v.duel # vote[q].duel
        BY <1>2, <2>0 DEF RowOK
      <4> QED
        BY <2>0, <3>3, <4>1, FrameRow
    <3>6. FreshOK(q)'
      <4>1. Held(q)' = Held(q)
        BY <2>0, <3>3 DEF Held, Lo, LockOrder, FilmsOf
      <4>2. \A f \in Film : keyShare[f] = {} => keyShare'[f] = {}
        BY <1>4
      <4> QED
        BY <1>2, <2>0, <4>1, <4>2 DEF FreshOK
    <3> QED
      BY <3>4, <3>5, <3>6
  <2>2. CASE vote[q].pc \notin Holding \cup {"half"}
    <3>1. vote[q].row = NoRow /\ vote[q].written = [f \in Film |-> Unwritten]
      BY <2>0, <2>2 DEF RowOK, Holding
    <3>2. Held(q) = {} /\ Held(q)' = {}
      BY <2>0, <2>2 DEF Held, Holding
    <3>3. TaskOK(q)'
      BY <1>5, <2>0, <2>2 DEF TaskOK, Paired
    <3>4. RowOK(q)'
      BY <2>0, <2>2, <3>1 DEF RowOK, Holding
    <3> QED
      BY <2>0, <3>2, <3>3, <3>4 DEF FreshOK
  <2> QED
    BY <2>1, <2>2
<1> QED
  BY <1>6, <1>7 DEF IInv

-----------------------------------------------------------------------------
(* A request arrives or is finished with: what runs for it has no row, no  *)
(* lock and no films yet.                                                  *)
LEMMA ArrivalStep ==
  ASSUME IInv, NEW r \in Request, vote[r].pc \in {"idle", "over"},
         NEW v \in VoteTask, v.pc \in {"idle", "begin"}, v.pc = "begin" => v.duel \in DuelId,
         v.row = NoRow, v.written = [f \in Film |-> Unwritten],
         NEW c \in CreationTask, c.pc \notin Paired,
         vote' = [vote EXCEPT ![r] = v], next' = [next EXCEPT ![r] = c],
         UNCHANGED <<tables, voteSeq, locks, metrics, crashes>>
  PROVE  IInv'
<1>1. /\ vote' \in [Request -> VoteTask] /\ next' \in [Request -> CreationTask]
      /\ vote'[r] = v /\ next'[r] = c
      /\ \A q \in Request \ {r} : vote'[q] = vote[q] /\ next'[q] = next[q]
  BY DEF IInv, TypeOK
<1>2. TypeOK'
  BY <1>1 DEF IInv, TypeOK, Ledger!TypeOK, tables, metrics, locks
<1>3. TaskOK(r)' /\ RowOK(r)'
  BY <1>1 DEF TaskOK, RowOK, InTx, Holding
<1>4. FreshOK(r)'
  <2>1. Held(r) = {} /\ Held(r)' = {}
    BY <1>1 DEF Held
  <2>2. \A f \in Film : forUpdate'[f] # r
    BY <2>1 DEF IInv, FreshOK, locks
  <2> QED
    BY <2>1, <2>2 DEF FreshOK
<1>5. ASSUME NEW q \in Request \ {r} PROVE TaskOK(q)' /\ RowOK(q)' /\ FreshOK(q)'
  <2>1. voteSeq' \in Int /\ voteSeq <= voteSeq' /\ TypeOK /\ TaskOK(q) /\ RowOK(q) /\ FreshOK(q)
    BY DEF IInv, TypeOK
  <2>2. vote[q].row # NoRow => \A x \in votes' : x.duel # vote[q].duel
    BY <2>1 DEF RowOK, tables
  <2>3. duels' = duels /\ rating' = rating /\ duelCount' = duelCount
        /\ forUpdate' = forUpdate /\ keyShare' = keyShare
    BY DEF tables, locks
  <2>4. duels'[vote[q].duel] = duels[vote[q].duel]
    BY <2>3
  <2>5. TaskOK(q)' /\ RowOK(q)'
    BY <1>1, <2>1, <2>2, <2>4, FrameTask, FrameRow
  <2>6. FreshOK(q)'
    BY <1>1, <2>1, <2>3, <2>4, FrameFresh
  <2> QED
    BY <2>5, <2>6
<1> QED
  BY <1>2, <1>3, <1>4, <1>5 DEF IInv

LEMMA Int32Type ==
  ASSUME NEW n \in Int
  PROVE  Int32(n) \in Int
BY Assumptions DEF Int32

(* Post, DuelPage, FilmPage and Finish.                                    *)
LEMMA RequestSteps ==
  ASSUME IInv, NEW r \in Request, Arrive(r) \/ Finish(r)
  PROVE  IInv'
<1>1. /\ vote[r] \in VoteTask /\ next[r] \in CreationTask
      /\ vote \in [Request -> VoteTask] /\ next \in [Request -> CreationTask]
  BY DEF IInv, TypeOK
<1>2. vote[r].pc = "idle" => vote[r].row = NoRow /\ vote[r].written = [f \in Film |-> Unwritten]
  BY DEF IInv, RowOK
<1>3. vote = [vote EXCEPT ![r] = vote[r]]
  BY <1>1
<1>4. ASSUME NEW d \in DuelId, NEW w \in PostedWinner, NEW u \in User \cup {NoUser},
             Post(r, d, w, u)
      PROVE  IInv'
  <2> DEFINE v == [NoVote EXCEPT !.pc = "begin", !.duel = d, !.winner = w, !.user = u]
             c == [NoCreation EXCEPT !.pc = "find", !.a = Int32(w)]
  <2>1. w \in Int /\ Int32(w) \in Int
    BY Assumptions, Int32Type
  <2>2. v \in VoteTask /\ c \in CreationTask
    BY <2>1, BlankTasks DEF VoteTask, CreationTask, InTx, Creating
  <2>3. /\ v.pc = "begin" /\ v.duel = d /\ v.row = NoRow
        /\ v.written = [f \in Film |-> Unwritten] /\ c.pc = "find"
    BY DEF NoVote, NoCreation
  <2>4. /\ vote' = [vote EXCEPT ![r] = v] /\ next' = [next EXCEPT ![r] = c]
        /\ vote[r].pc = "idle"
        /\ UNCHANGED <<tables, voteSeq, locks, metrics, crashes>>
    BY <1>4 DEF Post, Free
  <2> HIDE DEF v, c
  <2> QED
    BY <2>2, <2>3, <2>4, ArrivalStep DEF Paired
<1>5. ASSUME NEW c \in CreationTask, c.pc \notin Paired, next' = [next EXCEPT ![r] = c], Free(r),
             UNCHANGED <<tables, voteSeq, locks, vote, metrics, crashes>>
      PROVE  IInv'
  <2>1. vote' = [vote EXCEPT ![r] = vote[r]] /\ vote[r].pc = "idle"
    BY <1>3, <1>5 DEF Free
  <2> QED
    BY <1>1, <1>2, <1>5, <2>1, ArrivalStep
<1>6. CASE DuelPage(r)
  <2>1. [NoCreation EXCEPT !.pc = "select"] \in CreationTask
        /\ [NoCreation EXCEPT !.pc = "select"].pc \notin Paired
    BY DEF NoCreation, CreationTask, Creating, Paired
  <2> QED
    BY <1>5, <1>6, <2>1 DEF DuelPage
<1>7. ASSUME NEW f \in PostedWinner, FilmPage(r, f) PROVE IInv'
  <2> DEFINE c == [NoCreation EXCEPT !.pc = "find", !.a = f]
  <2>1. f \in Int
    BY Assumptions
  <2>2. c \in CreationTask
    BY <2>1, BlankTasks DEF CreationTask, Creating
  <2>3. c.pc \notin Paired
    BY DEF NoCreation, Paired
  <2> QED
    BY <1>5, <1>7, <2>2, <2>3 DEF FilmPage
<1>8. CASE Finish(r)
  <2>1. NoVote.pc = "idle" /\ NoVote.row = NoRow /\ NoVote.written = [f \in Film |-> Unwritten]
        /\ NoCreation.pc \notin Paired
    BY DEF NoVote, NoCreation, Paired
  <2> QED
    BY <1>8, <2>1, BlankTasks, ArrivalStep DEF Finish
<1> QED
  BY <1>4, <1>6, <1>7, <1>8 DEF Arrive

LEMMA CrashStep == IInv /\ Crash => IInv'
<1> SUFFICES ASSUME IInv, Crash PROVE IInv'
  OBVIOUS
<1>1. /\ vote' = [r \in Request |-> NoVote] /\ next' = [r \in Request |-> NoCreation]
      /\ forUpdate' = [f \in Film |-> NoRequest] /\ keyShare' = [f \in Film |-> {}]
      /\ UNCHANGED <<tables, voteSeq>>
  BY DEF Crash
<1>2. TypeOK'
  <2>1. vote' \in [Request -> VoteTask] /\ next' \in [Request -> CreationTask]
    BY <1>1, BlankTasks
  <2>2. crashes' \in 0..MaxCrashes /\ pendingGauge' \in Nat /\ votesTotal' \in [Film -> Nat]
    BY Assumptions DEF Crash, IInv, TypeOK
  <2> QED
    BY <1>1, <2>1, <2>2 DEF IInv, TypeOK, Ledger!TypeOK, tables
<1>3. ASSUME NEW r \in Request PROVE TaskOK(r)' /\ RowOK(r)' /\ FreshOK(r)'
  <2>1. vote'[r] = NoVote /\ next'[r] = NoCreation /\ \A f \in Film : forUpdate'[f] # r
    BY <1>1, Assumptions
  <2>2. TaskOK(r)'
    BY <2>1 DEF TaskOK, NoVote, NoCreation, InTx, Holding, Paired
  <2> QED
    BY <2>1, <2>2, OverOK
<1> QED
  BY <1>2, <1>3 DEF IInv

-----------------------------------------------------------------------------
(* The invariant.                                                          *)

LEMMA VoteSteps ==
  ASSUME IInv, NEW r \in Request, VoteStep(r)
  PROVE  IInv'
<1>1. CASE LockFirst(r)
  BY <1>1, LockFirstStep
<1>2. CASE LockSecond(r)
  BY <1>2, LockSecondStep
<1>3. CASE MissingDuel(r) \/ NotInDuel(r) \/ VoteFails(r)
  <2>1. voteSeq' \in 0..MaxSeq /\ voteSeq <= voteSeq'
    BY <1>3 DEF IInv, TypeOK, MissingDuel, NotInDuel, VoteFails
  <2> QED
    BY <1>3, <2>1, RollbackStep DEF MissingDuel, NotInDuel, VoteFails
<1>4. CASE InsertVote(r)
  BY <1>4, InsertVoteStep
<1>5. CASE DuplicateVote(r)
  <2>1. voteSeq' \in 0..MaxSeq /\ voteSeq <= voteSeq'
    BY <1>5, Assumptions DEF IInv, TypeOK, DuplicateVote, ReachesIndex
  <2> QED
    BY <1>5, <2>1, RollbackStep DEF DuplicateVote
<1>6. CASE UpdateRatings(r)
  BY <1>6, UpdateRatingsStep
<1>7. CASE Commit(r) \/ CommitUnheard(r)
  <2>1. votesTotal' \in [Film -> Nat]
    BY <1>7 DEF Commit, CommitUnheard, IInv, TypeOK, metrics
  <2> QED
    BY <1>7, <2>1, PublishStep DEF Commit, CommitUnheard, metrics
<1> QED
  BY <1>1, <1>2, <1>3, <1>4, <1>5, <1>6, <1>7 DEF VoteStep

LEMMA CreationSteps ==
  ASSUME IInv, NEW r \in Request, CreationStep(r)
  PROVE  IInv'
<1>1. CASE SelectRandomFilms(r)
  <2>1. PICK p \in Ledger!Pair : Chosen(r, p[1], p[2])
    BY <1>1 DEF SelectRandomFilms
  <2>2. p[1] \in Film /\ p[2] \in Film /\ p[1] # p[2]
    BY DEF Ledger!Pair
  <2> QED
    BY <1>1, <2>1, <2>2, ChosenStep DEF SelectRandomFilms
<1>2. CASE ChooseOpponent(r)
  <2>1. PICK pool \in FindCandidates(rating, next[r].a) : \E b \in pool : Chosen(r, next[r].a, b)
    BY <1>2 DEF ChooseOpponent
  <2>2. PICK b \in pool : Chosen(r, next[r].a, b)
    BY <2>1
  <2>3. next[r].a \in Film /\ b \in Film /\ next[r].a # b
    BY CandidatesAreOthers
  <2> QED
    BY <1>2, <2>2, <2>3, ChosenStep DEF ChooseOpponent
<1>3. CASE NotEnoughFilms(r) \/ CreationFails(r) \/ OutOfIds(r)
  BY <1>3, CreationEndsStep DEF NotEnoughFilms, CreationFails, OutOfIds
<1>4. CASE CheckFilmA(r) \/ CheckFilmB(r)
  <2>1. next[r].pc \in Paired /\ next[r].a \in Film /\ next[r].b \in Film
    BY <1>4 DEF CheckFilmA, CheckFilmB, IInv, TaskOK, Paired
  <2> QED
    BY <1>4, <2>1, ShareRowStep DEF CheckFilmA, CheckFilmB
<1>5. CASE CommitDuel(r) \/ CommitDuelUnheard(r)
  <2>1. pendingGauge' \in Nat /\ votesTotal' = votesTotal
    BY <1>5 DEF CommitDuel, CommitDuelUnheard, IInv, TypeOK, metrics
  <2> QED
    BY <1>5, <2>1, PublishDuelStep DEF CommitDuel, CommitDuelUnheard
<1> QED
  BY <1>1, <1>2, <1>3, <1>4, <1>5 DEF CreationStep

LEMMA StutterStep == IInv /\ UNCHANGED vars => IInv'
<1> SUFFICES ASSUME IInv, UNCHANGED vars PROVE IInv'
  OBVIOUS
<1>1. UNCHANGED <<tables, voteSeq, locks, vote, next, metrics, crashes>>
  BY DEF vars
<1>2. TypeOK'
  BY <1>1 DEF IInv, TypeOK, Ledger!TypeOK, tables, locks, metrics
<1>3. ASSUME NEW q \in Request PROVE TaskOK(q)'
  BY <1>1 DEF IInv, TaskOK, tables
<1> QED
  BY <1>1, <1>2, <1>3, FrameVotes DEF IInv, locks

LEMMA InvStep == IInv /\ [Next]_vars => IInv'
BY CrashStep, RequestSteps, VoteSteps, CreationSteps, StutterStep DEF Next

LEMMA RegistrationInvariant == Spec => []IInv
BY InitIInv, InvStep, PTL DEF Spec

(* Whatever the requests, the catalogue and the crashes, every variable has*)
(* its type; in particular no duel of a film with itself, of a film outside*)
(* the catalogue or of the negative of an id is ever stored.               *)
THEOREM RegistrationTyping == Spec => []TypeOK
<1>1. IInv => TypeOK
  BY DEF IInv
<1> QED
  BY <1>1, RegistrationInvariant, PTL

(* SELECT ... FOR UPDATE does its work: the ratings and the counts a vote  *)
(* has read are those of the table until it ends.                          *)
THEOREM RegistrationReadsStayFresh == Spec => []ReadsStayFresh
<1>1. IInv => ReadsStayFresh
  BY DEF IInv, FreshOK, ReadsStayFresh
<1> QED
  BY <1>1, RegistrationInvariant, PTL

(* The unique index never has to wait: a vote that holds its films keeps   *)
(* every other vote on one of them out.                                    *)
LEMMA OwnFilms ==
  ASSUME IInv, NEW q \in Request, vote[q].pc \in Holding
  PROVE  /\ \A f \in Film : f \in FilmsOf(vote[q].duel) => forUpdate[f] = q
         /\ FilmsOf(vote[q].duel) \subseteq Film
<1>1. vote[q].duel \in DuelId /\ duels[vote[q].duel] \in Pairs
  BY DEF IInv, TaskOK, Holding, InTx
<1>2. Held(q) = FilmsOf(vote[q].duel)
  BY DEF Held, Holding
<1>3. \A f \in Film : f \in Held(q) => forUpdate[f] = q
  BY DEF IInv, FreshOK
<1>4. FilmsOf(vote[q].duel) \subseteq Film
  BY <1>1, LoHi
<1> QED
  BY <1>2, <1>3, <1>4

THEOREM RegistrationIndexNeverWaits == Spec => []IndexNeverWaits
<1>1. IInv => IndexNeverWaits
  <2> SUFFICES ASSUME IInv, NEW q \in Request, NEW r \in Request, q # r, vote[q].row # NoRow,
                      vote[r].pc \in Holding
               PROVE  FilmsOf(vote[q].duel) \cap FilmsOf(vote[r].duel) = {}
    BY DEF IndexNeverWaits, Holding
  <2>1. vote[q].pc \in Holding
    BY DEF IInv, RowOK, Holding
  <2> QED
    BY <2>1, OwnFilms
<1> QED
  BY <1>1, RegistrationInvariant, PTL

(* The row a vote waits for is one film of the catalogue.                  *)
LEMMA WantedOfVote ==
  ASSUME IInv, NEW q \in Request, NEW f \in Wanted(<<q, "vote">>)
  PROVE  Wanted(<<q, "vote">>) = {f} /\ f \in Film
<1>1. Wanted(<<q, "vote">>) = {f}
  BY DEF Wanted
<1>2. CASE vote[q].pc = "half"
  <2>1. vote[q].duel \in DuelId /\ duels[vote[q].duel] \in Pairs
    BY <1>2 DEF IInv, TaskOK, InTx
  <2> QED
    BY <1>1, <1>2, <2>1, LoHi DEF Wanted
<1>3. CASE vote[q].pc = "begin" /\ duels[vote[q].duel] # NoDuel
  <2>1. vote[q].duel \in DuelId /\ duels[vote[q].duel] \in Pairs
    BY <1>3 DEF IInv, TaskOK, TypeOK, Ledger!TypeOK, Ledger!Pair, Pairs, InTx
  <2> QED
    BY <1>1, <1>3, <2>1, LoHi DEF Wanted
<1> QED
  BY <1>1, <1>2, <1>3 DEF Wanted

(* A vote that waits for another vote waits for a lower film than that one. *)
LEMMA VotesClimb ==
  ASSUME IInv, NEW q \in Request, NEW r \in Request,
         WaitsFor(<<q, "vote">>, <<r, "vote">>),
         NEW f \in Wanted(<<q, "vote">>), NEW g \in Wanted(<<r, "vote">>)
  PROVE  f < g
<1>1. Wanted(<<q, "vote">>) = {f} /\ f \in Film
  BY WantedOfVote
<1>2. forUpdate[f] = r
  BY <1>1 DEF WaitsFor
<1>3. f \in Held(r)
  BY <1>1, <1>2 DEF IInv, FreshOK
<1>4. vote[r].pc = "half" /\ g = Hi(vote[r].duel) /\ f = Lo(vote[r].duel)
  BY <1>3 DEF Wanted, Held
<1>5. vote[r].duel \in DuelId /\ duels[vote[r].duel] \in Pairs
  BY <1>4 DEF IInv, TaskOK, InTx
<1> QED
  BY <1>4, <1>5, LoHi

(* ORDER BY films.id: a vote that waits for another vote waits for a lower *)
(* film than that one, so votes alone cannot wait in a circle.             *)
THEOREM RegistrationVotesWaitUpwards == Spec => []VotesWaitUpwards
<1>1. IInv => VotesWaitUpwards
  BY VotesClimb DEF VotesWaitUpwards
<1> QED
  BY <1>1, RegistrationInvariant, PTL

(* Films that are some films of the catalogue have a highest.              *)
LEMMA HighestFilm ==
  ASSUME NEW W \in SUBSET Film, W # {}
  PROVE  \E f \in W : \A g \in W : ~(f < g)
<1> DEFINE Above(f) == {g \in Film : f < g}
           T == {Cardinality(Above(f)) : f \in W}
<1>1. IsFiniteSet(Film) /\ Film \subseteq Nat
  BY MatchmakingAssumption DEF MatchmakingAssumption
<1>2. \A f \in W : IsFiniteSet(Above(f)) /\ Cardinality(Above(f)) \in Nat
  BY <1>1, FS_Subset, FS_CardinalityType
<1>3. T \in SUBSET Nat /\ T # {}
  BY <1>2
<1>4. PICK x \in T : \A y \in T : ~(y < x)
  <2> HIDE DEF T
  <2> QED
    BY <1>3, LedgerFacts!NatMin, LedgerAssumptions
<1>5. PICK f \in W : x = Cardinality(Above(f))
  BY <1>4
<1>6. ASSUME NEW g \in W, f < g PROVE FALSE
  <2>0. f \in Nat /\ g \in Nat /\ g \in Film
    BY <1>1
  <2>1. Above(g) \subseteq Above(f) /\ g \in Above(f) /\ g \notin Above(g)
    <3>1. \A h \in Film : g < h => f < h
      BY <1>1, <1>6, <2>0
    <3>2. ~(g < g)
      BY <2>0
    <3>3. Above(g) \subseteq Above(f)
      BY <3>1
    <3>4. g \in Above(f)
      BY <1>6, <2>0
    <3>5. g \notin Above(g)
      BY <3>2
    <3> QED
      BY <3>3, <3>4, <3>5
  <2> HIDE DEF Above
  <2>2. /\ Cardinality(Above(g)) <= Cardinality(Above(f))
        /\ Cardinality(Above(g)) # Cardinality(Above(f))
    BY <1>2, <2>1, FS_Subset
  <2>3. Cardinality(Above(g)) < Cardinality(Above(f))
    BY <1>2, <2>2
  <2> QED
    BY <1>4, <1>5, <2>3
<1> QED
  BY <1>6

(* Transactions that wait for each other in a circle are never votes alone,*)
(* which climb through finitely many films, nor creations of duels alone,  *)
(* which wait for votes only.                                              *)
THEOREM RegistrationDeadlockTakesBoth == Spec => []DeadlockTakesBoth
<1>1. IInv => DeadlockTakesBoth
  <2> SUFFICES ASSUME IInv, NEW C \in SUBSET Tx, C # {}, \A t \in C : \E u \in C : WaitsFor(t, u)
               PROVE  {t[2] : t \in C} = {"vote", "duel"}
    BY DEF DeadlockTakesBoth
  <2>1. \A t \in C : t = <<t[1], t[2]>> /\ t[1] \in Request /\ t[2] \in {"vote", "duel"}
    BY DEF Tx
  <2>2. \E t \in C : t[2] = "vote"
    BY <2>1 DEF WaitsFor
  <2>3. \E t \in C : t[2] = "duel"
    <3> SUFFICES ASSUME \A t \in C : t[2] = "vote" PROVE FALSE
      BY <2>1
    <3> DEFINE W == UNION {Wanted(t) : t \in C}
    <3>1. \A t \in C : t = <<t[1], "vote">> /\ t[1] \in Request
      BY <2>1
    <3>2. W \in SUBSET Film
      BY <3>1, WantedOfVote
    <3>3. \A t \in C : Wanted(t) # {}
      BY DEF WaitsFor
    <3>4. ASSUME NEW f \in W PROVE \E g \in W : f < g
      <4>1. PICK t \in C : f \in Wanted(t)
        OBVIOUS
      <4>2. PICK u \in C : WaitsFor(t, u)
        OBVIOUS
      <4>3. PICK g : g \in Wanted(u)
        BY <3>3
      <4>4. f < g
        BY <3>1, <4>1, <4>2, <4>3, VotesClimb
      <4> QED
        BY <4>3, <4>4
    <3>5. W # {}
      BY <3>3
    <3> QED
      <4> HIDE DEF W
      <4> QED
        BY <3>2, <3>4, <3>5, HighestFilm
  <2> QED
    BY <2>1, <2>2, <2>3
<1> QED
  BY <1>1, RegistrationInvariant, PTL

-----------------------------------------------------------------------------
(* What a transaction that waits is waiting for.                           *)
(* The rows the foreign keys of a new duel have locked so far.             *)
Shares(r) == CASE next[r].pc = "half" -> {next[r].a}
               [] next[r].pc = "checked" -> {next[r].a, next[r].b}
               [] OTHER -> {}

SharesHeld == \A f \in Film, r \in Request : r \in keyShare[f] <=> f \in Shares(r)

(* A request whose creation and whose row locks a step leaves alone.       *)
LEMMA SharesFrame ==
  ASSUME IInv, SharesHeld, NEW r \in Request,
         \A q \in Request \ {r} : next'[q] = next[q],
         \A f \in Film : keyShare'[f] \ {r} = keyShare[f] \ {r},
         \A f \in Film : r \in keyShare'[f] <=> f \in Shares(r)'
  PROVE  SharesHeld'
<1> SUFFICES ASSUME NEW f \in Film, NEW q \in Request
             PROVE  q \in keyShare'[f] <=> f \in Shares(q)'
  BY DEF SharesHeld
<1>1. CASE q = r
  BY <1>1
<1>2. CASE q # r
  <2>1. Shares(q)' = Shares(q) /\ (q \in keyShare'[f] <=> q \in keyShare[f])
    BY <1>2 DEF Shares
  <2> QED
    BY <2>1 DEF SharesHeld
<1> QED
  BY <1>1, <1>2

LEMMA SharesStep == IInv /\ SharesHeld /\ [Next]_vars => SharesHeld'
<1> SUFFICES ASSUME IInv, SharesHeld, [Next]_vars PROVE SharesHeld'
  OBVIOUS
<1>0. /\ next \in [Request -> CreationTask] /\ keyShare \in [Film -> SUBSET Request]
      /\ NoCreation.pc = "idle" /\ [NoCreation EXCEPT !.pc = "over"].pc = "over"
  BY DEF IInv, TypeOK, NoCreation
<1>1. ASSUME next' = next, keyShare' = keyShare PROVE SharesHeld'
  BY <1>1 DEF SharesHeld, Shares
<1>2. ASSUME NEW r \in Request, EndCreation(r) PROVE SharesHeld'
  <2>1. /\ \A q \in Request \ {r} : next'[q] = next[q]
        /\ next'[r].pc = "over" /\ Shares(r)' = {}
        /\ \A f \in Film : keyShare'[f] = keyShare[f] \ {r}
    BY <1>0, <1>2 DEF EndCreation, Shares
  <2> QED
    BY <2>1, SharesFrame
<1>3. ASSUME NEW r \in Request, NEW task, next' = [next EXCEPT ![r] = task], keyShare' = keyShare,
             Shares(r) = {}, task.pc \notin {"half", "checked"}
      PROVE  SharesHeld'
  <2>1. next'[r] = task /\ \A q \in Request \ {r} : next'[q] = next[q]
    BY <1>0, <1>3
  <2>2. Shares(r)' = {}
    BY <1>3, <2>1 DEF Shares
  <2>3. \A f \in Film : r \notin keyShare[f]
    BY <1>3 DEF SharesHeld
  <2> QED
    BY <1>3, <2>1, <2>2, <2>3, SharesFrame
<1>4. ASSUME NEW r \in Request, CheckFilmA(r) PROVE SharesHeld'
  <2>1. /\ keyShare' = [keyShare EXCEPT ![next[r].a] = @ \cup {r}]
        /\ next' = [next EXCEPT ![r].pc = "half"] /\ Shares(r) = {}
    BY <1>4 DEF CheckFilmA, ShareRow, Shares
  <2>2. /\ next'[r].pc = "half" /\ next'[r].a = next[r].a
        /\ \A q \in Request \ {r} : next'[q] = next[q]
    BY <1>0, <2>1 DEF CreationTask
  <2>3. Shares(r)' = {next[r].a}
    BY <2>2 DEF Shares
  <2>4. \A f \in Film : r \in keyShare'[f] <=> f = next[r].a
    BY <1>0, <2>1 DEF SharesHeld
  <2> QED
    BY <1>0, <2>1, <2>2, <2>3, <2>4, SharesFrame
<1>5. ASSUME NEW r \in Request, CheckFilmB(r) PROVE SharesHeld'
  <2>1. /\ keyShare' = [keyShare EXCEPT ![next[r].b] = @ \cup {r}]
        /\ next' = [next EXCEPT ![r].pc = "checked"] /\ Shares(r) = {next[r].a}
    BY <1>5 DEF CheckFilmB, ShareRow, Shares
  <2>2. /\ next'[r].pc = "checked" /\ next'[r].a = next[r].a /\ next'[r].b = next[r].b
        /\ \A q \in Request \ {r} : next'[q] = next[q]
    BY <1>0, <2>1 DEF CreationTask
  <2>3. Shares(r)' = {next[r].a, next[r].b}
    BY <2>2 DEF Shares
  <2>4. \A f \in Film : r \in keyShare'[f] <=> f = next[r].a \/ f = next[r].b
    BY <1>0, <2>1 DEF SharesHeld
  <2> QED
    BY <1>0, <2>1, <2>2, <2>3, <2>4, SharesFrame
<1>6. ASSUME NEW r \in Request, Arrive(r) \/ Finish(r) PROVE SharesHeld'
  <2>1. next[r].pc \in {"idle", "over"} /\ keyShare' = keyShare
    BY <1>6 DEF Arrive, Post, DuelPage, FilmPage, Free, Finish, locks
  <2>2. Shares(r) = {}
    BY <2>1 DEF Shares
  <2>3. ASSUME NEW n, next' = [next EXCEPT ![r] = [NoCreation EXCEPT !.pc = "find", !.a = n]]
        PROVE  SharesHeld'
    <3> DEFINE task == [NoCreation EXCEPT !.pc = "find", !.a = n]
    <3>1. task.pc = "find"
      BY DEF NoCreation
    <3> HIDE DEF task
    <3> QED
      BY <1>3, <2>1, <2>2, <2>3, <3>1 DEF task
  <2>4. ASSUME next' = [next EXCEPT ![r] = [NoCreation EXCEPT !.pc = "select"]]
        PROVE  SharesHeld'
    <3> DEFINE task == [NoCreation EXCEPT !.pc = "select"]
    <3>1. task.pc = "select"
      BY DEF NoCreation
    <3> HIDE DEF task
    <3> QED
      BY <1>3, <2>1, <2>2, <2>4, <3>1 DEF task
  <2>5. CASE Finish(r)
    BY <1>0, <1>3, <2>1, <2>2, <2>5 DEF Finish
  <2> QED
    BY <1>6, <2>3, <2>4, <2>5 DEF Arrive, Post, DuelPage, FilmPage
<1>7. ASSUME NEW r \in Request, VoteStep(r) PROVE SharesHeld'
  BY <1>1, <1>7 DEF VoteStep, LockFirst, LockSecond, MissingDuel, NotInDuel, InsertVote,
     DuplicateVote, UpdateRatings, Commit, CommitUnheard, VoteFails, locks
<1>8. ASSUME NEW r \in Request, CreationStep(r) PROVE SharesHeld'
  <2>1. CASE SelectRandomFilms(r) \/ ChooseOpponent(r)
    <3>1. keyShare' = keyShare /\ Shares(r) = {}
      BY <2>1 DEF SelectRandomFilms, ChooseOpponent, locks, Shares
    <3>2. PICK a, b : next' = [next EXCEPT ![r] = [pc |-> "insert", a |-> a, b |-> b]]
      BY <2>1 DEF SelectRandomFilms, ChooseOpponent, Chosen
    <3> QED
      BY <1>3, <3>1, <3>2
  <2>2. CASE \/ NotEnoughFilms(r) \/ CommitDuel(r) \/ CommitDuelUnheard(r)
             \/ CreationFails(r) \/ OutOfIds(r)
    BY <1>2, <2>2 DEF NotEnoughFilms, CommitDuel, CommitDuelUnheard, CreationFails, OutOfIds
  <2> QED
    BY <1>4, <1>5, <1>8, <2>1, <2>2 DEF CreationStep
<1>9. ASSUME Crash PROVE SharesHeld'
  BY <1>0, <1>9 DEF Crash, SharesHeld, Shares
<1>10. CASE UNCHANGED vars
  BY <1>1, <1>10 DEF vars, locks
<1> QED
  BY <1>6, <1>7, <1>8, <1>9, <1>10 DEF Next

(* The other half of ReadsStayFresh: a row stays FOR KEY SHARE exactly as  *)
(* long as the creation that took it runs, whether it commits, fails or    *)
(* dies with the server.                                                   *)
THEOREM RegistrationSharesHeld == Spec => []SharesHeld
<1>1. Init => SharesHeld
  BY DEF Init, SharesHeld, Shares, NoCreation
<1> QED
  BY <1>1, SharesStep, RegistrationInvariant, PTL DEF Spec

-----------------------------------------------------------------------------
(* The two halves of a POST.                                               *)

(* An id of the catalogue fits 32 bits, and stays what it is.              *)
LEMMA FilmIdsFit ==
  ASSUME NEW f \in Film
  PROVE  Int32(f) = f
<1>1. f \in Nat /\ IntModulus \in Nat \ {0} /\ 2 * f < IntModulus
  BY Assumptions
<1> DEFINE half == IntModulus \div 2
<1>2. half \in Nat /\ f + half \in Nat /\ f + half < IntModulus
  BY <1>1
<1> HIDE DEF half
<1>3. (f + half) % IntModulus = f + half
  BY <1>1, <1>2
<1> QED
  BY <1>1, <1>2, <1>3 DEF Int32, half

(* While both halves of a request run, the creation is for the film that   *)
(* was posted, cut to 32 bits; a page that shows a duel posts no vote.     *)
HalvesAgree ==
  \A r \in Request : vote[r].pc \in InTx /\ next[r].pc \in Creating =>
    next[r].pc # "select" /\ next[r].a = Int32(vote[r].winner)

LEMMA HalvesStep == IInv /\ HalvesAgree /\ [Next]_vars => HalvesAgree'
<1> SUFFICES ASSUME IInv, HalvesAgree, [Next]_vars PROVE HalvesAgree'
  OBVIOUS
<1>0. /\ vote \in [Request -> VoteTask] /\ next \in [Request -> CreationTask]
      /\ NoVote.pc = "idle" /\ [NoVote EXCEPT !.pc = "over"].pc = "over"
      /\ NoCreation.pc = "idle" /\ [NoCreation EXCEPT !.pc = "over"].pc = "over"
  BY DEF IInv, TypeOK, NoVote, NoCreation
<1>1. ASSUME NEW r \in Request, \A q \in Request \ {r} : vote'[q] = vote[q] /\ next'[q] = next[q],
             \/ vote'[r].pc \notin InTx \/ next'[r].pc \notin Creating
             \/ /\ vote[r].pc \in InTx /\ vote'[r].winner = vote[r].winner
                /\ next[r].pc \in Creating /\ next'[r].a = next[r].a
                /\ next'[r].pc = "select" => next[r].pc = "select"
      PROVE  HalvesAgree'
  <2> SUFFICES ASSUME NEW q \in Request, vote'[q].pc \in InTx, next'[q].pc \in Creating
               PROVE  next'[q].pc # "select" /\ next'[q].a = Int32(vote'[q].winner)
    BY DEF HalvesAgree, Int32
  <2> QED
    BY <1>1 DEF HalvesAgree
<1>2. ASSUME NEW r \in Request, Arrive(r) PROVE HalvesAgree'
  <2>1. /\ vote[r].pc = "idle" /\ next[r].pc = "idle"
        /\ \A q \in Request \ {r} : vote'[q] = vote[q] /\ next'[q] = next[q]
    BY <1>0, <1>2 DEF Arrive, Post, DuelPage, FilmPage, Free
  <2>2. CASE DuelPage(r) \/ \E f \in PostedWinner : FilmPage(r, f)
    BY <2>1, <2>2 DEF DuelPage, FilmPage, HalvesAgree, InTx
  <2>3. ASSUME NEW d \in DuelId, NEW w \in PostedWinner, NEW u \in User \cup {NoUser},
               Post(r, d, w, u)
        PROVE  HalvesAgree'
    <3>1. vote'[r].winner = w /\ next'[r].pc = "find" /\ next'[r].a = Int32(w)
      BY <1>0, <2>3 DEF Post, NoVote, NoCreation
    <3> QED
      BY <2>1, <3>1 DEF HalvesAgree
  <2> QED
    BY <1>2, <2>2, <2>3 DEF Arrive
<1>3. ASSUME NEW r \in Request, VoteStep(r) \/ Finish(r) PROVE HalvesAgree'
  <2>1. CASE Finish(r)
    BY <1>0, <1>1, <2>1 DEF Finish, InTx, Creating
  <2>2. CASE LockFirst(r) \/ LockSecond(r)
    <3>1. /\ vote[r].pc \in InTx /\ vote'[r].winner = vote[r].winner /\ next' = next
          /\ \A q \in Request \ {r} : vote'[q] = vote[q]
      BY <1>0, <2>2 DEF LockFirst, LockSecond, LockRow, VoteTask, InTx
    <3> QED
      BY <1>1, <3>1
  <2>3. CASE InsertVote(r) \/ UpdateRatings(r)
    <3>1. /\ vote[r].pc \in InTx /\ vote'[r].winner = vote[r].winner /\ next' = next
          /\ \A q \in Request \ {r} : vote'[q] = vote[q]
      BY <1>0, <2>3 DEF InsertVote, ReachesIndex, UpdateRatings, VoteTask, InTx
    <3> QED
      BY <1>1, <3>1
  <2>4. CASE \/ MissingDuel(r) \/ NotInDuel(r) \/ DuplicateVote(r)
             \/ Commit(r) \/ CommitUnheard(r) \/ VoteFails(r)
    <3>1. EndVote(r) /\ next' = next
      BY <2>4 DEF MissingDuel, NotInDuel, DuplicateVote, Commit, CommitUnheard, VoteFails, metrics
    <3>2. vote'[r].pc = "over" /\ \A q \in Request \ {r} : vote'[q] = vote[q]
      BY <1>0, <3>1 DEF EndVote
    <3> QED
      BY <1>1, <3>1, <3>2 DEF InTx
  <2> QED
    BY <1>3, <2>1, <2>2, <2>3, <2>4 DEF VoteStep
<1>4. ASSUME NEW r \in Request, CreationStep(r) PROVE HalvesAgree'
  <2>0. vote' = vote
    BY <1>4 DEF CreationStep, SelectRandomFilms, ChooseOpponent, NotEnoughFilms, CheckFilmA,
       CheckFilmB, ShareRow, CommitDuel, CommitDuelUnheard, CreationFails, OutOfIds
  <2>1. CASE SelectRandomFilms(r)
    <3>1. PICK a, b : next' = [next EXCEPT ![r] = [pc |-> "insert", a |-> a, b |-> b]]
      BY <2>1 DEF SelectRandomFilms, Chosen
    <3>2. \A q \in Request \ {r} : next'[q] = next[q]
      BY <1>0, <3>1
    <3>3. vote[r].pc \notin InTx
      BY <2>1 DEF SelectRandomFilms, HalvesAgree, Creating
    <3> QED
      BY <1>1, <2>0, <3>2, <3>3
  <2>2. CASE ChooseOpponent(r)
    <3>1. PICK b : next' = [next EXCEPT ![r] = [pc |-> "insert", a |-> next[r].a, b |-> b]]
      BY <2>2 DEF ChooseOpponent, Chosen
    <3>2. /\ next[r].pc \in Creating /\ next'[r].pc = "insert" /\ next'[r].a = next[r].a
          /\ \A q \in Request \ {r} : next'[q] = next[q]
      BY <1>0, <2>2, <3>1 DEF ChooseOpponent, Creating
    <3> QED
      BY <1>1, <2>0, <3>2
  <2>3. CASE CheckFilmA(r) \/ CheckFilmB(r)
    <3>1. /\ next[r].pc \in Creating /\ next'[r].pc # "select" /\ next'[r].a = next[r].a
          /\ \A q \in Request \ {r} : next'[q] = next[q]
      BY <1>0, <2>3 DEF CheckFilmA, CheckFilmB, ShareRow, CreationTask, Creating
    <3> QED
      BY <1>1, <2>0, <3>1
  <2>4. CASE \/ NotEnoughFilms(r) \/ CommitDuel(r) \/ CommitDuelUnheard(r)
             \/ CreationFails(r) \/ OutOfIds(r)
    <3>1. EndCreation(r)
      BY <2>4 DEF NotEnoughFilms, CommitDuel, CommitDuelUnheard, CreationFails, OutOfIds
    <3>2. next'[r].pc = "over" /\ \A q \in Request \ {r} : next'[q] = next[q]
      BY <1>0, <3>1 DEF EndCreation
    <3> QED
      BY <1>1, <2>0, <3>2 DEF Creating
  <2> QED
    BY <1>4, <2>1, <2>2, <2>3, <2>4 DEF CreationStep
<1>5. CASE Crash
  BY <1>0, <1>5 DEF Crash, HalvesAgree, InTx
<1>6. CASE UNCHANGED vars
  BY <1>6 DEF vars, HalvesAgree
<1> QED
  BY <1>2, <1>3, <1>4, <1>5, <1>6 DEF Next

(* A vote that gets in and the duel that answers it are about one film,    *)
(* whatever was posted: the vote compares the number as it came with the   *)
(* two films of the duel, and what passes fits 32 bits.                    *)
THEOREM RegistrationWinnerStaysOn == Spec => []WinnerStaysOn
<1>1. Init => HalvesAgree
  BY DEF Init, HalvesAgree, NoVote, InTx
<1>2. IInv /\ HalvesAgree => WinnerStaysOn
  <2> SUFFICES ASSUME IInv, HalvesAgree, NEW r \in Request,
                      vote[r].row # NoRow, next[r].pc \in Creating
               PROVE  next[r].a = vote[r].row.winner
    BY DEF WinnerStaysOn
  <2>1. RowOK(r) /\ TaskOK(r)
    BY DEF IInv
  <2>2. vote[r].pc \in InTx /\ vote[r].pc \in Holding
    BY <2>1 DEF RowOK, InTx, Holding
  <2>3. vote[r].winner \in Film /\ vote[r].row.winner = vote[r].winner
    BY <2>1, <2>2 DEF RowOK, RowOf, TaskOK, FilmsOf, Pairs
  <2> QED
    BY <2>2, <2>3, FilmIdsFit DEF HalvesAgree
<1> QED
  BY <1>1, <1>2, HalvesStep, RegistrationInvariant, PTL DEF Spec

(* A creation has no deadline and waits for nothing but votes, which have  *)
(* one; a vote waits for votes and creations that are running.             *)
WaitsEnd ==
  \A t, u \in Tx : WaitsFor(t, u) =>
    /\ u[2] = "vote" => vote[u[1]].pc \in InTx
    /\ u[2] = "duel" => next[u[1]].pc \in {"half", "checked"} /\ vote[t[1]].pc \in InTx
    /\ t[2] = "duel" => u[2] = "vote"

(* Nobody waits for a transaction that is over, and no creation waits for  *)
(* another: whoever answers a request waits at most for the five seconds   *)
(* of each of the votes ahead of it.  It is what the fairness under which  *)
(* RequestsAnswered is checked rests on.                                   *)
THEOREM RegistrationWaitsEnd == Spec => []WaitsEnd
<1>1. IInv /\ SharesHeld => WaitsEnd
  <2> SUFFICES ASSUME IInv, SharesHeld, NEW t \in Tx, NEW u \in Tx, WaitsFor(t, u)
               PROVE  /\ u[2] = "vote" => vote[u[1]].pc \in InTx
                      /\ u[2] = "duel" => /\ next[u[1]].pc \in {"half", "checked"}
                                          /\ vote[t[1]].pc \in InTx
                      /\ t[2] = "duel" => u[2] = "vote"
    BY DEF WaitsEnd
  <2>1. PICK f \in Wanted(t) : \/ u[2] = "vote" /\ forUpdate[f] = u[1]
                               \/ u[2] = "duel" /\ t[2] = "vote" /\ u[1] \in keyShare[f]
    BY DEF WaitsFor
  <2>2. t[1] \in Request /\ u[1] \in Request /\ t[2] \in {"vote", "duel"} /\ u[2] \in {"vote", "duel"}
    BY DEF Tx
  <2>3. f \in Film
    <3>1. CASE t[2] = "vote"
      <4>1. t = <<t[1], "vote">>
        BY <3>1 DEF Tx
      <4> QED
        BY <2>1, <2>2, <4>1, WantedOfVote
    <3>2. CASE t[2] = "duel"
      BY <2>1, <2>2, <3>2 DEF Wanted, IInv, TaskOK, Paired
    <3> QED
      BY <2>2, <3>1, <3>2
  <2>4. CASE u[2] = "vote"
    <3>1. f \in Held(u[1])
      BY <2>1, <2>2, <2>3, <2>4 DEF IInv, FreshOK
    <3> QED
      BY <2>4, <3>1 DEF Held, InTx
  <2>5. CASE u[2] = "duel"
    <3>1. f \in Shares(u[1])
      BY <2>1, <2>2, <2>3, <2>5 DEF SharesHeld
    <3>2. vote[t[1]].pc \in {"begin", "half"}
      BY <2>1, <2>5 DEF Wanted
    <3> QED
      BY <2>1, <2>5, <3>1, <3>2 DEF Shares, InTx
  <2> QED
    BY <2>2, <2>4, <2>5
<1> QED
  BY <1>1, RegistrationInvariant, RegistrationSharesHeld, PTL

-----------------------------------------------------------------------------
(* applied_seq.                                                            *)

(* Numbers are given out once, and a film's are given out in the order in  *)
(* which its votes are committed.                                          *)
SeqInv ==
  /\ \A v \in votes : v.seq <= voteSeq
  /\ \A q, r \in Request : q # r /\ vote[q].row # NoRow /\ vote[r].row # NoRow
                             => vote[q].row.seq # vote[r].row.seq
  /\ SeqFollowsCommits

LEMMA RowTouchesOwnFilms ==
  ASSUME IInv, NEW r \in Request, vote[r].row # NoRow
  PROVE  /\ vote[r].row \in Ledger!Row /\ vote[r].pc \in Holding
         /\ vote[r].row.duel = vote[r].duel
         /\ vote[r].row.winner = vote[r].winner
         /\ vote[r].row.loser = LoserTo(vote[r].winner, vote[r].duel)
         /\ vote[r].winner \in FilmsOf(vote[r].duel)
         /\ vote[r].duel \in DuelId /\ duels[vote[r].duel] \in Pairs
         /\ \A f \in Film : Ledger!Touches(vote[r].row, f) <=> forUpdate[f] = r
<1>1. /\ vote[r].row \in Ledger!Row /\ vote[r].pc \in Holding
      /\ vote[r].duel \in DuelId /\ duels[vote[r].duel] \in Pairs
  BY DEF IInv, RowOK, TaskOK, TypeOK, VoteTask, InTx, Holding
<1>2. vote[r].row = RowOf(r, vote[r].row.seq) /\ vote[r].winner \in FilmsOf(vote[r].duel)
  BY DEF IInv, RowOK
<1>3. /\ vote[r].row.duel = vote[r].duel /\ vote[r].row.winner = vote[r].winner
      /\ vote[r].row.loser = LoserTo(vote[r].winner, vote[r].duel)
  BY <1>2 DEF RowOf
<1>4. FilmsOf(vote[r].duel) = {vote[r].row.winner, vote[r].row.loser}
  BY <1>1, <1>2, <1>3, LoserIsOther
<1>5. \A f \in Film : f \in FilmsOf(vote[r].duel) <=> forUpdate[f] = r
  BY <1>1 DEF IInv, FreshOK, Held, Holding
<1> QED
  BY <1>1, <1>2, <1>3, <1>4, <1>5 DEF Ledger!Touches

(* A step that neither numbers nor commits a vote.                         *)
LEMMA SeqFrame ==
  ASSUME IInv, SeqInv, votes' = votes, voteSeq' \in Int, voteSeq <= voteSeq',
         \A q \in Request : vote'[q].row = vote[q].row \/ vote'[q].row = NoRow
  PROVE  SeqInv'
<1>1. \A v \in votes' : v.seq <= voteSeq'
  BY DEF SeqInv, IInv, TypeOK, Ledger!TypeOK, Ledger!Row
<1> QED
  BY <1>1 DEF SeqInv, SeqFollowsCommits, Ledger!Touches

LEMMA SeqStep == IInv /\ SeqInv /\ [Next]_vars => SeqInv'
<1> SUFFICES ASSUME IInv, SeqInv, [Next]_vars PROVE SeqInv'
  OBVIOUS
<1>0. /\ \A v \in votes : v.seq \in Int /\ v.winner \in Film /\ v.loser \in Film
      /\ voteSeq \in Int /\ vote \in [Request -> VoteTask] /\ NoVote.row = NoRow
  BY DEF IInv, TypeOK, Ledger!TypeOK, Ledger!Row, NoVote
<1>1. ASSUME NEW r \in Request, InsertVote(r) PROVE SeqInv'
  <2>1. votes' = votes /\ voteSeq' = voteSeq + 1 /\ vote[r].row = NoRow
    BY <1>1 DEF InsertVote, ReachesIndex, tables, IInv, RowOK
  <2>2. vote'[r].row.seq = voteSeq + 1 /\ \A q \in Request \ {r} : vote'[q] = vote[q]
    <3>1. vote' = [vote EXCEPT ![r] = [vote[r] EXCEPT !.pc = "inserted", !.row = VoteRow(r)]]
      BY <1>1 DEF InsertVote
    <3>2. VoteRow(r).seq = voteSeq + 1
      BY DEF VoteRow
    <3>3. vote'[r].row = VoteRow(r)
      BY <1>0, <3>1 DEF VoteTask
    <3> QED
      BY <1>0, <3>1, <3>2, <3>3
  <2>3. ASSUME NEW q \in Request \ {r}, vote[q].row # NoRow
        PROVE  vote[q].row.seq \in Int /\ vote[q].row.seq <= voteSeq
    <3>1. vote[q].row \in Ledger!Row
      BY <2>3 DEF IInv, TypeOK, VoteTask
    <3>2. vote[q].row.seq <= voteSeq
      BY <2>3 DEF IInv, RowOK
    <3>3. vote[q].row.seq \in Int
      BY <3>1 DEF Ledger!Row
    <3> QED
      BY <3>2, <3>3
  <2>4. \A v \in votes' : v.seq <= voteSeq' /\ v.seq < vote'[r].row.seq
    BY <1>0, <2>1, <2>2 DEF SeqInv
  <2>5. \A p, q \in Request : p # q /\ vote'[p].row # NoRow /\ vote'[q].row # NoRow
                                => vote'[p].row.seq # vote'[q].row.seq
    BY <1>0, <2>2, <2>3 DEF SeqInv
  <2>6. SeqFollowsCommits'
    <3> SUFFICES ASSUME NEW q \in Request, NEW v \in votes, vote'[q].row # NoRow
                 PROVE  /\ vote'[q].row.seq # v.seq
                        /\ (\E f \in Film : Ledger!Touches(v, f) /\ Ledger!Touches(vote'[q].row, f))
                             => v.seq < vote'[q].row.seq
      BY <2>1 DEF SeqFollowsCommits, Ledger!Touches
    <3>1. CASE q = r
      BY <1>0, <2>1, <2>2, <2>4, <3>1
    <3>2. CASE q # r
      BY <2>2, <3>2 DEF SeqInv, SeqFollowsCommits
    <3> QED
      BY <3>1, <3>2
  <2> QED
    BY <2>4, <2>5, <2>6 DEF SeqInv
<1>2. ASSUME NEW r \in Request, Commit(r) \/ CommitUnheard(r) PROVE SeqInv'
  <2>1. /\ vote[r].row # NoRow /\ votes' = votes \cup {vote[r].row} /\ voteSeq' = voteSeq
        /\ EndVote(r)
    BY <1>2 DEF Commit, CommitUnheard, Publish, IInv, RowOK
  <2>2. vote'[r].row = NoRow /\ \A q \in Request \ {r} : vote'[q] = vote[q]
    BY <2>1, EndVoteEffect DEF NoVote
  <2>3. \A v \in votes' : v.seq <= voteSeq'
    BY <2>1 DEF SeqInv, IInv, RowOK
  <2>4. \A p, q \in Request : p # q /\ vote'[p].row # NoRow /\ vote'[q].row # NoRow
                                => vote'[p].row.seq # vote'[q].row.seq
    BY <2>2 DEF SeqInv
  <2>5. ASSUME NEW q \in Request \ {r}, vote[q].row # NoRow
        PROVE  /\ vote[q].row.seq # vote[r].row.seq
               /\ \A f \in Film :
                    ~(Ledger!Touches(vote[r].row, f) /\ Ledger!Touches(vote[q].row, f))
    BY <2>1, <2>5, RowTouchesOwnFilms DEF SeqInv
  <2>6. SeqFollowsCommits'
    BY <2>1, <2>2, <2>5 DEF SeqInv, SeqFollowsCommits, Ledger!Touches
  <2> QED
    BY <2>3, <2>4, <2>6 DEF SeqInv
<1>3. ASSUME NEW r \in Request, EndVote(r), votes' = votes, voteSeq' \in {voteSeq, voteSeq + 1}
      PROVE  SeqInv'
  <2>1. \A q \in Request : vote'[q].row = vote[q].row \/ vote'[q].row = NoRow
    BY <1>3, EndVoteEffect DEF NoVote
  <2> QED
    BY <1>0, <1>3, <2>1, SeqFrame
<1>4. ASSUME NEW r \in Request,
             MissingDuel(r) \/ NotInDuel(r) \/ DuplicateVote(r) \/ VoteFails(r)
      PROVE  SeqInv'
  BY <1>3, <1>4 DEF MissingDuel, NotInDuel, DuplicateVote, ReachesIndex, VoteFails, tables
<1>5. ASSUME NEW r \in Request, LockFirst(r) \/ LockSecond(r) \/ UpdateRatings(r)
      PROVE  SeqInv'
  <2>1. votes' = votes /\ voteSeq' = voteSeq
    BY <1>5 DEF LockFirst, LockSecond, UpdateRatings, tables
  <2>2. \A q \in Request : vote'[q].row = vote[q].row
    <3>1. ASSUME NEW f, NEW to, LockRow(r, f, to)
          PROVE  \A q \in Request : vote'[q].row = vote[q].row
      <4>1. \E rd : vote' = [vote EXCEPT ![r] = [vote[r] EXCEPT !.pc = to, !.read = rd]]
        BY <3>1 DEF LockRow
      <4> QED
        BY <1>0, <4>1 DEF VoteTask
    <3>2. ASSUME UpdateRatings(r) PROVE \A q \in Request : vote'[q].row = vote[q].row
      <4>1. \E w : vote' = [vote EXCEPT ![r] = [vote[r] EXCEPT !.pc = "updated", !.written = w]]
        BY <3>2 DEF UpdateRatings
      <4> QED
        BY <1>0, <4>1 DEF VoteTask
    <3> QED
      BY <1>5, <3>1, <3>2 DEF LockFirst, LockSecond
  <2> QED
    BY <1>0, <2>1, <2>2, SeqFrame
<1>6. ASSUME vote' = vote, votes' = votes, voteSeq' = voteSeq PROVE SeqInv'
  BY <1>0, <1>6, SeqFrame
<1>7. ASSUME NEW r \in Request, CreationStep(r) PROVE SeqInv'
  BY <1>6, <1>7 DEF CreationStep, SelectRandomFilms, ChooseOpponent, NotEnoughFilms, CheckFilmA,
     CheckFilmB, ShareRow, CommitDuel, CommitDuelUnheard, PublishDuel, CreationFails, OutOfIds,
     tables
<1>8. ASSUME NEW r \in Request, Arrive(r) \/ Finish(r) PROVE SeqInv'
  <2>1. votes' = votes /\ voteSeq' = voteSeq
    BY <1>8 DEF Arrive, Post, DuelPage, FilmPage, Finish, tables
  <2>2. \A q \in Request : vote'[q].row = vote[q].row \/ vote'[q].row = NoRow
    <3>1. ASSUME NEW d, NEW w, NEW u, Post(r, d, w, u)
          PROVE  \A q \in Request : vote'[q].row = vote[q].row \/ vote'[q].row = NoRow
      <4>1. [NoVote EXCEPT !.pc = "begin", !.duel = d, !.winner = w, !.user = u].row = NoRow
        BY DEF NoVote
      <4> QED
        BY <1>0, <3>1, <4>1 DEF Post
    <3>2. CASE DuelPage(r) \/ \E f \in PostedWinner : FilmPage(r, f)
      BY <3>2 DEF DuelPage, FilmPage
    <3>3. CASE Finish(r)
      BY <1>0, <3>3 DEF Finish
    <3> QED
      BY <1>8, <3>1, <3>2, <3>3 DEF Arrive
  <2> QED
    BY <1>0, <2>1, <2>2, SeqFrame
<1>9. CASE Crash
  BY <1>0, <1>9, SeqFrame DEF Crash, tables
<1>10. CASE UNCHANGED vars
  BY <1>6, <1>10 DEF vars, tables
<1> QED
  BY <1>1, <1>2, <1>4, <1>5, <1>7, <1>8, <1>9, <1>10 DEF Next, VoteStep

LEMMA RegistrationNumbers == Spec => []SeqInv
<1>1. Init => SeqInv
  BY Assumptions DEF Init, SeqInv, SeqFollowsCommits, NoVote
<1> QED
  BY <1>1, SeqStep, RegistrationInvariant, PTL DEF Spec

(* Among the votes of a film, applied_seq is the order of commits.         *)
THEOREM RegistrationSeqFollowsCommits == Spec => []SeqFollowsCommits
<1>1. SeqInv => SeqFollowsCommits
  BY DEF SeqInv
<1> QED
  BY <1>1, RegistrationNumbers, PTL

-----------------------------------------------------------------------------
(* The counter of votes.                                                   *)

Wins(S, f) == {v \in S : v.winner = f}

CountInv == IsFiniteSet(votes) /\ MetricsCountRealVotes

LEMMA OneMoreWin ==
  ASSUME NEW S, IsFiniteSet(S), NEW v, v \notin S, NEW f
  PROVE  /\ IsFiniteSet(S \cup {v})
         /\ Cardinality(Wins(S, f)) \in Nat
         /\ Cardinality(Wins(S \cup {v}, f)) =
              IF v.winner = f THEN Cardinality(Wins(S, f)) + 1 ELSE Cardinality(Wins(S, f))
<1>1. Wins(S, f) \subseteq S /\ v \notin Wins(S, f)
  BY DEF Wins
<1>2. IsFiniteSet(Wins(S, f)) /\ Cardinality(Wins(S, f)) \in Nat
  BY <1>1, FS_Subset, FS_CardinalityType
<1>3. Wins(S \cup {v}, f) = IF v.winner = f THEN Wins(S, f) \cup {v} ELSE Wins(S, f)
  BY DEF Wins
<1>4. Cardinality(Wins(S, f) \cup {v}) = Cardinality(Wins(S, f)) + 1
  BY <1>1, <1>2, FS_AddElement
<1>5. IsFiniteSet(S \cup {v})
  BY FS_AddElement
<1> QED
  BY <1>2, <1>3, <1>4, <1>5

LEMMA CountStep == IInv /\ CountInv /\ [Next]_vars => CountInv'
<1> SUFFICES ASSUME IInv, CountInv, [Next]_vars PROVE CountInv'
  OBVIOUS
<1>0. votesTotal \in [Film -> Nat]
  BY DEF IInv, TypeOK
<1>1. ASSUME votes' = votes, votesTotal' = votesTotal PROVE CountInv'
  BY <1>1 DEF CountInv, MetricsCountRealVotes
<1>2. ASSUME NEW r \in Request, Commit(r) \/ CommitUnheard(r) PROVE CountInv'
  <2> DEFINE row == vote[r].row
  <2>1. vote[r].pc = "updated" /\ votes' = votes \cup {row}
    BY <1>2 DEF Commit, CommitUnheard, Publish
  <2>2. row # NoRow /\ row.duel = vote[r].duel /\ row.winner \in Film
    <3>1. row # NoRow
      BY <2>1 DEF IInv, RowOK
    <3> QED
      BY <3>1, RowTouchesOwnFilms, LoserIsOther
  <2>3. row \notin votes
    BY <2>2 DEF IInv, RowOK
  <2>4. \A f \in Film : \/ votesTotal'[f] = votesTotal[f]
                        \/ f = row.winner /\ votesTotal'[f] = votesTotal[f] + 1
    <3>1. CASE votesTotal' = [votesTotal EXCEPT ![row.winner] = @ + 1]
      BY <1>0, <2>2, <3>1
    <3>2. CASE votesTotal' = votesTotal
      BY <3>2
    <3> QED
      BY <1>2, <3>1, <3>2 DEF Commit, CommitUnheard, metrics
  <2> HIDE DEF row
  <2>5. \A f \in Film : votesTotal[f] <= Cardinality(Wins(votes, f))
    BY DEF CountInv, MetricsCountRealVotes, Wins
  <2>6. ASSUME NEW f \in Film PROVE votesTotal'[f] <= Cardinality(Wins(votes', f))
    <3>1. /\ Cardinality(Wins(votes, f)) \in Nat
          /\ Cardinality(Wins(votes', f)) = IF row.winner = f THEN Cardinality(Wins(votes, f)) + 1
                                            ELSE Cardinality(Wins(votes, f))
      BY <2>1, <2>3, OneMoreWin DEF CountInv
    <3> HIDE DEF Wins
    <3>2. votesTotal[f] \in Nat
      BY <1>0
    <3> QED
      BY <2>4, <2>5, <3>1, <3>2
  <2>7. IsFiniteSet(votes')
    BY <2>1, FS_AddElement DEF CountInv
  <2> QED
    BY <2>6, <2>7 DEF CountInv, MetricsCountRealVotes, Wins
<1>3. ASSUME NEW r \in Request, VoteStep(r), ~(Commit(r) \/ CommitUnheard(r)) PROVE CountInv'
  BY <1>1, <1>3 DEF VoteStep, LockFirst, LockSecond, MissingDuel, NotInDuel, InsertVote,
     DuplicateVote, UpdateRatings, VoteFails, tables, metrics
<1>4. ASSUME NEW r \in Request, CreationStep(r) PROVE CountInv'
  BY <1>1, <1>4 DEF CreationStep, SelectRandomFilms, ChooseOpponent, NotEnoughFilms, CheckFilmA,
     CheckFilmB, ShareRow, CommitDuel, CommitDuelUnheard, PublishDuel, CreationFails, OutOfIds,
     tables, metrics
<1>5. ASSUME NEW r \in Request, Arrive(r) \/ Finish(r) PROVE CountInv'
  BY <1>1, <1>5 DEF Arrive, Post, DuelPage, FilmPage, Finish, tables, metrics
<1>6. CASE Crash
  <2>1. \A f \in Film : Cardinality(Wins(votes, f)) \in Nat
    BY FS_Subset, FS_CardinalityType DEF CountInv, Wins
  <2> QED
    BY <1>6, <2>1 DEF Crash, tables, CountInv, MetricsCountRealVotes, Wins
<1>7. CASE UNCHANGED vars
  BY <1>1, <1>7 DEF vars, tables, metrics
<1> QED
  BY <1>2, <1>3, <1>4, <1>5, <1>6, <1>7 DEF Next

(* filmmash_votes_total never counts a vote that is not in the table: it is*)
(* raised only when the server hears that a vote was committed.            *)
THEOREM RegistrationMetricsCountRealVotes == Spec => []MetricsCountRealVotes
<1>1. Init => CountInv
  BY FS_EmptySet DEF Init, CountInv, MetricsCountRealVotes
<1>2. CountInv => MetricsCountRealVotes
  BY DEF CountInv
<1> QED
  BY <1>1, <1>2, CountStep, RegistrationInvariant, PTL DEF Spec

-----------------------------------------------------------------------------
(* The refinement.                                                         *)

(* The row a vote is about to commit is the one the ledger would write now. *)
LEMMA RowIsLedgerRow ==
  ASSUME IInv, NEW r \in Request, vote[r].row # NoRow
  PROVE  vote[r].row = Ledger!NewRow(vote[r].row.duel, vote[r].row.winner, vote[r].row.loser,
                                     vote[r].row.user, vote[r].row.seq)
<1> DEFINE w == vote[r].winner
           l == LoserTo(vote[r].winner, vote[r].duel)
<1>1. /\ vote[r].pc \in Holding /\ w \in FilmsOf(vote[r].duel)
      /\ vote[r].duel \in DuelId /\ duels[vote[r].duel] \in Pairs
  BY RowTouchesOwnFilms
<1>2. w \in Film /\ l \in Film /\ FilmsOf(vote[r].duel) = {w, l}
  BY <1>1, LoserIsOther
<1>3. Held(r) = {w, l}
  BY <1>1, <1>2 DEF Held, Holding
<1> HIDE DEF w, l
<1>4. /\ vote[r].read[w] = [rating |-> rating[w], duelCount |-> duelCount[w]]
      /\ vote[r].read[l] = [rating |-> rating[l], duelCount |-> duelCount[l]]
  BY <1>2, <1>3 DEF IInv, FreshOK
<1>5. NewRatings(r, w, l) = Ledger!Result(rating, duelCount, w, l)
  BY <1>2, <1>4 DEF NewRatings, Ledger!Result
<1>6. vote[r].row = RowOf(r, vote[r].row.seq)
  BY DEF IInv, RowOK
<1>7. vote[r].row = [duel |-> vote[r].duel, winner |-> w, loser |-> l, user |-> vote[r].user,
                     winnerAfter |-> NewRatings(r, w, l).winner,
                     loserAfter |-> NewRatings(r, w, l).loser, seq |-> vote[r].row.seq]
  BY <1>6 DEF RowOf, w, l
<1>8. /\ vote[r].row.duel = vote[r].duel /\ vote[r].row.winner = w /\ vote[r].row.loser = l
      /\ vote[r].row.user = vote[r].user
  BY <1>7
<1> QED
  BY <1>5, <1>7, <1>8 DEF Ledger!NewRow

LEMMA PublishCastsVote ==
  ASSUME IInv, SeqInv, NEW r \in Request, vote[r].pc = "updated", Publish(r)
  PROVE  Ledger!Next
<1> DEFINE row == vote[r].row
<1>1. /\ row # NoRow /\ \A v \in votes : v.duel # vote[r].duel
      /\ vote[r].written = [f \in Film |-> IF Ledger!Touches(row, f)
                                           THEN Ledger!RatingAfter(row, f) ELSE Unwritten]
  BY DEF IInv, RowOK
<1>2. /\ row \in Ledger!Row /\ row.duel = vote[r].duel /\ row.winner = vote[r].winner
      /\ row.loser = LoserTo(vote[r].winner, vote[r].duel)
      /\ vote[r].winner \in FilmsOf(vote[r].duel)
      /\ vote[r].duel \in DuelId /\ duels[vote[r].duel] \in Pairs
  BY <1>1, RowTouchesOwnFilms
<1>3. /\ row.winner \in Film /\ row.loser \in Film /\ row.winner # row.loser
      /\ duels[row.duel] \in {<<row.winner, row.loser>>, <<row.loser, row.winner>>}
  BY <1>2, LoserIsOther
<1>4. row = Ledger!NewRow(row.duel, row.winner, row.loser, row.user, row.seq)
  BY <1>1, RowIsLedgerRow
<1>5. Ledger!Latest(row.seq, row.winner, row.loser)
  <2> SUFFICES ASSUME NEW v \in votes
               PROVE  /\ v.seq # row.seq
                      /\ (Ledger!Touches(v, row.winner) \/ Ledger!Touches(v, row.loser)
                            => v.seq < row.seq)
    BY DEF Ledger!Latest
  <2>1. Ledger!Touches(row, row.winner) /\ Ledger!Touches(row, row.loser)
    BY DEF Ledger!Touches
  <2> QED
    BY <1>1, <1>3, <2>1 DEF SeqInv, SeqFollowsCommits
<1>6. row.winnerAfter \in Int /\ row.loserAfter \in Int /\ Unwritten \notin Int
  BY <1>2, Assumptions DEF Ledger!Row
<1>7. Ledger!Record(row)
  <2>1. rating \in [Film -> Int] /\ duelCount \in [Film -> Nat]
    BY DEF IInv, TypeOK, Ledger!TypeOK
  <2>2. rating' = [rating EXCEPT ![row.winner] = row.winnerAfter, ![row.loser] = row.loserAfter]
    BY <1>1, <1>3, <1>6, <2>1 DEF Publish, Ledger!Touches, Ledger!RatingAfter
  <2>3. duelCount' = [duelCount EXCEPT ![row.winner] = @ + 1, ![row.loser] = @ + 1]
    BY <1>3, <2>1 DEF Publish, Ledger!Touches
  <2> QED
    BY <2>2, <2>3 DEF Publish, Ledger!Record
<1>8. Ledger!CastVote(row.duel, row.winner, row.loser, row.user, row.seq)
  BY <1>1, <1>2, <1>3, <1>4, <1>5, <1>7 DEF Ledger!CastVote
<1>9. /\ row.duel \in DuelId /\ row.user \in User \cup {NoUser} /\ row.seq \in 1..MaxSeq
      /\ <<row.winner, row.loser>> \in Ledger!Pair
  BY <1>2, <1>3 DEF Ledger!Row, Ledger!Pair
<1> HIDE DEF row
<1>10. \E p \in Ledger!Pair : Ledger!CastVote(row.duel, p[1], p[2], row.user, row.seq)
  BY <1>8, <1>9
<1> QED
  BY <1>9, <1>10 DEF Ledger!Next

LEMMA LedgerStep == IInv /\ SeqInv /\ [Next]_vars => [Ledger!Next]_(Ledger!vars)
<1> SUFFICES ASSUME IInv, SeqInv, [Next]_vars PROVE Ledger!Next \/ UNCHANGED tables
  BY DEF tables, Ledger!vars
<1>1. ASSUME NEW r \in Request, Commit(r) \/ CommitUnheard(r) PROVE Ledger!Next
  BY <1>1, PublishCastsVote DEF Commit, CommitUnheard
<1>2. ASSUME NEW r \in Request, CommitDuel(r) \/ CommitDuelUnheard(r) PROVE Ledger!Next
  <2> DEFINE p == <<next[r].a, next[r].b>>
  <2>1. PublishDuel(r)
    BY <1>2 DEF CommitDuel, CommitDuelUnheard
  <2>2. p \in Ledger!Pair
    BY <2>1 DEF PublishDuel, IInv, TaskOK, Paired, Ledger!Pair
  <2>3. PICK d \in DuelId : Ledger!OpenDuel(d, p)
    BY <2>1 DEF PublishDuel, Ledger!OpenDuel
  <2> QED
    BY <2>2, <2>3 DEF Ledger!Next
<1>3. ASSUME NEW r \in Request, VoteStep(r), ~(Commit(r) \/ CommitUnheard(r)) PROVE UNCHANGED tables
  BY <1>3 DEF VoteStep, LockFirst, LockSecond, MissingDuel, NotInDuel, InsertVote, DuplicateVote,
     UpdateRatings, VoteFails
<1>4. ASSUME NEW r \in Request, CreationStep(r), ~(CommitDuel(r) \/ CommitDuelUnheard(r))
      PROVE  UNCHANGED tables
  BY <1>4 DEF CreationStep, SelectRandomFilms, ChooseOpponent, NotEnoughFilms, CheckFilmA,
     CheckFilmB, ShareRow, CreationFails, OutOfIds
<1>5. ASSUME NEW r \in Request, Arrive(r) \/ Finish(r) PROVE UNCHANGED tables
  BY <1>5 DEF Arrive, Post, DuelPage, FilmPage, Finish
<1>6. CASE Crash
  BY <1>6 DEF Crash
<1>7. CASE UNCHANGED vars
  BY <1>7 DEF vars
<1> QED
  BY <1>1, <1>2, <1>3, <1>4, <1>5, <1>6, <1>7 DEF Next

(* RegisterVote and the duel handlers, with their locks, failures and      *)
(* crashes, implement the ledger: a vote is in the tables all at once or   *)
(* not at all.                                                             *)
THEOREM RegistrationImplementsLedger == Spec => ImplementsLedger
<1>1. Init => Ledger!Init
  BY DEF Init, Ledger!Init
<1>2. Spec => Ledger!Init /\ [][Ledger!Next]_(Ledger!vars)
  BY <1>1, LedgerStep, RegistrationInvariant, RegistrationNumbers, PTL DEF Spec
<1> QED
  BY <1>2 DEF ImplementsLedger, Ledger!Spec

(* A film's rating and count move only with a vote on that film that is    *)
(* added in the same step, and to what that vote's row says.               *)
THEOREM RegistrationRatingsMoveWithVotes == Spec => RatingsMoveWithVotes
<1> DEFINE Moves == \A f \in Film : rating'[f] # rating[f] \/ duelCount'[f] # duelCount[f] =>
                      \E v \in votes' \ votes : votes' = votes \cup {v} /\ Ledger!Touches(v, f)
                                                /\ rating'[f] = Ledger!RatingAfter(v, f)
<1>1. ASSUME IInv, Ledger!Next \/ UNCHANGED Ledger!vars PROVE Moves
  <2>1. CASE \E d \in DuelId, p \in Ledger!Pair : Ledger!OpenDuel(d, p)
    BY <2>1 DEF Ledger!OpenDuel
  <2>2. ASSUME NEW d \in DuelId, NEW p \in Ledger!Pair, NEW u, NEW s,
               Ledger!CastVote(d, p[1], p[2], u, s)
        PROVE  Moves
    <3> DEFINE v == Ledger!NewRow(d, p[1], p[2], u, s)
    <3>1. v.duel = d /\ v.winner = p[1] /\ v.loser = p[2]
      BY DEF Ledger!NewRow
    <3>2. p[1] \in Film /\ p[2] \in Film /\ p[1] # p[2]
      BY DEF Ledger!Pair
    <3> HIDE DEF v
    <3>3. Ledger!Record(v) /\ \A x \in votes : x.duel # d
      BY <2>2 DEF Ledger!CastVote, v
    <3>4. /\ votes' = votes \cup {v} /\ v \in votes' \ votes
          /\ rating \in [Film -> Int] /\ duelCount \in [Film -> Nat]
      BY <1>1, <3>1, <3>3 DEF Ledger!Record, IInv, TypeOK, Ledger!TypeOK
    <3>5. \A f \in Film : Ledger!Touches(v, f) => rating'[f] = Ledger!RatingAfter(v, f)
      BY <3>1, <3>2, <3>3, <3>4 DEF Ledger!Record, Ledger!Touches, Ledger!RatingAfter
    <3>6. \A f \in Film : ~Ledger!Touches(v, f) =>
            rating'[f] = rating[f] /\ duelCount'[f] = duelCount[f]
      BY <3>1, <3>2, <3>3, <3>4 DEF Ledger!Record, Ledger!Touches
    <3> QED
      BY <3>4, <3>5, <3>6
  <2>3. CASE UNCHANGED Ledger!vars
    BY <2>3 DEF Ledger!vars
  <2> QED
    BY <1>1, <2>1, <2>2, <2>3 DEF Ledger!Next
<1>2. IInv /\ SeqInv /\ [Next]_vars => [Moves]_vars
  BY <1>1, LedgerStep
<1>3. Spec => [][Moves]_vars
  BY <1>2, RegistrationInvariant, RegistrationNumbers, PTL DEF Spec
<1> QED
  BY <1>3 DEF RatingsMoveWithVotes

-----------------------------------------------------------------------------
(* What is proved of the ledger, of the server that implements it.         *)

(* The ledger implemented here takes the steps of the ledger proved about, *)
(* and its properties say the same.                                        *)
LEMMA SameLedger ==
  /\ Ledger!Spec => LedgerFacts!Spec
  /\ LedgerFacts!RatingsReplay => Ledger!RatingsReplay
  /\ LedgerFacts!VotesFitDuels => Ledger!VotesFitDuels
  /\ LedgerFacts!RatingIsLastVote => Ledger!RatingIsLastVote
  /\ LedgerFacts!ResultMovesApart => Ledger!ResultMovesApart
  /\ LedgerFacts!EstablishedPointsConserved => Ledger!EstablishedPointsConserved
<1>1. Ledger!Init => LedgerFacts!Init
  BY DEF Ledger!Init, LedgerFacts!Init
<1>2. [Ledger!Next]_(Ledger!vars) => [LedgerFacts!Next]_(LedgerFacts!vars)
  BY SameArithmetic
     DEF Ledger!Next, LedgerFacts!Next, Ledger!vars, LedgerFacts!vars, Ledger!OpenDuel,
         LedgerFacts!OpenDuel, Ledger!CastVote, LedgerFacts!CastVote, Ledger!Latest,
         LedgerFacts!Latest, Ledger!Touches, LedgerFacts!Touches, Ledger!Record,
         LedgerFacts!Record, Ledger!NewRow, LedgerFacts!NewRow, Ledger!Pair, LedgerFacts!Pair
<1>3. LedgerFacts!RatingsReplay => Ledger!RatingsReplay
  <2>1. \A prev, v : LedgerFacts!Applied(prev, v) = Ledger!Applied(prev, v)
    BY SameArithmetic DEF LedgerFacts!Applied, Ledger!Applied
  <2>2. \A vs, prev, n : LedgerFacts!ReplayOne(vs, prev, n) = Ledger!ReplayOne(vs, prev, n)
    BY <2>1 DEF LedgerFacts!ReplayOne, Ledger!ReplayOne
  <2>3. LedgerFacts!Replay = Ledger!Replay
    <3> DEFINE F(after) == [n \in 0..MaxSeq |->
                 IF n = 0 THEN [rating |-> InitialRating, count |-> InitialCount]
                 ELSE LedgerFacts!ReplayOne(votes, after[n - 1], n)]
               G(after) == [n \in 0..MaxSeq |->
                 IF n = 0 THEN [rating |-> InitialRating, count |-> InitialCount]
                 ELSE Ledger!ReplayOne(votes, after[n - 1], n)]
    <3>1. \A after : F(after) = G(after)
      BY <2>2
    <3>2. LedgerFacts!Replay = (CHOOSE after : after = F(after))[MaxSeq]
      BY DEF LedgerFacts!Replay
    <3>3. Ledger!Replay = (CHOOSE after : after = G(after))[MaxSeq]
      BY DEF Ledger!Replay
    <3> HIDE DEF F, G
    <3>4. (CHOOSE after : after = F(after)) = (CHOOSE after : after = G(after))
      BY <3>1, Zenon
    <3> QED
      BY <3>2, <3>3, <3>4
  <2> QED
    BY <2>3 DEF LedgerFacts!RatingsReplay, Ledger!RatingsReplay
<1>4. Ledger!Spec => LedgerFacts!Spec
  BY <1>1, <1>2, PTL DEF Ledger!Spec, LedgerFacts!Spec
<1>5. LedgerFacts!VotesFitDuels => Ledger!VotesFitDuels
  BY DEF LedgerFacts!VotesFitDuels, Ledger!VotesFitDuels
<1>6. LedgerFacts!RatingIsLastVote => Ledger!RatingIsLastVote
  BY DEF LedgerFacts!RatingIsLastVote, Ledger!RatingIsLastVote, LedgerFacts!Touches,
         Ledger!Touches, LedgerFacts!RatingAfter, Ledger!RatingAfter
<1>7. LedgerFacts!ResultMovesApart => Ledger!ResultMovesApart
  <2>1. \A n : LedgerFacts!FilmKFromDuelCount(n) = Ledger!FilmKFromDuelCount(n)
    BY DEF LedgerFacts!FilmKFromDuelCount, Ledger!FilmKFromDuelCount
  <2>2. [\A v \in votes' \ votes :
           /\ rating'[v.winner] - rating[v.winner]
                \in 0..LedgerFacts!FilmKFromDuelCount(duelCount[v.winner]) * Scale
           /\ rating[v.loser] - rating'[v.loser]
                \in 0..LedgerFacts!FilmKFromDuelCount(duelCount[v.loser]) * Scale
           /\ \A f \in Film \ {v.winner, v.loser} : rating'[f] = rating[f]]_(LedgerFacts!vars)
        => [\A v \in votes' \ votes :
           /\ rating'[v.winner] - rating[v.winner]
                \in 0..Ledger!FilmKFromDuelCount(duelCount[v.winner]) * Scale
           /\ rating[v.loser] - rating'[v.loser]
                \in 0..Ledger!FilmKFromDuelCount(duelCount[v.loser]) * Scale
           /\ \A f \in Film \ {v.winner, v.loser} : rating'[f] = rating[f]]_(Ledger!vars)
    BY <2>1 DEF Ledger!vars, LedgerFacts!vars
  <2> QED
    BY <2>2, PTL DEF LedgerFacts!ResultMovesApart, Ledger!ResultMovesApart
<1>8. LedgerFacts!EstablishedPointsConserved => Ledger!EstablishedPointsConserved
  <2>1. [\A v \in votes' \ votes :
           duelCount[v.winner] >= 20 /\ duelCount[v.loser] >= 20 =>
             rating'[v.winner] + rating'[v.loser]
               = rating[v.winner] + rating[v.loser]]_(LedgerFacts!vars)
        => [\A v \in votes' \ votes :
           duelCount[v.winner] >= 20 /\ duelCount[v.loser] >= 20 =>
             rating'[v.winner] + rating'[v.loser]
               = rating[v.winner] + rating[v.loser]]_(Ledger!vars)
    BY DEF Ledger!vars, LedgerFacts!vars
  <2> QED
    BY <2>1, PTL DEF LedgerFacts!EstablishedPointsConserved, Ledger!EstablishedPointsConserved
<1> QED
  BY <1>3, <1>4, <1>5, <1>6, <1>7, <1>8

(* No vote is lost, whatever the requests do at the same time: playing the *)
(* votes table back in applied_seq order gives every rating and count.     *)
THEOREM RegistrationRatingsReplay == Spec => []RatingsReplay
<1>1. LedgerFacts!Spec => []LedgerFacts!RatingsReplay
  BY LedgerAssumptions, LedgerFacts!LedgerRatingsReplay
<1>2. LedgerFacts!RatingsReplay => RatingsReplay
  BY SameLedger DEF RatingsReplay
<1> QED
  BY <1>1, <1>2, SameLedger, RegistrationImplementsLedger, PTL DEF ImplementsLedger

(* What else the ledger promises the server keeps: one vote to a duel and  *)
(* about its films, the rating last written in a vote row, and steps of the*)
(* ratings within the K-factors that conserve points between established   *)
(* films.                                                                  *)
THEOREM RegistrationKeepsLedger ==
  Spec => /\ []Ledger!VotesFitDuels
          /\ []Ledger!RatingIsLastVote
          /\ Ledger!ResultMovesApart
          /\ Ledger!EstablishedPointsConserved
<1>1. LedgerFacts!Spec => /\ []LedgerFacts!VotesFitDuels
                          /\ []LedgerFacts!RatingIsLastVote
                          /\ LedgerFacts!ResultMovesApart
                          /\ LedgerFacts!EstablishedPointsConserved
  <2>1. LedgerFacts!Spec => []LedgerFacts!VotesFitDuels
    BY LedgerAssumptions, LedgerFacts!LedgerVotesFitDuels
  <2>2. LedgerFacts!Spec => []LedgerFacts!RatingIsLastVote
    BY LedgerAssumptions, LedgerFacts!LedgerRatingIsLastVote
  <2>3. LedgerFacts!Spec => LedgerFacts!ResultMovesApart
    BY LedgerAssumptions, LedgerFacts!LedgerResultMovesApart
  <2>4. LedgerFacts!Spec => LedgerFacts!EstablishedPointsConserved
    BY LedgerAssumptions, LedgerFacts!LedgerPointsConserved
  <2> QED
    BY <2>1, <2>2, <2>3, <2>4
<1> QED
  BY <1>1, SameLedger, RegistrationImplementsLedger, PTL DEF ImplementsLedger

(* And the counts: whatever the requests, failures and crashes, duel_count *)
(* is the number of a film's rows in votes beyond the start, and no rating *)
(* is further from its initial value than these votes can have brought it. *)
THEOREM RegistrationCountsAddUp ==
  Spec => []LedgerFacts!CountsAddUp /\ []LedgerFacts!RatingsEarned
<1>1. LedgerFacts!Spec => []LedgerFacts!CountsAddUp
  BY LedgerAssumptions, LedgerFacts!LedgerCountsAddUp
<1>2. LedgerFacts!Spec => []LedgerFacts!RatingsEarned
  BY LedgerAssumptions, LedgerFacts!LedgerRatingsEarned
<1> QED
  BY <1>1, <1>2, SameLedger, RegistrationImplementsLedger, PTL DEF ImplementsLedger
=============================================================================
