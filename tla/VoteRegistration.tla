-------------------------- MODULE VoteRegistration --------------------------
(***************************************************************************)
(* The core of the server: requests that register a vote and create the    *)
(* next duel at the same time, against one PostgreSQL database.            *)
(*                                                                         *)
(* DuelResultHandler starts a goroutine that runs RegisterVote in a        *)
(* transaction, and without waiting for it creates the next duel of the    *)
(* winner; the pages that only show a duel run the second half alone.      *)
(* RegisterVote reads its two films FOR UPDATE, in the order of their ids; *)
(* the foreign keys of a new duel lock film_a and then film_b FOR KEY      *)
(* SHARE, in whatever order their ids are.  The committed tables are the   *)
(* variables of VoteLedger; what a transaction has written but not         *)
(* committed is in its task.                                               *)
(***************************************************************************)
EXTENDS Elo, Matchmaking

CONSTANTS
  Request,        \* requests in flight at one time (a slot is used again)
  NoRequest,      \* no holder of a row lock
  DuelId, NoDuel, \* ids of duels; not a row of duels
  User, NoUser,   \* users.id; NULL
  PostedWinner,   \* values of the form field "winner", in the catalogue or not
  IntModulus,     \* 2^32: the number of int32 values
  NoRow,          \* a transaction that has inserted no vote
  Unwritten,      \* a rating a transaction has not written
  InitialRating, InitialCount, InitialDuels,
  MaxSeq,         \* bound: values vote_seq may take
  MaxCrashes      \* bound: crashes of the server


ASSUME RegistrationAssumption ==
  /\ NoRequest \notin Request
  /\ NoDuel \notin DuelId /\ NoDuel \notin Film \X Film
  /\ Unwritten \notin Int
  /\ NoRow \notin [duel : DuelId, winner : Film, loser : Film, user : User \cup {NoUser},
                   winnerAfter : Int, loserAfter : Int, seq : 1..MaxSeq]
  /\ PostedWinner \subseteq Int /\ IntModulus \in Nat \ {0}
  /\ \A f \in Film : 2 * f < IntModulus                 \* films.id is a column of 32 bits
  /\ InitialRating \in [Film -> Int] /\ InitialCount \in [Film -> Nat]
  /\ InitialDuels \in [DuelId -> {p \in Film \X Film : p[1] # p[2]} \cup {NoDuel}]
  /\ MaxSeq \in Nat /\ MaxCrashes \in Nat

VARIABLES
  rating, duelCount, duels, votes,  \* the committed tables, as in VoteLedger
  voteSeq,        \* vote_seq: never rolled back
  forUpdate,      \* [Film -> the request whose vote holds the row FOR UPDATE]
  keyShare,       \* [Film -> requests whose new duel holds the row FOR KEY SHARE]
  vote,           \* [Request -> the goroutine that registers the vote]
  next,           \* [Request -> the creation of the duel to answer with]
  pendingGauge,   \* filmmash_pending_duels
  votesTotal,     \* filmmash_votes_total, by winner
  crashes

tables == <<rating, duelCount, duels, votes>>
locks == <<forUpdate, keyShare>>
metrics == <<pendingGauge, votesTotal>>
vars == <<tables, voteSeq, locks, vote, next, metrics, crashes>>

Ledger == INSTANCE VoteLedger
            WITH rating <- rating, duelCount <- duelCount, duels <- duels, votes <- votes

-----------------------------------------------------------------------------
(* Tasks.                                                                  *)

InTx == {"begin", "half", "locked", "inserted", "updated"}
Creating == {"select", "find", "insert", "half", "checked"}

NotRead == [rating |-> 0, duelCount |-> 0]

NoVote == [pc |-> "idle", duel |-> NoDuel, winner |-> 0, user |-> NoUser,
           read |-> [f \in Film |-> NotRead], row |-> NoRow,
           written |-> [f \in Film |-> Unwritten]]

NoCreation == [pc |-> "idle", a |-> 0, b |-> 0]

FilmsOf(d) == {duels[d][1], duels[d][2]}

(* GetDuelRatingsForUpdate locks the films of a duel ORDER BY films.id. *)
LockOrderAsGiven(d) == duels[d]

LockOrder(d) ==
  IF duels[d][1] < duels[d][2] THEN duels[d] ELSE <<duels[d][2], duels[d][1]>>

Lo(d) == LockOrder(d)[1]
Hi(d) == LockOrder(d)[2]

(* The other film of duel d. *)
LoserTo(w, d) == IF w = duels[d][1] THEN duels[d][2] ELSE duels[d][1]

(* strconv.Atoi gives an int; NewDuelFromWinner converts it to int32. *)
Int32(n) == ((n + IntModulus \div 2) % IntModulus) - IntModulus \div 2

Init ==
  /\ rating = InitialRating /\ duelCount = InitialCount
  /\ duels = InitialDuels /\ votes = {}
  /\ voteSeq = 0
  /\ forUpdate = [f \in Film |-> NoRequest]
  /\ keyShare = [f \in Film |-> {}]
  /\ vote = [r \in Request |-> NoVote]
  /\ next = [r \in Request |-> NoCreation]
  /\ pendingGauge = 0
  /\ votesTotal = [f \in Film |-> 0]
  /\ crashes = 0

-----------------------------------------------------------------------------
(* Requests.                                                               *)

Free(r) == vote[r].pc = "idle" /\ next[r].pc = "idle"

(* DuelResultHandler, with or without a session: the goroutine and the     *)
(* handler's own NewDuelFromWinner start together.                         *)
PostTruncatingTheVote(r, d, w, u) ==
  /\ Free(r)
  /\ vote' = [vote EXCEPT ![r] = [NoVote EXCEPT !.pc = "begin", !.duel = d,
                                                !.winner = Int32(w), !.user = u]]
  /\ next' = [next EXCEPT ![r] = [NoCreation EXCEPT !.pc = "find", !.a = w]]
  /\ UNCHANGED <<tables, voteSeq, locks, metrics, crashes>>

Post(r, d, w, u) ==
  /\ Free(r)
  /\ vote' = [vote EXCEPT ![r] = [NoVote EXCEPT !.pc = "begin", !.duel = d,
                                                !.winner = w, !.user = u]]
  /\ next' = [next EXCEPT ![r] = [NoCreation EXCEPT !.pc = "find", !.a = Int32(w)]]
  /\ UNCHANGED <<tables, voteSeq, locks, metrics, crashes>>

(* DuelHandler: CreateRandomDuel. *)
DuelPage(r) ==
  /\ Free(r)
  /\ next' = [next EXCEPT ![r] = [NoCreation EXCEPT !.pc = "select"]]
  /\ UNCHANGED <<tables, voteSeq, locks, vote, metrics, crashes>>

(* DuelFromFilm: ParseInt refuses an id that does not fit 32 bits. *)
FilmPage(r, f) ==
  /\ Free(r)
  /\ Int32(f) = f
  /\ next' = [next EXCEPT ![r] = [NoCreation EXCEPT !.pc = "find", !.a = f]]
  /\ UNCHANGED <<tables, voteSeq, locks, vote, metrics, crashes>>

(* Both halves of the request are over; the slot is free for another. *)
Finish(r) ==
  /\ ~Free(r)
  /\ vote[r].pc \in {"idle", "over"}
  /\ next[r].pc \in {"idle", "over"}
  /\ vote' = [vote EXCEPT ![r] = NoVote]
  /\ next' = [next EXCEPT ![r] = NoCreation]
  /\ UNCHANGED <<tables, voteSeq, locks, metrics, crashes>>

-----------------------------------------------------------------------------
(* RegisterVote.                                                           *)

Unlocked(r) == [f \in Film |-> IF forUpdate[f] = r THEN NoRequest ELSE forUpdate[f]]

(* The transaction of r ends: its writes are gone or published, its row    *)
(* locks are released.                                                     *)
EndVoteKeepingLocks(r) ==
  /\ vote' = [vote EXCEPT ![r] = [NoVote EXCEPT !.pc = "over"]]
  /\ UNCHANGED forUpdate

EndVote(r) ==
  /\ vote' = [vote EXCEPT ![r] = [NoVote EXCEPT !.pc = "over"]]
  /\ forUpdate' = Unlocked(r)

(* SELECT ... FOR UPDATE reaches row f: once the row is free it is locked  *)
(* and its committed values are read.                                      *)
LockRowUnlocked(r, f, to) ==
  /\ vote' = [vote EXCEPT ![r].pc = to,
        ![r].read[f] = [rating |-> rating[f], duelCount |-> duelCount[f]]]
  /\ forUpdate' = forUpdate

LockRow(r, f, to) ==
  /\ forUpdate[f] = NoRequest /\ keyShare[f] = {}
  /\ forUpdate' = [forUpdate EXCEPT ![f] = r]
  /\ vote' = [vote EXCEPT ![r].pc = to,
        ![r].read[f] = [rating |-> rating[f], duelCount |-> duelCount[f]]]

LockFirst(r) ==
  /\ vote[r].pc = "begin" /\ duels[vote[r].duel] # NoDuel
  /\ LockRow(r, Lo(vote[r].duel), "half")
  /\ UNCHANGED <<tables, voteSeq, keyShare, next, metrics, crashes>>

LockSecond(r) ==
  /\ vote[r].pc = "half"
  /\ LockRow(r, Hi(vote[r].duel), "locked")
  /\ UNCHANGED <<tables, voteSeq, keyShare, next, metrics, crashes>>

(* GetDuelRatingsForUpdate finds fewer than two rows: ErrNotEnoughFilms. *)
MissingDuel(r) ==
  /\ vote[r].pc = "begin" /\ duels[vote[r].duel] = NoDuel
  /\ EndVote(r)
  /\ UNCHANGED <<tables, voteSeq, keyShare, next, metrics, crashes>>

(* The winner posted is neither film of the duel: ErrFilmNotInDuel. *)
NotInDuel(r) ==
  /\ vote[r].pc = "locked" /\ vote[r].winner \notin FilmsOf(vote[r].duel)
  /\ EndVote(r)
  /\ UNCHANGED <<tables, voteSeq, keyShare, next, metrics, crashes>>

(* The ratings RegisterVote computes from the rows it read. *)
NewRatings(r, w, l) ==
  Ledger!Result([f \in Film |-> vote[r].read[f].rating],
                [f \in Film |-> vote[r].read[f].duelCount], w, l)

VoteRow(r) ==
  LET d == vote[r].duel
      w == vote[r].winner
      after == NewRatings(r, w, LoserTo(w, d))
  IN  [duel |-> d, winner |-> w, loser |-> LoserTo(w, d), user |-> vote[r].user,
       winnerAfter |-> after.winner, loserAfter |-> after.loser, seq |-> voteSeq + 1]

(* The INSERT takes a number from vote_seq, waits while another transaction*)
(* has an uncommitted vote on the duel, and then the unique index on       *)
(* duel_id accepts it or not.                                              *)
ReachesIndex(r) ==
  /\ vote[r].pc = "locked" /\ vote[r].winner \in FilmsOf(vote[r].duel)
  /\ voteSeq < MaxSeq
  /\ \A q \in Request \ {r} : vote[q].row # NoRow => vote[q].row.duel # vote[r].duel
  /\ voteSeq' = voteSeq + 1

InsertVoteNoIndex(r) ==
  /\ ReachesIndex(r)
  /\ vote' = [vote EXCEPT ![r].pc = "inserted", ![r].row = VoteRow(r)]
  /\ UNCHANGED <<tables, locks, next, metrics, crashes>>

InsertVote(r) ==
  /\ ReachesIndex(r)
  /\ \A v \in votes : v.duel # vote[r].duel
  /\ vote' = [vote EXCEPT ![r].pc = "inserted", ![r].row = VoteRow(r)]
  /\ UNCHANGED <<tables, locks, next, metrics, crashes>>

(* 23505: ErrDuplicateEntry.  The number is not given back. *)
DuplicateVote(r) ==
  /\ ReachesIndex(r)
  /\ \E v \in votes : v.duel = vote[r].duel
  /\ EndVote(r)
  /\ UNCHANGED <<tables, keyShare, next, metrics, crashes>>

(* UpdateRatings: both ratings, in one batch. *)
UpdateRatingsWinnerOnly(r) ==
  /\ vote[r].pc = "inserted"
  /\ vote' = [vote EXCEPT ![r].pc = "updated",
        ![r].written = [@ EXCEPT ![vote[r].row.winner] = vote[r].row.winnerAfter]]
  /\ UNCHANGED <<tables, voteSeq, locks, next, metrics, crashes>>

UpdateRatings(r) ==
  /\ vote[r].pc = "inserted"
  /\ vote' = [vote EXCEPT ![r].pc = "updated",
        ![r].written = [@ EXCEPT ![vote[r].row.winner] = vote[r].row.winnerAfter,
                                 ![vote[r].row.loser]  = vote[r].row.loserAfter]]
  /\ UNCHANGED <<tables, voteSeq, locks, next, metrics, crashes>>

Publish(r) ==
  /\ votes' = votes \cup {vote[r].row}
  /\ rating' = [f \in Film |-> IF vote[r].written[f] = Unwritten THEN rating[f]
                               ELSE vote[r].written[f]]
  /\ duelCount' = [f \in Film |-> IF Ledger!Touches(vote[r].row, f) THEN duelCount[f] + 1
                                  ELSE duelCount[f]]
  /\ UNCHANGED duels

Commit(r) ==
  /\ vote[r].pc = "updated"
  /\ Publish(r)
  /\ EndVote(r)
  /\ votesTotal' = [votesTotal EXCEPT ![vote[r].row.winner] = @ + 1]
  /\ UNCHANGED <<voteSeq, keyShare, next, pendingGauge, crashes>>

(* The database commits, but the deadline or the connection ends before    *)
(* the server hears of it: RegisterVote reports an error.                  *)
CommitUnheard(r) ==
  /\ vote[r].pc = "updated"
  /\ Publish(r)
  /\ EndVote(r)
  /\ UNCHANGED <<voteSeq, keyShare, next, metrics, crashes>>

(* Any statement fails, the five seconds of the context are over, or the   *)
(* deadlock detector picks this transaction: ExecTx rolls back, the error  *)
(* is logged, and nothing retries.                                         *)
VoteFailsCounting(r) ==
  /\ vote[r].pc \in InTx
  /\ EndVote(r)
  /\ votesTotal' = IF vote[r].row = NoRow THEN votesTotal
                   ELSE [votesTotal EXCEPT ![vote[r].row.winner] = @ + 1]
  /\ UNCHANGED <<tables, voteSeq, keyShare, next, pendingGauge, crashes>>

VoteFails(r) ==
  /\ vote[r].pc \in InTx
  /\ EndVote(r)
  /\ UNCHANGED <<tables, voteSeq, keyShare, next, metrics, crashes>>

-----------------------------------------------------------------------------
(* Creating a duel.                                                        *)

EndCreation(r) ==
  /\ next' = [next EXCEPT ![r] = [NoCreation EXCEPT !.pc = "over"]]
  /\ keyShare' = [f \in Film |-> keyShare[f] \ {r}]

Chosen(r, a, b) == next' = [next EXCEPT ![r] = [pc |-> "insert", a |-> a, b |-> b]]

(* SelectRandomFilms: any two films, in any order. *)
SelectRandomFilms(r) ==
  /\ next[r].pc = "select"
  /\ \E p \in Ledger!Pair : Chosen(r, p[1], p[2])
  /\ UNCHANGED <<tables, voteSeq, locks, vote, metrics, crashes>>

(* FindCandidates and DrawFromCandidates: any film of the pool, every      *)
(* weight being positive.                                                  *)
ChooseOpponentOfAny(r) ==
  /\ next[r].pc = "find" /\ next[r].a \in Film
  /\ \E b \in Film : Chosen(r, next[r].a, b)
  /\ UNCHANGED <<tables, voteSeq, locks, vote, metrics, crashes>>

ChooseOpponent(r) ==
  /\ next[r].pc = "find"
  /\ \E pool \in FindCandidates(rating, next[r].a) : \E b \in pool : Chosen(r, next[r].a, b)
  /\ UNCHANGED <<tables, voteSeq, locks, vote, metrics, crashes>>

(* ErrNotEnoughFilms, ErrNoCandidates: answered with 503. *)
NotEnoughFilms(r) ==
  /\ \/ next[r].pc = "select" /\ Ledger!Pair = {}
     \/ next[r].pc = "find" /\ {} \in FindCandidates(rating, next[r].a)
  /\ EndCreation(r)
  /\ UNCHANGED <<tables, voteSeq, forUpdate, vote, metrics, crashes>>

(* The foreign keys of the inserted duel: film_a_id, then film_b_id.       *)
ShareRow(r, f, to) ==
  /\ forUpdate[f] = NoRequest
  /\ keyShare' = [keyShare EXCEPT ![f] = @ \cup {r}]
  /\ next' = [next EXCEPT ![r].pc = to]
  /\ UNCHANGED <<tables, voteSeq, forUpdate, vote, metrics, crashes>>

CheckFilmA(r) == next[r].pc = "insert" /\ ShareRow(r, next[r].a, "half")

CheckFilmB(r) == next[r].pc = "half" /\ ShareRow(r, next[r].b, "checked")

(* The duel is committed under a new id and may be answered.               *)
PublishDuel(r) ==
  /\ next[r].pc = "checked"
  /\ \E d \in DuelId :
       /\ duels[d] = NoDuel
       /\ duels' = [duels EXCEPT ![d] = <<next[r].a, next[r].b>>]
  /\ UNCHANGED <<rating, duelCount, votes>>

CommitDuel(r) ==
  /\ PublishDuel(r)
  /\ EndCreation(r)
  /\ pendingGauge' = pendingGauge + 1
  /\ UNCHANGED <<voteSeq, forUpdate, vote, votesTotal, crashes>>

(* Committed, but the request's context is cancelled first: an error.      *)
CommitDuelUnheard(r) ==
  /\ PublishDuel(r)
  /\ EndCreation(r)
  /\ UNCHANGED <<voteSeq, forUpdate, vote, metrics, crashes>>

(* A statement fails, the client goes away and r.Context() with it, or the *)
(* deadlock detector picks this transaction: answered with 500.            *)
CreationFails(r) ==
  /\ next[r].pc \in Creating
  /\ EndCreation(r)
  /\ UNCHANGED <<tables, voteSeq, forUpdate, vote, metrics, crashes>>

(* Bound: DuelId has no id left. *)
OutOfIds(r) ==
  /\ next[r].pc = "checked" /\ \A d \in DuelId : duels[d] # NoDuel
  /\ CreationFails(r)

-----------------------------------------------------------------------------
(* The server dies and starts again: every connection is gone, so the      *)
(* database rolls every transaction back; metrics restart from zero, as    *)
(* nothing calls SeedPending or SeedTotal.                                 *)
Crash ==
  /\ crashes < MaxCrashes
  /\ crashes' = crashes + 1
  /\ forUpdate' = [f \in Film |-> NoRequest]
  /\ keyShare' = [f \in Film |-> {}]
  /\ vote' = [r \in Request |-> NoVote]
  /\ next' = [r \in Request |-> NoCreation]
  /\ pendingGauge' = 0
  /\ votesTotal' = [f \in Film |-> 0]
  /\ UNCHANGED <<tables, voteSeq>>

Arrive(r) ==
  \/ \E d \in DuelId, w \in PostedWinner, u \in User \cup {NoUser} : Post(r, d, w, u)
  \/ DuelPage(r)
  \/ \E f \in PostedWinner : FilmPage(r, f)

VoteStep(r) ==
  \/ LockFirst(r) \/ LockSecond(r) \/ MissingDuel(r) \/ NotInDuel(r)
  \/ InsertVote(r) \/ DuplicateVote(r) \/ UpdateRatings(r)
  \/ Commit(r) \/ CommitUnheard(r) \/ VoteFails(r)

CreationStep(r) ==
  \/ SelectRandomFilms(r) \/ ChooseOpponent(r) \/ NotEnoughFilms(r)
  \/ CheckFilmA(r) \/ CheckFilmB(r)
  \/ CommitDuel(r) \/ CommitDuelUnheard(r) \/ CreationFails(r) \/ OutOfIds(r)

Next == Crash \/ \E r \in Request : Arrive(r) \/ VoteStep(r) \/ CreationStep(r) \/ Finish(r)

Spec == Init /\ [][Next]_vars

(* The five seconds of the vote's context always end.  A statement that can*)
(* go on does; one that waits for a row lock is queued, and so gets the    *)
(* lock if the row is free again and again.  Nothing bounds the other      *)
(* half's wait: r.Context() has no deadline.                               *)
Fairness ==
  \A r \in Request :
    /\ WF_vars(VoteFails(r))
    /\ WF_vars(SelectRandomFilms(r) \/ ChooseOpponent(r) \/ NotEnoughFilms(r))
    /\ SF_vars(CheckFilmA(r)) /\ SF_vars(CheckFilmB(r))
    /\ WF_vars(CommitDuel(r) \/ OutOfIds(r))

FairSpec == Spec /\ Fairness

-----------------------------------------------------------------------------
(* Properties.                                                             *)

Snapshot == [rating : Int, duelCount : Nat]

VoteTask ==
  [pc : InTx \cup {"idle", "over"}, duel : DuelId \cup {NoDuel}, winner : Int,
   user : User \cup {NoUser}, read : [Film -> Snapshot],
   row : Ledger!Row \cup {NoRow}, written : [Film -> Int \cup {Unwritten}]]

CreationTask == [pc : Creating \cup {"idle", "over"}, a : Int, b : Int]

(* Type invariant. *)
TypeOK ==
  /\ Ledger!TypeOK
  /\ voteSeq \in 0..MaxSeq
  /\ forUpdate \in [Film -> Request \cup {NoRequest}]
  /\ keyShare \in [Film -> SUBSET Request]
  /\ vote \in [Request -> VoteTask]
  /\ next \in [Request -> CreationTask]
  /\ pendingGauge \in Nat /\ votesTotal \in [Film -> Nat] /\ crashes \in 0..MaxCrashes

(* The rows a vote has locked so far. *)
Held(r) == CASE vote[r].pc = "half" -> {Lo(vote[r].duel)}
             [] vote[r].pc \in {"locked", "inserted", "updated"} -> FilmsOf(vote[r].duel)
             [] OTHER -> {}

(* What FOR UPDATE is for: a row a vote has read stays as it was read until*)
(* the vote ends, and nothing stays locked by a vote that is over.         *)
ReadsStayFresh ==
  \A f \in Film : \A r \in Request :
    /\ f \in Held(r) <=> forUpdate[f] = r
    /\ f \in Held(r) => /\ vote[r].read[f] = [rating |-> rating[f], duelCount |-> duelCount[f]]
                        /\ keyShare[f] = {}

(* No vote is lost, whatever the interleaving: playing the votes back in   *)
(* applied_seq order gives the ratings and duel counts of films.           *)
RatingsReplay == Ledger!RatingsReplay

(* Among the votes of a film, applied_seq is the order in which they were  *)
(* committed: a vote takes its number while it holds both of its rows.     *)
SeqFollowsCommits ==
  \A r \in Request, v \in votes :
    vote[r].row # NoRow => /\ vote[r].row.seq # v.seq
                           /\ (\E f \in Film : Ledger!Touches(v, f) /\ Ledger!Touches(vote[r].row, f))
                                => v.seq < vote[r].row.seq

(* Two votes on one duel are serialised by their film rows, so the unique  *)
(* index never has to wait for, or be raced by, an uncommitted vote.       *)
IndexNeverWaits ==
  \A q, r \in Request :
    q # r /\ vote[q].row # NoRow /\ vote[r].pc \in {"locked", "inserted", "updated"}
      => FilmsOf(vote[q].duel) \cap FilmsOf(vote[r].duel) = {}

(* The two halves of a POST speak of one film wherever a vote is written:  *)
(* only the creation gets the winner cut to 32 bits, and an id that cutting*)
(* turns into another film's is one the vote refuses.                      *)
WinnerStaysOn ==
  \A r \in Request :
    vote[r].row # NoRow /\ next[r].pc \in Creating => next[r].a = vote[r].row.winner

(* The row a transaction is waiting for. *)
Tx == Request \X {"vote", "duel"}

Wanted(t) ==
  IF t[2] = "vote"
  THEN CASE vote[t[1]].pc = "begin" /\ duels[vote[t[1]].duel] # NoDuel -> {Lo(vote[t[1]].duel)}
         [] vote[t[1]].pc = "half" -> {Hi(vote[t[1]].duel)}
         [] OTHER -> {}
  ELSE CASE next[t[1]].pc = "insert" -> {next[t[1]].a}
         [] next[t[1]].pc = "half" -> {next[t[1]].b}
         [] OTHER -> {}

WaitsFor(t, u) ==
  \E f \in Wanted(t) : \/ u[2] = "vote" /\ forUpdate[f] = u[1] /\ t # u
                       \/ u[2] = "duel" /\ t[2] = "vote" /\ u[1] \in keyShare[f]

(* GetDuelRatingsForUpdate orders by films.id: a vote that waits for       *)
(* another waits for a lower film than any that one waits for, so votes    *)
(* alone never deadlock.                                                   *)
VotesWaitUpwards ==
  \A q, r \in Request : WaitsFor(<<q, "vote">>, <<r, "vote">>) =>
    \A f \in Wanted(<<q, "vote">>), g \in Wanted(<<r, "vote">>) : f < g

(* Wherever transactions wait for each other in a circle, the circle has a *)
(* vote in it and the creation of a duel.  (It can happen: a duel checks   *)
(* its films in the order winner, opponent.)                               *)
DeadlockTakesBoth ==
  \A C \in SUBSET Tx :
    C # {} /\ (\A t \in C : \E u \in C : WaitsFor(t, u)) => {t[2] : t \in C} = {"vote", "duel"}

(* filmmash_votes_total counts only votes that are in the table.           *)
MetricsCountRealVotes ==
  \A f \in Film : votesTotal[f] <= Cardinality({v \in votes : v.winner = f})

(* A film's rating and count change only when a vote on that film is added,*)
(* exactly one, in the same step.                                          *)
RatingsMoveWithVotes ==
  [][\A f \in Film : rating'[f] # rating[f] \/ duelCount'[f] # duelCount[f] =>
       \E v \in votes' \ votes : votes' = votes \cup {v} /\ Ledger!Touches(v, f)
                                 /\ rating'[f] = Ledger!RatingAfter(v, f)]_vars

(* RegisterVote and the duel handlers implement the ledger. *)
ImplementsLedger == Ledger!Spec

(* Every request for a duel is answered although it has no deadline of its *)
(* own: the votes it may wait for have one.                                *)
RequestsAnswered == \A r \in Request : next[r].pc \in Creating ~> next[r].pc \notin Creating

(* metrics/duel.go: filmmash_pending_duels is "Duels without a registered  *)
(* vote", so it is never above their number.  Nothing ever lowers it.      *)
PendingGaugeReal ==
  pendingGauge <= Cardinality({d \in DuelId : duels[d] # NoDuel /\ \A v \in votes : v.duel # d})

=============================================================================
