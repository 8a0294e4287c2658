# Verification of filmmash

filmmash shows two films, asks which is better, and rates films by the answers
(Elo). This directory holds TLA+ models of the server, the TLC runs that check
them, and TLAPS proofs about them. Paths below are those of the repository.

## 1. The system

One Go process (`cmd/filmmash-go`) in front of one PostgreSQL database.

| component | state it keeps | operations | talks to |
|---|---|---|---|
| rating arithmetic `internal/film/film.go` | none | `CalculateRatings`, `FilmKFromDuelCount` | called by vote registration |
| matchmaking `internal/duel/service.go`, `queries/duels.sql` | none; reads `films` | `FindCandidates`, `DrawFromCandidates` | called by duel creation |
| duel creation `internal/duel` | table `duels` | `CreateRandomDuel`, `DuelFromFilm` | matchmaking, database, metrics |
| vote registration `internal/vote` | tables `votes`, `films.rating`, `films.duel_count`, sequence `vote_seq` | `RegisterVote` in a goroutine beside `NewDuelFromWinner` | duel creation, films, transaction manager, metrics |
| transaction manager `internal/database/database.go` | pooled connections | `ExecTx` | every writer of more than one statement |
| vote history `internal/vote/list_votes.go` | none; reads `votes` | a film's votes, a user's votes | database |
| catalogue listing and search `internal/film` | none; reads `films` | pages by rating, search by title | database |
| catalogue synchronisation `internal/film/service.go`, `internal/tmdb` | tables `films`, `directors` | two periodic jobs, insert in batches | TMDB, database |
| sessions `internal/auth` | tables `users`, `sessions`, `session_events` | login, logout, middleware, cleanup job | database, identity provider |
| login flow `internal/auth/handler.go`, `auth_cookie.go` | an encrypted cookie | start, callback | identity provider |
| machine token `internal/zitadel/machine.go` | a cached token | fetch, fetch authorizations | identity provider |
| admin dashboard `internal/admin` | none; writes `films` | counts, list of users, adding a TMDB film | database, TMDB, machine token |
| metrics `internal/metrics` | counters and gauges | increments | vote registration, duel creation |
| configuration `internal/config` | settings read at the start | `Load` | all |
| router, views, seed command, test helper | none | | |

What is hard, and what makes each part correct:

* **Votes race.** The handler of a vote answers without waiting for it. Two
  votes may be about one duel (two clicks) or about two duels with a film in
  common. Each vote reads ratings, computes, and writes absolute values. Right
  means: no rating change is lost, a duel has one vote, a film's count is the
  number of its votes, and the votes table in `applied_seq` order replays to
  the films table.
* **Votes and new duels lock the same rows.** A vote locks its films in the
  order of their ids; the foreign keys of a new duel lock them in the order
  winner, opponent. The vote and the new duel *of one POST* can deadlock. Right
  means: only such mixed deadlocks exist, and everything is still answered.
* **Everything may fail half-way**: any statement, the vote's five seconds, the
  client, the process, and the COMMIT itself may succeed unheard. Right means: a vote
  leaves all of its writes or none.
* **The numbers have edges**: the twentieth duel, the rating window's border,
  the last candidate of a draw, an id of more than 32 bits.
* **Sessions end in several ways at once**: two logouts, expiry, cleanup. Login
  holds a connection and its user's row during an HTTP call; logout was meant
  to be one transaction and is not, and takes two connections. Right means: the
  audit events tell each session's life, a logout that says so has happened,
  and the pool cannot be exhausted by requests that wait for each other.
* **Tabs share cookies**, and the server keeps no login state but them. Right
  means: one session per login, in the browser that began it, back on the page
  it was begun from.
* **Readers page through what changes.** The list of films is ordered by
  ratings that votes move between two pages; a film's page and its history are
  two requests; users vote for the first time while an admin scrolls. Right
  means: a list stays sorted, what a reader misses or sees twice is explained by
  a vote, and a page completed by the identity provider never loses users.
* **One token for all admins**, renewed under a mutex that is held over an HTTP
  request. Right means: no call leaves with a token that will have expired when
  it arrives, nobody renews twice, nobody waits for ever.
* **Two jobs and an admin write the catalogue**, pages in one statement batch
  each, in TMDB's order. Right means: whole pages or nothing, answers that are
  true, and no race or deadlock that keeps a good page out for good.

`PROJECT.json` lists these hazards one by one, at the line where each bites,
with the properties that cover it; those without one say why.

## 2. Modules

```
Elo <---- VoteLedger  <==refines==  VoteRegistration ----> Matchmaking
               ^                                               ^
               |                                               |
          FilmListing (refines it too)                  MatchmakingDraw

SessionLife  <==refines==  Sessions          CatalogSync          LoginFlow

MachineToken <==refines==  AdminUsers
```

The refinements are `Ledger == INSTANCE VoteLedger WITH ...` in
`VoteRegistration`, `Life == INSTANCE SessionLife WITH ...` in `Sessions`, and,
for the two modules that extend what they refine, `ListingSpec => Spec` and
`Spec => TokenSpec`.

`Matchmaking` gives `VoteRegistration` the opponents of a new duel; `Sessions`
begins where `LoginFlow`'s exchange with the provider ends: its login is
`LoginFlow`'s one step `InitSession`. `Sessions` keeps of a vote its connection
and its row of `users`, `VoteRegistration` the rest. `CatalogSync` shares only
the table `films` with the votes, and only inserts.

### Elo: `internal/film/film.go`

`Elo` translates `StdRating`, `FilmKFromDuelCount` and `CalculateRatings`. The
code computes in `float64`; the module in whole units of `1/Scale` point. The
logistic curve is the constant `Expect`, of which `EloAssumption` states what
the code's formula guarantees: the two expectations of a duel add up to one, a
better film expects more, nobody expects more than a whole point. The K-factors
are the code's numbers. `VoteLedger` plays the operators the way `RegisterVote`
does, both K-factors taken from the counts before the vote.

### Matchmaking, MatchmakingDraw: `internal/duel/service.go`, `FindCandidates`

`Matchmaking` holds the query as a *set* of possible answers, since SQL orders
films at equal distance as it likes, `CandidateWeight` and
`DrawFromCandidates`. Weights are whole numbers, which leaves the proportions
alone. `MatchmakingDraw` is `DuelFromFilm` step by step: `Find`, then
`NoCandidates` or `Draw` over every value of the random number, then
`AskAgain`, because the film drawn may win and stay.

### VoteLedger: what the tables promise

The abstract specification. State: the three tables. `OpenDuel` adds a duel;
`CastVote` adds one vote for a duel without one, with a number above those of
all earlier votes on its two films, and in the same step moves both ratings and
both counts. No transactions, locks, requests or failures.

### VoteRegistration: how the server does it

| in the module | in the code |
|---|---|
| `rating duelCount duels votes` | the committed rows of `films`, `duels`, `votes` |
| `voteSeq` | the sequence `vote_seq`, never rolled back |
| `forUpdate[f]`, `keyShare[f]` | who holds row `f` of `films` FOR UPDATE (a vote) or FOR KEY SHARE (foreign keys of a new duel) |
| `vote[r]` | the goroutine of request `r`: its `pc`, what it has read, its uncommitted row and ratings |
| `next[r]` | the creation of the duel request `r` answers with |
| `pendingGauge`, `votesTotal` | the two metrics |
| `Post`, `DuelPage`, `FilmPage`, `Finish` | the three handlers, start and end |
| `LockFirst`, `LockSecond` | `GetDuelRatingsForUpdate`, row by row: lock, then read what is committed |
| `MissingDuel`, `NotInDuel`, `DuplicateVote` | the three refusals |
| `InsertVote`, `UpdateRatings`, `Commit` | the rest of `RegisterVote` |
| `CommitUnheard`, `CommitDuelUnheard` | a COMMIT that succeeds after the server has stopped listening |
| `VoteFails`, `CreationFails` | any statement's error, a deadline, a client gone, a deadlock's victim |
| `SelectRandomFilms`, `ChooseOpponent`, `NotEnoughFilms` | choosing the pair |
| `CheckFilmA`, `CheckFilmB`, `CommitDuel` | the INSERT into `duels` with its foreign keys in the order of their constraints |
| `Crash` | the process dies: all transactions roll back, metrics restart |

`OutOfIds` is the only action without a counterpart: it ends a creation when
the finite set `DuelId` is used up.

### SessionLife, Sessions: `internal/auth/service.go`, `repository.go`, `middleware.go`

`SessionLife` is what the tables promise of one session: opened with its
`created` event, perhaps expired, then ended by a logout (recorded at most once)
or removed by the cleanup. `Sessions` is how the server does it:

| in the module | in the code |
|---|---|
| `state owner events` | the rows of `sessions`, with "ended" and "removed" told apart, and of `session_events` |
| `cookie[b]` | the session cookie of a browser |
| `task[r]` | the handler of a request, by the step it is about to take |
| `Busy`, `FreeConnection` | the `pgxpool`: a transaction keeps a connection, a lone statement needs one that is free |
| `BeginLogin` to `CommitLogin` | `InitSession`, one transaction with a call to the provider inside; `HoldsUserRow` is the row lock of its upsert |
| `LookUp` to `CommitLogout` | `EndSession`. Its statements get `ctx`, not `txCtx`: each commits by itself, on a second connection |
| `CheckSession`, `CheckFindsNothing`, `NoCookie`, `Serve` | the two session middlewares and a page behind them |
| `CastVote` to `CommitVote`, `VoteFails` | the goroutine of a vote, which keeps the user found by the middleware; its insert shares the row of that user (`SharesUserRow`), and waits while a login of the user holds it |
| `Tick`, `CleanupRound`, `CleanupDone`, `CleanupFails` | the cleanup job and its rounds with a LIMIT |
| `LoginFails`, `CommitLoginUnheard`, `LogoutFails`, `AnswerLost`, `Crash` | what may go wrong |

### FilmListing: `internal/film/handler.go`, `ListFilmsByRating`, `ListFilmVotes`

Extends `VoteLedger`: the tables a reader sees are the committed ones. `list[r]`
is a list in a browser tab: the pages it shows, apart by whether they came
before the last one, the cursor the sentinel row carries, and, as history no
action reads, the films and votes of the moment it was opened. `RowsAfter` is
the WHERE of the query, `IsPage` its ORDER BY and LIMIT, `IsNextCursor`
`ToPaginatedResponse`. `OpenList` and `ScrollOn` are the two forms of
`FilmsListHandler`; a request that fails changes nothing. `OpenFilm` and
`ReadHistory` are the two requests of a film page. `AddFilms` is the catalogue
growing meanwhile.

### MachineToken, AdminUsers: `internal/zitadel/machine.go`, `internal/admin`

| in the module | in the code |
|---|---|
| `mutex`, `cache` | `mts.mu`; `accessToken` and `expiry`, with when the provider lets the token expire |
| `Fresh` | the comparison with `tokenRefreshSkew` |
| `call[r]` | a `FetchAuthorizations`, by where it is: waiting for the mutex, renewing, calling |
| `BeginRenewal`, `Issue`, `RenewalDone`, `RenewalFails` | the renewal; `Issue` is the provider making the token, before its answer is received and the server counts `expires_in` |
| `Authorized`, `CallFails` | the answer to the call |
| `Tick` | the clock; no request is on its way longer than `MaxDelay` |
| `table[r]` | the table of users in a tab: cursor, page being made, users shown |
| `GetUsersPaginated` | the query and, for a page that is not empty, the question to the provider |
| `PageShown`, `PageLost` | the answer with the page, or the 500 for all of it |
| `FirstVote` | a user joins the query's result |

### CatalogSync: `internal/film/service.go`, `queries/films.sql`, `internal/tmdb`

`writer[w]` is a job (with its page) or an admin's request. A page is a pgx
batch, one implicit transaction of statements with a snapshot each:
`BeginStatement` (the snapshot: is the director there?), `InsertDirector`,
then `AddFilm`, `KeepFilm` (it is there already) or `SkipFilm` (no director
row, because another writer committed the director after the snapshot).
`WaitsFor` is PostgreSQL's wait for an open transaction that has inserted the
same key, `DeadlockAbort` its deadlock detector. `NoSuchName` is the CHECK on
`directors.name`: a film whose credits name no director carries the zero
`Director`, whose empty name fails the whole batch, as a director's name too
short or too long does (`Misnamed`). `RowRefused` is the CHECKs on `films` (title,
year, popularity, vote average: `Misfit`), which have the same effect.
`FetchPageWithoutCredits`
is TMDB failing on one film's credits, which has the same effect for one sync.

### LoginFlow: `internal/auth/handler.go`, `auth_cookie.go`, `provider.go`, `config/aes.go`

A `Challenge` stands for the state, nonce and verifier that one
`NewLoginChallenge` makes. `flow`, `returnTo` and `session` are the browser's
cookies, `login[c].key` the key a challenge was sealed with, `Key` the key of
the running process, `login[c].code` the provider's code for it: none yet,
valid, spent. `Login`, `Callback`, `CheckFlow`, `FlowRefused`, `Exchange`,
`InitSession` and `Answer` are the two handlers; a callback carries the cookies
of the moment it was sent and sets those of the moment it is answered.
`Authorize` and what `Exchange` accepts are the provider (external), taken to
honour a code once and with its own verifier. `latest` and `opened` are history:
no action reads them.

The definitions whose names extend another's (`InsertVoteNoIndex` beside
`InsertVote`, `EndVoteKeepingLocks` beside `EndVote`, ...) belong to no
specification. Each is that definition with one plausible mistake; put in its
place, it makes the property named beside it in `PROJECT.json` ("mutants")
fail. They show that no property holds for an empty reason.

## 3. Runs

| run | what it explores | bounds, and why they are enough |
|---|---|---|
| `matchmaking_draw` | every rating of a catalogue, every film asked about, one that does not exist | 5 films at 4 ratings (equal, inside, on and outside the window), minimum 2, maximum 3: pools smaller than, at and above each limit |
| `film_listing` | the ledger with a reader: lists, film pages, histories, votes, new films | 4 films, three of them at one rating and one of these not in the catalogue yet, one tab, pages of one and two, one duel there and one to be dealt, so up to two votes, each of which can move a film across the cursor either way; counts on both sides of the twentieth duel; the real curve tabulated every 50 points. Films missed, films seen twice and histories with votes later than the rating shown all occur |
| `vote_interleavings` | two requests at a time, slots used again | 3 films, two duels with a common film, 3 numbers: a vote may meet another on the same duel, on a common film, and one that committed before; with `NewRatings` in every order and a film whose K-factor stops falling on the way |
| `vote_crashes` | failures, commits unheard, a crash, winners outside the duel and beyond the width of an id | 2 films, one duel and one free id, 2 numbers, ids of 4 bits; posted are a film of the duel, an id that is in no catalogue, and one beyond the width that is cut to the other film's; everything a request does beside another |
| `vote_liveness` | the same under fairness, without symmetry | 2 requests, so that a vote waits for a duel and a duel for a vote, and for one's own other half |
| `pending_gauge`, `logout_unlogged` | one promise each that the code breaks, see below | the smallest instances that show it |
| `sessions` | logins, logouts, pages, votes, expiry, cleanup, failures, a crash | 3 requests over 2 connections, 2 browsers, 2 users, 2 sessions, cleanup one at a time: the pool can be full with one request left over, two logins of one user, or a login and a vote, queue for its row, two logouts race for one session |
| `sessions_liveness` | the same under fairness, without symmetry | 2 requests, 2 connections, one logout at a time |
| `admin_users` | the dashboard and its token, under fairness | 2 tabs, 3 users of whom one votes later, pages of one; a clock of 6, skew 3, delays up to 1 each way, lifetimes of 3 (never kept) and 5: tokens are reused, grow stale while another tab waits, and fail to renew |
| `catalog_sync` | both jobs and an admin, under fairness | 3 pages each, 9 films, 4 directors, one fault. The pages share films and directors in opposite orders; one film has no director, one a director whose name the table refuses, one a row it refuses, one no date, one two directors, and that one, of a page both jobs hold, the admin asks for at any time. Without `StartsInTime`, and with an admin who asks for films of the page that never gets in or of a later page, the safety properties were run by hand, too |
| `login_flow` | two logins, two callbacks at a time, a restart with `AES_KEY` set | 2 browsers, 2 challenges, 2 pages: two tabs of one browser, or two browsers; every property relates two logins at most. With three challenges and a key that changes at the restart it was run by hand (6.4 million states, no error) |

For the registration of votes, two requests are enough to interleave any two transactions of each kind: a
request has a vote *and* a creation, so four transactions run at once, and a
slot that is free takes another request, so a behaviour has more than two.
`SYMMETRY` permutes requests, browsers, users, sessions or challenges, which no
property tells apart; the liveness runs do without. Deadlock checking is off
where a model really stops at its bounds (`DuelId`, `MaxSeq`, `MaxTime`, no candidates);
there, that requests do not wait on each other for ever is `RequestsAnswered`
and `DeadlockTakesBoth`. It is on in the others.

Properties, by what they say of the code:

* *Reads stay fresh* (`ReadsStayFresh`): what a vote read FOR UPDATE is what
  the tables hold until it ends. This is why absolute ratings may be written.
* *The tables are exact* (`RatingsReplay`; `VotesFitDuels`, `RatingIsLastVote`
  proved of the ledger): a duel has one vote, and whatever interleaved, the
  films table, counts included, is the replay of the votes table.
* *Numbers follow commits* (`SeqFollowsCommits`): although numbers are drawn
  before the commit and burnt by failures, on each film their order is that of
  the commits, because they are drawn under both row locks.
* *The index never waits* (`IndexNeverWaits`): two votes on a duel are already
  serialised by their films, so the second sees the first committed or gone.
* *Deadlocks* (`VotesWaitUpwards`, `DeadlockTakesBoth`): votes alone never
  wait in a circle; every circle has both a vote and a new duel in it. Such
  circles are real: a POST's vote holds the lower film while its own new duel
  holds the higher, each wanting the other. PostgreSQL kills one, and either
  the vote is dropped with a log line or the page answers 500.
* *All or nothing* (`RatingsMoveWithVotes`, `ImplementsLedger`).
* *Metrics* (`MetricsCountRealVotes`): never more votes counted than stored;
  fewer are possible (a commit unheard, a crash).
* *One film per POST* (`WinnerStaysOn`): the winner is an `int` for the vote and cut
  to `int32` for the next duel, so the two halves of a POST may be about different
  films. They are only where the vote is refused: it compares the number as it came
  with the films of its duel.
* *Progress* (`RequestsAnswered`): the answer to a request has no deadline, and may
  wait for votes, which have.
* *Sessions* (`GoodbyeMeansGone`, `ImplementsSessionLife`, `VotesOfOwner`): a
  vote is the session owner's, whatever happens to session and cookie between
  the middleware and the commit;
  however logouts, expiry and cleanup race, each session ends once, a logout
  that is answered with the redirect has ended it and is recorded.
* *The pool* (`PoolStuckOnlyByLogouts`, `RequestsAnswered`): logins hold the row
  of their user over a call to the provider, votes of that user wait for it on a
  connection, and logins wait for votes; still a full pool always
  has a transaction that can go on, unless every connection is held by a
  logout, each of which waits for a second one. As many logouts at a time as
  the pool has connections therefore stop the server until clients give up:
  with `LogoutsAtOnce = PoolSize` TLC refutes `RequestsAnswered`, with one less
  it holds. No run is listed for that: the repository promises nothing of it. Expired sessions leave the table (`ExpiredSessionsGo`).
* *The catalogue* (`GrowsByPages`, `SkippedForOnce`,
  `AddsWaitEmptyHanded`, `AnswersTrue`, `PagesGetIn`). Only pages can deadlock, an
  admin's request never (proved). One film without a
  director, or with a row the tables refuse, keeps its whole page out at every sync, unless an admin adds the
  page's other films one by one.
* *Logging in* (`SessionOfOwnLogin`, `OneSessionPerLogin`, `LatestLoginKept`,
  `ReturnsWhereItBegan`). A second tab's login replaces the
  first one's cookie, and a successful callback clears the second's: the
  browser is logged in then, and the second tab's callback is answered with
  400. A code lost after the exchange is not repaired by a reload.
* *Reading* (`ListedInOrder`, `TwiceOnlyIfLost`, `MissedOnlyIfWon`,
  `HistoryExplainsRating`). A film that wins while a reader is above it in the
  list jumps over the cursor and is never shown; one that loses is shown again.
  Only votes do this: not ties, new films or the order of requests.
* *The dashboard* (`CallsWithLiveToken`, `RenewsOnlyWhenStale`,
  `EveryVoterListed`, `PagesAnswered`). A renewal that fails gives the mutex
  back, and a page that fails is never passed over: its table ends there.
* *Ratings* (`ResultMovesApart`, `EstablishedPointsConserved`) and *matchmaking*
  (`PoolAsDocumented`, `DrawnInProportion`).

### Fairness

`FairSpec` assumes: the five-second context of a vote ends (`WF` of
`VoteFails`, `vote/handler.go:144`; it stands for the only thing the server
promises, not for success: no fairness is given to a vote's own steps); a
creation's own steps that wait for nothing are taken (`WF`); and a foreign key
waiting for a row lock gets it if the row is free again and again (`SF`:
PostgreSQL queues waiters). Nothing is assumed of arrivals, failures of
creations, or crashes: `r.Context()` has no deadline, so a creation is
answered only because what it waits for ends.

`Sessions`: a step of a handler that is possible again and again is taken
(`SF`: a connection or a row's lock is handed out in turn, and the provider
answers or fails, which `auth/service.go:78` sets no time for), logins, logouts, pages and votes alike, and no deadline of a
vote is needed; the ticker ticks; a cleanup does not fail every time. It
assumes fewer logouts at a time than connections, see above.

`CatalogSync`: steps that are possible again and again are taken, PostgreSQL
aborts deadlocks, and faults are finitely many (`MaxFaults`). `StartsInTime`
says that a job starts when the other is idle or has not fetched its first
page yet: the jobs tick every 24 hours and every 7 days and start together at
boot, and a sync takes minutes. Without it the two could be started so that
their pages deadlock in turn for ever.

`AdminUsers`: a call that may go on again and again does (`SF`: `sync.Mutex` hands
itself to a waiter that has starved for a millisecond; the provider answers, or
the client's context ends the request), and a handler that has its answer uses
it. That an answer takes at most `MaxDelay`, twice of which fits the skew, is an
assumption about the provider: `http.DefaultClient` has no timeout. Only
`CallsWithLiveToken` depends on it.

`LoginFlow` and `FilmListing` are checked for safety only; of the former: a login completes when its user reloads
a callback that came to nothing, which is no promise of the code.

### Disagreements

Two runs look for a counterexample and find one.

* `pending_gauge`: `metrics/duel.go:18` describes the gauge as "Duels without a
  registered vote." Nothing ever calls `DuelResolved`, so it counts all duels
  created since the start.
* `logout_unlogged`: README.md:96 says that session events are audit-logged.
  `EndSession` deletes the session and inserts its `logged_out` event in two
  transactions, having handed `ctx` to statements meant for `txCtx`: an error
  or a crash between them leaves an ended session without an event.

Without a run, since a glance at the code shows them:

* README.md:10 says `K = 20`; a film's first twenty duels use 40 down to 21.
* README.md:153 says a vote requires a session; the middleware lets a request
  without one through, and the vote is stored without a user (README.md:11 says
  so too).
* README.md:96 says the cleanup runs every 5 minutes,
  `cmd/filmmash-go/server.go:126` starts it every 24.
* README.md:129 says that the seed command downloads some 500 films, its code
  asks for 300 pages.

## 4. Proofs

Checked by TLAPS, for every value of the constants that satisfies the `ASSUME`s
of the modules: any number of requests, any catalogue, any curve with the shape
above.

* `VoteLedgerProofs`: a result moves the winner up by at most its K and the loser
  down by at most its own (`CalculateRatingsMovesApart`), from the bounds and the
  symmetry of `Gap`. `LedgerVotesFitDuels`, `LedgerRatingIsLastVote`, each by
  an inductive invariant with the typing of the tables; `LedgerResultMovesApart`
  and `LedgerPointsConserved`, properties of steps, from the typing and the first.
  `LedgerRatingsReplay`, the strongest: the films table *is* the replay of the
  votes. `Replay` is a recursive function, of which a prover sees only that some
  function with its equations is meant. The invariant is therefore `ReplayInv`:
  there is a function with the equations of a replay that ends in the tables.
  Casting a vote makes a new such function of the old one: unchanged below the
  vote's number, and above it with the two films as the vote leaves them, since no
  later vote touches them (`Latest`). That nothing else happens above a number is an
  induction, done by the least counterexample (`NatMin`).
  `LedgerCountsAddUp`: a film's `duel_count` is its initial count and the number of its
  rows in `votes`; `LedgerRatingsEarned`: its rating is at most forty points a win above
  and forty points a defeat below its initial rating. Both count sets of votes, which are
  finite because the invariant (`CountingInv`) says so.
* `FilmListingProofs`: every step of the listing is one of the ledger or leaves
  its tables alone (`ListingKeepsLedger`), so the ledger's theorems hold while it
  is read. The invariant adds to the typing that the last page and the cursor
  belong together and lie below all earlier entries, that every film of the
  opening moment not shown yet lies below the cursor unless it has won since,
  and that a film whose rating fell below what the list shows has lost since: `ListingInOrder`,
  `ListingTwiceOnlyIfLost`, `ListingMissedOnlyIfWon`. `ListingHistoryExplains`
  rests on `LedgerRatingIsLastVote`'s invariant and on votes never going away.
  `ListingExactUnlessVoted` turns the properties of films that moved around: a film that
  nobody has voted on since the list was opened is shown at its present rating, and is on
  every list read to its end, whatever happens to the others. It needs one thing more,
  that all that is shown of a film is true of it until a vote on it (`Fresh`).
* `VoteRegistrationProofs`: the concurrent protocol.
  - The invariant `IInv` is `TypeOK` and, for every request, `TaskOK` (what a
    task speaks of exists), `RowOK` (the uncommitted row is the one its own
    reads give, on a duel without a vote) and `FreshOK` (exactly the rows its
    `pc` says it holds are locked by it, unshared, and unchanged since read).
    `ReadsStayFresh` alone is not inductive: a commit of *another* vote writes
    ratings, and only `RowOK` says that it writes rows it holds. There is one
    lemma per action.
  - From `IInv`: `RegistrationTyping`, `RegistrationReadsStayFresh`,
    `RegistrationIndexNeverWaits` (two holders of one row would be equal) and
    `RegistrationVotesWaitUpwards` (the order of ids).
  - `SeqInv` adds that numbers of votes in flight and committed differ, and that
    a vote in flight is numbered above all committed votes on its films. It
    needs `IInv`: nobody commits on a film while another holds it. It gives
    `RegistrationSeqFollowsCommits`.
  - `RegistrationImplementsLedger`: `Spec => Ledger!Spec`, the mapping being
    the identity on the tables. `Commit` and `CommitUnheard` are `CastVote`:
    reads equal tables by `IInv`, so the row in the task is the ledger's; the
    number is the latest by `SeqInv`. `CommitDuel` and `CommitDuelUnheard` are `OpenDuel`;
    every other step stutters.
  - `RegistrationRatingsMoveWithVotes` from the same.
  - `RegistrationKeepsLedger`, `RegistrationRatingsReplay`: what is proved of the
    ledger holds of the server, by the refinement alone. `SameLedger` shows that
    the two modules mean the same by the operators they each have an instance of.
  - `RegistrationDeadlockTakesBoth`: a circle of votes alone has a vote that waits
    for the highest film anyone in it waits for, and whoever holds that film waits
    for a higher one (`VotesWaitUpwards`); creations share rows with each other
    and wait for votes only.
  - `RegistrationWinnerStaysOn` from `HalvesAgree`: as long as both halves of a request
    run, the creation is for the number posted, cut to 32 bits. A vote with a row has, by
    `RowOK`, a film of the catalogue as its winner, and `films.id` being 32 bits wide (an
    assumption of the module), cutting leaves that as it is (`FilmIdsFit`).
  - `RegistrationMetricsCountRealVotes` from `CountInv`, which adds that the votes
    are finitely many: the counter moves in `Commit` only, by the vote that commits
    with it, and that vote is new by `RowOK`.
  - `RegistrationSharesHeld`: the rows a creation holds FOR KEY SHARE are exactly those
    its `pc` says it has checked, through every failure and crash. With `IInv` for the
    rows of votes it gives `RegistrationWaitsEnd`, the safety half of `RequestsAnswered`:
    nobody waits for a transaction that is over, and a creation waits for votes only,
    each of which has its five seconds.
  - `RegistrationCountsAddUp` is the ledger's counting, by the refinement.
* `SessionsProofs`: `LifeEventsTell`, the abstract life of sessions keeps its
  audit events in step with it: `EventsTellLife` is inductive with the typing.
  `SessionsImplementSessionLife`: `Spec => Life!Spec`, so the server's events do,
  too (`SessionsEventsTellLife`). `CommitLogin` and `CommitLoginUnheard` are `Open`,
  the two statements of a logout `End` and `Record`, a cleanup round `Remove`. The
  invariant says of each handler what its session has been through (`TaskOK`) and
  of two handlers that a session about to be committed belongs to one of them and
  that one at most is about to record a logout (`Apart`): without the second,
  two logouts that race could both record. From it, `SessionsGoodbyeMeansGone`
  and `SessionsVotesOfOwner`. `SessionsOnlyLogoutsExhaust` is `PoolStuckOnlyByLogouts`
  with the guards spelled out (`Waits`) in place of ENABLED: whoever holds a user's row
  waits for nothing, except a login for a free id, and of these there are as many as logins
  (`Room`, an invariant of cardinalities). That `Waits(r)` is `~ENABLED Step(r)` TLC
  confirmed by hand on the instance of `sessions`.
  `SessionsPoolNeverStuck` draws the conclusion, and is the safety half of
  `RequestsAnswered`: with fewer logouts at a time than connections, of the transactions
  that hold a connection one at least waits for nothing. Logouts that fill the pool would
  all be in flight, and those are counted (`LogoutsBounded`); that the condition is needed
  TLC shows at once, with as many logouts as connections. The code sets no such limit.
  `SessionsLiveOnce`, a property of steps: a session that is gone stays gone, one that has
  expired is never live again, and none changes hands or loses an event.
* `CatalogSyncProofs`: the invariant `IInv` is the typing, that no director is held
  by two transactions or by one and the table (`Exclusive`), and per writer what is
  known of the director of its statement (`StatementDirector`), of the films it has
  inserted or left out (`HeldFilms`), of an admin's one film (`AdminInv`) and of how
  far a job's batch has come (`JobInv`). From it: `CatalogSkippedForOnce`,
  `CatalogAnswersTrue`, `CatalogGrowsByPages`, and `CatalogAddsWaitEmptyHanded`:
  an admin who waits for a film holds no director, since the holder of the film
  has its director as well, and `Exclusive`. Hence `CatalogOnlyPagesDeadlock`, which
  no run has to check. `DatedFilms` says what the loop of `FetchFilms` keeps.
  `CatalogNobodyHangs` is the safety half of `PagesGetIn`: follow the waits of a writer,
  each of which is for the holder of a key, and as the writers are finitely many they end
  at one that can go on, or in a circle that PostgreSQL breaks. For the first, `JobInv` and
  `AdminInv` say where a writer with keys can be; `CanGoOn` is the guards of the
  statements and the commit, and TLC confirmed by hand that it is what ENABLED says. The
  argument counts, hence `IsFiniteSet(Job \cup Admin)` in the assumption: there are two jobs
  and finitely many requests. `CatalogFilmsHaveDirectors` needs that the director a
  statement found is still there when its page commits (`InsertedCredited`), which the
  foreign key of the schema would otherwise refuse; `CatalogKeysExclusive` is `Exclusive`
  and the same for films.
* `MatchmakingProofs`: `DrawPoolAsDocumented`, for every order the database may
  list films in: the three nested limits give exactly the sets of documented size
  that leave out no nearer film. A nearest set grows film by film into a larger one
  (`NearestGrows`), and taking the maximum first loses no film the window would
  have kept (`WindowOfNearest`). `DrawDrawnInProportion`: the sums of weights divide
  the numbers below the total into one segment per candidate, as long as its weight
  (`PrefixSums`, `DrawnBySegment`, `DrawnByWeight`). `DrawAnswersOthers`: an opponent
  is another film, and there is one unless the catalogue has no other; from the
  size of the pool.
* `AdminUsersProofs`: the invariant of the token relates `expiry` to its real end
  (`expiry` is late by the answer's way at most), the age of every request on its
  way to the clock, and the mutex to the one call that renews: `TokenTyping`,
  `TokenRenewsWhenStale` and that calls are live, for any skew and delays within it.
  `UsersKeepToken` carries them over to the dashboard
  (`UsersCallsLive`); `UsersEveryVoterListed` by the invariant that all voters of
  the opening moment up to the cursor have been shown and that a page lies beyond it.
  `TokenMutexMoves`: whoever has the mutex is renewing, with a request that was sent no
  longer than `MaxDelay` ago. `UsersPagesGoOn`, the safety half of `PagesAnswered`: a page
  of users that is asked for has its answer and can be shown, or has a request of its
  own on its way, or waits for a mutex that moves.
* `LoginFlowProofs`: `LoginTyping`, `SessionIsOwn`, `SessionIsOne`, `LatestIsKept`,
  `ReturnIsRight`, for any number of browsers, logins, callbacks and restarts,
  and any key. The invariant adds to the properties that the cookies of a
  browser, and those a callback was sent with, are of one login which that
  browser has begun (`CookiesAgree`, `CallbacksAgree`), that past the check the
  url is of that login (`PastTheCheck`), and that at most one callback of a
  login holds its tokens, and only before its session is opened
  (`TokensOnce`): without the last, `opened` could be increased twice. For
  `LatestIsKept` it has that `latest` is the flow cookie or there is a session
  (`LatestFlow`), and that a key which is set seals every login (`KeyStays`).

Recursive functions (`Replay`, `Dated`, `PrefixWeight`) are reasoned about by their
equations and a least counterexample: the induction theorems of the library take a
predicate as a parameter, which the provers cannot instantiate.

Every invariant and every step property the runs check is proved, except one.
Only model-checked:

* liveness, since fairness is out of the prover's reach:
  `RequestsAnswered` (twice), `ExpiredSessionsGo`, `PagesGetIn`, `PagesAnswered`. Of
  those that depend on waiting, `RegistrationWaitsEnd`, `SessionsPoolNeverStuck`,
  `CatalogNobodyHangs` and `UsersPagesGoOn` prove that in no reachable state everyone
  waits; what is left to TLC is that fair steps then lead to the end;
* `PoolStuckOnlyByLogouts` as it stands, whose "can go on" is ENABLED;
* the two disagreements, which are counterexamples.

## 5. What the models leave out

* The connection pool, in `VoteRegistration`: there every transaction finds a connection.
  `Sessions` has the pool, shared by logins, logouts, pages, votes and the cleanup. The
  connections of duel creations and of the catalogue's pages are not counted there:
  `PoolSize` is what they leave. Each of them takes one connection and never a second,
  and waits for votes or other pages only, so it gives its connection back; but that these
  waits and those of `Sessions` together leave the pool alive is this argument and
  no run.
* In `Sessions`, the rows of films a vote holds while it waits for the row of its
  user: another vote on them waits as long, a chain that ends with the login.
* Pages of size zero or less, which the list of films takes from the url as they
  are: the query then returns nothing or fails.
* An identity provider that is not configured: the dashboard asks nobody then.
* Session roles, and the `user_name` cookie, which lives as long as the access
  token and not the session: nothing but a greeting reads it.
* The end of a session in `LoginFlow`: `LatestLoginKept` is about browsers that
  do not log out meanwhile.
* The seed command, which loads the catalogue before the program runs.
* READ COMMITTED's re-reading of a row it waited for is modelled by reading at
  the moment the lock is taken, which is its effect here.
* Floats: ratings are fixed point, so `EstablishedPointsConserved` is about the
  formula and not about rounding of the last bit.
* Deletion: nothing in the program deletes films, duels or votes.
* The panic path of `ExecTx` rolls back as an error does: `VoteFails`.

### Not modelled

* Search by title and TMDB search, the votes of one user, the counts of
  `CountTotal`: single reads on which nothing depends and that no second request
  continues.
* The order of a film's history by `created_at`, the start of the voting
  transaction: two votes that waited for each other may be listed against their
  `applied_seq`. The query and its test promise `created_at` and nothing more.
* The contents of the provider's answers (roles, names): nothing is decided by
  what the dashboard shows of them.
* `ComposeDuel`, `SeedTotal`, `SeedPending`, `DuelResolved` and other code no
  handler reaches; the seed command and the test helper, which run alone; views,
  the proxy, containers and dashboards.
* HTTP latencies and system gauges, which observe and are not read.

## 6. Plan

All components with a state of their own are modelled: the ledger, registration
and listing of votes, matchmaking, sessions with the pool and the votes that need
them, the catalogue's synchronisation, the login flow, the machine token and the
dashboard. The invariants and step properties of the runs are proved, and for the liveness
properties that no state is stuck. What a change of the code would call for first:

* handing `txCtx` to the statements of `EndSession` makes `EndedSessionsLogged` a property
  to prove, and `SessionsPoolNeverStuck` hold without its condition;
* locking the two films of a new duel in the order of ids, as a vote does, would end the
  mixed deadlocks: `VotesWaitUpwards` could then be proved of creations as well.
