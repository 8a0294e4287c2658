----------------------------- MODULE CatalogSync -----------------------------
(***************************************************************************)
(* How films get into the catalogue while the server runs: the two jobs    *)
(* that copy TMDB's popular and top-rated pages (InsertFilmsJob), and an   *)
(* admin who adds one film.                                                *)
(*                                                                         *)
(* A page is one pgx batch, hence one implicit transaction: its statements *)
(* run one after the other, each with a snapshot of its own, and one that  *)
(* fails takes the whole page with it.  Each statement first inserts the   *)
(* director, unless there is one, and then the film, if the director was   *)
(* inserted or is in the statement's snapshot.                             *)
(***************************************************************************)
EXTENDS Naturals, Sequences, FiniteSets

CONSTANTS
  Film, Director,
  Credits,        \* [Film -> Seq(Director)], the directors in TMDB's credits
  ZeroDirector,   \* Director{}, of a film whose credits name none
  Job, Admin,     \* the writers
  Listing,        \* [Job -> [1..LastPage -> Seq(Film)]], TMDB's pages
  Undated,        \* films whose release date does not parse
  Misfit,         \* films with a title, year or figure that a CHECK of films refuses
  Misnamed,       \* directors with a name that the CHECK of directors refuses
  Addable,        \* bound: films an admin asks for
  MaxFaults       \* bound: failures of TMDB, the database and the server

LastPage == 3

ASSUME CatalogSyncAssumption ==
  /\ Credits \in [Film -> Seq(Director)] /\ ZeroDirector \notin Director
  /\ Job \cap Admin = {} /\ IsFiniteSet(Job \cup Admin)
  /\ Listing \in [Job -> [1..LastPage -> Seq(Film)]]
  /\ Undated \cup Misfit \subseteq Film /\ Misnamed \subseteq Director /\ Addable \subseteq Film
  /\ MaxFaults \in Nat

VARIABLES
  films, directors,   \* committed keys of the two tables
  writer,             \* [Writer -> the page or the film being written]
  faults

tables == <<films, directors>>
vars == <<tables, writer, faults>>

Writer == Job \cup Admin

Undirected == {f \in Film : Credits[f] = <<>>}

(* The CHECKs of the schema: a director's name has 2 to 127 characters, the*)
(* zero Director's none; the year an admin's film gets for no date is 0.   *)
Nameless == {ZeroDirector} \cup Misnamed
Refused == Undated \cup Misfit

-----------------------------------------------------------------------------
(* page and batch are what is written, next the statement, found whether   *)
(* its director CTE has a row; newFilms and newDirectors are the           *)
(* transaction's own rows, skipped the films it left out for want of a     *)
(* director row (ErrNoRows, which InsertFilmBatch ignores).                *)
Start(pc, page, batch, unresolved) ==
  [pc |-> pc, page |-> page, batch |-> batch, unresolved |-> unresolved, next |-> 1,
   found |-> FALSE, newFilms |-> {}, newDirectors |-> {}, skipped |-> {}]

Idle == Start("idle", 0, <<>>, {})

Init ==
  /\ films = {} /\ directors = {}
  /\ writer = [w \in Writer |-> Idle]
  /\ faults = 0

AtStatement(w) == writer[w].next \in 1..Len(writer[w].batch)
Current(w) == writer[w].batch[writer[w].next]

LastDirectorForAdmin(w, f) ==
  IF f \in writer[w].unresolved THEN ZeroDirector
  ELSE Credits[f][IF w \in Admin THEN Len(Credits[f]) ELSE 1]

(* GetDirector, for the jobs, and GetFilm, for an admin, both take the     *)
(* first director they find.                                               *)
DirectorOf(w, f) == IF f \in writer[w].unresolved THEN ZeroDirector ELSE Credits[f][1]

Holds(w, f) == f \in writer[w].newFilms
HoldsDirector(w, d) == d \in writer[w].newDirectors

(* ON CONFLICT, like the unique index itself, waits for a transaction that *)
(* has inserted the same key and is still open.                            *)
WaitsFor(w, h) ==
  /\ w # h /\ AtStatement(w)
  /\ \/ writer[w].pc = "director" /\ HoldsDirector(h, DirectorOf(w, Current(w)))
     \/ writer[w].pc = "film" /\ writer[w].found /\ Holds(h, Current(w))

Waits(w) == \E h \in Writer : WaitsFor(w, h)

(* Every member of the circle waits for one and is waited for by one. *)
Deadlocked(w) ==
  \E C \in SUBSET Writer :
    /\ w \in C
    /\ \A c \in C : (\E h \in C : WaitsFor(c, h)) /\ (\E v \in C : WaitsFor(v, c))

Fault == faults < MaxFaults /\ faults' = faults + 1

(* SyncFilms goes on with the next page whatever became of this one; an    *)
(* admin's request is over.  A transaction that is open rolls back.        *)
Over(w) ==
  IF w \in Job /\ writer[w].page < LastPage
    THEN Start("fetch", writer[w].page + 1, <<>>, {}) ELSE Idle

GiveUp(w) == writer' = [writer EXCEPT ![w] = Over(w)] /\ UNCHANGED tables

NextStatement(w, record) == writer' = [writer EXCEPT ![w] = [record EXCEPT !.pc = "begin", !.next = @ + 1]]

-----------------------------------------------------------------------------
(* SyncFilms, at boot and at every tick. *)
Sync(j) ==
  /\ j \in Job /\ writer[j].pc = "idle"
  /\ writer' = [writer EXCEPT ![j] = Start("fetch", 1, <<>>, {})]
  /\ UNCHANGED <<tables, faults>>

(* FetchFilms, and GetDirector for each film.  A film without a director,  *)
(* or whose credits TMDB does not give this time, keeps the zero Director: *)
(* id 0 and an empty name.                                                 *)
Dated(page) ==
  LET kept[n \in 0..Len(page)] ==
        IF n = 0 THEN <<>>
        ELSE IF page[n] \in Undated THEN kept[n - 1]
        ELSE Append(kept[n - 1], page[n])
  IN  kept[Len(page)]

FetchPage(j) ==
  /\ j \in Job /\ writer[j].pc = "fetch"
  /\ writer' = [writer EXCEPT ![j] = Start("begin", @.page, Dated(Listing[j][@.page]), Undirected)]
  /\ UNCHANGED <<tables, faults>>

FetchPageWithoutCredits(j) ==
  /\ j \in Job /\ writer[j].pc = "fetch" /\ Fault
  /\ \E f \in Film \ Undirected :
       writer' = [writer EXCEPT ![j] = Start("begin", @.page, Dated(Listing[j][@.page]),
                                             Undirected \cup {f})]
  /\ UNCHANGED tables

FetchFails(j) ==
  /\ j \in Job /\ writer[j].pc = "fetch" /\ Fault
  /\ GiveUp(j)

(* AddTmdbFilmHandler refuses a film without a director. *)
AskToAdd(a, f) ==
  /\ a \in Admin /\ writer[a].pc = "idle" /\ f \notin Undirected
  /\ writer' = [writer EXCEPT ![a] = Start("begin", 0, <<f>>, {})]
  /\ UNCHANGED <<tables, faults>>

-----------------------------------------------------------------------------
(* One statement of InsertFilmBatch, or InsertFilm.                        *)
(* One snapshot for the whole batch.                                       *)
BeginStatementOldSnapshot(w) ==
  /\ writer[w].pc = "begin" /\ AtStatement(w)
  /\ writer' = [writer EXCEPT ![w].pc = "director", ![w].found = DirectorOf(w, Current(w)) \in directors]
  /\ UNCHANGED <<tables, faults>>

BeginStatement(w) ==
  /\ writer[w].pc = "begin" /\ AtStatement(w)
  /\ writer' = [writer EXCEPT ![w].pc = "director",
                              ![w].found = DirectorOf(w, Current(w)) \in directors \cup writer[w].newDirectors]
  /\ UNCHANGED <<tables, faults>>

(* The director: inserted, or there already and then of no use unless the  *)
(* snapshot has it.                                                        *)
InsertDirector(w) ==
  LET d == DirectorOf(w, Current(w))
      new == d \notin directors \cup writer[w].newDirectors IN
  /\ writer[w].pc = "director" /\ d \notin Nameless /\ ~Waits(w)
  /\ writer' = [writer EXCEPT ![w].pc = "film", ![w].found = @ \/ new,
                              ![w].newDirectors = IF new THEN @ \cup {d} ELSE @]
  /\ UNCHANGED <<tables, faults>>

(* The job returns at its first bad page. *)
NoSuchNameStops(w) ==
  /\ writer[w].pc = "director" /\ DirectorOf(w, Current(w)) \in Nameless
  /\ writer' = [writer EXCEPT ![w] = Idle]
  /\ UNCHANGED <<tables, faults>>

(* The CHECK comes before the conflict: the batch fails, or the request.   *)
NoSuchName(w) ==
  /\ writer[w].pc = "director" /\ DirectorOf(w, Current(w)) \in Nameless
  /\ GiveUp(w)
  /\ UNCHANGED faults

AddFilm(w) ==
  /\ writer[w].pc = "film" /\ writer[w].found /\ ~Waits(w)
  /\ Current(w) \notin films \cup writer[w].newFilms \cup Refused
  /\ NextStatement(w, [writer[w] EXCEPT !.newFilms = @ \cup {Current(w)}])
  /\ UNCHANGED <<tables, faults>>

(* A CHECK of films: the batch fails, whether the film is new or not. *)
RowRefused(j) ==
  /\ j \in Job /\ writer[j].pc = "film" /\ writer[j].found
  /\ Current(j) \in Refused
  /\ GiveUp(j)
  /\ UNCHANGED faults

(* InsertFilmBatch, ON CONFLICT DO NOTHING. *)
KeepFilm(j) ==
  /\ j \in Job /\ writer[j].pc = "film" /\ writer[j].found
  /\ Current(j) \in (films \cup writer[j].newFilms) \ Refused
  /\ NextStatement(j, writer[j])
  /\ UNCHANGED <<tables, faults>>

(* Another writer has committed the director since the snapshot: the CTE   *)
(* has no row, and the film is left out without an error.                  *)
SkipFilm(j) ==
  /\ j \in Job /\ writer[j].pc = "film" /\ ~writer[j].found
  /\ NextStatement(j, [writer[j] EXCEPT !.skipped = @ \cup {Current(j)}])
  /\ UNCHANGED <<tables, faults>>

(* InsertFilm: no row is ErrNotFound, answered with 500; the same for a row*)
(* that a CHECK refuses.                                                   *)
AddRefused(a) ==
  /\ a \in Admin /\ writer[a].pc = "film" /\ ~Waits(a)
  /\ ~writer[a].found \/ Current(a) \in Refused
  /\ GiveUp(a)
  /\ UNCHANGED faults

(* Without waiting for the transaction that has the key. *)
AlreadyThereEarly(a) ==
  /\ a \in Admin /\ writer[a].pc = "film" /\ writer[a].found
  /\ Current(a) \in films \/ Waits(a)
  /\ writer' = [writer EXCEPT ![a].pc = "already", ![a].newDirectors = {}]
  /\ UNCHANGED <<tables, faults>>

(* The unique index: ErrDuplicateEntry, answered as "Already in the catalog". *)
AlreadyThere(a) ==
  /\ a \in Admin /\ writer[a].pc = "film" /\ writer[a].found
  /\ Current(a) \in films \ Refused
  /\ writer' = [writer EXCEPT ![a].pc = "already", ![a].newDirectors = {}]
  /\ UNCHANGED <<tables, faults>>

-----------------------------------------------------------------------------
(* The end of a transaction, and of the request.                           *)
Publish(w) ==
  /\ films' = films \cup writer[w].newFilms
  /\ directors' = directors \cup writer[w].newDirectors

Ready(w) == writer[w].pc = "begin" /\ ~AtStatement(w)

CommitPage(j) ==
  /\ j \in Job /\ Ready(j)
  /\ Publish(j)
  /\ writer' = [writer EXCEPT ![j] = Over(j)]
  /\ UNCHANGED faults

CommitFilm(a) ==
  /\ a \in Admin /\ Ready(a)
  /\ Publish(a)
  /\ writer' = [writer EXCEPT ![a].pc = "added", ![a].newFilms = {}, ![a].newDirectors = {}]
  /\ UNCHANGED faults

(* Committed, but the server hears of an error. *)
CommitUnheard(w) ==
  /\ Ready(w) /\ Fault
  /\ Publish(w)
  /\ writer' = [writer EXCEPT ![w] = Over(w)]

Answer(a) ==
  /\ writer[a].pc \in {"added", "already"}
  /\ writer' = [writer EXCEPT ![a] = Idle]
  /\ UNCHANGED <<tables, faults>>

(* As if every statement of the batch committed by itself. *)
WriterFailsKeepingRows(w) ==
  /\ writer[w].pc \in {"begin", "director", "film"} /\ Fault
  /\ Publish(w)
  /\ writer' = [writer EXCEPT ![w] = Over(w)]

(* The database, or the admin's connection, fails: the batch rolls back. *)
WriterFails(w) ==
  /\ writer[w].pc \in {"begin", "director", "film"} /\ Fault
  /\ GiveUp(w)

(* deadlock_timeout: one of the circle is rolled back. *)
DeadlockAbort(w) ==
  /\ Deadlocked(w)
  /\ GiveUp(w)
  /\ UNCHANGED faults

(* The jobs start again at boot. *)
Crash ==
  /\ Fault
  /\ writer' = [w \in Writer |-> Idle]
  /\ UNCHANGED tables

-----------------------------------------------------------------------------
Statement(w) ==
  \/ BeginStatement(w) \/ InsertDirector(w) \/ NoSuchName(w) \/ AddFilm(w) \/ RowRefused(w)
  \/ KeepFilm(w) \/ SkipFilm(w) \/ AddRefused(w) \/ AlreadyThere(w)

Step(w) == Sync(w) \/ FetchPage(w) \/ Statement(w) \/ CommitPage(w) \/ CommitFilm(w) \/ Answer(w)

Failure(w) ==
  FetchPageWithoutCredits(w) \/ FetchFails(w) \/ CommitUnheard(w) \/ WriterFails(w)

Next ==
  \/ \E w \in Writer : Step(w) \/ DeadlockAbort(w) \/ Failure(w)
  \/ \E a \in Admin, f \in Addable : AskToAdd(a, f)
  \/ Crash

Spec == Init /\ [][Next]_vars

(* The tickers tick, a statement that can go on does, and Postgres looks   *)
(* for deadlocks.  The ticks are 24 hours and 7 days apart and a sync takes*)
(* minutes: the jobs start together or one after the other.                *)
Fairness == \A w \in Writer : SF_vars(Step(w)) /\ WF_vars(DeadlockAbort(w))

StartsInTime ==
  \A j, k \in Job :
    writer[j].pc = "idle" /\ writer'[j].pc # "idle" =>
      writer[k].pc = "idle" \/ (writer[k].pc = "fetch" /\ writer[k].page = 1)

FairSpec == Init /\ [][Next /\ StartsInTime]_vars /\ Fairness

-----------------------------------------------------------------------------
(* Properties.                                                             *)
(* A film that a page leaves out for want of a director row has its        *)
(* director in the catalogue: the next sync of the page does not leave it  *)
(* out again.                                                              *)
SkippedForOnce == \A j \in Job : {DirectorOf(j, f) : f \in writer[j].skipped} \subseteq directors

(* An admin's request that waits holds no key: it delays no page, and is   *)
(* part of no deadlock.  Only pages deadlock.                              *)
AddsWaitEmptyHanded == \A a \in Admin : Waits(a) => writer[a].newFilms \cup writer[a].newDirectors = {}

(* Whoever is told that a film was added, or that it is there already,     *)
(* finds it, although pages that also had it may have rolled back since.   *)
AnswersTrue ==
  \A a \in Admin : writer[a].pc \in {"added", "already"} => writer[a].batch[1] \in films

Page(j, p) == {Listing[j][p][i] : i \in DOMAIN Listing[j][p]} \ Undated

(* The catalogue grows by whole pages, but for films left out over a race  *)
(* for their director (and not added further down the page, when it has    *)
(* them twice), or by the film of one admin.                               *)
LeftOut(j) == writer[j].skipped \ writer[j].newFilms

GrowsByPages ==
  [][films' # films =>
       \/ \E j \in Job : /\ writer[j].page # 0
                         /\ films' = films \cup (Page(j, writer[j].page) \ LeftOut(j))
       \/ \E a \in Admin : writer[a].batch # <<>> /\ films' = films \cup {writer[a].batch[1]}]_vars

(* One film without a director, or with a row that a CHECK refuses, keeps  *)
(* all of its page out, at every sync.                                     *)
Whole(j, p) ==
  \A f \in Page(j, p) : f \notin Undirected \cup Misfit /\ Credits[f][1] \notin Misnamed

(* Every film of a page whose films all have such rows gets in, whatever   *)
(* the races and deadlocks with the other job and with admins, once TMDB,  *)
(* the database and the server stop failing.                               *)
PagesGetIn ==
  \A j \in Job, p \in 1..LastPage : Whole(j, p) => \A f \in Page(j, p) : <>(f \in films)
=============================================================================
