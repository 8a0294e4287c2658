---------------------------- MODULE FilmListing ----------------------------
(***************************************************************************)
(* The catalogue as it is read while it is voted on: the list of films by  *)
(* rating, fetched page after page as the reader scrolls, and the page of  *)
(* one film, which loads its votes in a second request.  The queries join  *)
(* no transaction; each sees the tables as committed when it runs, which   *)
(* is what VoteLedger says of them.                                        *)
(***************************************************************************)
EXTENDS VoteLedger

CONSTANTS
  Reader,             \* browser tabs
  InitialCatalogue,   \* films in the table at the start
  Sizes               \* page sizes asked for: the size parameter, 50 if absent

ASSUME ListingAssumption ==
  /\ InitialCatalogue \subseteq Film
  /\ \A d \in DuelId : InitialDuels[d] \in (InitialCatalogue \X InitialCatalogue) \cup {NoDuel}
  /\ \A f \in Film \ InitialCatalogue : InitialRating[f] = StdRating /\ InitialCount[f] = 0
  /\ Sizes \subseteq Nat \ {0}

VARIABLES
  catalogue,   \* the films rows present
  list,        \* per tab: the list being scrolled
  visit        \* per tab: the film page and its votes

listingVars == <<rating, duelCount, duels, votes, catalogue, list, visit>>

(* What a list shows of a film: the rating it had then, and its id.        *)
Entry(f) == <<rating[f], f>>

(* ORDER BY films.rating DESC, films.id DESC *)
Before(x, y) == x[1] > y[1] \/ (x[1] = y[1] /\ x[2] > y[2])

NoCursor == <<>>

(* The rows the query may return: all, or those (rating, id) < the last seen. *)
RowsAfterInclusive(cursor) ==
  {e \in {Entry(f) : f \in catalogue} : cursor = NoCursor \/ ~Before(e, cursor)}

RowsAfterByRating(cursor) ==
  {e \in {Entry(f) : f \in catalogue} : cursor = NoCursor \/ cursor[1] > e[1]}

RowsAfterById(cursor) ==
  {e \in {Entry(f) : f \in catalogue} : cursor = NoCursor \/ cursor[2] > e[2]}

RowsAfter(cursor) ==
  {e \in {Entry(f) : f \in catalogue} : cursor = NoCursor \/ Before(cursor, e)}

(* page is what LIMIT size leaves of the rows.                             *)
IsPage(page, rows, size) ==
  /\ page \subseteq rows
  /\ Cardinality(page) = IF Cardinality(rows) < size THEN Cardinality(rows) ELSE size
  /\ \A e \in page, x \in rows \ page : Before(e, x)

(* ToPaginatedResponse: the last film of the page is the next cursor; an   *)
(* empty page carries none, and its template no sentinel to scroll to.     *)
IsNextCursor(cursor, page) ==
  IF page = {} THEN cursor = NoCursor
  ELSE cursor \in page /\ \A e \in page \ {cursor} : Before(e, cursor)

(***************************************************************************)
(* A list: what its pages before the last one showed, the last page, and,  *)
(* kept only for the properties, the films and votes there were when its   *)
(* first page was made.                                                    *)
(***************************************************************************)
NoList == [pc |-> "closed", size |-> 0, cursor |-> NoCursor, earlier |-> {}, page |-> {},
           from |-> {}, before |-> {}]

NoVisit == [pc |-> "closed", film |-> 0, rating |-> 0, history |-> {}]

(* FilmsListHandler without last_seen_id: the list is opened, or reloaded. *)
OpenList(r, size) ==
  \E page \in SUBSET RowsAfter(NoCursor) :
    /\ IsPage(page, RowsAfter(NoCursor), size)
    /\ \E cursor \in page \cup {NoCursor} :
         /\ IsNextCursor(cursor, page)
         /\ list' = [list EXCEPT ![r] =
              [pc |-> IF page = {} THEN "ended" ELSE "scrolling", size |-> size,
               cursor |-> cursor, earlier |-> {}, page |-> page,
               from |-> catalogue, before |-> votes]]
    /\ UNCHANGED <<rating, duelCount, duels, votes, catalogue, visit>>

(* The sentinel scrolls into view and asks for the films after the cursor. *)
(* A request that fails leaves the page as it was: htmx swaps nothing in.  *)
ScrollOn(r) ==
  /\ list[r].pc = "scrolling"
  /\ \E page \in SUBSET RowsAfter(list[r].cursor) :
       /\ IsPage(page, RowsAfter(list[r].cursor), list[r].size)
       /\ \E cursor \in page \cup {NoCursor} :
            /\ IsNextCursor(cursor, page)
            /\ list' = [list EXCEPT ![r] = [list[r] EXCEPT
                 !.pc = IF page = {} THEN "ended" ELSE "scrolling",
                 !.cursor = cursor, !.earlier = @ \cup list[r].page, !.page = page]]
  /\ UNCHANGED <<rating, duelCount, duels, votes, catalogue, visit>>

(* FilmHandler: one row of films; a film that is not there is a 404.       *)
OpenFilm(r, f) ==
  /\ f \in catalogue
  /\ visit' = [visit EXCEPT ![r] =
       [pc |-> "page", film |-> f, rating |-> rating[f], history |-> {}]]
  /\ UNCHANGED <<rating, duelCount, duels, votes, catalogue, list>>

(* ListFilmVotes: the page's own second request.                           *)
ReadHistoryOfWins(r) ==
  /\ visit[r].pc = "page"
  /\ visit' = [visit EXCEPT ![r] =
       [visit[r] EXCEPT !.pc = "history", !.history = {v \in votes : v.winner = visit[r].film}]]
  /\ UNCHANGED <<rating, duelCount, duels, votes, catalogue, list>>

ReadHistory(r) ==
  /\ visit[r].pc = "page"
  /\ visit' = [visit EXCEPT ![r] =
       [visit[r] EXCEPT !.pc = "history", !.history = {v \in votes : Touches(v, visit[r].film)}]]
  /\ UNCHANGED <<rating, duelCount, duels, votes, catalogue, list>>

(* InsertFilmBatch: a synchronisation adds films at the standard rating.   *)
AddFilms(new) ==
  /\ catalogue' = catalogue \cup new
  /\ UNCHANGED <<rating, duelCount, duels, votes, list, visit>>

(* Duels are dealt and decided among the films of the catalogue.           *)
Voting ==
  /\ \/ \E d \in DuelId, p \in Pair : p[1] \in catalogue /\ p[2] \in catalogue /\ OpenDuel(d, p)
     \/ \E d \in DuelId, p \in Pair, u \in User \cup {NoUser}, s \in 1..MaxSeq :
          CastVote(d, p[1], p[2], u, s)
  /\ UNCHANGED <<catalogue, list, visit>>

ListingInit ==
  /\ Init
  /\ catalogue = InitialCatalogue
  /\ list = [r \in Reader |-> NoList]
  /\ visit = [r \in Reader |-> NoVisit]

ListingNext ==
  \/ Voting
  \/ \E new \in SUBSET (Film \ catalogue) : AddFilms(new)
  \/ \E r \in Reader, size \in Sizes : OpenList(r, size)
  \/ \E r \in Reader : ScrollOn(r) \/ ReadHistory(r)
  \/ \E r \in Reader, f \in Film : OpenFilm(r, f)

ListingSpec == ListingInit /\ [][ListingNext]_listingVars

-----------------------------------------------------------------------------
Shown(r) == list[r].earlier \cup list[r].page

Since(r) == votes \ list[r].before

Entries == Int \X Film

ListType ==
  [pc : {"closed", "scrolling", "ended"}, size : Nat, cursor : Entries \cup {NoCursor},
   earlier : SUBSET Entries, page : SUBSET Entries, from : SUBSET Film, before : SUBSET Row]

VisitType == [pc : {"closed", "page", "history"}, film : Nat, rating : Int, history : SUBSET Row]

(* Type invariant. *)
ListingTypeOK ==
  /\ TypeOK
  /\ catalogue \subseteq Film
  /\ list \in [Reader -> ListType]
  /\ visit \in [Reader -> VisitType]

(* However the ratings move between two pages, the list that grows on the  *)
(* screen stays sorted: each film comes before those of later pages.       *)
ListedInOrder ==
  \A r \in Reader : \A e \in list[r].earlier, x \in list[r].page : Before(e, x)

(* A film appears again on a later page only if it lost a vote while the   *)
(* reader scrolled, and then at a lower rating.                            *)
TwiceOnlyIfLost ==
  \A r \in Reader : \A e \in list[r].earlier, x \in list[r].page :
    e[2] = x[2] => e[1] > x[1] /\ \E v \in Since(r) : v.loser = e[2]

(* A film that was there when the list was opened and that a reader who    *)
(* scrolled to its end never saw won a vote meanwhile: ties of ratings,    *)
(* films added and films that only lose hide nobody.                       *)
MissedOnlyIfWon ==
  \A r \in Reader : list[r].pc = "ended" =>
    \A f \in list[r].from :
      (\E e \in Shown(r) : e[2] = f) \/ (\E v \in Since(r) : v.winner = f)

(* The rating a film page shows is explained by the history it loads later:*)
(* one of the votes listed wrote it, unless it is the film's first rating. *)
HistoryExplainsRating ==
  \A r \in Reader : visit[r].pc = "history" =>
    \/ visit[r].rating = InitialRating[visit[r].film]
    \/ \E v \in visit[r].history : RatingAfter(v, visit[r].film) = visit[r].rating
=============================================================================
