------------------------- MODULE FilmListingProofs -------------------------
(***************************************************************************)
(* Proofs about the list of films and the film page: for any catalogue,    *)
(* any page size and any votes cast while a reader scrolls.                *)
(***************************************************************************)
EXTENDS FilmListing, VoteLedgerProofs, FiniteSetTheorems

(* The order of the list is the lexicographic one, on ratings and ids.     *)
LEMMA BeforeIsAnOrder ==
  ASSUME NEW x \in Entries, NEW y \in Entries, NEW z \in Entries
  PROVE  /\ ~Before(x, x)
         /\ Before(x, y) /\ Before(y, z) => Before(x, z)
         /\ x = y \/ Before(x, y) \/ Before(y, x)
<1>1. Film \subseteq Int
  BY LedgerAssumption DEF LedgerAssumption
<1>2. ASSUME NEW e \in Entries PROVE e = <<e[1], e[2]>> /\ e[1] \in Int /\ e[2] \in Int
  <2>1. PICK a \in Int, b \in Film : e = <<a, b>>
    BY DEF Entries
  <2>2. e[1] = a /\ e[2] = b
    BY <2>1
  <2> QED
    BY <1>1, <2>1, <2>2
<1>3. /\ x = <<x[1], x[2]>> /\ x[1] \in Int /\ x[2] \in Int
      /\ y = <<y[1], y[2]>> /\ y[1] \in Int /\ y[2] \in Int
      /\ z[1] \in Int /\ z[2] \in Int
  BY <1>2
<1> QED
  BY <1>3 DEF Before

(* What the query may return is a finite set of entries.                   *)
LEMMA RowsType ==
  ASSUME TypeOK, catalogue \subseteq Film, NEW cursor
  PROVE  RowsAfter(cursor) \subseteq Entries /\ IsFiniteSet(RowsAfter(cursor))
<1> DEFINE all == {Entry(f) : f \in catalogue}
           row == [f \in catalogue |-> Entry(f)]
<1>1. all \subseteq Entries
  BY DEF Entry, Entries, TypeOK
<1>2. IsFiniteSet(catalogue)
  BY LedgerAssumption, FS_Subset DEF LedgerAssumption
<1>3. row \in Surjection(catalogue, all)
  BY DEF Surjection
<1>4. IsFiniteSet(all)
  <2> HIDE DEF all, row
  <2> QED
    BY <1>2, <1>3, FS_Surjection
<1>5. RowsAfter(cursor) \subseteq all
  BY DEF RowsAfter
<1> HIDE DEF all, row
<1> QED
  BY <1>1, <1>4, <1>5, FS_Subset

(* A page and its cursor: every row is on the page or after the cursor, and*)
(* a page without films means there were no rows.                          *)
LEMMA PageFacts ==
  ASSUME NEW rows \in SUBSET Entries, IsFiniteSet(rows), NEW size \in Nat \ {0},
         NEW page \in SUBSET rows, IsPage(page, rows, size),
         NEW cursor \in page \cup {NoCursor}, IsNextCursor(cursor, page)
  PROVE  /\ page = {} => rows = {}
         /\ page # {} => /\ cursor \in page
                         /\ \A e \in page : e = cursor \/ Before(e, cursor)
                         /\ \A e \in rows : e \in page \/ Before(cursor, e)
<1>1. ASSUME page = {} PROVE rows = {}
  <2>1. Cardinality(page) = 0
    BY <1>1, FS_EmptySet
  <2>2. Cardinality(rows) \in Nat
    BY FS_CardinalityType
  <2>3. Cardinality(rows) = 0
    BY <2>1, <2>2 DEF IsPage
  <2> QED
    BY <2>3, FS_EmptySet
<1> QED
  BY <1>1 DEF IsPage, IsNextCursor

-----------------------------------------------------------------------------
(* Composing the listing with the votes leaves the ledger what it is: seen *)
(* from the vote tables, every step of a reader changes nothing.           *)
THEOREM ListingKeepsLedger == ListingSpec => Spec
<1>1. ListingInit => Init
  BY DEF ListingInit
<1>2. [ListingNext]_listingVars => [Next]_vars
  BY DEF ListingNext, listingVars, vars, Next, Voting, AddFilms, OpenList, ScrollOn,
         ReadHistory, OpenFilm
<1> QED
  BY <1>1, <1>2, PTL DEF ListingSpec, Spec

(***************************************************************************)
(* The inductive invariant.  A list still scrolled has a last entry, its   *)
(* cursor, and all it shows is at or before it.  A film shown that has not *)
(* lost since stands no lower than it did; a film not shown that has not   *)
(* won since still comes after the cursor.                                 *)
(***************************************************************************)
Lost(r, f) == \E v \in Since(r) : v.loser = f
Won(r, f) == \E v \in Since(r) : v.winner = f
Listed(r, f) == \E e \in Shown(r) : e[2] = f

CursorLast(r) ==
  list[r].pc = "scrolling" =>
    /\ list[r].size \in Nat \ {0}
    /\ list[r].cursor \in Entries
    /\ \A e \in Shown(r) : e = list[r].cursor \/ Before(e, list[r].cursor)

NoLowerUnlessLost(r) == \A e \in Shown(r) : Lost(r, e[2]) \/ e[1] <= rating[e[2]]

AheadUnlessWon(r) ==
  \A f \in list[r].from :
    \/ Listed(r, f) \/ Won(r, f)
    \/ list[r].pc = "scrolling" /\ Before(list[r].cursor, Entry(f))

ListInv(r) ==
  /\ CursorLast(r)
  /\ NoLowerUnlessLost(r)
  /\ AheadUnlessWon(r)
  /\ \A e \in list[r].earlier, x \in list[r].page :
       Before(e, x) /\ (e[2] = x[2] => Lost(r, e[2]))

VisitInv(r) ==
  /\ visit[r].pc # "closed" => visit[r].film \in Film
  /\ visit[r].pc = "page" =>
       \/ visit[r].rating = InitialRating[visit[r].film]
       \/ \E v \in votes : /\ Touches(v, visit[r].film)
                           /\ RatingAfter(v, visit[r].film) = visit[r].rating
  /\ visit[r].pc = "history" =>
       \/ visit[r].rating = InitialRating[visit[r].film]
       \/ \E v \in visit[r].history : RatingAfter(v, visit[r].film) = visit[r].rating

PlainType ==
  /\ catalogue \subseteq Film
  /\ list \in [Reader -> ListType]
  /\ visit \in [Reader -> VisitType]

Inv ==
  /\ PlainType
  /\ \A r \in Reader : list[r].before \subseteq votes /\ list[r].from \subseteq catalogue
  /\ \A r \in Reader : ListInv(r) /\ VisitInv(r)

(* A reader's list fits its types, field by field.                         *)
LEMMA ListTypes ==
  ASSUME PlainType, NEW r \in Reader
  PROVE  /\ list[r].from \subseteq Film /\ list[r].size \in Nat
         /\ list[r].earlier \subseteq Entries /\ list[r].page \subseteq Entries
         /\ list[r].cursor \in Entries \cup {NoCursor}
BY DEF PlainType, ListType

(* A list keeps its part of the invariant when neither it nor the tables   *)
(* change; a film page likewise.                                           *)
LEMMA ListUntouched ==
  ASSUME NEW r \in Reader, ListInv(r), list'[r] = list[r],
         rating' = rating, votes' = votes
  PROVE  ListInv(r)'
BY DEF ListInv, CursorLast, NoLowerUnlessLost, AheadUnlessWon, Shown, Since, Lost, Won,
       Listed, Entry, Before

LEMMA VisitUntouched ==
  ASSUME NEW r \in Reader, VisitInv(r), visit'[r] = visit[r], votes \subseteq votes'
  PROVE  VisitInv(r)'
BY DEF VisitInv, Touches, RatingAfter

(* What voting does to the ratings while a list is open: a film whose      *)
(* rating rises won a vote that was not there before, and a film whose     *)
(* rating falls lost one.                                                  *)
LEMMA VotingMoves ==
  ASSUME TypeOK, Voting
  PROVE  /\ votes \subseteq votes'
         /\ \A f \in Film :
              /\ rating'[f] <= rating[f] \/ \E v \in votes' \ votes : v.winner = f
              /\ rating'[f] >= rating[f] \/ \E v \in votes' \ votes : v.loser = f
<1>1. ASSUME NEW d \in DuelId, NEW p \in Pair, OpenDuel(d, p)
      PROVE  /\ votes \subseteq votes'
             /\ \A f \in Film : rating'[f] <= rating[f] /\ rating'[f] >= rating[f]
  BY <1>1 DEF OpenDuel, TypeOK
<1>2. ASSUME NEW d \in DuelId, NEW p \in Pair, NEW u \in User \cup {NoUser},
             NEW s \in 1..MaxSeq, CastVote(d, p[1], p[2], u, s)
      PROVE  /\ votes \subseteq votes'
             /\ \A f \in Film :
                  /\ rating'[f] <= rating[f] \/ \E v \in votes' \ votes : v.winner = f
                  /\ rating'[f] >= rating[f] \/ \E v \in votes' \ votes : v.loser = f
  <2> DEFINE v == NewRow(d, p[1], p[2], u, s)
  <2>1. p[1] \in Film /\ p[2] \in Film /\ p[1] # p[2]
    BY DEF Pair
  <2>2. /\ v.winner = p[1] /\ v.loser = p[2] /\ votes' = votes \cup {v}
        /\ \A f \in Film \ {p[1], p[2]} : rating'[f] = rating[f]
    BY <1>2, <2>1, CastVoteEffect
  <2>3. rating'[p[1]] >= rating[p[1]] /\ rating'[p[2]] <= rating[p[2]] /\ v \notin votes
    BY <1>2, CastVoteMoves
  <2>4. \A f \in Film : rating[f] \in Int
    BY DEF TypeOK
  <2> HIDE DEF v
  <2> QED
    BY <2>1, <2>2, <2>3, <2>4
<1>3. \A f \in Film : rating[f] \in Int
  BY DEF TypeOK
<1> QED
  BY <1>1, <1>2, <1>3 DEF Voting

(* A vote cast while the reader scrolls.                                   *)
LEMMA VotingKeepsList ==
  ASSUME TypeOK, TypeOK', PlainType, Voting, NEW r \in Reader, ListInv(r), list[r].before \subseteq votes
  PROVE  ListInv(r)'
<1>1. /\ votes \subseteq votes'
      /\ \A f \in Film :
           /\ rating'[f] <= rating[f] \/ \E v \in votes' \ votes : v.winner = f
           /\ rating'[f] >= rating[f] \/ \E v \in votes' \ votes : v.loser = f
  BY VotingMoves
<1>2. list'[r] = list[r]
  BY DEF Voting
<1>3. Since(r) \subseteq Since(r)' /\ votes' \ votes \subseteq Since(r)'
  BY <1>1, <1>2 DEF Since
<1>4. Shown(r)' = Shown(r) /\ Shown(r) \subseteq Entries
  BY <1>2, ListTypes DEF Shown
<1>5. \A f \in Film : /\ Lost(r, f) => Lost(r, f)'
                      /\ Won(r, f) => Won(r, f)'
                      /\ Listed(r, f) => Listed(r, f)'
                      /\ rating'[f] <= rating[f] \/ Won(r, f)'
                      /\ rating'[f] >= rating[f] \/ Lost(r, f)'
  BY <1>1, <1>3, <1>4 DEF Lost, Won, Listed
<1>6. \A f \in Film : rating[f] \in Int /\ rating'[f] \in Int
  BY DEF TypeOK
<1>7. \A e \in Entries : e[1] \in Int /\ e[2] \in Film
  BY DEF Entries
<1>8. CursorLast(r)'
  BY <1>2, <1>4 DEF ListInv, CursorLast, Before
<1>9. NoLowerUnlessLost(r)'
  <2> SUFFICES ASSUME NEW e \in Shown(r) PROVE Lost(r, e[2])' \/ e[1] <= rating'[e[2]]
    BY <1>4 DEF NoLowerUnlessLost
  <2>1. e[1] \in Int /\ e[2] \in Film
    BY <1>4, <1>7
  <2>2. Lost(r, e[2]) \/ e[1] <= rating[e[2]]
    BY DEF ListInv, NoLowerUnlessLost
  <2> QED
    BY <1>5, <1>6, <2>1, <2>2
<1>10. AheadUnlessWon(r)'
  <2> SUFFICES ASSUME NEW f \in list[r].from
               PROVE  \/ Listed(r, f)' \/ Won(r, f)'
                      \/ list[r].pc = "scrolling" /\ Before(list[r].cursor, Entry(f)')
    BY <1>2 DEF AheadUnlessWon, Before, Entry
  <2>1. f \in Film
    BY ListTypes
  <2>2. \/ Listed(r, f) \/ Won(r, f)
        \/ list[r].pc = "scrolling" /\ Before(list[r].cursor, Entry(f))
    BY DEF ListInv, AheadUnlessWon
  <2>3. CASE list[r].pc = "scrolling" /\ Before(list[r].cursor, Entry(f)) /\ rating'[f] <= rating[f]
    <3>1. list[r].cursor[1] \in Int
      BY <1>7, <2>3 DEF ListInv, CursorLast
    <3>2. Before(list[r].cursor, Entry(f)')
      BY <1>6, <2>1, <2>3, <3>1 DEF Before, Entry
    <3> QED
      BY <2>3, <3>2
  <2> QED
    BY <1>5, <2>1, <2>2, <2>3
<1>11. \A e \in list'[r].earlier, x \in list'[r].page :
         Before(e, x) /\ (e[2] = x[2] => Lost(r, e[2])')
  <2> SUFFICES ASSUME NEW e \in list[r].earlier, NEW x \in list[r].page
               PROVE  Before(e, x) /\ (e[2] = x[2] => Lost(r, e[2])')
    BY <1>2
  <2>1. e[2] \in Film
    BY <1>7, ListTypes
  <2> QED
    BY <1>5, <2>1 DEF ListInv
<1> QED
  BY <1>8, <1>9, <1>10, <1>11 DEF ListInv, Before

(* The first page: nothing earlier, every film on it or after its cursor.  *)
LEMMA OpenListGood ==
  ASSUME TypeOK, PlainType, NEW r \in Reader, NEW size \in Sizes, OpenList(r, size)
  PROVE  ListInv(r)' /\ PlainType' /\ list'[r].before \subseteq votes
<1>1. PICK page, cursor :
        /\ page \in SUBSET RowsAfter(NoCursor) /\ cursor \in page \cup {NoCursor}
        /\ IsPage(page, RowsAfter(NoCursor), size) /\ IsNextCursor(cursor, page)
        /\ list' = [list EXCEPT ![r] =
              [pc |-> IF page = {} THEN "ended" ELSE "scrolling", size |-> size,
               cursor |-> cursor, earlier |-> {}, page |-> page,
               from |-> catalogue, before |-> votes]]
        /\ UNCHANGED <<rating, votes, catalogue, visit>>
  BY DEF OpenList
<1> DEFINE rows == RowsAfter(NoCursor)
<1>2. size \in Nat \ {0}
  BY ListingAssumption DEF ListingAssumption
<1>3. rows \subseteq Entries /\ IsFiniteSet(rows)
  BY RowsType DEF PlainType
<1>4. /\ page = {} => rows = {}
      /\ page # {} => /\ cursor \in page
                      /\ \A e \in page : e = cursor \/ Before(e, cursor)
                      /\ \A e \in rows : e \in page \/ Before(cursor, e)
  <2> HIDE DEF rows
  <2> QED
    BY <1>1, <1>2, <1>3, PageFacts DEF rows
<1>5. rows = {Entry(f) : f \in catalogue}
  BY DEF RowsAfter
<1>6. /\ list'[r].pc = IF page = {} THEN "ended" ELSE "scrolling"
      /\ list'[r].size = size /\ list'[r].cursor = cursor
      /\ list'[r].earlier = {} /\ list'[r].page = page
      /\ list'[r].from = catalogue /\ list'[r].before = votes
  BY <1>1 DEF PlainType
<1>7. Shown(r)' = page /\ (\A f : Entry(f)' = Entry(f)) /\ rating' = rating
  BY <1>1, <1>6 DEF Shown, Entry
<1>8. page \subseteq rows /\ page \subseteq Entries
  BY <1>1, <1>3
<1>9. CursorLast(r)'
  BY <1>2, <1>4, <1>6, <1>7, <1>8 DEF CursorLast, Before
<1>10. NoLowerUnlessLost(r)'
  <2>1. \A e \in page : e[1] <= rating[e[2]]
    <3> SUFFICES ASSUME NEW e \in page PROVE e[1] <= rating[e[2]]
      OBVIOUS
    <3>1. PICK f \in catalogue : e = <<rating[f], f>>
      BY <1>5, <1>8 DEF Entry
    <3>2. e[1] = rating[f] /\ e[2] = f /\ rating[f] \in Int
      BY <3>1 DEF TypeOK, PlainType
    <3> QED
      BY <3>2
  <2> QED
    BY <1>7, <2>1 DEF NoLowerUnlessLost
<1>11. AheadUnlessWon(r)'
  <2> SUFFICES ASSUME NEW f \in catalogue
               PROVE  \/ \E e \in page : e[2] = f
                      \/ page # {} /\ Before(cursor, Entry(f))
    BY <1>6, <1>7 DEF AheadUnlessWon, Listed, Before
  <2>1. Entry(f) \in rows /\ Entry(f)[2] = f
    BY <1>5 DEF Entry
  <2> QED
    BY <1>4, <2>1
<1>12. ListInv(r)'
  BY <1>6, <1>9, <1>10, <1>11 DEF ListInv, Before
<1>13. PlainType'
  <2>1. votes \subseteq Row
    BY DEF TypeOK
  <2>2. list'[r] \in ListType
    BY <1>1, <1>2, <1>8, <2>1 DEF PlainType, ListType
  <2> QED
    BY <1>1, <2>2 DEF PlainType
<1> QED
  BY <1>6, <1>12, <1>13

(* The next page: strictly after all that is shown, and nothing that was   *)
(* ahead is left out.                                                      *)
LEMMA ScrollOnGood ==
  ASSUME TypeOK, PlainType, NEW r \in Reader, ListInv(r), ScrollOn(r),
         list[r].from \subseteq catalogue
  PROVE  ListInv(r)' /\ PlainType' /\ list'[r].before = list[r].before
<1> DEFINE last == list[r].cursor
           rows == RowsAfter(last)
<1>1. PICK page, cursor :
        /\ page \in SUBSET rows /\ cursor \in page \cup {NoCursor}
        /\ IsPage(page, rows, list[r].size) /\ IsNextCursor(cursor, page)
        /\ list' = [list EXCEPT ![r] = [list[r] EXCEPT
                !.pc = IF page = {} THEN "ended" ELSE "scrolling",
                !.cursor = cursor, !.earlier = @ \cup list[r].page, !.page = page]]
        /\ UNCHANGED <<rating, votes, catalogue, visit>>
  BY DEF ScrollOn
<1>2. /\ list[r].size \in Nat \ {0} /\ last \in Entries
      /\ \A e \in Shown(r) : e = last \/ Before(e, last)
  BY DEF ScrollOn, ListInv, CursorLast
<1>3. rows \subseteq Entries /\ IsFiniteSet(rows)
  BY RowsType DEF PlainType
<1>4. /\ page = {} => rows = {}
      /\ page # {} => /\ cursor \in page
                      /\ \A e \in page : e = cursor \/ Before(e, cursor)
                      /\ \A e \in rows : e \in page \/ Before(cursor, e)
  <2> HIDE DEF rows
  <2> QED
    BY <1>1, <1>2, <1>3, PageFacts DEF rows
<1>5. \A e : e \in rows <=> e \in {Entry(f) : f \in catalogue} /\ Before(last, e)
  <2>1. last # NoCursor
    <3>1. \A e \in Entries : e # NoCursor
      BY DEF Entries, NoCursor
    <3> QED
      BY <1>2, <3>1
  <2> QED
    BY <2>1 DEF RowsAfter
<1> DEFINE next == [list[r] EXCEPT
             !.pc = IF page = {} THEN "ended" ELSE "scrolling", !.cursor = cursor,
             !.earlier = @ \cup list[r].page, !.page = page]
<1>0. list[r] \in ListType /\ list'[r] = next
  <2>1. list' = [list EXCEPT ![r] = next]
    BY <1>1
  <2> HIDE DEF next
  <2> QED
    BY <2>1 DEF PlainType
<1>6. /\ list'[r].pc = IF page = {} THEN "ended" ELSE "scrolling"
      /\ list'[r].size = list[r].size /\ list'[r].cursor = cursor
      /\ list'[r].earlier = Shown(r) /\ list'[r].page = page
      /\ list'[r].from = list[r].from /\ list'[r].before = list[r].before
  BY <1>0 DEF ListType, Shown
<1>7. /\ Shown(r)' = Shown(r) \cup page /\ (\A f : Entry(f)' = Entry(f))
      /\ rating' = rating /\ Since(r)' = Since(r)
  BY <1>1, <1>6 DEF Shown, Entry, Since
<1>8. page \subseteq rows /\ page \subseteq Entries /\ Shown(r) \subseteq Entries
  BY <1>1, <1>3, ListTypes DEF Shown
<1> HIDE DEF last, rows
<1>9. \A e \in Shown(r), x \in page : Before(e, x)
  <2> SUFFICES ASSUME NEW e \in Shown(r), NEW x \in page PROVE Before(e, x)
    OBVIOUS
  <2>1. e \in Entries /\ x \in Entries /\ Before(last, x)
    BY <1>5, <1>8
  <2> QED
    BY <1>2, <2>1, BeforeIsAnOrder
<1>10. \A e \in page : e[1] = rating[e[2]] /\ e[2] \in Film /\ e[1] \in Int
  <2> SUFFICES ASSUME NEW e \in page PROVE e[1] = rating[e[2]] /\ e[2] \in Film /\ e[1] \in Int
    OBVIOUS
  <2>1. PICK f \in catalogue : e = <<rating[f], f>>
    BY <1>5, <1>8 DEF Entry
  <2>2. e[1] = rating[f] /\ e[2] = f /\ f \in Film /\ rating[f] \in Int
    BY <2>1 DEF TypeOK, PlainType
  <2> QED
    BY <2>2
<1>11. CursorLast(r)'
  <2>1. \A e \in Shown(r) \cup page : page # {} => e = cursor \/ Before(e, cursor)
    BY <1>4, <1>9
  <2> QED
    BY <1>2, <1>4, <1>6, <1>7, <1>8, <2>1 DEF CursorLast, Before
<1>12. NoLowerUnlessLost(r)'
  BY <1>7, <1>10 DEF NoLowerUnlessLost, ListInv, Lost
<1>13. AheadUnlessWon(r)'
  <2> SUFFICES ASSUME NEW f \in list[r].from
               PROVE  \/ \E e \in Shown(r) \cup page : e[2] = f
                      \/ \E v \in Since(r) : v.winner = f
                      \/ page # {} /\ Before(cursor, Entry(f))
    BY <1>6, <1>7 DEF AheadUnlessWon, Listed, Won, Before
  <2>1. \/ \E e \in Shown(r) : e[2] = f
        \/ \E v \in Since(r) : v.winner = f
        \/ Before(last, Entry(f))
    BY DEF ListInv, AheadUnlessWon, Listed, Won, last
  <2>2. Entry(f) \in {Entry(g) : g \in catalogue} /\ Entry(f)[2] = f
    BY DEF Entry
  <2>3. CASE Before(last, Entry(f))
    <3>1. Entry(f) \in rows
      BY <1>5, <2>2, <2>3
    <3> QED
      BY <1>4, <2>2, <3>1
  <2> QED
    BY <2>1, <2>3
<1>14. \A e \in list'[r].earlier, x \in list'[r].page :
         Before(e, x) /\ (e[2] = x[2] => Lost(r, e[2])')
  <2> SUFFICES ASSUME NEW e \in Shown(r), NEW x \in page
               PROVE  Before(e, x) /\ (e[2] = x[2] => Lost(r, e[2]))
    BY <1>6, <1>7 DEF Lost
  <2>1. Before(e, x) /\ e \in Entries /\ x \in Entries
    BY <1>8, <1>9
  <2>2. ASSUME e[2] = x[2] PROVE ~(e[1] <= rating[e[2]])
    <3>1. e[1] \in Int /\ e[2] \in Film
      BY <2>1 DEF Entries
    <3>2. x[2] \in Int
      <4>1. Film \subseteq Int /\ x[2] \in Film
        BY <1>10, LedgerAssumption DEF LedgerAssumption
      <4> QED
        BY <4>1
    <3>3. e[1] > x[1]
      BY <1>10, <2>1, <2>2, <3>2 DEF Before
    <3> QED
      BY <1>10, <2>2, <3>1, <3>3
  <2>3. Lost(r, e[2]) \/ e[1] <= rating[e[2]]
    BY DEF ListInv, NoLowerUnlessLost
  <2> QED
    BY <2>1, <2>2, <2>3
<1>15. ListInv(r)'
  BY <1>11, <1>12, <1>13, <1>14 DEF ListInv, Before
<1>16. PlainType'
  <2>1. list'[r] \in ListType
    <3>1. cursor \in Entries \cup {NoCursor} /\ page \subseteq Entries
      BY <1>1, <1>8
    <3>2. next \in ListType
      BY <1>0, <3>1 DEF ListType
    <3> QED
      BY <1>0, <3>2
  <2> QED
    BY <1>1, <2>1 DEF PlainType
<1> QED
  BY <1>6, <1>15, <1>16

(* Opening a film shows a rating that the votes already explain.           *)
LEMMA OpenFilmGood ==
  ASSUME TypeOK, RatingIsLastVote, PlainType, NEW r \in Reader, NEW f \in Film, OpenFilm(r, f)
  PROVE  VisitInv(r)' /\ PlainType'
<1>1. /\ visit' = [visit EXCEPT ![r] =
            [pc |-> "page", film |-> f, rating |-> rating[f], history |-> {}]]
      /\ UNCHANGED <<votes, catalogue, list>>
  BY DEF OpenFilm
<1>2. visit'[r].pc = "page" /\ visit'[r].film = f /\ visit'[r].rating = rating[f]
  BY <1>1 DEF PlainType
<1>3. \/ rating[f] = InitialRating[f]
      \/ \E v \in votes : Touches(v, f) /\ RatingAfter(v, f) = rating[f]
  BY DEF RatingIsLastVote
<1>4. VisitInv(r)'
  BY <1>1, <1>2, <1>3 DEF VisitInv, Touches, RatingAfter
<1>5. f \in Nat /\ rating[f] \in Int
  BY LedgerAssumption DEF LedgerAssumption, TypeOK
<1>6. PlainType'
  BY <1>1, <1>5 DEF PlainType, VisitType
<1> QED
  BY <1>4, <1>6

(* The history read later still holds the vote that wrote the rating shown. *)
LEMMA ReadHistoryGood ==
  ASSUME TypeOK, PlainType, NEW r \in Reader, VisitInv(r), ReadHistory(r)
  PROVE  VisitInv(r)' /\ PlainType'
<1> DEFINE next == [visit[r] EXCEPT !.pc = "history",
                     !.history = {v \in votes : Touches(v, visit[r].film)}]
<1>1. visit' = [visit EXCEPT ![r] = next] /\ UNCHANGED <<votes, catalogue, list>>
  BY DEF ReadHistory
<1>2. visit[r] \in VisitType
  BY DEF PlainType
<1>3. /\ next.pc = "history" /\ next.film = visit[r].film /\ next.rating = visit[r].rating
      /\ next.history = {v \in votes : Touches(v, visit[r].film)}
      /\ next \in VisitType
  BY <1>2 DEF VisitType, TypeOK
<1> HIDE DEF next
<1>4. visit'[r] = next
  BY <1>1 DEF PlainType
<1>5. /\ visit[r].film \in Film
      /\ \/ visit[r].rating = InitialRating[visit[r].film]
         \/ \E v \in votes : /\ Touches(v, visit[r].film)
                             /\ RatingAfter(v, visit[r].film) = visit[r].rating
  BY DEF ReadHistory, VisitInv
<1>6. VisitInv(r)'
  BY <1>3, <1>4, <1>5 DEF VisitInv, RatingAfter
<1>7. PlainType'
  BY <1>1, <1>3 DEF PlainType
<1> QED
  BY <1>6, <1>7

-----------------------------------------------------------------------------
LEMMA InvInit == ListingInit => Inv
<1> SUFFICES ASSUME ListingInit PROVE Inv
  OBVIOUS
<1>1. /\ catalogue \subseteq Film
      /\ list = [r \in Reader |-> NoList] /\ visit = [r \in Reader |-> NoVisit]
  BY ListingAssumption DEF ListingInit, ListingAssumption
<1>2. NoList \in ListType /\ NoVisit \in VisitType
  BY DEF NoList, NoVisit, ListType, VisitType
<1>3. PlainType
  BY <1>1, <1>2 DEF PlainType
<1>4. ASSUME NEW r \in Reader
      PROVE  ListInv(r) /\ VisitInv(r) /\ list[r].before = {} /\ list[r].from = {}
  BY <1>1 DEF NoList, NoVisit, ListInv, CursorLast, NoLowerUnlessLost, AheadUnlessWon, Shown,
              VisitInv
<1> QED
  BY <1>3, <1>4 DEF Inv

LEMMA InvStep ==
  ASSUME TypeOK, TypeOK', RatingIsLastVote, Inv, [ListingNext]_listingVars
  PROVE  Inv'
<1>1. PlainType /\ \A r \in Reader : /\ ListInv(r) /\ VisitInv(r)
                                     /\ list[r].before \subseteq votes
                                     /\ list[r].from \subseteq catalogue
  BY DEF Inv
<1>2. CASE Voting
  <2>1. UNCHANGED <<catalogue, list, visit>> /\ votes \subseteq votes'
    BY <1>2, VotingMoves DEF Voting
  <2>2. PlainType'
    BY <1>1, <2>1 DEF PlainType
  <2>3. ASSUME NEW r \in Reader PROVE ListInv(r)' /\ VisitInv(r)'
    BY <1>1, <1>2, <2>1, VotingKeepsList, VisitUntouched
  <2> QED
    BY <1>1, <2>1, <2>2, <2>3 DEF Inv
<1>3. ASSUME NEW new \in SUBSET (Film \ catalogue), AddFilms(new) PROVE Inv'
  <2>1. /\ catalogue \subseteq catalogue' /\ catalogue' \subseteq Film
        /\ UNCHANGED <<rating, votes, list, visit>>
    BY <1>1, <1>3 DEF AddFilms, PlainType
  <2>2. ASSUME NEW r \in Reader PROVE ListInv(r)' /\ VisitInv(r)'
    BY <1>1, <2>1, ListUntouched, VisitUntouched
  <2>3. PlainType'
    BY <1>1, <2>1 DEF PlainType
  <2> QED
    BY <1>1, <2>1, <2>2, <2>3 DEF Inv
<1>4. ASSUME NEW r \in Reader, NEW size \in Sizes, OpenList(r, size) PROVE Inv'
  <2>1. /\ UNCHANGED <<rating, votes, catalogue, visit>>
        /\ \A q \in Reader \ {r} : list'[q] = list[q]
    BY <1>1, <1>4 DEF OpenList, PlainType
  <2>2. ListInv(r)' /\ PlainType' /\ list'[r].before \subseteq votes
    BY <1>1, <1>4, OpenListGood
  <2>3. list'[r].from \subseteq catalogue
    BY <1>1, <1>4 DEF OpenList, PlainType
  <2>4. ASSUME NEW q \in Reader PROVE ListInv(q)' /\ VisitInv(q)'
    BY <1>1, <2>1, <2>2, ListUntouched, VisitUntouched
  <2> QED
    BY <1>1, <2>1, <2>2, <2>3, <2>4 DEF Inv
<1>5. ASSUME NEW r \in Reader, ScrollOn(r) PROVE Inv'
  <2>1. /\ UNCHANGED <<rating, votes, catalogue, visit>>
        /\ \A q \in Reader \ {r} : list'[q] = list[q]
    BY <1>1, <1>5 DEF ScrollOn, PlainType
  <2>2. ListInv(r)' /\ PlainType' /\ list'[r].before = list[r].before
    BY <1>1, <1>5, ScrollOnGood
  <2>3. list'[r].from = list[r].from
    BY <1>1, <1>5 DEF ScrollOn, PlainType, ListType
  <2>4. ASSUME NEW q \in Reader PROVE ListInv(q)' /\ VisitInv(q)'
    BY <1>1, <2>1, <2>2, ListUntouched, VisitUntouched
  <2> QED
    BY <1>1, <2>1, <2>2, <2>3, <2>4 DEF Inv
<1>6. ASSUME NEW r \in Reader, ReadHistory(r) PROVE Inv'
  <2>1. /\ UNCHANGED <<rating, votes, catalogue, list>>
        /\ \A q \in Reader \ {r} : visit'[q] = visit[q]
    BY <1>1, <1>6 DEF ReadHistory, PlainType
  <2>2. VisitInv(r)' /\ PlainType'
    BY <1>1, <1>6, ReadHistoryGood
  <2>3. ASSUME NEW q \in Reader PROVE ListInv(q)' /\ VisitInv(q)'
    BY <1>1, <2>1, <2>2, ListUntouched, VisitUntouched
  <2> QED
    BY <1>1, <2>1, <2>2, <2>3 DEF Inv
<1>7. ASSUME NEW r \in Reader, NEW f \in Film, OpenFilm(r, f) PROVE Inv'
  <2>1. /\ UNCHANGED <<rating, votes, catalogue, list>>
        /\ \A q \in Reader \ {r} : visit'[q] = visit[q]
    BY <1>1, <1>7 DEF OpenFilm, PlainType
  <2>2. VisitInv(r)' /\ PlainType'
    BY <1>1, <1>7, OpenFilmGood
  <2>3. ASSUME NEW q \in Reader PROVE ListInv(q)' /\ VisitInv(q)'
    BY <1>1, <2>1, <2>2, ListUntouched, VisitUntouched
  <2> QED
    BY <1>1, <2>1, <2>2, <2>3 DEF Inv
<1>8. CASE UNCHANGED listingVars
  <2>1. UNCHANGED <<rating, votes, catalogue, list, visit>>
    BY <1>8 DEF listingVars
  <2>2. ASSUME NEW r \in Reader PROVE ListInv(r)' /\ VisitInv(r)'
    BY <1>1, <2>1, ListUntouched, VisitUntouched
  <2>3. PlainType'
    BY <1>1, <2>1 DEF PlainType
  <2> QED
    BY <1>1, <2>1, <2>2, <2>3 DEF Inv
<1> QED
  BY <1>2, <1>3, <1>4, <1>5, <1>6, <1>7, <1>8 DEF ListingNext

LEMMA ListingInvariant == ListingSpec => [](TypeOK /\ Inv)
<1>1. ListingSpec => []TypeOK /\ []RatingIsLastVote
  BY ListingKeepsLedger, LedgerTyping, LedgerRatingIsLastVote, PTL
<1>2. TypeOK /\ TypeOK' /\ RatingIsLastVote /\ Inv /\ [ListingNext]_listingVars => Inv'
  BY InvStep
<1> QED
  BY <1>1, <1>2, InvInit, PTL DEF ListingSpec

(* Type correctness of the listing.                                        *)
THEOREM ListingTyping == ListingSpec => []ListingTypeOK
<1>1. TypeOK /\ Inv => ListingTypeOK
  BY DEF Inv, PlainType, ListingTypeOK
<1> QED
  BY <1>1, ListingInvariant, PTL

(* However the ratings move, the list on the screen stays sorted.          *)
THEOREM ListingInOrder == ListingSpec => []ListedInOrder
<1>1. TypeOK /\ Inv => ListedInOrder
  BY DEF Inv, ListInv, ListedInOrder
<1> QED
  BY <1>1, ListingInvariant, PTL

(* A film shown twice has lost a vote while the reader scrolled.           *)
THEOREM ListingTwiceOnlyIfLost == ListingSpec => []TwiceOnlyIfLost
<1>1. TypeOK /\ Inv => TwiceOnlyIfLost
  <2> SUFFICES ASSUME Inv, NEW r \in Reader, NEW e \in list[r].earlier,
                      NEW x \in list[r].page, e[2] = x[2]
               PROVE  e[1] > x[1] /\ \E v \in Since(r) : v.loser = e[2]
    BY DEF TwiceOnlyIfLost
  <2>1. Before(e, x) /\ Lost(r, e[2])
    BY DEF Inv, ListInv
  <2>2. e[2] \in Int /\ x[2] \in Int
    <3>1. e \in Entries /\ x \in Entries
      BY ListTypes DEF Inv
    <3>2. Film \subseteq Int /\ e[2] \in Film /\ x[2] \in Film
      BY <3>1, LedgerAssumption DEF LedgerAssumption, Entries
    <3> QED
      BY <3>2
  <2> QED
    BY <2>1, <2>2 DEF Before, Lost
<1> QED
  BY <1>1, ListingInvariant, PTL

(* A film missing from a list read to its end has won a vote meanwhile.    *)
THEOREM ListingMissedOnlyIfWon == ListingSpec => []MissedOnlyIfWon
<1>1. TypeOK /\ Inv => MissedOnlyIfWon
  BY DEF Inv, ListInv, AheadUnlessWon, Listed, Won, MissedOnlyIfWon
<1> QED
  BY <1>1, ListingInvariant, PTL

(* The rating a film page shows is explained by the history it loads.      *)
THEOREM ListingHistoryExplains == ListingSpec => []HistoryExplainsRating
<1>1. TypeOK /\ Inv => HistoryExplainsRating
  BY DEF Inv, VisitInv, HistoryExplainsRating
<1> QED
  BY <1>1, ListingInvariant, PTL

-----------------------------------------------------------------------------
(* What a reader may rely on: a film nobody has voted on since the list was*)
(* opened.                                                                 *)
Untouched(r, f) == \A v \in Since(r) : ~Touches(v, f)

(* It is shown at the rating it has now, and it is on a list read to its   *)
(* end, if it was in the catalogue when the list was opened.               *)
ExactUnlessVoted ==
  \A r \in Reader : \A f \in Film : Untouched(r, f) =>
    /\ \A e \in Shown(r) : e[2] = f => e = Entry(f)
    /\ list[r].pc = "ended" /\ f \in list[r].from => Entry(f) \in Shown(r)

(* What is shown of a film is true of it until it is voted on.             *)
Fresh(r) == \A e \in Shown(r) : Untouched(r, e[2]) => e = Entry(e[2])

LEMMA FreshFrame ==
  ASSUME NEW r \in Reader, Fresh(r), list'[r] = list[r], rating' = rating, votes' = votes
  PROVE  Fresh(r)'
BY DEF Fresh, Shown, Since, Untouched, Touches, Entry

(* A vote changes the entry of no film but the two it is about.            *)
LEMMA VotingKeepsFresh ==
  ASSUME TypeOK, TypeOK', PlainType, Voting, NEW r \in Reader, Fresh(r),
         list[r].before \subseteq votes
  PROVE  Fresh(r)'
<1>1. list'[r] = list[r]
  BY DEF Voting
<1>2. /\ votes \subseteq votes'
      /\ \A f \in Film : rating'[f] = rating[f] \/ \E v \in votes' \ votes : Touches(v, f)
  <2>1. \A f \in Film : rating[f] \in Int /\ rating'[f] \in Int
    BY DEF TypeOK
  <2> QED
    BY <2>1, VotingMoves DEF Touches
<1>3. Since(r) \subseteq Since(r)' /\ votes' \ votes \subseteq Since(r)' /\ Shown(r)' = Shown(r)
  BY <1>1, <1>2 DEF Since, Shown
<1>4. Shown(r) \subseteq Entries
  BY ListTypes DEF Shown
<1> SUFFICES ASSUME NEW e \in Shown(r), Untouched(r, e[2])' PROVE e = Entry(e[2])'
  BY <1>3 DEF Fresh
<1>5. e[2] \in Film
  BY <1>4 DEF Entries
<1>6. \A v \in Since(r)' : ~Touches(v, e[2])
  BY DEF Untouched, Touches
<1>7. Untouched(r, e[2]) /\ rating'[e[2]] = rating[e[2]]
  BY <1>2, <1>3, <1>5, <1>6 DEF Untouched
<1> QED
  BY <1>7 DEF Fresh, Entry

(* A page is made of the rows as they stand.                               *)
LEMMA RowsAreFresh ==
  ASSUME NEW cursor, NEW e \in RowsAfter(cursor)
  PROVE  e = Entry(e[2])
<1>1. PICK f \in catalogue : e = Entry(f)
  BY DEF RowsAfter
<1>2. e[2] = f
  BY <1>1 DEF Entry
<1> QED
  BY <1>1, <1>2

LEMMA PagesAreFresh ==
  ASSUME PlainType, NEW r \in Reader, Fresh(r),
         ScrollOn(r) \/ \E size \in Sizes : OpenList(r, size)
  PROVE  Fresh(r)'
<1>1. UNCHANGED <<rating, votes>>
  BY DEF ScrollOn, OpenList
<1>2. CASE ScrollOn(r)
  <2>1. PICK page, cursor :
          /\ page \subseteq RowsAfter(list[r].cursor)
          /\ list' = [list EXCEPT ![r] = [list[r] EXCEPT
                  !.pc = IF page = {} THEN "ended" ELSE "scrolling",
                  !.cursor = cursor, !.earlier = @ \cup list[r].page, !.page = page]]
    BY <1>2 DEF ScrollOn
  <2>2. list[r] \in ListType
    BY DEF PlainType
  <2>3. Shown(r)' = Shown(r) \cup page /\ list'[r].before = list[r].before
    <3> DEFINE next == [list[r] EXCEPT
                 !.pc = IF page = {} THEN "ended" ELSE "scrolling", !.cursor = cursor,
                 !.earlier = @ \cup list[r].page, !.page = page]
    <3>1. /\ next.earlier = list[r].earlier \cup list[r].page /\ next.page = page
          /\ next.before = list[r].before
      BY <2>2 DEF ListType
    <3>2. list' = [list EXCEPT ![r] = next]
      BY <2>1
    <3> HIDE DEF next
    <3>3. list'[r] = next
      BY <3>2 DEF PlainType
    <3> QED
      BY <3>1, <3>3 DEF Shown
  <2> QED
    BY <1>1, <2>1, <2>3, RowsAreFresh DEF Fresh, Since, Untouched, Touches, Entry
<1>3. ASSUME NEW size \in Sizes, OpenList(r, size) PROVE Fresh(r)'
  <2>1. PICK page \in SUBSET RowsAfter(NoCursor) : Shown(r)' = page
    BY <1>3 DEF OpenList, Shown, PlainType
  <2> QED
    BY <1>1, <2>1, RowsAreFresh DEF Fresh, Entry
<1> QED
  BY <1>2, <1>3

LEMMA FreshStep ==
  ASSUME TypeOK, TypeOK', Inv, \A r \in Reader : Fresh(r), [ListingNext]_listingVars
  PROVE  \A r \in Reader : Fresh(r)'
<1> SUFFICES ASSUME NEW r \in Reader PROVE Fresh(r)'
  OBVIOUS
<1>1. PlainType /\ Fresh(r) /\ list[r].before \subseteq votes
  BY DEF Inv
<1>2. CASE Voting
  BY <1>1, <1>2, VotingKeepsFresh
<1>3. CASE ScrollOn(r) \/ \E size \in Sizes : OpenList(r, size)
  BY <1>1, <1>3, PagesAreFresh
<1>4. ASSUME list'[r] = list[r], UNCHANGED <<rating, votes>> PROVE Fresh(r)'
  BY <1>1, <1>4, FreshFrame
<1>5. ASSUME NEW q \in Reader \ {r}, ScrollOn(q) \/ \E size \in Sizes : OpenList(q, size)
      PROVE  Fresh(r)'
  BY <1>1, <1>4, <1>5 DEF ScrollOn, OpenList, PlainType
<1>6. ASSUME \/ \E new \in SUBSET (Film \ catalogue) : AddFilms(new)
             \/ \E q \in Reader : ReadHistory(q) \/ \E f \in Film : OpenFilm(q, f)
             \/ UNCHANGED listingVars
      PROVE  Fresh(r)'
  BY <1>4, <1>6 DEF AddFilms, ReadHistory, OpenFilm, listingVars
<1> QED
  BY <1>2, <1>3, <1>5, <1>6 DEF ListingNext

(* What scrolling promises of a film nobody votes on meanwhile, however    *)
(* many others are voted on or added: it is shown as it stands, never at a *)
(* rating of the past, and a list read to its end (last_seen_id at each    *)
(* page) has it.                                                           *)
THEOREM ListingExactUnlessVoted == ListingSpec => []ExactUnlessVoted
<1>1. ListingInit => \A r \in Reader : Fresh(r)
  BY DEF ListingInit, NoList, Fresh, Shown
<1>2. /\ TypeOK /\ TypeOK' /\ Inv /\ (\A r \in Reader : Fresh(r))
      /\ [ListingNext]_listingVars
      => (\A r \in Reader : Fresh(r))'
  BY FreshStep
<1>3. Inv /\ (\A r \in Reader : Fresh(r)) => ExactUnlessVoted
  <2> SUFFICES ASSUME Inv, NEW r \in Reader, Fresh(r), NEW f \in Film, Untouched(r, f),
                      list[r].pc = "ended", f \in list[r].from
               PROVE  Entry(f) \in Shown(r)
    BY DEF ExactUnlessVoted, Fresh
  <2>1. Listed(r, f) \/ Won(r, f)
    BY DEF Inv, ListInv, AheadUnlessWon
  <2>2. Listed(r, f)
    BY <2>1 DEF Won, Untouched, Touches
  <2> QED
    BY <2>2 DEF Listed, Fresh
<1> QED
  BY <1>1, <1>2, <1>3, ListingInvariant, PTL DEF ListingSpec
=============================================================================
