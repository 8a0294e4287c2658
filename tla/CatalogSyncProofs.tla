------------------------- MODULE CatalogSyncProofs -------------------------
(***************************************************************************)
(* Proofs about the writers of the catalogue: for any listings and credits,*)
(* any number of jobs and admins, and any failures.                        *)
(***************************************************************************)
EXTENDS CatalogSync, FiniteSetTheorems, NaturalsInduction, WellFoundedInduction,
        SequenceTheorems, TLAPS

PlaceOf == {"idle", "fetch", "begin", "director", "film", "added", "already"}

Writing == {"begin", "director", "film"}

WriterState ==
  [pc : PlaceOf, page : Nat, batch : Seq(Film), unresolved : SUBSET Film, next : Nat \ {0},
   found : BOOLEAN, newFilms : SUBSET Film, newDirectors : SUBSET Director,
   skipped : SUBSET Film]

TypeOK ==
  /\ films \subseteq Film /\ directors \subseteq Director
  /\ writer \in [Writer -> WriterState]
  /\ faults \in Nat

(* A director that GetDirector leaves empty is that of an unresolved film, *)
(* and of no other.                                                        *)
Resolved(w) ==
  \A i \in DOMAIN writer[w].batch : \/ writer[w].batch[i] \in writer[w].unresolved
                                    \/ Credits[writer[w].batch[i]] # <<>>

InStatement(w) == writer[w].pc \in {"director", "film"} => AtStatement(w)

(* The statement's director, in the three places where it matters: the CTE *)
(* has a row because somebody has the director, has none before the insert *)
(* because this transaction does not, and none after it because another    *)
(* one has committed it.                                                   *)
StatementDirector(w) ==
  /\ writer[w].pc \in {"director", "film"} /\ writer[w].found =>
       DirectorOf(w, Current(w)) \in directors \cup writer[w].newDirectors
  /\ writer[w].pc = "director" /\ ~writer[w].found =>
       DirectorOf(w, Current(w)) \notin writer[w].newDirectors
  /\ writer[w].pc = "film" /\ ~writer[w].found => DirectorOf(w, Current(w)) \in directors
  /\ writer[w].pc = "film" => DirectorOf(w, Current(w)) # ZeroDirector

(* The films a transaction has inserted, and those it left out.            *)
HeldFilms(w) ==
  /\ \A f \in writer[w].newFilms :
       f \notin writer[w].unresolved /\ Credits[f][1] \in directors \cup writer[w].newDirectors
  /\ \A f \in writer[w].skipped : DirectorOf(w, f) \in directors

(* The one film of an admin.                                               *)
AdminInv(a) ==
  /\ writer[a].pc # "fetch"
  /\ writer[a].pc # "idle" => Len(writer[a].batch) = 1 /\ writer[a].unresolved = {}
  /\ writer[a].pc \in {"director", "film"} => writer[a].next = 1
  /\ writer[a].pc = "begin" => writer[a].next \in {1, 2}
  /\ writer[a].pc = "begin" /\ writer[a].next = 2 => writer[a].newFilms = {writer[a].batch[1]}
  /\ writer[a].newFilms # {} => writer[a].pc = "begin" /\ writer[a].next = 2
  /\ writer[a].newDirectors # {} =>
       /\ writer[a].pc = "film" \/ (writer[a].pc = "begin" /\ writer[a].next = 2)
       /\ writer[a].newDirectors = {DirectorOf(a, writer[a].batch[1])}
  /\ writer[a].pc \in {"added", "already"} => writer[a].batch[1] \in films

(* The page of a job, as far as the batch has come.                        *)
JobInv(j) ==
  /\ writer[j].pc \notin {"added", "already"}
  /\ writer[j].pc # "idle" => writer[j].page \in 1..LastPage
  /\ writer[j].pc \in Writing => writer[j].batch = Dated(Listing[j][writer[j].page])
  /\ writer[j].pc \notin Writing => writer[j].newFilms = {} /\ writer[j].newDirectors = {}
  /\ \A f \in writer[j].newFilms : \E i \in DOMAIN writer[j].batch : writer[j].batch[i] = f
  /\ writer[j].pc \in Writing =>
       \A i \in DOMAIN writer[j].batch :
         i < writer[j].next =>
           writer[j].batch[i] \in films \cup writer[j].newFilms \cup writer[j].skipped

WriterInv(w) ==
  /\ Resolved(w) /\ InStatement(w) /\ StatementDirector(w) /\ HeldFilms(w)
  /\ w \in Admin => AdminInv(w)
  /\ w \in Job => JobInv(w)

(* A director is inserted by one transaction, and once.                    *)
Exclusive ==
  \A w \in Writer :
    /\ writer[w].newDirectors \cap directors = {}
    /\ \A x \in Writer \ {w} : writer[w].newDirectors \cap writer[x].newDirectors = {}

IInv == TypeOK /\ Exclusive /\ \A w \in Writer : WriterInv(w)
-----------------------------------------------------------------------------
(* Induction over numbers, by a least counterexample.                      *)
LEMMA LeastNumber ==
  ASSUME NEW T \in SUBSET Nat, T # {}
  PROVE  \E x \in T : \A y \in T : ~(y < x)
<1> DEFINE R == OpToRel(<, Nat)
<1>1. IsWellFoundedOn(R, Nat)
  BY NatLessThanWellFounded
<1>2. \A x, y \in Nat : y < x => <<y, x>> \in R
  BY Zenon DEF OpToRel
<1> HIDE DEF R
<1>3. PICK x \in T : \A y \in T : <<y, x>> \notin R
  BY <1>1, WFMin, Zenon
<1> QED
  BY <1>2, <1>3

(* FetchFilms keeps the films that have a date, and makes up none.         *)
KeptSoFar(page, h, n) ==
  IF n = 0 THEN <<>>
  ELSE IF page[n] \in Undated THEN h[n - 1] ELSE Append(h[n - 1], page[n])

LEMMA KeptExists ==
  ASSUME NEW page \in Seq(Film)
  PROVE  \E h : h = [n \in 0..Len(page) |-> KeptSoFar(page, h, n)]
<1> DEFINE D == 0..Len(page)
           good(g, n) == \A m \in D : m <= n => g[m] = KeptSoFar(page, g, m)
           T == {n \in Nat : ~ \E g \in [D -> Seq(Film)] : good(g, n)}
<1>0. Len(page) \in Nat /\ \A n \in 1..Len(page) : page[n] \in Film
  OBVIOUS
<1>1. T = {}
  <2> SUFFICES ASSUME T # {} PROVE FALSE
    OBVIOUS
  <2>1. PICK x \in T : \A y \in T : ~(y < x)
    <3> HIDE DEF T
    <3>1. T \subseteq Nat
      BY DEF T
    <3> QED
      BY <3>1, LeastNumber
  <2>2. CASE x = 0
    <3> DEFINE g == [n \in D |-> <<>>]
    <3>1. g \in [D -> Seq(Film)]
      OBVIOUS
    <3>2. good(g, 0)
      BY <1>0 DEF KeptSoFar
    <3> QED
      BY <2>1, <2>2, <3>1, <3>2
  <2>3. CASE x # 0
    <3>0. x - 1 \in Nat /\ x - 1 < x
      BY <2>3
    <3>1. x - 1 \in Nat /\ x - 1 \notin T
      <4> HIDE DEF T
      <4> QED
        BY <2>1, <3>0
    <3>2. PICK g \in [D -> Seq(Film)] : good(g, x - 1)
      BY <3>1
    <3>3. CASE x \notin D
      <4>1. good(g, x)
        BY <1>0, <3>1, <3>2, <3>3
      <4> QED
        BY <2>1, <4>1
    <3>4. CASE x \in D
      <4> DEFINE e == KeptSoFar(page, g, x)
                 k == [g EXCEPT ![x] = e]
      <4>1. x - 1 \in D /\ x \in 1..Len(page)
        BY <1>0, <2>3, <3>4
      <4>2. e \in Seq(Film)
        <5>1. g[x - 1] \in Seq(Film) /\ page[x] \in Film
          BY <1>0, <3>2, <4>1
        <5>2. Append(g[x - 1], page[x]) \in Seq(Film)
          BY <5>1
        <5> QED
          BY <2>3, <5>1, <5>2 DEF KeptSoFar
      <4>3. k \in [D -> Seq(Film)] /\ k[x] = e /\ \A m \in D \ {x} : k[m] = g[m]
        BY <3>2, <3>4, <4>2
      <4> HIDE DEF k, e
      <4>4. ASSUME NEW m \in D, m <= x PROVE k[m] = KeptSoFar(page, k, m)
        <5>0. m \in Nat /\ x \in Nat /\ (m # 0 => m - 1 \in D /\ m - 1 # x)
          BY <1>0, <2>1, <4>4
        <5>1. m = 0 \/ k[m - 1] = g[m - 1]
          BY <4>3, <5>0
        <5>2. KeptSoFar(page, k, m) = KeptSoFar(page, g, m)
          BY <5>1 DEF KeptSoFar
        <5>3. CASE m = x
          BY <4>3, <5>2, <5>3 DEF e
        <5>4. CASE m # x
          <6>1. m <= x - 1
            BY <4>4, <5>0, <5>4
          <6> QED
            BY <3>2, <4>3, <5>2, <5>4, <6>1
        <5> QED
          BY <5>3, <5>4
      <4> QED
        BY <2>1, <4>3, <4>4
    <3> QED
      BY <3>3, <3>4
  <2> QED
    BY <2>2, <2>3
<1>2. PICK h \in [D -> Seq(Film)] : good(h, Len(page))
  BY <1>0, <1>1
<1>3. h = [n \in D |-> KeptSoFar(page, h, n)]
  <2>1. \A n \in D : n <= Len(page)
    BY <1>0
  <2> QED
    BY <1>2, <2>1
<1> QED
  BY <1>3

LEMMA DatedFilms ==
  ASSUME NEW page \in Seq(Film)
  PROVE  /\ Dated(page) \in Seq(Film)
         /\ {Dated(page)[i] : i \in DOMAIN Dated(page)} = {page[i] : i \in DOMAIN page} \ Undated
<1> DEFINE D == 0..Len(page)
           range(s) == {s[i] : i \in 1..Len(s)}
           part(n) == {page[i] : i \in 1..n} \ Undated
           h == CHOOSE k : k = [n \in D |-> KeptSoFar(page, k, n)]
           T == {n \in D : ~(h[n] \in Seq(Film) /\ range(h[n]) = part(n))}
<1>0. Len(page) \in Nat /\ \A n \in 1..Len(page) : page[n] \in Film
  OBVIOUS
<1>1. h = [n \in D |-> KeptSoFar(page, h, n)]
  BY KeptExists
<1>2. Dated(page) = h[Len(page)]
  BY Zenon DEF Dated, KeptSoFar
<1> HIDE DEF h
<1>3. T = {}
  <2> SUFFICES ASSUME T # {} PROVE FALSE
    OBVIOUS
  <2>1. PICK x \in T : \A y \in T : ~(y < x)
    <3>1. T \subseteq Nat
      BY <1>0
    <3> HIDE DEF T
    <3> QED
      BY <3>1, LeastNumber
  <2>2. x \in D /\ x \in Nat /\ h[x] = KeptSoFar(page, h, x)
    BY <1>0, <1>1, <2>1
  <2>3. x # 0
    <3> SUFFICES ASSUME x = 0 PROVE FALSE
      OBVIOUS
    <3>1. h[0] = <<>>
      BY <2>2 DEF KeptSoFar
    <3>2. range(<<>>) = {} /\ part(0) = {}
      OBVIOUS
    <3>3. h[x] \in Seq(Film) /\ range(h[x]) = part(x)
      BY <3>1, <3>2
    <3> QED
      BY <2>1, <3>3
  <2>4. /\ x - 1 \in D /\ x - 1 < x /\ x \in 1..Len(page)
        /\ h[x] = IF page[x] \in Undated THEN h[x - 1] ELSE Append(h[x - 1], page[x])
    BY <1>0, <2>2, <2>3 DEF KeptSoFar
  <2>5. h[x - 1] \in Seq(Film) /\ range(h[x - 1]) = part(x - 1)
    BY <2>1, <2>4
  <2>6. 1..x = (1..x - 1) \cup {x}
    BY <2>2, <2>3
  <2>7. part(x) = part(x - 1) \cup ({page[x]} \ Undated)
    BY <2>6
  <2>8. CASE page[x] \in Undated
    BY <2>1, <2>4, <2>5, <2>7, <2>8
  <2>9. CASE page[x] \notin Undated
    <3> DEFINE s == h[x - 1]
    <3>0. s \in Seq(Film) /\ page[x] \in Film
      BY <1>0, <2>4, <2>5
    <3>1. h[x] = Append(s, page[x])
      BY <2>4, <2>9
    <3> HIDE DEF s
    <3>2. /\ Append(s, page[x]) \in Seq(Film) /\ Len(Append(s, page[x])) = Len(s) + 1
          /\ Append(s, page[x])[Len(s) + 1] = page[x]
          /\ \A i \in 1..Len(s) : Append(s, page[x])[i] = s[i]
      BY <3>0
    <3>3. Len(s) \in Nat /\ 1..Len(s) + 1 = (1..Len(s)) \cup {Len(s) + 1}
      BY <3>0
    <3>4. range(Append(s, page[x])) = range(s) \cup {page[x]}
      BY <3>2, <3>3
    <3> QED
      <4>1. range(s) = part(x - 1)
        BY <2>5 DEF s
      <4>2. part(x) = part(x - 1) \cup {page[x]}
        BY <2>7, <2>9
      <4>3. h[x] \in Seq(Film) /\ range(h[x]) = part(x)
        BY <3>1, <3>2, <3>4, <4>1, <4>2
      <4> QED
        BY <2>1, <4>3
  <2> QED
    BY <2>8, <2>9
<1>4. h[Len(page)] \in Seq(Film) /\ range(h[Len(page)]) = part(Len(page))
  <2>1. Len(page) \in D
    BY <1>0
  <2>2. Len(page) \notin T
    <3> HIDE DEF T
    <3> QED
      BY <1>3
  <2> QED
    BY <2>1, <2>2
<1>5. DOMAIN page = 1..Len(page) /\ DOMAIN h[Len(page)] = 1..Len(h[Len(page)])
  BY <1>4
<1> QED
  BY <1>2, <1>4, <1>5
-----------------------------------------------------------------------------
(* What a step does to the writers it is not about: only the tables, which *)
(* grow, can tell them.                                                    *)
LEMMA OtherWriters ==
  ASSUME NEW x \in Writer, writer'[x] = writer[x], films \subseteq films',
         directors \subseteq directors', WriterInv(x)
  PROVE  WriterInv(x)'
<1>1. (AtStatement(x) <=> AtStatement(x)') /\ Current(x)' = Current(x)
  BY DEF AtStatement, Current
<1>2. \A f \in Film : DirectorOf(x, f)' = DirectorOf(x, f)
  BY DEF DirectorOf
<1>3. Resolved(x)'
  BY DEF WriterInv, Resolved
<1>4. InStatement(x)'
  BY <1>1 DEF WriterInv, InStatement
<1>5. StatementDirector(x)'
  <2>1. DirectorOf(x, Current(x))' = DirectorOf(x, Current(x))
    BY <1>1 DEF DirectorOf
  <2> QED
    BY <2>1 DEF WriterInv, StatementDirector
<1>6. HeldFilms(x)'
  BY DEF WriterInv, HeldFilms, DirectorOf
<1>7. x \in Admin => AdminInv(x)'
  <2>1. DirectorOf(x, writer[x].batch[1])' = DirectorOf(x, writer[x].batch[1])
    BY DEF DirectorOf
  <2> QED
    BY <2>1 DEF WriterInv, AdminInv
<1>8. x \in Job => JobInv(x)'
  BY DEF WriterInv, JobInv
<1> QED
  BY <1>3, <1>4, <1>5, <1>6, <1>7, <1>8 DEF WriterInv

(* A step of one writer, given what it does to that writer and the tables. *)
LEMMA OneWriter ==
  ASSUME IInv, NEW w \in Writer, writer'[w] \in WriterState,
         writer' = [writer EXCEPT ![w] = writer'[w]], WriterInv(w)', faults' \in Nat,
         films' \in SUBSET Film, directors' \in SUBSET Director, films \subseteq films',
         directors' = directors \/ (directors' = directors \cup writer[w].newDirectors),
         writer'[w].newDirectors \cap directors' = {},
         \A d \in writer'[w].newDirectors :
           d \in writer[w].newDirectors \/ \A x \in Writer \ {w} : d \notin writer[x].newDirectors
  PROVE  IInv'
<1>1. writer' \in [Writer -> WriterState] /\ \A x \in Writer \ {w} : writer'[x] = writer[x]
  BY DEF IInv, TypeOK
<1>2. TypeOK'
  BY <1>1 DEF TypeOK
<1>3. Exclusive'
  <2> SUFFICES ASSUME NEW x \in Writer
               PROVE  /\ writer'[x].newDirectors \cap directors' = {}
                      /\ \A y \in Writer \ {x} :
                           writer'[x].newDirectors \cap writer'[y].newDirectors = {}
    BY DEF Exclusive
  <2>1. writer'[x].newDirectors \cap directors' = {}
    BY <1>1 DEF IInv, Exclusive
  <2>2. \A y \in Writer \ {x} : writer'[x].newDirectors \cap writer'[y].newDirectors = {}
    BY <1>1 DEF IInv, Exclusive
  <2> QED
    BY <2>1, <2>2
<1>4. ASSUME NEW x \in Writer PROVE WriterInv(x)'
  <2>1. CASE x = w
    BY <2>1
  <2>2. CASE x # w
    BY <1>1, <2>2, OtherWriters DEF IInv
  <2> QED
    BY <2>1, <2>2
<1> QED
  BY <1>2, <1>3, <1>4 DEF IInv

(* A writer that starts or stops: it has no statement and no row.          *)
LEMMA StartFresh ==
  ASSUME NEW w \in Writer, NEW pc \in {"idle", "fetch"}, NEW page \in Nat,
         writer'[w] = Start(pc, page, <<>>, {}), pc = "fetch" => w \in Job /\ page \in 1..LastPage
  PROVE  /\ writer'[w] \in WriterState /\ WriterInv(w)'
         /\ writer'[w].newDirectors = {} /\ writer'[w].newFilms = {}
<1>1. /\ writer'[w].pc = pc /\ writer'[w].page = page /\ writer'[w].batch = <<>>
      /\ writer'[w].newFilms = {} /\ writer'[w].newDirectors = {} /\ writer'[w].skipped = {}
  BY DEF Start
<1>2. writer'[w] \in WriterState
  BY DEF Start, WriterState, PlaceOf
<1>3. Resolved(w)' /\ InStatement(w)' /\ StatementDirector(w)' /\ HeldFilms(w)'
  BY <1>1 DEF Resolved, InStatement, StatementDirector, HeldFilms
<1>4. w \in Admin => AdminInv(w)'
  BY <1>1, CatalogSyncAssumption DEF AdminInv, CatalogSyncAssumption
<1>5. w \in Job => JobInv(w)'
  BY <1>1 DEF JobInv, Writing
<1> QED
  BY <1>1, <1>2, <1>3, <1>4, <1>5 DEF WriterInv

LEMMA OverFresh ==
  ASSUME IInv, NEW w \in Writer, writer'[w] = Over(w)
  PROVE  /\ writer'[w] \in WriterState /\ WriterInv(w)'
         /\ writer'[w].newDirectors = {} /\ writer'[w].newFilms = {}
<1>1. writer[w].page \in Nat
  BY DEF IInv, TypeOK, WriterState
<1>2. CASE w \in Job /\ writer[w].page < LastPage
  <2>1. /\ writer'[w] = Start("fetch", writer[w].page + 1, <<>>, {})
        /\ writer[w].page + 1 \in 1..LastPage
    BY <1>1, <1>2 DEF Over, LastPage
  <2>2. writer[w].page + 1 \in Nat
    BY <1>1
  <2> QED
    BY <1>2, <2>1, <2>2, StartFresh
<1>3. CASE ~(w \in Job /\ writer[w].page < LastPage)
  BY <1>3, StartFresh DEF Over, Idle
<1> QED
  BY <1>2, <1>3

LEMMA GiveUpStep ==
  ASSUME IInv, NEW w \in Writer, GiveUp(w), faults' \in Nat
  PROVE  IInv'
<1>1. writer'[w] = Over(w) /\ writer' = [writer EXCEPT ![w] = writer'[w]] /\ UNCHANGED tables
  BY DEF GiveUp, IInv, TypeOK
<1>2. films' = films /\ directors' = directors
  BY <1>1 DEF tables
<1> QED
  BY <1>1, <1>2, OverFresh, OneWriter DEF IInv, TypeOK
LEMMA CatalogInit == Init => IInv
<1> SUFFICES ASSUME Init PROVE IInv
  OBVIOUS
<1>1. \A w \in Writer :
        /\ writer[w].pc = "idle" /\ writer[w].page = 0 /\ writer[w].batch = <<>>
        /\ writer[w].newFilms = {} /\ writer[w].newDirectors = {} /\ writer[w].skipped = {}
  BY DEF Init, Idle, Start
<1>2. TypeOK
  BY DEF Init, TypeOK, Idle, Start, WriterState, PlaceOf
<1>3. Exclusive
  BY <1>1 DEF Exclusive
<1>4. ASSUME NEW w \in Writer PROVE WriterInv(w)
  <2>1. Resolved(w) /\ InStatement(w) /\ StatementDirector(w) /\ HeldFilms(w)
    BY <1>1 DEF Resolved, InStatement, StatementDirector, HeldFilms
  <2>2. AdminInv(w) /\ JobInv(w)
    BY <1>1 DEF AdminInv, JobInv, Writing
  <2> QED
    BY <2>1, <2>2 DEF WriterInv
<1> QED
  BY <1>2, <1>3, <1>4 DEF IInv

LEMMA CrashStep == IInv /\ Crash => IInv'
<1> SUFFICES ASSUME IInv, Crash PROVE IInv'
  OBVIOUS
<1>1. films' = films /\ directors' = directors /\ faults' \in Nat
  BY DEF Crash, Fault, tables, IInv, TypeOK
<1>2. ASSUME NEW w \in Writer
      PROVE  /\ writer'[w] \in WriterState /\ WriterInv(w)'
             /\ writer'[w].newDirectors = {}
  <2>1. writer'[w] = Start("idle", 0, <<>>, {})
    BY DEF Crash, Idle
  <2> QED
    BY <2>1, StartFresh
<1>3. TypeOK'
  BY <1>1, <1>2 DEF Crash, IInv, TypeOK
<1>4. Exclusive'
  BY <1>2 DEF Exclusive
<1> QED
  BY <1>2, <1>3, <1>4 DEF IInv

(* The steps that do not write.                                            *)
LEMMA SyncStep ==
  ASSUME IInv, NEW j \in Writer, Sync(j)
  PROVE  IInv'
<1>1. /\ writer'[j] = Start("fetch", 1, <<>>, {}) /\ writer' = [writer EXCEPT ![j] = writer'[j]]
      /\ films' = films /\ directors' = directors /\ faults' = faults /\ j \in Job
  BY DEF Sync, tables, IInv, TypeOK
<1>2. writer'[j] \in WriterState /\ WriterInv(j)' /\ writer'[j].newDirectors = {}
  BY <1>1, StartFresh DEF LastPage
<1> QED
  BY <1>1, <1>2, OneWriter DEF IInv, TypeOK

LEMMA FetchedStep ==
  ASSUME IInv, NEW j \in Job, writer[j].pc = "fetch",
         \E S \in SUBSET Film : /\ Undirected \subseteq S
                               /\ writer' = [writer EXCEPT ![j] =
                                     Start("begin", @.page, Dated(Listing[j][@.page]), S)],
         UNCHANGED tables, faults' \in Nat
  PROVE  IInv'
<1>1. PICK S \in SUBSET Film :
        /\ Undirected \subseteq S
        /\ writer' = [writer EXCEPT ![j] = Start("begin", @.page, Dated(Listing[j][@.page]), S)]
  OBVIOUS
<1>2. j \in Writer /\ writer[j] \in WriterState /\ writer[j].page \in 1..LastPage
  BY DEF Writer, IInv, TypeOK, WriterInv, JobInv
<1> DEFINE page == writer[j].page
           batch == Dated(Listing[j][page])
<1>3. batch \in Seq(Film)
  <2>1. Listing[j] \in [1..LastPage -> Seq(Film)]
    BY CatalogSyncAssumption DEF CatalogSyncAssumption
  <2>2. Listing[j][page] \in Seq(Film)
    BY <1>2, <2>1
  <2> QED
    BY <2>2, DatedFilms
<1>4. /\ writer'[j] = Start("begin", page, batch, S) /\ writer' = [writer EXCEPT ![j] = writer'[j]]
      /\ films' = films /\ directors' = directors
  BY <1>1, <1>2 DEF tables, IInv, TypeOK
<1>5. page \in Nat
  BY <1>2
<1> HIDE DEF page, batch
<1>6. /\ writer'[j].pc = "begin" /\ writer'[j].page = page /\ writer'[j].batch = batch
      /\ writer'[j].unresolved = S /\ writer'[j].next = 1 /\ writer'[j].newFilms = {}
      /\ writer'[j].newDirectors = {} /\ writer'[j].skipped = {}
  BY <1>4 DEF Start
<1>7. writer'[j] \in WriterState
  BY <1>1, <1>3, <1>4, <1>5 DEF Start, WriterState, PlaceOf
<1>8. WriterInv(j)'
  <2>1. Resolved(j)'
    <3>1. \A f \in Film : f \in S \/ Credits[f] # <<>>
      BY <1>1 DEF Undirected
    <3>2. \A i \in DOMAIN batch : batch[i] \in Film
      BY <1>3
    <3> QED
      BY <1>6, <3>1, <3>2 DEF Resolved
  <2>2. InStatement(j)' /\ StatementDirector(j)' /\ HeldFilms(j)'
    BY <1>6 DEF InStatement, StatementDirector, HeldFilms
  <2>3. JobInv(j)'
    <3>1. \A i \in DOMAIN batch : ~(i < 1)
      BY <1>3
    <3> QED
      BY <1>2, <1>6, <3>1 DEF JobInv, Writing, page, batch
  <2>4. j \notin Admin
    BY CatalogSyncAssumption DEF CatalogSyncAssumption
  <2> QED
    BY <2>1, <2>2, <2>3, <2>4 DEF WriterInv
<1> QED
  BY <1>2, <1>4, <1>6, <1>7, <1>8, OneWriter DEF IInv, TypeOK

LEMMA AskToAddStep ==
  ASSUME IInv, NEW a \in Admin, NEW f \in Addable, AskToAdd(a, f)
  PROVE  IInv'
<1>1. a \in Writer /\ f \in Film /\ a \notin Job
  BY CatalogSyncAssumption DEF Writer, CatalogSyncAssumption
<1>2. /\ writer'[a] = Start("begin", 0, <<f>>, {}) /\ writer' = [writer EXCEPT ![a] = writer'[a]]
      /\ films' = films /\ directors' = directors /\ faults' = faults
  BY <1>1 DEF AskToAdd, tables, IInv, TypeOK
<1>3. /\ writer'[a].pc = "begin" /\ writer'[a].batch = <<f>> /\ writer'[a].unresolved = {}
      /\ writer'[a].next = 1 /\ writer'[a].newFilms = {} /\ writer'[a].newDirectors = {}
      /\ writer'[a].skipped = {}
  BY <1>2 DEF Start
<1>4. writer'[a] \in WriterState
  BY <1>1, <1>2 DEF Start, WriterState, PlaceOf
<1>5. Resolved(a)'
  <2>1. Credits[f] # <<>>
    BY <1>1 DEF AskToAdd, Undirected
  <2> QED
    BY <1>3, <2>1 DEF Resolved
<1>6. InStatement(a)' /\ StatementDirector(a)' /\ HeldFilms(a)'
  BY <1>3 DEF InStatement, StatementDirector, HeldFilms
<1>7. AdminInv(a)'
  BY <1>3 DEF AdminInv
<1>8. WriterInv(a)'
  BY <1>1, <1>5, <1>6, <1>7 DEF WriterInv
<1> QED
  BY <1>1, <1>2, <1>3, <1>4, <1>8, OneWriter DEF IInv, TypeOK

LEMMA AnswerStep ==
  ASSUME IInv, NEW a \in Writer, Answer(a)
  PROVE  IInv'
<1>1. /\ writer'[a] = Start("idle", 0, <<>>, {}) /\ writer' = [writer EXCEPT ![a] = writer'[a]]
      /\ films' = films /\ directors' = directors /\ faults' = faults
  BY DEF Answer, Idle, tables, IInv, TypeOK
<1>2. writer'[a] \in WriterState /\ WriterInv(a)' /\ writer'[a].newDirectors = {}
  BY <1>1, StartFresh
<1> QED
  BY <1>1, <1>2, OneWriter DEF IInv, TypeOK
-----------------------------------------------------------------------------
(* The statements.                                                         *)
LEMMA BeginStatementStep ==
  ASSUME IInv, NEW w \in Writer, BeginStatement(w)
  PROVE  IInv'
<1> DEFINE d == DirectorOf(w, Current(w))
           here == directors \cup writer[w].newDirectors
<1>1. /\ writer[w] \in WriterState /\ writer[w].pc = "begin" /\ AtStatement(w) /\ WriterInv(w)
      /\ films' = films /\ directors' = directors /\ faults' = faults
      /\ writer' = [writer EXCEPT ![w] = writer'[w]]
      /\ writer'[w] = [writer[w] EXCEPT !.pc = "director", !.found = (d \in here)]
  BY DEF BeginStatement, tables, IInv, TypeOK
<1>2. /\ writer'[w].pc = "director" /\ writer'[w].found = (d \in here)
      /\ writer'[w].page = writer[w].page /\ writer'[w].batch = writer[w].batch
      /\ writer'[w].unresolved = writer[w].unresolved /\ writer'[w].next = writer[w].next
      /\ writer'[w].newFilms = writer[w].newFilms
      /\ writer'[w].newDirectors = writer[w].newDirectors
      /\ writer'[w].skipped = writer[w].skipped
  BY <1>1 DEF WriterState
<1>3. writer'[w] \in WriterState
  <2>1. PICK b \in BOOLEAN : writer'[w] = [writer[w] EXCEPT !.pc = "director", !.found = b]
    <3>1. (d \in here) \in BOOLEAN
      OBVIOUS
    <3> QED
      BY <1>1, <3>1, Zenon
  <2> QED
    BY <1>1, <2>1 DEF WriterState, PlaceOf
<1>4. AtStatement(w)' /\ DirectorOf(w, Current(w))' = d
  BY <1>1, <1>2 DEF AtStatement, Current, DirectorOf
<1> HIDE DEF d
<1>5. Resolved(w)' /\ InStatement(w)' /\ HeldFilms(w)'
  BY <1>1, <1>2, <1>4 DEF WriterInv, Resolved, InStatement, HeldFilms, DirectorOf
<1>6. StatementDirector(w)'
  BY <1>1, <1>2, <1>4 DEF StatementDirector
<1>7. w \in Admin => AdminInv(w)'
  <2> SUFFICES ASSUME w \in Admin PROVE AdminInv(w)'
    OBVIOUS
  <2>1. AdminInv(w) /\ Len(writer[w].batch) = 1 /\ writer[w].next = 1
    <3>1. AdminInv(w) /\ Len(writer[w].batch) = 1
      BY <1>1 DEF WriterInv, AdminInv
    <3>2. writer[w].next \in 1..1
      BY <1>1, <3>1 DEF AtStatement
    <3> QED
      BY <3>1, <3>2
  <2>2. writer[w].newFilms = {} /\ writer[w].newDirectors = {}
    BY <1>1, <2>1 DEF AdminInv
  <2> QED
    BY <1>1, <1>2, <2>1, <2>2 DEF AdminInv
<1>8. w \in Job => JobInv(w)'
  BY <1>1, <1>2 DEF WriterInv, JobInv, Writing
<1>9. WriterInv(w)'
  BY <1>5, <1>6, <1>7, <1>8 DEF WriterInv
<1> QED
  BY <1>1, <1>2, <1>3, <1>9, OneWriter DEF IInv, TypeOK, Exclusive

LEMMA InsertDirectorStep ==
  ASSUME IInv, NEW w \in Writer, InsertDirector(w)
  PROVE  IInv'
<1> DEFINE d == DirectorOf(w, Current(w))
           new == d \notin directors \cup writer[w].newDirectors
<1>1. /\ writer[w] \in WriterState /\ writer[w].pc = "director" /\ WriterInv(w)
      /\ d # ZeroDirector /\ ~Waits(w)
      /\ films' = films /\ directors' = directors /\ faults' = faults
      /\ writer' = [writer EXCEPT ![w] = writer'[w]]
      /\ writer'[w] = [writer[w] EXCEPT !.pc = "film", !.found = @ \/ new,
                                        !.newDirectors = IF new THEN @ \cup {d} ELSE @]
  BY DEF InsertDirector, Nameless, tables, IInv, TypeOK
<1>2. /\ writer'[w].pc = "film" /\ writer'[w].found = (writer[w].found \/ new)
      /\ writer'[w].page = writer[w].page /\ writer'[w].batch = writer[w].batch
      /\ writer'[w].unresolved = writer[w].unresolved /\ writer'[w].next = writer[w].next
      /\ writer'[w].newFilms = writer[w].newFilms
      /\ writer'[w].newDirectors =
           (IF new THEN writer[w].newDirectors \cup {d} ELSE writer[w].newDirectors)
      /\ writer'[w].skipped = writer[w].skipped
  BY <1>1 DEF WriterState
<1>3. AtStatement(w) /\ Current(w) \in Film
  BY <1>1 DEF WriterInv, InStatement, AtStatement, Current, WriterState
<1>4. d \in Director
  <2>1. Current(w) \notin writer[w].unresolved
    BY <1>1 DEF DirectorOf
  <2>2. Credits[Current(w)] # <<>>
    BY <1>1, <1>3, <2>1 DEF WriterInv, Resolved, AtStatement, Current, WriterState
  <2>3. Credits[Current(w)] \in Seq(Director)
    BY <1>3, CatalogSyncAssumption DEF CatalogSyncAssumption
  <2>4. Credits[Current(w)][1] \in Director
    BY <2>2, <2>3
  <2> QED
    BY <2>1, <2>4 DEF DirectorOf
<1>5. AtStatement(w)' /\ DirectorOf(w, Current(w))' = d
  BY <1>2, <1>3 DEF AtStatement, Current, DirectorOf
<1>6. \A x \in Writer \ {w} : d \notin writer[x].newDirectors
  BY <1>1, <1>3 DEF Waits, WaitsFor, HoldsDirector
<1>7. w \in Admin => AdminInv(w)'
  <2> SUFFICES ASSUME w \in Admin PROVE AdminInv(w)'
    OBVIOUS
  <2>1. AdminInv(w) /\ writer[w].next = 1
    BY <1>1 DEF WriterInv, AdminInv
  <2>2. writer[w].newFilms = {} /\ writer[w].newDirectors = {}
    BY <1>1, <2>1 DEF AdminInv
  <2>3. DirectorOf(w, writer[w].batch[1])' = d
    BY <1>5, <1>2, <2>1 DEF Current
  <2> QED
    BY <1>1, <1>2, <2>1, <2>2, <2>3 DEF AdminInv
<1> HIDE DEF d
<1>8. writer'[w] \in WriterState
  <2>1. PICK b \in BOOLEAN, D \in SUBSET Director :
          writer'[w] = [writer[w] EXCEPT !.pc = "film", !.found = b, !.newDirectors = D]
    <3>1. (writer[w].found \/ new) \in BOOLEAN
      OBVIOUS
    <3>2. (IF new THEN writer[w].newDirectors \cup {d} ELSE writer[w].newDirectors)
            \in SUBSET Director
      BY <1>1, <1>4 DEF WriterState
    <3> HIDE DEF new
    <3> QED
      BY <1>1, <3>1, <3>2
  <2> QED
    BY <1>1, <2>1 DEF WriterState, PlaceOf
<1>9. Resolved(w)' /\ InStatement(w)'
  BY <1>1, <1>2, <1>5 DEF WriterInv, Resolved, InStatement
<1>10. HeldFilms(w)'
  BY <1>1, <1>2 DEF WriterInv, HeldFilms, DirectorOf
<1>11. StatementDirector(w)'
  <2>1. /\ writer[w].found => d \in directors \cup writer[w].newDirectors
        /\ ~writer[w].found => d \notin writer[w].newDirectors
    BY <1>1 DEF WriterInv, StatementDirector, d
  <2>2. writer[w].found \in BOOLEAN
    BY <1>1 DEF WriterState
  <2> QED
    BY <1>1, <1>2, <1>5, <2>1, <2>2 DEF StatementDirector
<1>12. w \in Job => JobInv(w)'
  BY <1>1, <1>2 DEF WriterInv, JobInv, Writing
<1>13. WriterInv(w)'
  BY <1>7, <1>9, <1>10, <1>11, <1>12 DEF WriterInv
<1>14. writer'[w].newDirectors \cap directors' = {}
  BY <1>1, <1>2 DEF IInv, Exclusive
<1>15. \A e \in writer'[w].newDirectors :
         e \in writer[w].newDirectors \/ \A x \in Writer \ {w} : e \notin writer[x].newDirectors
  BY <1>2, <1>6
<1> QED
  BY <1>1, <1>8, <1>13, <1>14, <1>15, OneWriter DEF IInv, TypeOK

(* The end of a statement, with the film inserted, kept or left out.       *)
LEMMA NextStatementStep ==
  ASSUME IInv, NEW w \in Writer, AddFilm(w) \/ KeepFilm(w) \/ SkipFilm(w)
  PROVE  IInv'
<1> DEFINE f == Current(w)
<1>1. /\ writer[w] \in WriterState /\ writer[w].pc = "film" /\ WriterInv(w)
      /\ films' = films /\ directors' = directors /\ faults' = faults
      /\ writer' = [writer EXCEPT ![w] = writer'[w]]
  BY DEF AddFilm, KeepFilm, SkipFilm, NextStatement, tables, IInv, TypeOK
<1>2. AtStatement(w) /\ f \in Film /\ writer[w].found \in BOOLEAN
  BY <1>1 DEF WriterInv, InStatement, AtStatement, Current, WriterState
<1>3. /\ writer'[w] \in WriterState
      /\ writer'[w].pc = "begin" /\ writer'[w].next = writer[w].next + 1
      /\ writer'[w].page = writer[w].page /\ writer'[w].batch = writer[w].batch
      /\ writer'[w].unresolved = writer[w].unresolved
      /\ writer'[w].newDirectors = writer[w].newDirectors
      /\ \/ /\ writer[w].found
            /\ writer'[w].newFilms = writer[w].newFilms \cup {f}
            /\ writer'[w].skipped = writer[w].skipped
         \/ /\ w \in Job /\ writer[w].found /\ f \in films \cup writer[w].newFilms
            /\ writer'[w].newFilms = writer[w].newFilms
            /\ writer'[w].skipped = writer[w].skipped
         \/ /\ w \in Job /\ ~writer[w].found
            /\ writer'[w].newFilms = writer[w].newFilms
            /\ writer'[w].skipped = writer[w].skipped \cup {f}
  <2>0. writer[w].next + 1 \in Nat \ {0}
    BY <1>1 DEF WriterState
  <2>1. CASE AddFilm(w)
    <3>1. writer'[w] = [writer[w] EXCEPT !.newFilms = @ \cup {f}, !.pc = "begin", !.next = @ + 1]
      BY <1>1, <2>1 DEF AddFilm, NextStatement, WriterState, IInv, TypeOK
    <3>2. writer[w].found
      BY <2>1 DEF AddFilm
    <3> HIDE DEF f
    <3>3. writer'[w] \in WriterState
      <4>1. PICK F \in SUBSET Film, n \in Nat \ {0} :
              writer'[w] = [writer[w] EXCEPT !.newFilms = F, !.pc = "begin", !.next = n]
        <5>1. writer[w].newFilms \cup {f} \in SUBSET Film
          BY <1>1, <1>2 DEF WriterState
        <5> QED
          BY <2>0, <3>1, <5>1
      <4> QED
        BY <1>1, <4>1 DEF WriterState, PlaceOf
    <3> QED
      BY <1>1, <3>1, <3>2, <3>3 DEF WriterState
  <2>2. CASE KeepFilm(w)
    <3>1. writer'[w] = [writer[w] EXCEPT !.pc = "begin", !.next = @ + 1]
      BY <1>1, <2>2 DEF KeepFilm, NextStatement, WriterState, IInv, TypeOK
    <3>2. w \in Job /\ writer[w].found /\ f \in films \cup writer[w].newFilms
      BY <2>2 DEF KeepFilm
    <3> HIDE DEF f
    <3>3. writer'[w] \in WriterState
      BY <1>1, <2>0, <3>1 DEF WriterState, PlaceOf
    <3> QED
      BY <1>1, <3>1, <3>2, <3>3 DEF WriterState
  <2>3. CASE SkipFilm(w)
    <3>1. writer'[w] = [writer[w] EXCEPT !.skipped = @ \cup {f}, !.pc = "begin", !.next = @ + 1]
      BY <1>1, <2>3 DEF SkipFilm, NextStatement, WriterState, IInv, TypeOK
    <3>2. w \in Job /\ ~writer[w].found
      BY <2>3 DEF SkipFilm
    <3> HIDE DEF f
    <3>3. writer'[w] \in WriterState
      <4>1. PICK F \in SUBSET Film, n \in Nat \ {0} :
              writer'[w] = [writer[w] EXCEPT !.skipped = F, !.pc = "begin", !.next = n]
        <5>1. writer[w].skipped \cup {f} \in SUBSET Film
          BY <1>1, <1>2 DEF WriterState
        <5> QED
          BY <2>0, <3>1, <5>1
      <4> QED
        BY <1>1, <4>1 DEF WriterState, PlaceOf
    <3> QED
      BY <1>1, <3>1, <3>2, <3>3 DEF WriterState
  <2> QED
    BY <2>1, <2>2, <2>3
<1>4. Resolved(w)' /\ InStatement(w)' /\ StatementDirector(w)'
  BY <1>1, <1>3 DEF WriterInv, Resolved, InStatement, StatementDirector
<1>5. HeldFilms(w)'
  <2>1. DirectorOf(w, f) # ZeroDirector
    BY <1>1 DEF WriterInv, StatementDirector
  <2>2. f \notin writer[w].unresolved /\ DirectorOf(w, f) = Credits[f][1]
    BY <2>1 DEF DirectorOf
  <2>3. writer[w].found => Credits[f][1] \in directors \cup writer[w].newDirectors
    BY <1>1, <2>2 DEF WriterInv, StatementDirector
  <2>4. ~writer[w].found => DirectorOf(w, f) \in directors
    BY <1>1 DEF WriterInv, StatementDirector
  <2> HIDE DEF f
  <2>5. \A g \in writer'[w].newFilms :
          /\ g \notin writer'[w].unresolved
          /\ Credits[g][1] \in directors' \cup writer'[w].newDirectors
    BY <1>1, <1>3, <2>2, <2>3 DEF WriterInv, HeldFilms
  <2>6. ASSUME NEW g \in writer'[w].skipped
        PROVE  (IF g \in writer'[w].unresolved THEN ZeroDirector ELSE Credits[g][1]) \in directors'
    BY <1>1, <1>3, <2>4 DEF WriterInv, HeldFilms, DirectorOf
  <2> QED
    BY <2>5, <2>6 DEF HeldFilms, DirectorOf
<1>6. w \in Admin => AdminInv(w)'
  <2> SUFFICES ASSUME w \in Admin PROVE AdminInv(w)'
    OBVIOUS
  <2>1. AdminInv(w) /\ writer[w].next = 1 /\ w \notin Job
    BY <1>1, CatalogSyncAssumption DEF WriterInv, AdminInv, CatalogSyncAssumption
  <2>2. writer[w].newFilms = {}
    BY <1>1, <2>1 DEF AdminInv
  <2>3. DirectorOf(w, writer[w].batch[1])' = DirectorOf(w, writer[w].batch[1])
    BY <1>3 DEF DirectorOf
  <2>4. f = writer[w].batch[1]
    BY <2>1 DEF Current
  <2> HIDE DEF f
  <2> QED
    BY <1>1, <1>3, <2>1, <2>2, <2>3, <2>4 DEF AdminInv
<1>7. w \in Job => JobInv(w)'
  <2> SUFFICES ASSUME w \in Job PROVE JobInv(w)'
    OBVIOUS
  <2>1. JobInv(w) /\ writer[w].pc \in Writing /\ writer'[w].pc \in Writing
    BY <1>1, <1>3 DEF WriterInv, Writing
  <2>2. writer[w].next \in DOMAIN writer[w].batch /\ writer[w].batch[writer[w].next] = f
    BY <1>1, <1>2 DEF AtStatement, Current, WriterState
  <2> HIDE DEF f
  <2>3. \A g \in writer'[w].newFilms : \E i \in DOMAIN writer[w].batch : writer[w].batch[i] = g
    BY <1>3, <2>1, <2>2 DEF JobInv
  <2>4. ASSUME NEW i \in DOMAIN writer[w].batch, i < writer[w].next + 1
        PROVE  writer[w].batch[i] \in films \cup writer'[w].newFilms \cup writer'[w].skipped
    <3>1. i \in Nat /\ writer[w].next \in Nat
      BY <1>1 DEF WriterState
    <3>2. i < writer[w].next \/ i = writer[w].next
      BY <2>4, <3>1
    <3> QED
      BY <1>3, <2>1, <2>2, <3>2 DEF JobInv
  <2> QED
    BY <1>1, <1>3, <2>1, <2>3, <2>4 DEF JobInv
<1>8. WriterInv(w)'
  BY <1>4, <1>5, <1>6, <1>7 DEF WriterInv
<1> QED
  BY <1>1, <1>3, <1>8, OneWriter DEF IInv, TypeOK, Exclusive

LEMMA AlreadyThereStep ==
  ASSUME IInv, NEW a \in Writer, AlreadyThere(a)
  PROVE  IInv'
<1>1. /\ writer[a] \in WriterState /\ writer[a].pc = "film" /\ WriterInv(a)
      /\ films' = films /\ directors' = directors /\ faults' = faults
      /\ writer' = [writer EXCEPT ![a] = writer'[a]]
      /\ writer'[a] = [writer[a] EXCEPT !.pc = "already", !.newDirectors = {}]
      /\ a \in Admin /\ a \notin Job
  BY CatalogSyncAssumption DEF AlreadyThere, tables, IInv, TypeOK, CatalogSyncAssumption
<1>2. AdminInv(a) /\ writer[a].next = 1 /\ writer[a].newFilms = {} /\ writer[a].batch[1] \in films
  BY <1>1 DEF WriterInv, AdminInv, AlreadyThere, Current
<1>3. /\ writer'[a] \in WriterState
      /\ writer'[a].pc = "already" /\ writer'[a].batch = writer[a].batch
      /\ writer'[a].unresolved = writer[a].unresolved /\ writer'[a].newFilms = {}
      /\ writer'[a].newDirectors = {} /\ writer'[a].skipped = writer[a].skipped
  BY <1>1, <1>2 DEF WriterState, PlaceOf
<1>4. WriterInv(a)'
  <2>1. Resolved(a)' /\ InStatement(a)' /\ StatementDirector(a)' /\ HeldFilms(a)'
    BY <1>1, <1>3 DEF WriterInv, Resolved, InStatement, StatementDirector, HeldFilms, DirectorOf
  <2>2. AdminInv(a)'
    BY <1>1, <1>2, <1>3 DEF AdminInv
  <2> QED
    BY <1>1, <2>1, <2>2 DEF WriterInv
<1> QED
  BY <1>1, <1>3, <1>4, OneWriter DEF IInv, TypeOK
-----------------------------------------------------------------------------
(* The ends of a transaction.                                              *)
LEMMA PublishStep ==
  ASSUME IInv, NEW w \in Writer, Publish(w),
         writer' = [writer EXCEPT ![w] = writer'[w]], writer'[w] \in WriterState,
         writer'[w].newDirectors = {}, WriterInv(w)', faults' \in Nat
  PROVE  IInv'
<1>1. writer[w].newFilms \subseteq Film /\ writer[w].newDirectors \subseteq Director
  BY DEF IInv, TypeOK, WriterState
<1>2. films' \in SUBSET Film /\ films \subseteq films' /\ directors' \in SUBSET Director
  BY <1>1 DEF Publish, IInv, TypeOK
<1> QED
  BY <1>2, OneWriter DEF Publish

LEMMA CommitOverStep ==
  ASSUME IInv, NEW w \in Writer, CommitPage(w) \/ CommitUnheard(w)
  PROVE  IInv'
<1>1. /\ Publish(w) /\ writer'[w] = Over(w) /\ writer' = [writer EXCEPT ![w] = writer'[w]]
      /\ faults' \in Nat
  BY DEF CommitPage, CommitUnheard, Fault, IInv, TypeOK
<1> QED
  BY <1>1, OverFresh, PublishStep

(* An admin's transaction has one film to publish. *)
LEMMA ReadyAdmin ==
  ASSUME IInv, NEW a \in Admin, Ready(a)
  PROVE  writer[a].newFilms = {writer[a].batch[1]}
<1>1. a \in Writer /\ writer[a] \in WriterState /\ AdminInv(a)
  BY DEF Writer, IInv, TypeOK, WriterInv
<1>2. writer[a].next = 2
  <2>1. Len(writer[a].batch) = 1 /\ writer[a].next \in {1, 2}
    BY <1>1 DEF Ready, AdminInv
  <2>2. writer[a].next \notin 1..1
    BY <2>1 DEF Ready, AtStatement
  <2> QED
    BY <2>1, <2>2
<1> QED
  BY <1>1, <1>2 DEF Ready, AdminInv

LEMMA CommitFilmStep ==
  ASSUME IInv, NEW a \in Writer, CommitFilm(a)
  PROVE  IInv'
<1>1. /\ writer[a] \in WriterState /\ WriterInv(a) /\ Publish(a) /\ faults' = faults
      /\ a \in Admin /\ a \notin Job /\ Ready(a)
      /\ writer' = [writer EXCEPT ![a] = writer'[a]]
      /\ writer'[a] = [writer[a] EXCEPT !.pc = "added", !.newFilms = {}, !.newDirectors = {}]
  BY CatalogSyncAssumption DEF CommitFilm, IInv, TypeOK, CatalogSyncAssumption
<1>2. /\ writer'[a] \in WriterState
      /\ writer'[a].pc = "added" /\ writer'[a].batch = writer[a].batch
      /\ writer'[a].unresolved = writer[a].unresolved /\ writer'[a].newFilms = {}
      /\ writer'[a].newDirectors = {} /\ writer'[a].skipped = writer[a].skipped
  BY <1>1 DEF WriterState, PlaceOf
<1>3. AdminInv(a) /\ writer[a].batch[1] \in films'
  BY <1>1, ReadyAdmin DEF WriterInv, Publish
<1>4. WriterInv(a)'
  <2>1. Resolved(a)' /\ InStatement(a)' /\ StatementDirector(a)'
    BY <1>1, <1>2 DEF WriterInv, Resolved, InStatement, StatementDirector
  <2>2. HeldFilms(a)'
    BY <1>1, <1>2 DEF WriterInv, HeldFilms, DirectorOf, Publish
  <2>3. AdminInv(a)'
    BY <1>1, <1>2, <1>3 DEF AdminInv, Ready
  <2> QED
    BY <1>1, <2>1, <2>2, <2>3 DEF WriterInv
<1> QED
  BY <1>1, <1>2, <1>4, PublishStep DEF IInv, TypeOK

-----------------------------------------------------------------------------
LEMMA CatalogStep == IInv /\ [Next]_vars => IInv'
<1> SUFFICES ASSUME IInv, [Next]_vars PROVE IInv'
  OBVIOUS
<1>0. faults \in Nat /\ (Fault => faults' \in Nat)
  BY DEF IInv, TypeOK, Fault
<1>1. ASSUME NEW w \in Writer, Step(w) PROVE IInv'
  <2>1. CASE Sync(w)
    BY <2>1, SyncStep
  <2>2. CASE FetchPage(w)
    <3>1. Undirected \in SUBSET Film
      BY DEF Undirected
    <3> QED
      BY <1>0, <2>2, <3>1, FetchedStep DEF FetchPage
  <2>3. CASE Statement(w)
    <3>1. CASE BeginStatement(w)
      BY <3>1, BeginStatementStep
    <3>2. CASE InsertDirector(w)
      BY <3>2, InsertDirectorStep
    <3>3. CASE AddFilm(w) \/ KeepFilm(w) \/ SkipFilm(w)
      BY <3>3, NextStatementStep
    <3>4. CASE NoSuchName(w) \/ RowRefused(w) \/ AddRefused(w)
      BY <1>0, <3>4, GiveUpStep DEF NoSuchName, RowRefused, AddRefused
    <3>5. CASE AlreadyThere(w)
      BY <3>5, AlreadyThereStep
    <3> QED
      BY <2>3, <3>1, <3>2, <3>3, <3>4, <3>5 DEF Statement
  <2>4. CASE CommitPage(w)
    BY <2>4, CommitOverStep
  <2>5. CASE CommitFilm(w)
    BY <2>5, CommitFilmStep
  <2>6. CASE Answer(w)
    BY <2>6, AnswerStep
  <2> QED
    BY <1>1, <2>1, <2>2, <2>3, <2>4, <2>5, <2>6 DEF Step
<1>2. ASSUME NEW w \in Writer, DeadlockAbort(w) PROVE IInv'
  BY <1>0, <1>2, GiveUpStep DEF DeadlockAbort
<1>3. ASSUME NEW w \in Writer, Failure(w) PROVE IInv'
  <2>1. CASE FetchPageWithoutCredits(w)
    <3>1. \A f \in Film : Undirected \cup {f} \in SUBSET Film
      BY DEF Undirected
    <3> QED
      BY <1>0, <2>1, <3>1, FetchedStep DEF FetchPageWithoutCredits
  <2>2. CASE FetchFails(w) \/ WriterFails(w)
    BY <1>0, <2>2, GiveUpStep DEF FetchFails, WriterFails
  <2>3. CASE CommitUnheard(w)
    BY <2>3, CommitOverStep
  <2> QED
    BY <1>3, <2>1, <2>2, <2>3 DEF Failure
<1>4. ASSUME NEW a \in Admin, NEW f \in Addable, AskToAdd(a, f) PROVE IInv'
  BY <1>4, AskToAddStep
<1>5. CASE UNCHANGED vars
  <2>1. films' = films /\ directors' = directors /\ writer' = writer /\ faults' = faults
    BY <1>5 DEF vars, tables
  <2>2. \A w \in Writer : WriterInv(w)'
    BY <2>1, OtherWriters DEF IInv
  <2> QED
    BY <2>1, <2>2 DEF IInv, TypeOK, Exclusive
<1> QED
  BY <1>1, <1>2, <1>3, <1>4, <1>5, CrashStep DEF Next

LEMMA CatalogInvariant == Spec => []IInv
<1> QED
  BY CatalogInit, CatalogStep, PTL DEF Spec

(* A film that a page leaves out has its director in the catalogue, for    *)
(* every page, every order of the statements and every failure.            *)
THEOREM CatalogSkippedForOnce == Spec => []SkippedForOnce
<1>1. IInv => SkippedForOnce
  BY DEF IInv, WriterInv, HeldFilms, SkippedForOnce, Writer
<1> QED
  BY <1>1, CatalogInvariant, PTL

(* An admin's request that waits holds nothing: neither a page nor another *)
(* admin can be waiting for it.  The film it waits for has its director    *)
(* with the transaction that inserted it, which this one cannot have       *)
(* inserted too (Exclusive).                                               *)
LEMMA EmptyHanded == IInv => AddsWaitEmptyHanded
<1>1. IInv => AddsWaitEmptyHanded
  <2> SUFFICES ASSUME IInv, NEW a \in Admin, NEW h \in Writer, WaitsFor(a, h)
               PROVE  writer[a].newFilms = {} /\ writer[a].newDirectors = {}
    BY Zenon DEF AddsWaitEmptyHanded, Waits
  <2>1. a \in Writer /\ AdminInv(a) /\ WriterInv(h) /\ writer[a] \in WriterState
    BY DEF IInv, WriterInv, Writer, TypeOK
  <2>2. writer[a].pc \in {"director", "film"} /\ writer[a].next = 1 /\ writer[a].newFilms = {}
    BY <2>1 DEF WaitsFor, AdminInv
  <2>3. writer[a].unresolved = {} /\ Current(a) = writer[a].batch[1]
    BY <2>1, <2>2 DEF AdminInv, Current
  <2>4. CASE writer[a].pc = "director"
    BY <2>1, <2>4 DEF AdminInv
  <2>5. CASE Holds(h, Current(a))
    <3> DEFINE d == Credits[Current(a)][1]
    <3>1. d \in directors \cup writer[h].newDirectors
      BY <2>1, <2>5 DEF WriterInv, HeldFilms, Holds
    <3>2. writer[a].newDirectors # {} => writer[a].newDirectors = {d}
      BY <2>1, <2>3 DEF AdminInv, DirectorOf
    <3>3. a # h
      BY DEF WaitsFor
    <3>4. /\ writer[a].newDirectors \cap directors = {}
          /\ writer[a].newDirectors \cap writer[h].newDirectors = {}
      BY <2>1, <3>3 DEF IInv, Exclusive
    <3> QED
      BY <2>2, <3>1, <3>2, <3>4
  <2> QED
    BY <2>4, <2>5 DEF WaitsFor
<1> QED
  BY <1>1

(* An admin's request that waits holds no key, in any race.                *)
THEOREM CatalogAddsWaitEmptyHanded == Spec => []AddsWaitEmptyHanded
BY EmptyHanded, CatalogInvariant, PTL

(* Hence no deadlock has an admin's request in it: deadlock_timeout rolls  *)
(* back pages, never the film of an admin.                                 *)
THEOREM CatalogOnlyPagesDeadlock == Spec => [](\A a \in Admin : ~Deadlocked(a))
<1>1. IInv => \A a \in Admin : ~Deadlocked(a)
  <2> SUFFICES ASSUME IInv, NEW a \in Admin, Deadlocked(a) PROVE FALSE
    OBVIOUS
  <2>1. PICK h \in Writer, v \in Writer : WaitsFor(a, h) /\ WaitsFor(v, a)
    BY DEF Deadlocked
  <2>2. writer[a].newFilms = {} /\ writer[a].newDirectors = {}
    BY <2>1, EmptyHanded DEF AddsWaitEmptyHanded, Waits
  <2> QED
    BY <2>1, <2>2 DEF WaitsFor, Holds, HoldsDirector
<1> QED
  BY <1>1, CatalogInvariant, PTL

(* Added or already in the catalog: either way the film is there.          *)
THEOREM CatalogAnswersTrue == Spec => []AnswersTrue
<1>1. IInv => AnswersTrue
  BY DEF IInv, WriterInv, AdminInv, AnswersTrue, Writer
<1> QED
  BY <1>1, CatalogInvariant, PTL

(* Pages get in whole: the films of a page that commits are those listed   *)
(* with a date, but for the ones it left out.                              *)
LEMMA WholePage ==
  ASSUME IInv, NEW j \in Job, Ready(j)
  PROVE  /\ writer[j].page # 0
         /\ films \cup writer[j].newFilms = films \cup (Page(j, writer[j].page) \ LeftOut(j))
<1> DEFINE page == writer[j].page
           batch == writer[j].batch
<1>1. j \in Writer /\ writer[j] \in WriterState /\ JobInv(j) /\ writer[j].pc \in Writing
  BY DEF IInv, TypeOK, WriterInv, Writer, Ready, Writing
<1>2. page \in 1..LastPage /\ batch = Dated(Listing[j][page])
  BY <1>1 DEF JobInv, Writing
<1>3. Listing[j][page] \in Seq(Film)
  <2>1. Listing[j] \in [1..LastPage -> Seq(Film)]
    BY CatalogSyncAssumption DEF CatalogSyncAssumption
  <2> QED
    BY <1>2, <2>1
<1>4. Page(j, page) = {batch[i] : i \in DOMAIN batch}
  BY <1>2, <1>3, DatedFilms DEF Page
<1>5. batch \in Seq(Film) /\ writer[j].next \in Nat \ {0}
  BY <1>1 DEF WriterState
<1>6. \A i \in DOMAIN batch : i < writer[j].next
  <2>1. writer[j].next \notin 1..Len(batch)
    BY DEF Ready, AtStatement
  <2> HIDE DEF batch
  <2> QED
    BY <1>5, <2>1
<1>7. \A i \in DOMAIN batch : batch[i] \in films \cup writer[j].newFilms \cup writer[j].skipped
  BY <1>1, <1>6 DEF JobInv
<1>8. writer[j].newFilms \subseteq Page(j, page)
  BY <1>1, <1>4 DEF JobInv
<1>9. Page(j, page) \subseteq films \cup writer[j].newFilms \cup writer[j].skipped
  BY <1>4, <1>7
<1> HIDE DEF page
<1>10. films \cup writer[j].newFilms = films \cup (Page(j, page) \ LeftOut(j))
  BY <1>8, <1>9 DEF LeftOut
<1> QED
  BY <1>2, <1>10 DEF LastPage, page

(* The tables change when a transaction commits, and in no other step.     *)
LEMMA TablesStep ==
  ASSUME IInv, [Next]_vars
  PROVE  UNCHANGED tables \/ \E w \in Writer : Ready(w) /\ Publish(w) /\ writer'[w].newFilms = {}
<1>1. \A w \in Writer : writer[w] \in WriterState
  BY DEF IInv, TypeOK
<1>2. ASSUME NEW w \in Writer, CommitPage(w) \/ CommitUnheard(w)
      PROVE  Ready(w) /\ Publish(w) /\ writer'[w].newFilms = {}
  BY <1>1, <1>2 DEF CommitPage, CommitUnheard, Over, Start, Idle, IInv, TypeOK
<1>3. ASSUME NEW w \in Writer, CommitFilm(w)
      PROVE  Ready(w) /\ Publish(w) /\ writer'[w].newFilms = {}
  BY <1>1, <1>3 DEF CommitFilm, WriterState, IInv, TypeOK
<1> QED
  BY <1>2, <1>3 DEF Next, Step, Statement, Failure, Sync, FetchPage, FetchPageWithoutCredits,
     FetchFails, AskToAdd, BeginStatement, InsertDirector, NoSuchName, AddFilm, KeepFilm,
     RowRefused, SkipFilm, AddRefused, AlreadyThere, Answer, WriterFails, DeadlockAbort, Crash,
     GiveUp, tables, vars

(* The films table grows by whole pages or by the film of one admin.       *)
THEOREM CatalogGrowsByPages == Spec => GrowsByPages
<1> DEFINE Grows ==
      films' # films =>
        \/ \E j \in Job : /\ writer[j].page # 0
                          /\ films' = films \cup (Page(j, writer[j].page) \ LeftOut(j))
        \/ \E a \in Admin : writer[a].batch # <<>> /\ films' = films \cup {writer[a].batch[1]}
<1>1. ASSUME IInv, [Next]_vars PROVE Grows
  <2> SUFFICES ASSUME films' # films
               PROVE  \/ \E j \in Job :
                           /\ writer[j].page # 0
                           /\ films' = films \cup (Page(j, writer[j].page) \ LeftOut(j))
                      \/ \E a \in Admin :
                           writer[a].batch # <<>> /\ films' = films \cup {writer[a].batch[1]}
    OBVIOUS
  <2>1. PICK w \in Writer : Ready(w) /\ films' = films \cup writer[w].newFilms
    BY <1>1, TablesStep DEF Publish, tables
  <2>2. CASE w \in Job
    BY <1>1, <2>1, <2>2, WholePage
  <2>3. CASE w \in Admin
    <3>1. Len(writer[w].batch) = 1
      BY <1>1, <2>1, <2>3 DEF IInv, WriterInv, AdminInv, Ready
    <3> QED
      BY <1>1, <2>1, <2>3, <3>1, ReadyAdmin
  <2> QED
    BY <2>2, <2>3 DEF Writer
<1>2. IInv /\ [Next]_vars => [Grows]_vars
  BY <1>1
<1> QED
  BY <1>2, CatalogInvariant, PTL DEF Spec, GrowsByPages
-----------------------------------------------------------------------------
(* Who waits for whom, and no wait without an end.                         *)
(* In a finite set each of whose members points at a member there is a     *)
(* circle: the smallest such set, in which nobody is without an arrow to   *)
(* him, or the set without him would be smaller.                           *)
LEMMA CircleExists ==
  ASSUME NEW S, IsFiniteSet(S), S # {}, NEW R, \A s \in S : \E h \in S : <<s, h>> \in R
  PROVE  \E C \in SUBSET S :
           /\ C # {}
           /\ \A c \in C : (\E h \in C : <<c, h>> \in R) /\ (\E v \in C : <<v, c>> \in R)
<1> DEFINE G == {C \in SUBSET S : C # {} /\ \A c \in C : \E h \in C : <<c, h>> \in R}
           T == {Cardinality(C) : C \in G}
<1>1. S \in G
  OBVIOUS
<1>2. \A C \in G : IsFiniteSet(C) /\ Cardinality(C) \in Nat
  BY FS_Subset, FS_CardinalityType
<1>3. PICK C \in G : \A D \in G : ~(Cardinality(D) < Cardinality(C))
  <2>1. T \in SUBSET Nat /\ T # {}
    BY <1>1, <1>2
  <2>2. PICK x \in T : \A y \in T : ~(y < x)
    <3> HIDE DEF T
    <3> QED
      BY <2>1, LeastNumber
  <2> HIDE DEF G
  <2>3. PICK C \in G : x = Cardinality(C)
    BY <2>2
  <2> QED
    BY <2>2, <2>3
<1>4. ASSUME NEW c \in C, \A v \in C : <<v, c>> \notin R PROVE FALSE
  <2> DEFINE D == C \ {c}
  <2>1. \A d \in C : \E h \in D : <<d, h>> \in R
    BY <1>3, <1>4
  <2>2. D \in G
    BY <2>1
  <2>3. Cardinality(D) = Cardinality(C) - 1
    BY <1>2, <1>3, FS_RemoveElement
  <2> QED
    BY <1>2, <1>3, <2>2, <2>3
<1> QED
  BY <1>3, <1>4

(* Those a writer waits for, directly or through others that wait.         *)
ClosedUnderWaiting(S) == \A v \in S, h \in Writer : WaitsFor(v, h) => h \in S

Ahead(w) == {h \in Writer : \A S \in SUBSET Writer : w \in S /\ ClosedUnderWaiting(S) => h \in S}

(* A transaction that holds a key somebody may be waiting for.             *)
HoldsKeys(h) == writer[h].newFilms \cup writer[h].newDirectors # {}

WaitsEnd ==
  \A w \in Writer : Waits(w) => \E h \in Ahead(w) : HoldsKeys(h) /\ (~Waits(h) \/ Deadlocked(h))

(* A transaction can go on when one of its statements, or its commit, can: *)
(* their guards, one after the other.                                      *)
CanGoOn(w) ==
  \/ writer[w].pc = "begin" /\ AtStatement(w)
  \/ writer[w].pc = "director" /\ DirectorOf(w, Current(w)) \in Nameless
  \/ writer[w].pc = "director" /\ DirectorOf(w, Current(w)) \notin Nameless /\ ~Waits(w)
  \/ /\ writer[w].pc = "film" /\ writer[w].found /\ ~Waits(w)
     /\ Current(w) \notin films \cup writer[w].newFilms \cup Refused
  \/ w \in Job /\ writer[w].pc = "film" /\ writer[w].found /\ Current(w) \in Refused
  \/ /\ w \in Job /\ writer[w].pc = "film" /\ writer[w].found
     /\ Current(w) \in (films \cup writer[w].newFilms) \ Refused
  \/ w \in Job /\ writer[w].pc = "film" /\ ~writer[w].found
  \/ /\ w \in Admin /\ writer[w].pc = "film" /\ ~Waits(w)
     /\ ~writer[w].found \/ Current(w) \in Refused
  \/ w \in Admin /\ writer[w].pc = "film" /\ writer[w].found /\ Current(w) \in films \ Refused
  \/ Ready(w)

(* A writer that waits has, at the end of some chain of waits, one that    *)
(* holds keys and either can go on or is in a circle that Postgres breaks. *)
NobodyHangs ==
  \A w \in Writer :
    Waits(w) => \E h \in Ahead(w) : HoldsKeys(h) /\ (CanGoOn(h) \/ Deadlocked(h))

LEMMA AheadClosed ==
  ASSUME NEW w \in Writer
  PROVE  w \in Ahead(w) /\ ClosedUnderWaiting(Ahead(w))
BY DEF Ahead, ClosedUnderWaiting

(* Whoever is waited for holds a key, and has a statement or a commit to   *)
(* come.                                                                   *)
LEMMA WaitedForHolds ==
  ASSUME NEW v \in Writer, NEW h \in Writer, WaitsFor(v, h)
  PROVE  HoldsKeys(h)
BY DEF WaitsFor, Holds, HoldsDirector, HoldsKeys

LEMMA EveryWaitEnds == WaitsEnd
<1> SUFFICES ASSUME NEW w \in Writer, Waits(w),
                    \A h \in Ahead(w) : HoldsKeys(h) => Waits(h) /\ ~Deadlocked(h)
             PROVE  FALSE
  BY DEF WaitsEnd
<1> DEFINE A == {h \in Ahead(w) : HoldsKeys(h)}
           R == {e \in Writer \X Writer : WaitsFor(e[1], e[2])}
<1>1. A \subseteq Writer /\ IsFiniteSet(A)
  BY CatalogSyncAssumption, FS_Subset DEF CatalogSyncAssumption, Writer, Ahead
<1>2. \A v, h \in Writer : <<v, h>> \in R <=> WaitsFor(v, h)
  OBVIOUS
<1>3. ASSUME NEW v \in Ahead(w), Waits(v) PROVE \E h \in A : WaitsFor(v, h)
  <2>1. PICK h \in Writer : WaitsFor(v, h)
    BY <1>3 DEF Waits
  <2>2. v \in Writer
    BY DEF Ahead
  <2> QED
    BY <2>1, <2>2, AheadClosed, WaitedForHolds DEF ClosedUnderWaiting
<1>4. A # {}
  BY <1>3, AheadClosed
<1>5. \A v \in A : \E h \in A : <<v, h>> \in R
  BY <1>1, <1>2, <1>3
<1> HIDE DEF A, R
<1>6. PICK C \in SUBSET A :
        /\ C # {}
        /\ \A c \in C : (\E h \in C : <<c, h>> \in R) /\ (\E v \in C : <<v, c>> \in R)
  BY <1>1, <1>4, <1>5, CircleExists, Zenon
<1>7. PICK c \in C : TRUE
  BY <1>6
<1>8. Deadlocked(c)
  <2>1. C \in SUBSET Writer
    BY <1>1, <1>6
  <2>2. \A d \in C : (\E h \in C : WaitsFor(d, h)) /\ (\E v \in C : WaitsFor(v, d))
    BY <1>2, <1>6, <2>1
  <2> QED
    BY <1>7, <2>1, <2>2 DEF Deadlocked
<1> QED
  BY <1>6, <1>7, <1>8 DEF A

(* A job's page has no film without a date, and an admin's transaction     *)
(* inserts one film: what neither AddFilm nor any other statement would    *)
(* take does not come up.                                                  *)
LEMMA GoesOnUnlessWaiting ==
  ASSUME IInv, NEW w \in Writer, writer[w].pc \in Writing, ~Waits(w)
  PROVE  CanGoOn(w)
<1>1. writer[w] \in WriterState /\ WriterInv(w)
  BY DEF IInv, TypeOK
<1>2. CASE writer[w].pc \in {"begin", "director"}
  BY <1>2 DEF CanGoOn, Ready
<1>3. CASE writer[w].pc = "film"
  <2>1. CASE w \in Job
    BY <1>3, <2>1 DEF CanGoOn
  <2>2. CASE w \in Admin
    <3>1. writer[w].newFilms = {}
      BY <1>1, <1>3, <2>2 DEF WriterInv, AdminInv
    <3> QED
      BY <1>3, <2>2, <3>1 DEF CanGoOn
  <2> QED
    BY <2>1, <2>2 DEF Writer
<1> QED
  BY <1>2, <1>3 DEF Writing

(* No wait is without an end: however many pages and films are written at  *)
(* once, a writer that waits has, at the end of some chain of waits, a     *)
(* transaction with keys that a statement or its commit takes on, or that  *)
(* deadlock_timeout may roll back.  It is what the fairness of the run     *)
(* that checks PagesGetIn rests on.                                        *)
THEOREM CatalogNobodyHangs == Spec => []NobodyHangs
<1>1. IInv => NobodyHangs
  <2> SUFFICES ASSUME IInv, NEW w \in Writer, Waits(w)
               PROVE  \E h \in Ahead(w) : HoldsKeys(h) /\ (CanGoOn(h) \/ Deadlocked(h))
    BY DEF NobodyHangs
  <2>1. PICK h \in Ahead(w) : HoldsKeys(h) /\ (~Waits(h) \/ Deadlocked(h))
    BY EveryWaitEnds DEF WaitsEnd
  <2>2. h \in Writer /\ WriterInv(h) /\ writer[h] \in WriterState
    BY DEF IInv, TypeOK, Ahead
  <2>3. writer[h].pc \in Writing
    <3>1. CASE h \in Admin
      BY <2>1, <2>2, <3>1 DEF WriterInv, AdminInv, HoldsKeys, Writing
    <3>2. CASE h \in Job
      BY <2>1, <2>2, <3>2 DEF WriterInv, JobInv, HoldsKeys, Writing
    <3> QED
      BY <2>2, <3>1, <3>2 DEF Writer
  <2> QED
    BY <2>1, <2>2, <2>3, GoesOnUnlessWaiting
<1> QED
  BY <1>1, CatalogInvariant, PTL

-----------------------------------------------------------------------------
(* What the two tables promise their readers.                              *)
(* A film is in the catalogue with the director that the first of TMDB's   *)
(* credits names: the director was committed before, or with it.           *)
FilmsHaveDirectors == \A f \in films : Credits[f] # <<>> /\ Credits[f][1] \in directors

(* A film that a transaction has inserted is of its batch.                 *)
LEMMA InsertedCredited ==
  ASSUME IInv, NEW w \in Writer, NEW f \in writer[w].newFilms
  PROVE  Credits[f] # <<>> /\ Credits[f][1] \in directors \cup writer[w].newDirectors
<1>1. WriterInv(w)
  BY DEF IInv
<1>2. f \notin writer[w].unresolved /\ Credits[f][1] \in directors \cup writer[w].newDirectors
  BY <1>1 DEF WriterInv, HeldFilms
<1>3. \E i \in DOMAIN writer[w].batch : writer[w].batch[i] = f
  <2>1. CASE w \in Job
    BY <1>1, <2>1 DEF WriterInv, JobInv
  <2>2. CASE w \in Admin
    <3>1. Len(writer[w].batch) = 1 /\ writer[w].newFilms = {writer[w].batch[1]}
      BY <1>1, <2>2 DEF WriterInv, AdminInv
    <3>2. writer[w].batch \in Seq(Film)
      BY DEF IInv, TypeOK, WriterState
    <3> QED
      BY <3>1, <3>2
  <2> QED
    BY <2>1, <2>2 DEF Writer
<1> QED
  BY <1>1, <1>2, <1>3 DEF WriterInv, Resolved

(* Every film of the catalogue has its director there, whatever order the  *)
(* statements of pages and admins come in and whichever of their           *)
(* transactions roll back.                                                 *)
THEOREM CatalogFilmsHaveDirectors == Spec => []FilmsHaveDirectors
<1>1. Init => FilmsHaveDirectors
  BY DEF Init, FilmsHaveDirectors
<1>2. IInv /\ FilmsHaveDirectors /\ [Next]_vars => FilmsHaveDirectors'
  BY TablesStep, InsertedCredited DEF FilmsHaveDirectors, Publish, tables
<1> QED
  BY <1>1, <1>2, CatalogInvariant, PTL DEF Spec

(* A key is inserted by one open transaction, and none that the table has: *)
(* no commit meets the unique index.                                       *)
FilmsExclusive ==
  \A w \in Writer :
    /\ writer[w].newFilms \cap films = {}
    /\ \A x \in Writer \ {w} : writer[w].newFilms \cap writer[x].newFilms = {}

(* AddFilm is the one statement that inserts a film.                       *)
LEMMA NewFilmsStep ==
  ASSUME IInv, [Next]_vars
  PROVE  \/ \A x \in Writer : writer'[x].newFilms \subseteq writer[x].newFilms
         \/ \E w \in Writer : AddFilm(w)
<1>0. \A w \in Writer : writer[w] \in WriterState
  BY DEF IInv, TypeOK
<1>1. \A w \in Writer : Over(w).newFilms = {}
  BY DEF Over, Start, Idle
<1>2. ASSUME NEW w \in Writer, Step(w) \/ DeadlockAbort(w) \/ Failure(w), ~AddFilm(w)
      PROVE  \A x \in Writer : writer'[x].newFilms \subseteq writer[x].newFilms
  <2>1. writer' = [writer EXCEPT ![w] = writer'[w]]
    BY <1>2 DEF Step, Statement, Failure, Sync, FetchPage, FetchPageWithoutCredits, FetchFails,
       BeginStatement, InsertDirector, NoSuchName, RowRefused, KeepFilm, SkipFilm, AddRefused,
       AlreadyThere, CommitPage, CommitFilm, CommitUnheard, Answer, WriterFails, DeadlockAbort,
       GiveUp, NextStatement, IInv, TypeOK
  <2>2. writer'[w].newFilms \in {{}, writer[w].newFilms}
    <3>1. CASE Sync(w) \/ FetchPage(w) \/ FetchPageWithoutCredits(w) \/ Answer(w)
      BY <1>0, <3>1 DEF Sync, FetchPage, FetchPageWithoutCredits, Answer, Start, Idle, IInv, TypeOK
    <3>2. CASE \/ NoSuchName(w) \/ RowRefused(w) \/ AddRefused(w) \/ FetchFails(w)
               \/ WriterFails(w) \/ DeadlockAbort(w) \/ CommitPage(w) \/ CommitUnheard(w)
      BY <1>0, <1>1, <3>2 DEF NoSuchName, RowRefused, AddRefused, FetchFails, WriterFails,
         DeadlockAbort, CommitPage, CommitUnheard, GiveUp, IInv, TypeOK
    <3>3. CASE BeginStatement(w) \/ InsertDirector(w) \/ AlreadyThere(w) \/ CommitFilm(w)
      BY <1>0, <3>3 DEF BeginStatement, InsertDirector, AlreadyThere, CommitFilm, WriterState,
         IInv, TypeOK
    <3>4. CASE KeepFilm(w)
      BY <1>0, <3>4 DEF KeepFilm, NextStatement, WriterState, IInv, TypeOK
    <3>5. CASE SkipFilm(w)
      BY <1>0, <3>5 DEF SkipFilm, NextStatement, WriterState, IInv, TypeOK
    <3> QED
      BY <1>2, <3>1, <3>2, <3>3, <3>4, <3>5 DEF Step, Statement, Failure
  <2> QED
    BY <2>1, <2>2 DEF IInv, TypeOK
<1>3. ASSUME NEW a \in Admin, NEW f \in Addable, AskToAdd(a, f)
      PROVE  \A x \in Writer : writer'[x].newFilms \subseteq writer[x].newFilms
  BY <1>3 DEF AskToAdd, Start, IInv, TypeOK
<1>4. ASSUME Crash PROVE \A x \in Writer : writer'[x].newFilms = {}
  BY <1>4 DEF Crash, Idle, Start
<1> QED
  BY <1>2, <1>3, <1>4 DEF Next, vars

(* The index and its locks do what they are for: however the statements of *)
(* the jobs and the admins interleave, a director or a film is inserted by *)
(* one open transaction at a time, and none that is committed already.     *)
THEOREM CatalogKeysExclusive == Spec => [](Exclusive /\ FilmsExclusive)
<1>1. Init => FilmsExclusive
  BY DEF Init, Idle, Start, FilmsExclusive
<1>2. ASSUME IInv, FilmsExclusive, [Next]_vars PROVE FilmsExclusive'
  <2>1. ASSUME NEW w \in Writer, AddFilm(w) PROVE FilmsExclusive'
    <3>1. writer[w] \in WriterState /\ AtStatement(w)
      BY <1>2, <2>1 DEF IInv, TypeOK, WriterInv, InStatement, AddFilm
    <3>2. \A h \in Writer \ {w} : Current(w) \notin writer[h].newFilms
      BY <2>1, <3>1 DEF AddFilm, Waits, WaitsFor, Holds
    <3>3. /\ films' = films /\ Current(w) \notin films
          /\ writer'[w].newFilms = writer[w].newFilms \cup {Current(w)}
          /\ \A x \in Writer \ {w} : writer'[x].newFilms = writer[x].newFilms
      BY <1>2, <2>1, <3>1 DEF AddFilm, NextStatement, WriterState, IInv, TypeOK, tables
    <3> QED
      BY <1>2, <3>2, <3>3 DEF FilmsExclusive
  <2>2. CASE \A x \in Writer : writer'[x].newFilms \subseteq writer[x].newFilms
    <3>1. CASE films' = films
      BY <1>2, <2>2, <3>1 DEF FilmsExclusive
    <3>2. ASSUME NEW w \in Writer, films' = films \cup writer[w].newFilms,
                 writer'[w].newFilms = {}
          PROVE  FilmsExclusive'
      BY <1>2, <2>2, <3>2 DEF FilmsExclusive
    <3> QED
      BY <1>2, <3>1, <3>2, TablesStep DEF Publish, tables
  <2> QED
    BY <1>2, <2>1, <2>2, NewFilmsStep
<1>3. IInv => Exclusive
  BY DEF IInv
<1> QED
  BY <1>1, <1>2, <1>3, CatalogInvariant, PTL DEF Spec
=============================================================================
