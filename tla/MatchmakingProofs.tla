------------------------- MODULE MatchmakingProofs -------------------------
(***************************************************************************)
(* Proofs about the choice of an opponent: for every catalogue, every      *)
(* rating and every configuration that config.Load lets through.           *)
(***************************************************************************)
EXTENDS MatchmakingDraw, FiniteSetTheorems, NaturalsInduction, WellFoundedInduction, TLAPS

(* Induction over numbers, by a least counterexample.                      *)
LEMMA LeastNumber ==
  ASSUME NEW T \in SUBSET Nat, T # {}
  PROVE  \E x \in T : \A y \in T : ~(y < x)
<1> DEFINE R == OpToRel(<, Nat)
<1>1. IsWellFoundedOn(R, Nat)
  BY NatLessThanWellFounded
<1>2. \A x, y \in Nat : y < x => <<y, x>> \in R
  BY Zenon DEF OpToRel
<1> HIDE DEF R
<1>3. PICK x \in T : \A y \in T : <<y, x>> \notin R
  BY <1>1, WFMin, Zenon
<1> QED
  BY <1>2, <1>3

LEMMA MaxOfTwo ==
  ASSUME NEW a \in Int, NEW b \in Int
  PROVE  Max({a, b}) = IF a >= b THEN a ELSE b
BY DEF Max

LEMMA MinOfTwo ==
  ASSUME NEW a \in Int, NEW b \in Int
  PROVE  Min({a, b}) = IF a <= b THEN a ELSE b
BY DEF Min

-----------------------------------------------------------------------------
(* The pool.  A set of films is nearest when no film outside is nearer than*)
(* one inside.                                                             *)
Nearest(w, T, S) ==
  \A t \in T, s \in S \ T : RatingDistance(rating, t, w) <= RatingDistance(rating, s, w)

Rated == rating \in [Film -> Ratings]

LEMMA OthersFinite ==
  ASSUME NEW w
  PROVE  /\ Others(w) \subseteq Film /\ IsFiniteSet(Others(w)) /\ Cardinality(Others(w)) \in Nat
         /\ \A S \in SUBSET Others(w) :
              /\ IsFiniteSet(S) /\ Cardinality(S) \in Nat
              /\ Cardinality(S) <= Cardinality(Others(w))
              /\ Cardinality(S) = Cardinality(Others(w)) => S = Others(w)
<1>1. Others(w) \subseteq Film /\ IsFiniteSet(Film)
  BY MatchmakingAssumption DEF Others, MatchmakingAssumption
<1>2. IsFiniteSet(Others(w))
  BY <1>1, FS_Subset
<1> HIDE DEF Others
<1> QED
  BY <1>1, <1>2, FS_Subset, FS_CardinalityType

LEMMA DistanceType ==
  ASSUME Rated, NEW w, NEW f \in Others(w)
  PROVE  RatingDistance(rating, f, w) \in Nat
<1>1. w \in Film /\ f \in Film
  BY DEF Others
<1>2. rating[w] \in Int /\ rating[f] \in Int
  BY <1>1, DrawAssumption DEF Rated, DrawAssumption
<1> QED
  BY <1>2 DEF RatingDistance

(* A nearest set grows into a nearest set of any size there is room for:   *)
(* film by film, each time with one of those that are nearest.             *)
LEMMA NearestGrows ==
  ASSUME Rated, NEW w, NEW P \in SUBSET Others(w), Nearest(w, P, Others(w)),
         NEW m \in Nat, Cardinality(P) <= m, m <= Cardinality(Others(w))
  PROVE  \E C \in SUBSET Others(w) :
           P \subseteq C /\ Cardinality(C) = m /\ Nearest(w, C, Others(w))
<1> DEFINE O == Others(w)
           d(f) == RatingDistance(rating, f, w)
           wanting(k, C) == P \subseteq C /\ Nearest(w, C, O) /\ Cardinality(C) + k = m
           T == {k \in Nat : \E C \in SUBSET O : wanting(k, C)}
<1>1. m - Cardinality(P) \in T
  BY OthersFinite
<1>2. PICK x \in T : \A y \in T : ~(y < x)
  <2>1. T \subseteq Nat /\ T # {}
    BY <1>1
  <2> HIDE DEF T
  <2> QED
    BY <2>1, LeastNumber
<1>3. PICK C \in SUBSET O : wanting(x, C)
  BY <1>2
<1>4. x \in Nat /\ IsFiniteSet(C) /\ Cardinality(C) \in Nat
  BY <1>2, OthersFinite
<1>5. CASE x = 0
  BY <1>3, <1>4, <1>5
<1>6. CASE x # 0
  <2>1. O \ C # {}
    <3> SUFFICES ASSUME O \subseteq C PROVE FALSE
      OBVIOUS
    <3>1. C = O /\ Cardinality(O) \in Nat
      BY OthersFinite
    <3>2. Cardinality(C) + x = m
      BY <1>3
    <3> QED
      BY <1>4, <1>6, <3>1, <3>2
  <2>2. PICK s \in O \ C : \A u \in O \ C : d(s) <= d(u)
    <3> DEFINE D == {d(u) : u \in O \ C}
    <3>1. D \subseteq Nat /\ D # {}
      BY <2>1, DistanceType
    <3>2. PICK least \in D : \A y \in D : ~(y < least)
      <4> HIDE DEF D
      <4> QED
        BY <3>1, LeastNumber
    <3>3. PICK s \in O \ C : least = d(s)
      BY <3>2
    <3> SUFFICES ASSUME NEW u \in O \ C PROVE d(s) <= d(u)
      BY <3>3
    <3>4. d(u) \in D /\ d(u) \in Nat /\ d(s) \in Nat
      BY DistanceType
    <3> HIDE DEF D, d
    <3> QED
      BY <3>2, <3>3, <3>4
  <2>3. Cardinality(C \cup {s}) = Cardinality(C) + 1
    BY <1>4, <2>2, FS_AddElement
  <2>4. Nearest(w, C \cup {s}, O)
    BY <1>3, <2>2 DEF Nearest
  <2>5. x - 1 \in Nat /\ x - 1 < x
    BY <1>4, <1>6
  <2>6. wanting(x - 1, C \cup {s})
    BY <1>3, <1>4, <2>3, <2>4
  <2>7. x - 1 \in T
    BY <2>2, <2>5, <2>6
  <2> HIDE DEF T
  <2> QED
    BY <1>2, <2>5, <2>7
<1> QED
  BY <1>5, <1>6
Within(w, S) == {f \in S : InWindow(rating, f, w)}

(* Of the nearest films up to the maximum, the window keeps as many as of  *)
(* all films, up to the maximum: taking the maximum first loses nothing.   *)
LEMMA WindowOfNearest ==
  ASSUME Rated, NEW w, NEW C \in SUBSET Others(w), Nearest(w, C, Others(w)),
         Cardinality(C) = (IF MaxCandidates < Cardinality(Others(w))
                           THEN MaxCandidates ELSE Cardinality(Others(w)))
  PROVE  Cardinality(Within(w, C)) =
           (IF Cardinality(Within(w, Others(w))) <= MaxCandidates
            THEN Cardinality(Within(w, Others(w))) ELSE MaxCandidates)
<1> DEFINE O == Others(w)
           all == Within(w, O)
           some == Within(w, C)
<1>0. MaxCandidates \in Nat /\ RatingWindow \in Int
  BY MatchmakingAssumption DEF MatchmakingAssumption
<1>1. /\ all \in SUBSET O /\ some \in SUBSET C /\ some \in SUBSET O /\ some \subseteq all
  BY DEF Within
<1>2. /\ Cardinality(O) \in Nat /\ Cardinality(C) \in Nat /\ Cardinality(all) \in Nat
      /\ Cardinality(some) \in Nat /\ IsFiniteSet(all) /\ IsFiniteSet(C)
      /\ (Cardinality(C) = Cardinality(O) => C = O)
  <2> HIDE DEF all, some
  <2> QED
    BY <1>1, OthersFinite
<1>3. CASE \E q \in O \ C : InWindow(rating, q, w)
  <2>1. PICK q \in O \ C : InWindow(rating, q, w)
    BY <1>3
  <2>2. \A p \in C : InWindow(rating, p, w)
    <3> SUFFICES ASSUME NEW p \in C PROVE InWindow(rating, p, w)
      OBVIOUS
    <3>1. /\ RatingDistance(rating, p, w) <= RatingDistance(rating, q, w)
          /\ RatingDistance(rating, p, w) \in Nat /\ RatingDistance(rating, q, w) \in Nat
      BY DistanceType DEF Nearest
    <3> QED
      BY <1>0, <2>1, <3>1 DEF InWindow
  <2>3. some = C /\ C \subseteq all /\ C # O
    BY <1>1, <2>1, <2>2 DEF Within
  <2>4. Cardinality(C) <= Cardinality(all)
    BY <1>2, <2>3, FS_Subset
  <2> HIDE DEF all, some, O
  <2> QED
    BY <1>0, <1>2, <2>3, <2>4 DEF O, all, some
<1>4. CASE ~ \E q \in O \ C : InWindow(rating, q, w)
  <2>1. some = all
    BY <1>1, <1>4 DEF Within
  <2>2. Cardinality(some) <= Cardinality(C)
    BY <1>1, <1>2, FS_Subset
  <2> HIDE DEF all, some, O
  <2> QED
    BY <1>0, <1>2, <2>1, <2>2 DEF O, all, some
<1> QED
  BY <1>3, <1>4

(* And the second limit is the documented one.                             *)
LEMMA PoolSize ==
  ASSUME Rated, NEW w, NEW C \in SUBSET Others(w), Nearest(w, C, Others(w)),
         Cardinality(C) = (IF MaxCandidates < Cardinality(Others(w))
                           THEN MaxCandidates ELSE Cardinality(Others(w)))
  PROVE  LET n == Max({Cardinality({f \in C : InWindow(rating, f, w)}), MinCandidates})
         IN  (IF n < Cardinality(C) THEN n ELSE Cardinality(C)) = DocumentedSize(w)
<1> DEFINE k == Cardinality(Within(w, C))
           all == Cardinality(Within(w, Others(w)))
           c == Cardinality(C)
           o == Cardinality(Others(w))
<1>1. /\ MaxCandidates \in Nat /\ MinCandidates \in Nat /\ MinCandidates <= MaxCandidates
  BY MatchmakingAssumption DEF MatchmakingAssumption
<1>2. k \in Nat /\ all \in Nat /\ c \in Nat /\ o \in Nat /\ c <= o /\ k <= c
  <2>1. /\ Within(w, C) \in SUBSET C /\ Within(w, C) \in SUBSET Others(w)
        /\ Within(w, Others(w)) \in SUBSET Others(w)
    BY DEF Within
  <2>2. IsFiniteSet(C)
    BY OthersFinite
  <2> QED
    BY <2>1, <2>2, OthersFinite, FS_Subset
<1>3. c = IF MaxCandidates < o THEN MaxCandidates ELSE o
  OBVIOUS
<1>4. k = IF all <= MaxCandidates THEN all ELSE MaxCandidates
  BY WindowOfNearest
<1>5. DocumentedSize(w) = Max({Min({all, MaxCandidates}), Min({MinCandidates, o})})
  BY DEF DocumentedSize, Within
<1> SUFFICES LET n == Max({k, MinCandidates}) IN (IF n < c THEN n ELSE c) = DocumentedSize(w)
  BY DEF Within
<1> HIDE DEF k, all, c, o
<1>6. /\ Min({all, MaxCandidates}) = k
      /\ Min({MinCandidates, o}) = IF MinCandidates <= o THEN MinCandidates ELSE o
  BY <1>1, <1>2, <1>4, MinOfTwo
<1>7. Max({k, MinCandidates}) = IF k >= MinCandidates THEN k ELSE MinCandidates
  BY <1>1, <1>2, MaxOfTwo
<1>8. CASE MinCandidates <= o
  <2>1. DocumentedSize(w) = IF k >= MinCandidates THEN k ELSE MinCandidates
    BY <1>1, <1>2, <1>5, <1>6, <1>8, MaxOfTwo
  <2> QED
    BY <1>1, <1>2, <1>3, <1>7, <1>8, <2>1
<1>9. CASE ~(MinCandidates <= o)
  <2>1. DocumentedSize(w) = IF k >= o THEN k ELSE o
    BY <1>1, <1>2, <1>5, <1>6, <1>9, MaxOfTwo
  <2> QED
    BY <1>1, <1>2, <1>3, <1>7, <1>9, <2>1
<1> QED
  BY <1>8, <1>9

(* The query in three nested limits finds what the README promises in one  *)
(* sentence: every set of films of the documented size that leaves out no  *)
(* nearer one, and no other set.                                           *)
LEMMA FoundAsDocumented ==
  ASSUME Rated, NEW w
  PROVE  FindCandidates(rating, w) =
           {P \in SUBSET Others(w) :
              /\ Cardinality(P) = DocumentedSize(w)
              /\ \A p \in P, q \in Others(w) \ P :
                   RatingDistance(rating, p, w) <= RatingDistance(rating, q, w)}
<1> DEFINE O == Others(w)
           o == Cardinality(O)
           m == IF MaxCandidates < o THEN MaxCandidates ELSE o
           n(C) == Max({Cardinality({f \in C : InWindow(rating, f, w)}), MinCandidates})
           size(C) == IF n(C) < Cardinality(C) THEN n(C) ELSE Cardinality(C)
           first(C) == C \in SUBSET O /\ Cardinality(C) = m /\ Nearest(w, C, O)
<1>0. o \in Nat /\ MaxCandidates \in Nat
  BY OthersFinite, MatchmakingAssumption DEF MatchmakingAssumption
<1>1. ASSUME NEW C, first(C)
      PROVE  size(C) = DocumentedSize(w) /\ DocumentedSize(w) \in Nat /\ DocumentedSize(w) <= m
  <2>1. size(C) = DocumentedSize(w)
    BY <1>1, PoolSize
  <2>2. Cardinality({f \in C : InWindow(rating, f, w)}) \in Nat
    <3>1. {f \in C : InWindow(rating, f, w)} \in SUBSET O
      BY <1>1
    <3> QED
      BY <3>1, OthersFinite
  <2>3. n(C) \in Nat
    BY <2>2, MaxOfTwo, MatchmakingAssumption DEF MatchmakingAssumption
  <2>4. Cardinality(C) \in Nat
    BY <1>1, OthersFinite
  <2> HIDE DEF n
  <2> QED
    BY <1>1, <2>1, <2>3, <2>4
<1>2. ASSUME NEW P
      PROVE  P \in FindCandidates(rating, w) <=>
               \E C : first(C) /\ P \in SUBSET C /\ Cardinality(P) = size(C) /\ Nearest(w, P, C)
  <2>1. \A C : C \in Closest(rating, O, w, MaxCandidates) <=> first(C)
    BY DEF Closest, kSubset, Nearest
  <2>2. \A C : P \in Closest(rating, C, w, n(C)) <=>
                P \in SUBSET C /\ Cardinality(P) = size(C) /\ Nearest(w, P, C)
    BY DEF Closest, kSubset, Nearest
  <2>3. P \in FindCandidates(rating, w) <=>
          \E C \in Closest(rating, O, w, MaxCandidates) : P \in Closest(rating, C, w, n(C))
    BY Zenon DEF FindCandidates
  <2> HIDE DEF first, n, size, O
  <2> QED
    BY <2>1, <2>2, <2>3
<1>3. ASSUME NEW P \in FindCandidates(rating, w)
      PROVE  P \in SUBSET O /\ Cardinality(P) = DocumentedSize(w) /\ Nearest(w, P, O)
  <2>1. PICK C : first(C) /\ P \in SUBSET C /\ Cardinality(P) = size(C) /\ Nearest(w, P, C)
    BY <1>2
  <2>2. Cardinality(P) = DocumentedSize(w)
    BY <1>1, <2>1
  <2>3. Nearest(w, P, O)
    BY <2>1 DEF Nearest
  <2> QED
    BY <2>1, <2>2, <2>3
<1>4. ASSUME NEW P \in SUBSET O, Cardinality(P) = DocumentedSize(w), Nearest(w, P, O)
      PROVE  P \in FindCandidates(rating, w)
  <2>1. DocumentedSize(w) <= m
    <3>1. {} \in SUBSET O /\ Nearest(w, {}, O) /\ Cardinality({}) = 0
      BY FS_EmptySet DEF Nearest
    <3>2. m \in Nat /\ 0 <= m /\ m <= o
      BY <1>0
    <3> HIDE DEF m, O
    <3>3. PICK C \in SUBSET O : Cardinality(C) = m /\ Nearest(w, C, O)
      BY <3>1, <3>2, NearestGrows DEF O
    <3> QED
      BY <1>1, <3>3
  <2>2. m \in Nat /\ m <= o
    BY <1>0
  <2>3. PICK C \in SUBSET O : P \subseteq C /\ Cardinality(C) = m /\ Nearest(w, C, O)
    <3> HIDE DEF m
    <3> QED
      BY <1>4, <2>1, <2>2, NearestGrows
  <2>4. size(C) = DocumentedSize(w)
    BY <1>1, <2>3
  <2>5. Nearest(w, P, C)
    BY <1>4, <2>3 DEF Nearest
  <2> QED
    BY <1>2, <1>4, <2>3, <2>4, <2>5
<1> HIDE DEF O
<1> QED
  BY <1>3, <1>4 DEF Nearest, O
-----------------------------------------------------------------------------
(* The draw.                                                               *)
SumSoFar(c, weight, h, n) == IF n = 0 THEN 0 ELSE h[n - 1] + weight[c[n]]

LEMMA SumsExist ==
  ASSUME NEW c \in Seq(Film), NEW weight \in [Film -> Nat]
  PROVE  \E h : h = [n \in 0..Len(c) |-> SumSoFar(c, weight, h, n)]
<1> DEFINE D == 0..Len(c)
           good(g, n) == \A m \in D : m <= n => g[m] = SumSoFar(c, weight, g, m)
           T == {n \in Nat : ~ \E g \in [D -> Nat] : good(g, n)}
<1>0. Len(c) \in Nat /\ \A n \in 1..Len(c) : weight[c[n]] \in Nat
  OBVIOUS
<1>1. T = {}
  <2> SUFFICES ASSUME T # {} PROVE FALSE
    OBVIOUS
  <2>1. PICK x \in T : \A y \in T : ~(y < x)
    <3>1. T \subseteq Nat
      OBVIOUS
    <3> HIDE DEF T
    <3> QED
      BY <3>1, LeastNumber
  <2>2. CASE x = 0
    <3> DEFINE g == [n \in D |-> 0]
    <3>1. g \in [D -> Nat] /\ good(g, 0)
      BY <1>0 DEF SumSoFar
    <3> QED
      BY <2>1, <2>2, <3>1
  <2>3. CASE x # 0
    <3>0. x - 1 \in Nat /\ x - 1 < x
      BY <2>3
    <3>1. x - 1 \in Nat /\ x - 1 \notin T
      <4> HIDE DEF T
      <4> QED
        BY <2>1, <3>0
    <3>2. PICK g \in [D -> Nat] : good(g, x - 1)
      BY <3>1
    <3>3. CASE x \notin D
      <4>1. good(g, x)
        BY <1>0, <3>1, <3>2, <3>3
      <4> QED
        BY <2>1, <4>1
    <3>4. CASE x \in D
      <4> DEFINE e == SumSoFar(c, weight, g, x)
                 k == [g EXCEPT ![x] = e]
      <4>1. x - 1 \in D /\ x \in 1..Len(c)
        BY <1>0, <2>3, <3>4
      <4>2. e \in Nat
        <5>1. g[x - 1] \in Nat /\ weight[c[x]] \in Nat
          BY <1>0, <3>2, <4>1
        <5> QED
          BY <2>3, <5>1 DEF SumSoFar
      <4>3. k \in [D -> Nat] /\ k[x] = e /\ \A m \in D \ {x} : k[m] = g[m]
        BY <3>2, <3>4, <4>2
      <4> HIDE DEF k, e
      <4>4. ASSUME NEW m \in D, m <= x PROVE k[m] = SumSoFar(c, weight, k, m)
        <5>0. m \in Nat /\ x \in Nat /\ (m # 0 => m - 1 \in D /\ m - 1 # x)
          BY <1>0, <2>1, <4>4
        <5>1. m = 0 \/ k[m - 1] = g[m - 1]
          BY <4>3, <5>0
        <5>2. SumSoFar(c, weight, k, m) = SumSoFar(c, weight, g, m)
          BY <5>1 DEF SumSoFar
        <5>3. CASE m = x
          BY <4>3, <5>2, <5>3 DEF e
        <5>4. CASE m # x
          <6>1. m <= x - 1
            BY <4>4, <5>0, <5>4
          <6> QED
            BY <3>2, <4>3, <5>2, <5>4, <6>1
        <5> QED
          BY <5>3, <5>4
      <4> QED
        BY <2>1, <4>3, <4>4
    <3> QED
      BY <3>3, <3>4
  <2> QED
    BY <2>2, <2>3
<1>2. PICK h \in [D -> Nat] : good(h, Len(c))
  BY <1>0, <1>1
<1>3. h = [n \in D |-> SumSoFar(c, weight, h, n)]
  <2>1. \A n \in D : n <= Len(c)
    BY <1>0
  <2> QED
    BY <1>2, <2>1
<1> QED
  BY <1>3

(* The sums of the weights start at 0, grow by one weight at a time and    *)
(* never go down.                                                          *)
LEMMA PrefixSums ==
  ASSUME NEW c \in Seq(Film), NEW weight \in [Film -> Nat]
  PROVE  /\ PrefixWeight(c, weight, 0) = 0
         /\ \A i \in 1..Len(c) :
              PrefixWeight(c, weight, i) = PrefixWeight(c, weight, i - 1) + weight[c[i]]
         /\ \A i \in 0..Len(c) : PrefixWeight(c, weight, i) \in Nat
         /\ \A k \in 0..Len(c) : \A i \in 0..k :
              PrefixWeight(c, weight, i) <= PrefixWeight(c, weight, k)
<1> DEFINE D == 0..Len(c)
           h == CHOOSE g : g = [n \in D |-> SumSoFar(c, weight, g, n)]
           T == {n \in D : h[n] \notin Nat}
           U == {k \in D : \E i \in 0..k : ~(h[i] <= h[k])}
<1>0. Len(c) \in Nat /\ \A n \in 1..Len(c) : weight[c[n]] \in Nat
  OBVIOUS
<1>1. h = [n \in D |-> SumSoFar(c, weight, h, n)]
  BY SumsExist
<1>2. \A i : PrefixWeight(c, weight, i) = h[i]
  BY Zenon DEF PrefixWeight, SumSoFar
<1> HIDE DEF h
<1>3. h[0] = 0
  BY <1>0, <1>1 DEF SumSoFar
<1>4. \A i \in 1..Len(c) : i - 1 \in D /\ h[i] = h[i - 1] + weight[c[i]]
  <2> SUFFICES ASSUME NEW i \in 1..Len(c)
               PROVE  i - 1 \in D /\ h[i] = h[i - 1] + weight[c[i]]
    OBVIOUS
  <2>1. i \in D /\ i - 1 \in D /\ i # 0
    BY <1>0
  <2>2. h[i] = SumSoFar(c, weight, h, i)
    BY <1>1, <2>1
  <2> QED
    BY <2>1, <2>2 DEF SumSoFar
<1>5. T = {}
  <2> SUFFICES ASSUME T # {} PROVE FALSE
    OBVIOUS
  <2>1. T \subseteq Nat /\ T \subseteq D
    BY <1>0
  <2>2. PICK x \in T : \A y \in T : ~(y < x)
    <3> HIDE DEF T
    <3> QED
      BY <2>1, LeastNumber
  <2>3. h[x] \notin Nat /\ x \in Nat /\ x \in D
    BY <2>1, <2>2
  <2>4. x # 0 /\ x \in 1..Len(c) /\ x - 1 < x
    BY <1>0, <1>3, <2>3
  <2>5. x - 1 \notin T
    <3> HIDE DEF T
    <3> QED
      BY <2>2, <2>4
  <2> QED
    BY <1>0, <1>4, <2>3, <2>4, <2>5
<1>6. \A i \in D : h[i] \in Nat
  BY <1>5
<1>7. U = {}
  <2> SUFFICES ASSUME U # {} PROVE FALSE
    OBVIOUS
  <2>1. U \subseteq Nat /\ U \subseteq D
    BY <1>0
  <2>2. PICK x \in U : \A y \in U : ~(y < x)
    <3> HIDE DEF U
    <3> QED
      BY <2>1, LeastNumber
  <2>3. PICK i \in 0..x : ~(h[i] <= h[x])
    BY <2>2
  <2>4. x \in Nat /\ x \in D /\ i \in D
    BY <1>0, <2>1, <2>2
  <2>5. i # x
    BY <1>6, <2>3, <2>4
  <2>6. x \in 1..Len(c) /\ i \in 0..x - 1 /\ x - 1 < x
    BY <1>0, <2>4, <2>5
  <2>7. x - 1 \notin U
    <3> HIDE DEF U
    <3> QED
      BY <2>2, <2>6
  <2>8. h[i] <= h[x - 1]
    BY <1>4, <2>6, <2>7
  <2>9. h[x] = h[x - 1] + weight[c[x]] /\ weight[c[x]] \in Nat /\ h[x - 1] \in Nat /\ h[i] \in Nat
    BY <1>0, <1>4, <1>6, <2>4, <2>6
  <2> QED
    BY <2>3, <2>8, <2>9
<1>8. \A k \in D : \A i \in 0..k : h[i] <= h[k]
  BY <1>7
<1> QED
  BY <1>2, <1>3, <1>4, <1>6, <1>8

(* The number r draws the i-th candidate when it lies in the i-th segment. *)
LEMMA DrawnBySegment ==
  ASSUME NEW c \in Seq(Film), NEW weight \in [Film -> Nat],
         NEW r \in 0..PrefixWeight(c, weight, Len(c)) - 1
  PROVE  \E h \in 1..Len(c) :
           /\ DrawFromCandidates(c, weight, r) = c[h]
           /\ \A i \in 1..Len(c) :
                i = h <=> PrefixWeight(c, weight, i - 1) <= r /\ r < PrefixWeight(c, weight, i)
<1> DEFINE N == Len(c)
           sum(i) == PrefixWeight(c, weight, i)
           hits == {i \in 1..N : r - sum(i) < 0}
<1>0. N \in Nat /\ sum(0) = 0 /\ (\A i \in 0..N : sum(i) \in Nat)
      /\ \A k \in 0..N : \A i \in 0..k : sum(i) <= sum(k)
  BY PrefixSums
<1>1. DrawFromCandidates(c, weight, r) = c[IF hits = {} THEN N ELSE Min(hits)]
  BY DEF DrawFromCandidates
<1> HIDE DEF sum
<1>2. r \in Nat /\ r < sum(N)
  BY <1>0 DEF sum
<1>3. N # 0
  BY <1>0, <1>2
<1>4. N \in hits
  BY <1>0, <1>2, <1>3
<1>5. PICK h \in hits : \A i \in hits : h <= i
  <2>1. hits \subseteq Nat /\ hits # {}
    BY <1>0, <1>4
  <2> HIDE DEF hits
  <2>2. PICK h \in hits : \A i \in hits : ~(i < h)
    BY <2>1, LeastNumber
  <2> QED
    BY <2>1, <2>2
<1>6. Min(hits) = h
  <2>1. hits \subseteq Nat
    BY <1>0
  <2> HIDE DEF hits
  <2>2. Min(hits) \in hits /\ \A i \in hits : Min(hits) <= i
    BY <1>5 DEF Min
  <2>3. Min(hits) <= h /\ h <= Min(hits) /\ h \in Nat /\ Min(hits) \in Nat
    BY <1>5, <2>1, <2>2
  <2> QED
    BY <2>3
<1>7. DrawFromCandidates(c, weight, r) = c[h]
  BY <1>1, <1>4, <1>6
<1>8. ASSUME NEW i \in 1..N PROVE i \in hits <=> r < sum(i)
  <2>1. sum(i) \in Nat
    BY <1>0
  <2> QED
    BY <1>2, <2>1
<1>9. h \in 1..N /\ r < sum(h)
  BY <1>5, <1>8
<1>10. sum(h - 1) <= r
  <2>1. CASE h = 1
    BY <1>0, <1>2, <2>1
  <2>2. CASE h # 1
    <3>1. h - 1 \in 1..N /\ ~(h <= h - 1)
      BY <1>9, <2>2
    <3>2. h - 1 \notin hits /\ sum(h - 1) \in Nat
      <4> HIDE DEF hits
      <4> QED
        BY <1>0, <1>5, <3>1
    <3> QED
      BY <1>2, <1>8, <3>1, <3>2
  <2> QED
    BY <2>1, <2>2
<1>11. ASSUME NEW i \in 1..N, sum(i - 1) <= r, r < sum(i) PROVE i = h
  <2>1. h <= i
    BY <1>5, <1>8, <1>11
  <2>2. ~(h <= i - 1)
    <3> SUFFICES ASSUME h <= i - 1 PROVE FALSE
      OBVIOUS
    <3>1. i - 1 \in 0..N /\ h \in 0..i - 1
      BY <1>0, <1>9
    <3>2. sum(h) <= sum(i - 1) /\ sum(h) \in Nat /\ sum(i - 1) \in Nat
      BY <1>0, <1>9, <3>1
    <3> QED
      BY <1>2, <1>9, <1>11, <3>2
  <2> QED
    BY <1>9, <2>1, <2>2
<1> HIDE DEF hits
<1> QED
  BY <1>7, <1>9, <1>10, <1>11 DEF sum

(* Each candidate is drawn by as many numbers as its weight.               *)
LEMMA DrawnByWeight ==
  ASSUME NEW c \in Seq(Film), NEW weight \in [Film -> Nat],
         \A i, j \in 1..Len(c) : i # j => c[i] # c[j], NEW k \in 1..Len(c)
  PROVE  Cardinality({r \in 0..PrefixWeight(c, weight, Len(c)) - 1 :
                       DrawFromCandidates(c, weight, r) = c[k]}) = weight[c[k]]
<1> DEFINE N == Len(c)
           sum(i) == PrefixWeight(c, weight, i)
           drawn == {r \in 0..sum(N) - 1 : DrawFromCandidates(c, weight, r) = c[k]}
<1>1. /\ N \in Nat /\ sum(0) = 0 /\ \A i \in 0..N : sum(i) \in Nat
      /\ \A m \in 0..N : \A i \in 0..m : sum(i) <= sum(m)
      /\ sum(k) = sum(k - 1) + weight[c[k]]
  BY PrefixSums
<1>2. /\ k \in 0..N /\ k - 1 \in 0..N /\ N \in 0..N /\ k \in 0..N /\ weight[c[k]] \in Nat
  BY <1>1
<1>3. sum(k - 1) \in Nat /\ sum(k) \in Nat /\ sum(N) \in Nat /\ sum(k) <= sum(N)
  BY <1>1, <1>2
<1>4. ASSUME NEW r \in 0..sum(N) - 1 PROVE r \in drawn <=> sum(k - 1) <= r /\ r < sum(k)
  <2>1. PICK h \in 1..N :
          /\ DrawFromCandidates(c, weight, r) = c[h]
          /\ \A i \in 1..N : i = h <=> sum(i - 1) <= r /\ r < sum(i)
    BY DrawnBySegment
  <2>2. DrawFromCandidates(c, weight, r) = c[k] <=> k = h
    BY <2>1
  <2> QED
    BY <2>1, <2>2
<1>5. drawn \subseteq 0..sum(N) - 1
  OBVIOUS
<1> HIDE DEF drawn, sum
<1>6. drawn = sum(k - 1)..(sum(k) - 1)
  <2>1. \A r \in sum(k - 1)..(sum(k) - 1) :
          r \in 0..sum(N) - 1 /\ sum(k - 1) <= r /\ r < sum(k)
    BY <1>3
  <2>2. \A r \in 0..sum(N) - 1 : sum(k - 1) <= r /\ r < sum(k) => r \in sum(k - 1)..(sum(k) - 1)
    BY <1>3
  <2> QED
    BY <1>4, <1>5, <2>1, <2>2
<1>7. Cardinality(drawn) = weight[c[k]]
  <2> DEFINE lo == sum(k - 1)
             hi == sum(k) - 1
  <2>1. lo \in Int /\ hi \in Int /\ lo + weight[c[k]] = hi + 1
    BY <1>1, <1>3
  <2>2. drawn = lo..hi
    BY <1>6
  <2> HIDE DEF lo, hi
  <2>3. Cardinality(lo..hi) = IF lo > hi THEN 0 ELSE hi - lo + 1
    BY <2>1, FS_Interval
  <2> QED
    BY <1>2, <2>1, <2>2, <2>3
<1> QED
  BY <1>7 DEF drawn, sum
-----------------------------------------------------------------------------
(* The states of DuelFromFilm.                                             *)
DrawInv ==
  /\ Rated /\ profile \in Profiles
  /\ candidates \in Seq(Film)
  /\ \A i, j \in 1..Len(candidates) : i # j => candidates[i] # candidates[j]
  /\ phase = "found" =>
       /\ Len(candidates) = DocumentedSize(winner)
       /\ \A i \in 1..Len(candidates) : candidates[i] \in Others(winner)
  /\ phase = "drawn" => opponent \in Others(winner)
  /\ phase = "none" => Others(winner) = {}

(* Nobody weighs nothing: popularity zero counts as one.                   *)
LEMMA WeightType ==
  ASSUME profile \in Profiles
  PROVE  Weight \in [Film -> Nat \ {0}]
<1> SUFFICES ASSUME NEW f \in Film
             PROVE  CandidateWeight(profile.popularity, profile.duelCount, f) \in Nat \ {0}
  BY DEF Weight
<1>1. profile.popularity \in [Film -> Nat]
  BY DrawAssumption DEF DrawAssumption
<1> DEFINE p == profile.popularity[f]
<1>2. p \in Nat /\ PopularityWeight \in Nat /\ NewFilmBoost \in Nat
  BY <1>1, MatchmakingAssumption DEF MatchmakingAssumption
<1> DEFINE base == 1 + p * PopularityWeight
<1>3. base \in Nat \ {0}
  <2>1. p * PopularityWeight \in Nat
    <3> HIDE DEF p
    <3> QED
      BY <1>2
  <2> QED
    BY <2>1
<1>4. CandidateWeight(profile.popularity, profile.duelCount, f) \in {base * 1, base * NewFilmBoost}
  BY DEF CandidateWeight
<1> HIDE DEF base
<1>5. base * 1 = base
  BY <1>3
<1>6. CASE NewFilmBoost = 0
  <2>1. CandidateWeight(profile.popularity, profile.duelCount, f) = base * 1
    BY <1>2, <1>6 DEF CandidateWeight, base
  <2> QED
    BY <1>3, <1>5, <2>1
<1>7. CASE NewFilmBoost # 0
  <2>1. base * NewFilmBoost \in Nat \ {0}
    BY <1>2, <1>3, <1>7
  <2> QED
    BY <1>3, <1>4, <1>5, <2>1
<1> QED
  BY <1>6, <1>7

LEMMA FindStep ==
  ASSUME DrawInv, Find
  PROVE  DrawInv'
<1>1. /\ rating' = rating /\ profile' = profile /\ winner' = winner /\ phase' = "found"
  BY DEF Find
<1>2. PICK pool \in FindCandidates(rating, winner) : candidates' \in SetToSeqs(pool)
  BY DEF Find
<1>3. pool \in SUBSET Others(winner) /\ Cardinality(pool) = DocumentedSize(winner)
  BY <1>2, FoundAsDocumented DEF DrawInv
<1>4. Cardinality(pool) \in Nat /\ pool \subseteq Film
  BY <1>3, OthersFinite
<1>5. /\ candidates' \in [1..Cardinality(pool) -> pool]
      /\ \A i, j \in 1..Cardinality(pool) : i # j => candidates'[i] # candidates'[j]
  BY <1>2 DEF SetToSeqs
<1>6. candidates' \in Seq(Film) /\ Len(candidates') = Cardinality(pool)
  BY <1>4, <1>5
<1>7. Others(winner)' = Others(winner) /\ DocumentedSize(winner)' = DocumentedSize(winner)
  BY <1>1 DEF Others, DocumentedSize
<1>8. Rated'
  BY <1>1 DEF DrawInv, Rated
<1> QED
  BY <1>1, <1>3, <1>5, <1>6, <1>7, <1>8 DEF DrawInv

LEMMA NoCandidatesStep ==
  ASSUME DrawInv, NoCandidates
  PROVE  DrawInv'
<1>1. /\ rating' = rating /\ profile' = profile /\ winner' = winner /\ phase' = "none"
      /\ candidates' = candidates /\ phase = "found" /\ Len(candidates) = 0
  BY DEF NoCandidates
<1>2. DocumentedSize(winner) = 0
  BY <1>1 DEF DrawInv
<1> DEFINE o == Cardinality(Others(winner))
           k == Cardinality({f \in Others(winner) : InWindow(rating, f, winner)})
<1>3. k \in Nat /\ o \in Nat /\ MinCandidates \in Nat \ {0} /\ MaxCandidates \in Nat
  BY OthersFinite, MatchmakingAssumption DEF MatchmakingAssumption
<1>4. DocumentedSize(winner) = Max({Min({k, MaxCandidates}), Min({MinCandidates, o})})
  BY DEF DocumentedSize
<1> HIDE DEF o, k
<1>5. o = 0
  <2> DEFINE inWindow == Min({k, MaxCandidates})
             padded == Min({MinCandidates, o})
  <2>1. inWindow \in Nat /\ padded = IF MinCandidates <= o THEN MinCandidates ELSE o
    BY <1>3, MinOfTwo
  <2>2. Max({inWindow, padded}) = 0
    BY <1>2, <1>4
  <2> HIDE DEF inWindow, padded
  <2>3. padded \in Nat
    BY <1>3, <2>1
  <2>4. Max({inWindow, padded}) = IF inWindow >= padded THEN inWindow ELSE padded
    BY <2>1, <2>3, MaxOfTwo
  <2> QED
    BY <1>3, <2>1, <2>2, <2>3, <2>4
<1>6. Others(winner) = {}
  BY <1>5, OthersFinite, FS_EmptySet DEF o
<1>7. Rated' /\ Others(winner)' = Others(winner)
  BY <1>1 DEF DrawInv, Rated, Others
<1> QED
  BY <1>1, <1>6, <1>7 DEF DrawInv

LEMMA DrawStep ==
  ASSUME DrawInv, Draw
  PROVE  DrawInv'
<1>1. /\ rating' = rating /\ profile' = profile /\ winner' = winner /\ phase' = "drawn"
      /\ candidates' = candidates /\ phase = "found"
  BY DEF Draw
<1>2. Weight \in [Film -> Nat] /\ candidates \in Seq(Film)
  BY WeightType DEF DrawInv
<1>3. PICK r \in 0..Total - 1 : opponent' = DrawFromCandidates(candidates, Weight, r)
  BY DEF Draw
<1>4. PICK h \in 1..Len(candidates) : opponent' = candidates[h]
  BY <1>2, <1>3, DrawnBySegment DEF Total
<1>5. opponent' \in Others(winner)
  BY <1>1, <1>4 DEF DrawInv
<1>6. Rated' /\ Others(winner)' = Others(winner)
  BY <1>1 DEF DrawInv, Rated, Others
<1> QED
  BY <1>1, <1>5, <1>6 DEF DrawInv

LEMMA DrawInvariant == Spec => []DrawInv
<1>1. Init => DrawInv
  <2> SUFFICES ASSUME Init PROVE DrawInv
    OBVIOUS
  <2>1. <<>> \in Seq(Film) /\ 1..Len(<<>>) = {}
    OBVIOUS
  <2> QED
    BY <2>1 DEF Init, DrawInv, Rated
<1>2. DrawInv /\ [Next]_vars => DrawInv'
  <2> SUFFICES ASSUME DrawInv, [Next]_vars PROVE DrawInv'
    OBVIOUS
  <2>1. CASE AskAgain
    <3>1. <<>> \in Seq(Film) /\ 1..Len(<<>>) = {}
      OBVIOUS
    <3> QED
      BY <2>1, <3>1 DEF AskAgain, DrawInv, Rated
  <2>2. CASE UNCHANGED vars
    BY <2>2 DEF vars, DrawInv, Rated, Others, DocumentedSize, InWindow, RatingDistance
  <2> QED
    BY <2>1, <2>2, FindStep, NoCandidatesStep, DrawStep DEF Next
<1> QED
  BY <1>1, <1>2, PTL DEF Spec

(* The pool of every film is what the README says it is, in whatever order *)
(* the database lists films at the same distance.                          *)
THEOREM DrawPoolAsDocumented == Spec => []PoolAsDocumented
<1>1. DrawInv => PoolAsDocumented
  BY FoundAsDocumented DEF DrawInv, PoolAsDocumented
<1> QED
  BY <1>1, DrawInvariant, PTL

(* Every candidate can be drawn, and in proportion to its weight.          *)
THEOREM DrawDrawnInProportion == Spec => []DrawnInProportion
<1>1. DrawInv => DrawnInProportion
  <2> SUFFICES ASSUME DrawInv, NEW f \in Range(candidates)
               PROVE  /\ Weight[f] > 0
                      /\ Cardinality({r \in 0..Total - 1 :
                                        DrawFromCandidates(candidates, Weight, r) = f}) = Weight[f]
    BY DEF DrawnInProportion
  <2>1. Weight \in [Film -> Nat \ {0}] /\ Weight \in [Film -> Nat] /\ candidates \in Seq(Film)
    BY WeightType DEF DrawInv
  <2>2. PICK k \in 1..Len(candidates) : f = candidates[k]
    BY <2>1 DEF Range
  <2>3. f \in Film
    BY <2>1, <2>2
  <2>4. Cardinality({r \in 0..Total - 1 :
                      DrawFromCandidates(candidates, Weight, r) = candidates[k]})
          = Weight[candidates[k]]
    BY <2>1, DrawnByWeight DEF DrawInv, Total
  <2> QED
    BY <2>1, <2>2, <2>3, <2>4
<1> QED
  BY <1>1, DrawInvariant, PTL

(* DuelFromFilm never pairs a film with itself or with a film that is not  *)
(* in the catalogue, and answers ErrNoCandidates only when there is no     *)
(* other film (or not the one it was asked about), however far the ratings *)
(* are apart.                                                              *)
AnswersOthers ==
  /\ phase = "drawn" => opponent \in Film \ {winner} /\ winner \in Film
  /\ phase = "none" => Film \subseteq {winner} \/ winner \notin Film

(* An opponent is another film, and there is one unless the catalogue has  *)
(* no other: by the size of the pool.                                      *)
THEOREM DrawAnswersOthers == Spec => []AnswersOthers
<1>1. DrawInv => AnswersOthers
  BY DEF DrawInv, AnswersOthers, Others
<1> QED
  BY <1>1, DrawInvariant, PTL
=============================================================================
