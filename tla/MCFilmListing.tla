--------------------------- MODULE MCFilmListing ---------------------------
(* Values of the constants of FilmListing for TLC: the curve of the code in*)
(* thousandths; four films, three of them tied and one of those not yet in *)
(* the catalogue; one duel there and one to be dealt; counts on both sides *)
(* of the twentieth duel.                                                  *)
EXTENDS FilmListing, Sequences, TLC

(* round(1000/(1+10^(-g/400))) for g = 0, 50, ..., 800 points. *)
Curve == <<500, 571, 640, 703, 760, 808, 849, 882, 909, 930, 947, 960, 969, 977, 983, 987, 990>>

MCScale == 1000

MCMaxGap == 50 * (Len(Curve) - 1)

(* The curve between two of its points, by linear interpolation. *)
Above(g) ==
  LET i == g \div 50 + 1
  IN  IF i = Len(Curve) THEN Curve[i]
      ELSE Curve[i] + ((Curve[i + 1] - Curve[i]) * (g % 50)) \div 50

MCExpect == [g \in -MCMaxGap..MCMaxGap |-> IF g >= 0 THEN Above(g) ELSE MCScale - Above(-g)]

MCInitialRating == <<StdRating, StdRating, StdRating + 15 * MCScale, StdRating>>

MCInitialCount == <<19, 24, 30, 0>>

MCInitialDuels == (1 :> <<2, 1>>) @@ (2 :> NoDuel)
=============================================================================
