SPECIFICATION Spec
CONSTANTS
  Scale = 4
  MaxGap = 30
  Expect <- MCExpect
  Film = {1, 2}
  MinCandidates = 1
  MaxCandidates = 2
  RatingWindow = 60
  PopularityWeight = 0
  NewFilmBoost = 1
  NewFilmDuelThreshold = 10
  Request = {r1, r2}
  NoRequest = NoRequest
  DuelId = {1, 2}
  NoDuel = NoDuel
  User = {}
  NoUser = NoUser
  PostedWinner = {1, 3, 18}
  IntModulus = 16
  NoRow = NoRow
  Unwritten = Unwritten
  InitialRating <- TwoRatings
  InitialCount <- TwoCounts
  InitialDuels <- OneDuel
  MaxSeq = 2
  MaxCrashes = 1
SYMMETRY Symmetry
INVARIANTS
  TypeOK
  MetricsCountRealVotes
  WinnerStaysOn
  DeadlockTakesBoth
PROPERTIES
  RatingsMoveWithVotes
  ImplementsLedger
CHECK_DEADLOCK FALSE
