SPECIFICATION Spec
CONSTANTS
  Scale = 4
  MaxGap = 30
  Expect <- MCExpect
  Film = {1, 2}
  MinCandidates = 1
  MaxCandidates = 2
  RatingWindow = 60
  PopularityWeight = 0
  NewFilmBoost = 1
  NewFilmDuelThreshold = 10
  Request = {r1}
  NoRequest = NoRequest
  DuelId = {1, 2}
  NoDuel = NoDuel
  User = {ana}
  NoUser = NoUser
  PostedWinner = {1, 2}
  IntModulus = 16
  NoRow = NoRow
  Unwritten = Unwritten
  InitialRating <- TwoRatings
  InitialCount <- TwoCounts
  InitialDuels <- NoDuels
  MaxSeq = 2
  MaxCrashes = 0
INVARIANT
  PendingGaugeReal
CHECK_DEADLOCK FALSE
