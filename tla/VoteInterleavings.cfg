SPECIFICATION Spec
CONSTANTS
  Scale = 4
  MaxGap = 30
  Expect <- MCExpect
  Film = {1, 2, 3}
  MinCandidates = 1
  MaxCandidates = 2
  RatingWindow = 60
  PopularityWeight = 0
  NewFilmBoost = 1
  NewFilmDuelThreshold = 10
  Request = {r1, r2}
  NoRequest = NoRequest
  DuelId = {1, 2}
  NoDuel = NoDuel
  User = {}
  NoUser = NoUser
  PostedWinner = {1, 2, 3}
  IntModulus = 16
  NoRow = NoRow
  Unwritten = Unwritten
  InitialRating <- ThreeRatings
  InitialCount <- ThreeCounts
  InitialDuels <- TwoDuels
  MaxSeq = 3
  MaxCrashes = 0
SYMMETRY Symmetry
INVARIANTS
  ReadsStayFresh
  RatingsReplay
  SeqFollowsCommits
  IndexNeverWaits
  VotesWaitUpwards
CHECK_DEADLOCK FALSE
