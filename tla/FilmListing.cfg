SPECIFICATION ListingSpec
CONSTANTS
  Scale <- MCScale
  MaxGap <- MCMaxGap
  Expect <- MCExpect
  Film = {1, 2, 3, 4}
  DuelId = {1, 2}
  NoDuel = NoDuel
  User = {}
  NoUser = NoUser
  InitialRating <- MCInitialRating
  InitialCount <- MCInitialCount
  InitialDuels <- MCInitialDuels
  MaxSeq = 2
  Reader = {tab}
  InitialCatalogue = {1, 2, 3}
  Sizes = {1, 2}
INVARIANTS
  ListedInOrder
  TwiceOnlyIfLost
  MissedOnlyIfWon
  HistoryExplainsRating
PROPERTIES
  ResultMovesApart
  EstablishedPointsConserved
CHECK_DEADLOCK FALSE
