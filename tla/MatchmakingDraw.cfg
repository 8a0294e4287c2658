SPECIFICATION Spec
CONSTANTS
  Film <- MCFilm
  UnknownFilm = 99
  Ratings <- MCRatings
  Profiles <- MCProfiles
  MinCandidates = 2
  MaxCandidates = 3
  RatingWindow = 2
  PopularityWeight = 2
  NewFilmBoost = 3
  NewFilmDuelThreshold = 3
INVARIANTS
  PoolAsDocumented
  DrawnInProportion
CHECK_DEADLOCK FALSE
