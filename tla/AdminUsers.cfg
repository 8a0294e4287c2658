SPECIFICATION FairSpec
CONSTANTS
  Fetch = {tab1, tab2}
  None = None
  Skew = 3
  Lifetimes <- MCLifetimes
  MaxDelay = 1
  MaxTime = 6
  User = {1, 2, 3}
  InitialVoters = {1, 3}
  Sizes = {1}
INVARIANTS
  CallsWithLiveToken
  RenewsOnlyWhenStale
  EveryVoterListed
PROPERTIES
  PagesAnswered
CHECK_DEADLOCK FALSE
