SPECIFICATION Spec
CONSTANTS
  Request = {r1, r2, r3}
  Browser = {b1, b2}
  User = {u1, u2}
  Anonymous = Anonymous
  SessionId = {s1, s2}
  NoSession = NoSession
  NoBrowser = NoBrowser
  PoolSize = 2
  CleanupBatch = 1
  LogoutsAtOnce = 2
  MaxCrashes = 1
SYMMETRY Symmetry
INVARIANTS
  GoodbyeMeansGone
  PoolStuckOnlyByLogouts
  VotesOfOwner
PROPERTY
  ImplementsSessionLife
