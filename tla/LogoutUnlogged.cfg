SPECIFICATION Spec
CONSTANTS
  Request = {r1}
  Browser = {b1}
  User = {u1}
  Anonymous = Anonymous
  SessionId = {s1, s2}
  NoSession = NoSession
  NoBrowser = NoBrowser
  PoolSize = 2
  CleanupBatch = 1
  LogoutsAtOnce = 1
  MaxCrashes = 0
INVARIANT EndedSessionsLogged
