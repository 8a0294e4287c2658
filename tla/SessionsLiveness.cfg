SPECIFICATION FairSpec
CONSTANTS
  Request = {r1, r2}
  Browser = {b1}
  User = {u1}
  Anonymous = Anonymous
  SessionId = {s1, s2}
  NoSession = NoSession
  NoBrowser = NoBrowser
  PoolSize = 2
  CleanupBatch = 1
  LogoutsAtOnce = 1
  MaxCrashes = 1
PROPERTIES
  RequestsAnswered
  ExpiredSessionsGo
