SPECIFICATION Spec
CONSTANTS
  Browser = {b1, b2}
  Challenge = {c1, c2}
  Request = {r1, r2}
  Page = {Home, Ranking}
  DefaultPage = Home
  NoBrowser = NoBrowser
  None = None
  EphemeralKey = FALSE
  MaxRestarts = 1
SYMMETRY Symmetry
INVARIANTS
  TypeOK
  SessionOfOwnLogin
  OneSessionPerLogin
  LatestLoginKept
  ReturnsWhereItBegan
