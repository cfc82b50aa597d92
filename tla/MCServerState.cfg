SPECIFICATION ServerSpec
CONSTANTS
  Keys = {k1, k2, k3}
  Limits = {1, 2}
  Life = 2
  MaxTime = 4
  NoFile = NoFile
  Attempts = {r1, r2}
  Addresses = {x1, x2}
  NoAddress = none
  FailureLimit = 2
  AccountLimit = 3
  Window = 1
  Block = 2
  ReadTime = 1
  MaxClock = 4
  TagRequests = {r1, r2}
  Targets = {x1, x2}
  TagKeys = {t1, t2}
  Colors = {red}
  NoTag = none
  Handlers = {r1, r2}
  Searches = {x1, x2}
  CacheLimit = 1
  Lifetime = 0
  LastSecond = 2
  MaxSaves = 2
  Corrections <- SomeCorrections
  Nothing = none
  Deciders = {r1, r2}
  Decisions <- SomeDecisions
  Bits = {b1}
  First = w1
  Second = w2
  Undecided = none
SYMMETRY ServerSymmetry
INVARIANTS
  LoggedOutStaysOut
  SessionsSurvive
  BlocksAreEarned
  TagRowsMatchLinks
  StaleReviewNeedsOverlap
  StaleDuplicatesNeedLateDecision
  DecisionStands
\* Attempts to log in may use up the clock, and requests may all be answered.
CHECK_DEADLOCK FALSE
