SPECIFICATION FairSpec
CONSTANTS
  Requests = {r1, r2, r3}
  Paths = {page, cover, file}
  Archived = {page}
  MaxPermits = 2
  NoKey = NoKey
  NoPath = NoPath
INVARIANTS
  LoadsAreNeeded
  PermitsAreAccounted
PROPERTIES
  ImplementsSingleFlight
  EveryRequestEnds
