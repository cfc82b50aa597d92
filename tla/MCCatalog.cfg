SPECIFICATION ToolsSpec
CONSTANTS
  l1 = l1
  l2 = l2
  n1 = n1
  n2 = n2
  p1 = p1
  p2 = p2
  Libraries = {l1, l2}
  Names = {n1, n2}
  Paths = {p1, p2}
  PathOf <- SomePaths
  Edited = {p1}
  Titles = {title}
  NoTitle = none
  MaxChanges = 2
  Starters = {x1, x2, s3}
  Scanners = {s3}
  Nobody = none
  root = root
  covers = covers
  sub = sub
  Askers = {x1, x2}
  Roots = {root, covers}
  Below <- SomeDirectories
  Files = {0, 1}
  MaxEntries = 2
  Timeout = 1
  Lifetime = 2
  MaxTime = 4
  k1 = k1
  k2 = k2
  PathNumbers = {1, 2, 3}
  Contents = {x1, x2}
  Mixed = mixed
  Absent = absent
  CollisionKeys <- SomeKeys
  OtherKind = other
  MaxSamples = 2
  MaxFiles = 3
  MaxWrites = 1
  Books = {1, 2, 3, 4}
  BookStates <- SomeBookStates
  GroupsOf <- SomeGroups
  NoProgress = none
  NoBook = 0
  Tabs = {x1, x2}
  w1 = w1
  Works = {w1}
  Editions = {1, 2}
  WorkOf <- OneWork
  Capacities = {1, 2}
  MaxSkew = 1
  Ahead = 2
  MaxPositions = 2
  NoEntry = none
SYMMETRY ToolsSymmetry
INVARIANTS
  PositionsAreKept
  WorksKeepTheirOverrides
  ScansFindWhatStays
  ReadersFindTheSchema
  RefusedStaysUntouched
  SizesAreWholeAndRecent
  PlanComparesAllFiles
  PlanIsOfWholeFiles
  ContinuesWhereTheReaderStopped
\* A plan ends, and so does a request.
CHECK_DEADLOCK FALSE
