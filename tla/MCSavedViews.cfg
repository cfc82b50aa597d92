SPECIFICATION ViewsSpec
CONSTANTS
  Requests = {r1, r2}
  Sorts = {added, title}
  Modes = {all, series}
  Offsets = {0, 1}
  Starts = {1}
  MaxEvent = 3
  MaxBatch = 2
  Attempts = 2
  NoRow = NoRow
  NoMutation = NoMutation
  Devices = {d1, d2, d3}
  MaxTime = 3
  Tabs = {r1, r2}
  Marks = {added, title}
  Values = {all, series}
  MaxPending = 1
  MaxMarks = 2
  NoMark = none
SYMMETRY Symmetry
INVARIANTS
  NewestDecides
  AckedIsKept
  MarksAreKept
PROPERTIES
  ClocksOnlyGrow
  LossNeedsOverlap
\* All marks may be given and delivered.
CHECK_DEADLOCK FALSE
