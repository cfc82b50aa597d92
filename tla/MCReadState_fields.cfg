SPECIFICATION Spec
CONSTANTS
  Requests = {r1, r2}
  Kinds = {"save", "mark"}
  Marks = {"unread"}
  Fields = {favorite}
  MaxTime = 2
  Skew = 1
  ClientLead = 0
  LockWait = 1
  Rollback = 0
  Legacy = TRUE
SYMMETRY Symmetry
INVARIANTS
  FieldEventsCovered
  MarkRowAgrees
