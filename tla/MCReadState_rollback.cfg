SPECIFICATION Spec
CONSTANTS
  Requests = {r1, r2}
  Kinds <- AllKinds
  Marks = {"unread", "completed"}
  Fields <- NoFields
  MaxTime = 2
  Skew = 0
  ClientLead = 0
  LockWait = 1
  Rollback = 1
  Legacy = TRUE
SYMMETRY Symmetry
INVARIANTS
  TombstoneExcludesProgress
PROPERTIES
  UntrustedClockNeverBlocks
