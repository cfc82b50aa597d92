SPECIFICATION Spec
CONSTANTS
  Requests = {r1, r2}
  Kinds <- AllKinds
  Marks <- AllMarks
  Fields <- NoFields
  MaxTime = 2
  Skew = 2
  ClientLead = 1
  LockWait = 1
  Rollback = 0
  Legacy = FALSE
SYMMETRY Symmetry
INVARIANTS
  AnsweredIsCovered
  StoredStands
PROPERTIES
  NoResurrection
  ImplementsRegister
