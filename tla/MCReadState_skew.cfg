SPECIFICATION Spec
CONSTANTS
  Requests = {r1, r2}
  Kinds = {"migrate"}
  Marks <- AllMarks
  Fields <- NoFields
  MaxTime = 3
  Skew = 1
  ClientLead = 1
  LockWait = 1
  Rollback = 0
  Legacy = FALSE
SYMMETRY Symmetry
PROPERTIES
  NoResurrection
