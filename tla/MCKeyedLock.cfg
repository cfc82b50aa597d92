SPECIFICATION FairSpec
CONSTANTS
  Clients = {c1, c2, c3, c4}
  Keys = {k1, k2}
  Locks = {l1, l2, l3, l4}
  NoKey = NoKey
  NoLock = NoLock
INVARIANTS
  EntriesAreInUse
PROPERTIES
  ImplementsMutex
  EveryWaitEnds
