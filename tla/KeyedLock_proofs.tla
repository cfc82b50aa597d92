--------------------------- MODULE KeyedLock_proofs ---------------------------
(***************************************************************************)
(* acquireRenderLock excludes, for any number of clients, keys and locks.  *)
(* The argument: whoever is inside refers to the lock that the map holds   *)
(* under its key (InUse), different keys have different locks (Distinct),  *)
(* the count of a lock is the number of its users (EntriesAreInUse, so an  *)
(* entry is only removed when its last user leaves), and a holder's lock   *)
(* is full (HeldIsFull).                                                   *)
(***************************************************************************)
EXTENDS KeyedLock, FiniteSetTheorems, TLAPS

InUse ==
  \A c \in Clients :
    IF at[c] = "out"
    THEN key[c] = NoKey /\ lock[c] = NoLock
    ELSE key[c] \in Keys /\ lock[c] \in Locks /\ lock[c] = renderLocks[key[c]]

Distinct ==
  \A k, j \in Keys :
    renderLocks[k] = renderLocks[j] /\ renderLocks[k] # NoLock => k = j

HeldIsFull == \A c \in Clients : at[c] = "held" => full[lock[c]]

LockInv == LockTypeOK /\ InUse /\ Distinct /\ EntriesAreInUse /\ HeldIsFull /\ MutualExclusion

-----------------------------------------------------------------------------
LEMMA UsersFinite ==
  ASSUME NEW k
  PROVE  IsFiniteSet(Users(k)) /\ Cardinality(Users(k)) \in Nat
BY KeyedLockAssumption, FS_Subset, FS_CardinalityType DEF Users

LEMMA LockInit == Init => LockInv
<1>. SUFFICES ASSUME Init PROVE LockInv
  OBVIOUS
<1>1. LockTypeOK /\ InUse /\ Distinct /\ HeldIsFull /\ MutualExclusion
  BY DEF Init, LockTypeOK, InUse, Distinct, HeldIsFull, MutualExclusion
<1>2. EntriesAreInUse
  BY KeyedLockAssumption DEF Init, EntriesAreInUse, Users
<1>. QED
  BY <1>1, <1>2 DEF LockInv

-----------------------------------------------------------------------------
\* A client that enters refers to the lock in the map, which is an old one with
\* one user more or a new one.
LEMMA EnterInv ==
  ASSUME LockInv, NEW c \in Clients, NEW k \in Keys, Enter(c, k)
  PROVE  LockInv'
<1>. USE KeyedLockAssumption
<1>1. PICK l \in Locks :
        /\ at[c] = "out" /\ at' = [at EXCEPT ![c] = "waiting"]
        /\ key' = [key EXCEPT ![c] = k] /\ lock' = [lock EXCEPT ![c] = l]
        /\ renderLocks' = [renderLocks EXCEPT ![k] = l]
        /\ \/ /\ renderLocks[k] = l /\ full' = full
              /\ refs' = [refs EXCEPT ![l] = @ + 1]
           \/ /\ renderLocks[k] = NoLock /\ Garbage(l)
              /\ refs' = [refs EXCEPT ![l] = 1]
              /\ full' = [full EXCEPT ![l] = FALSE]
  <2>1. CASE renderLocks[k] # NoLock
    <3>1. renderLocks[k] \in Locks /\ renderLocks = [renderLocks EXCEPT ![k] = renderLocks[k]]
      BY <2>1 DEF LockInv, LockTypeOK
    <3>. QED
      BY <2>1, <3>1 DEF Enter
  <2>2. CASE renderLocks[k] = NoLock
    BY <2>2 DEF Enter
  <2>. QED
    BY <2>1, <2>2
<1>2. LockTypeOK'
  <2>1. refs' \in [Locks -> Nat] /\ full' \in [Locks -> BOOLEAN]
    <3>1. refs \in [Locks -> Nat] /\ full \in [Locks -> BOOLEAN] /\ refs[l] + 1 \in Nat
      BY <1>1 DEF LockInv, LockTypeOK
    <3>2. CASE refs' = [refs EXCEPT ![l] = @ + 1] /\ full' = full
      BY <3>1, <3>2
    <3>3. CASE refs' = [refs EXCEPT ![l] = 1] /\ full' = [full EXCEPT ![l] = FALSE]
      <4>0. refs' = [refs EXCEPT ![l] = 1]
        BY <3>3
      <4>1. refs' \in [Locks -> Nat]
        BY <3>1, <4>0
      <4>2. full' \in [Locks -> BOOLEAN]
        BY <3>1, <3>3
      <4>. QED
        BY <4>1, <4>2
    <3>. QED
      BY <1>1, <3>2, <3>3
  <2>2. renderLocks' \in [Keys -> Locks \cup {NoLock}]
    BY <1>1 DEF LockInv, LockTypeOK
  <2>3. /\ at' \in [Clients -> {"out", "waiting", "held", "leaving"}]
        /\ key' \in [Clients -> Keys \cup {NoKey}]
        /\ lock' \in [Clients -> Locks \cup {NoLock}]
    BY <1>1 DEF LockInv, LockTypeOK
  <2>. QED
    BY <2>1, <2>2, <2>3 DEF LockTypeOK
<1>3. InUse'
  BY <1>1 DEF LockInv, LockTypeOK, InUse, Garbage
<1>4. Distinct'
  BY <1>1 DEF LockInv, LockTypeOK, Distinct, Garbage
<1>5. /\ Users(k)' = Users(k) \cup {c} /\ c \notin Users(k)
      /\ \A j \in Keys : j # k => Users(j)' = Users(j)
  BY <1>1 DEF Users, LockInv, LockTypeOK, InUse
<1>6. Cardinality(Users(k)') = Cardinality(Users(k)) + 1
  BY <1>5, UsersFinite, FS_AddElement
<1>7. EntriesAreInUse'
  <2>1. ASSUME NEW j \in Keys, j # k
        PROVE  /\ renderLocks'[j] = NoLock <=> Users(j)' = {}
               /\ renderLocks'[j] # NoLock => refs'[renderLocks'[j]] = Cardinality(Users(j)')
    <3>1. renderLocks'[j] = renderLocks[j] /\ Users(j)' = Users(j)
      BY <1>1, <1>5, <2>1 DEF LockInv, LockTypeOK
    <3>2. renderLocks[j] # NoLock => renderLocks[j] # l
      BY <1>1, <2>1 DEF LockInv, Distinct, Garbage
    <3>3. renderLocks[j] # NoLock => refs'[renderLocks[j]] = refs[renderLocks[j]]
      BY <1>1, <3>2 DEF LockInv, LockTypeOK
    <3>. QED
      BY <3>1, <3>3 DEF LockInv, EntriesAreInUse
  <2>2. renderLocks'[k] = l /\ Users(k)' # {}
    BY <1>1, <1>5 DEF LockInv, LockTypeOK
  <2>3. refs'[l] = Cardinality(Users(k)')
    <3>1. CASE renderLocks[k] # NoLock
      BY <1>1, <1>6, <3>1 DEF LockInv, LockTypeOK, EntriesAreInUse
    <3>2. CASE renderLocks[k] = NoLock
      <4>1. Cardinality(Users(k)) = 0
        BY <3>2, FS_EmptySet DEF LockInv, EntriesAreInUse
      <4>. QED
        BY <1>1, <1>6, <3>2, <4>1 DEF LockInv, LockTypeOK
    <3>. QED
      BY <3>1, <3>2
  <2>. QED
    BY <2>1, <2>2, <2>3 DEF EntriesAreInUse
<1>8. /\ at'[c] = "waiting"
      /\ \A d \in Clients : d # c => at'[d] = at[d] /\ key'[d] = key[d] /\ lock'[d] = lock[d]
  BY <1>1 DEF LockInv, LockTypeOK
<1>9. \A d \in Clients : at[d] = "held" => full'[lock[d]]
  <2>. SUFFICES ASSUME NEW d \in Clients, at[d] = "held" PROVE full'[lock[d]]
    OBVIOUS
  <2>1. full[lock[d]] /\ lock[d] \in Locks
    BY DEF LockInv, HeldIsFull, InUse
  <2>2. full' = full \/ (full' = [full EXCEPT ![l] = FALSE] /\ lock[d] # l)
    BY <1>1 DEF Garbage
  <2>. QED
    BY <2>1, <2>2 DEF LockInv, LockTypeOK
<1>10. HeldIsFull' /\ MutualExclusion'
  BY <1>1, <1>8, <1>9 DEF LockInv, HeldIsFull, MutualExclusion
<1>. QED
  BY <1>2, <1>3, <1>4, <1>7, <1>10 DEF LockInv

\* A client that leaves takes the entry with it exactly when it is the last one.
LEMMA DropRefInv ==
  ASSUME LockInv, NEW c \in Clients, at[c] \in {"waiting", "leaving"},
         DropRef(c), UNCHANGED full
  PROVE  LockInv'
<1>. USE KeyedLockAssumption
<1>1. PICK k \in Keys, l \in Locks :
        k = key[c] /\ l = lock[c] /\ l = renderLocks[k] /\ l # NoLock
  BY DEF LockInv, InUse
<1>2. /\ at' = [at EXCEPT ![c] = "out"]
      /\ key' = [key EXCEPT ![c] = NoKey] /\ lock' = [lock EXCEPT ![c] = NoLock]
      /\ refs' = [refs EXCEPT ![l] = @ - 1]
  BY <1>1 DEF DropRef
<1>3. /\ Users(k)' = Users(k) \ {c} /\ c \in Users(k)
      /\ \A j \in Keys : j # k => Users(j)' = Users(j)
  <2>1. \A d \in Clients : key'[d] = IF d = c THEN NoKey ELSE key[d]
    BY <1>2 DEF LockInv, LockTypeOK
  <2>2. c \in Users(k)
    BY <1>1 DEF Users
  <2>3. ASSUME NEW j \in Keys PROVE Users(j)' = Users(j) \ {c}
    BY <2>1, <2>3 DEF Users
  <2>4. \A j \in Keys : j # k => c \notin Users(j)
    BY <1>1 DEF Users
  <2>. QED
    BY <1>1, <2>2, <2>3, <2>4
<1>4. /\ refs[l] = Cardinality(Users(k)) /\ refs[l] \in Nat
      /\ Cardinality(Users(k)') = refs[l] - 1
      /\ refs[l] - 1 \in Nat
  <2>1. refs[l] = Cardinality(Users(k))
    BY <1>1 DEF LockInv, EntriesAreInUse
  <2>2. Cardinality(Users(k)') = Cardinality(Users(k)) - 1
    BY <1>3, UsersFinite, FS_RemoveElement
  <2>3. Cardinality(Users(k)') \in Nat
    BY <1>3, UsersFinite, FS_RemoveElement, FS_CardinalityType
  <2>. QED
    BY <2>1, <2>2, <2>3, UsersFinite
<1>5. refs[l] - 1 <= 0 <=> Users(k)' = {}
  <2>1. IsFiniteSet(Users(k)')
    BY <1>3, UsersFinite, FS_RemoveElement
  <2>2. Cardinality(Users(k)') = 0 <=> Users(k)' = {}
    BY <2>1, FS_EmptySet
  <2>. QED
    BY <1>4, <2>2
<1>6. renderLocks' = IF Users(k)' = {} THEN [renderLocks EXCEPT ![k] = NoLock] ELSE renderLocks
  BY <1>1, <1>5 DEF DropRef
<1>7. LockTypeOK'
  <2>1. refs' \in [Locks -> Nat] /\ full' \in [Locks -> BOOLEAN]
    <3>1. refs[l] - 1 \in Nat
      BY <1>4
    <3>. QED
      BY <1>2, <3>1 DEF LockInv, LockTypeOK
  <2>2. renderLocks' \in [Keys -> Locks \cup {NoLock}]
    BY <1>6 DEF LockInv, LockTypeOK
  <2>3. /\ at' \in [Clients -> {"out", "waiting", "held", "leaving"}]
        /\ key' \in [Clients -> Keys \cup {NoKey}]
        /\ lock' \in [Clients -> Locks \cup {NoLock}]
    BY <1>2 DEF LockInv, LockTypeOK
  <2>. QED
    BY <2>1, <2>2, <2>3 DEF LockTypeOK
<1>8. InUse'
  <2>. SUFFICES ASSUME NEW d \in Clients
       PROVE  IF at'[d] = "out" THEN key'[d] = NoKey /\ lock'[d] = NoLock
              ELSE key'[d] \in Keys /\ lock'[d] \in Locks /\ lock'[d] = renderLocks'[key'[d]]
    BY DEF InUse
  <2>1. CASE d = c
    BY <1>2, <2>1 DEF LockInv, LockTypeOK
  <2>2. CASE d # c
    <3>1. at'[d] = at[d] /\ key'[d] = key[d] /\ lock'[d] = lock[d]
      BY <1>2, <2>2 DEF LockInv, LockTypeOK
    <3>2. key[d] = k => Users(k)' # {}
      BY <1>3, <2>2 DEF Users
    <3>3. key[d] \in Keys => renderLocks'[key[d]] = renderLocks[key[d]]
      BY <1>6, <3>2 DEF LockInv, LockTypeOK
    <3>. QED
      BY <3>1, <3>3 DEF LockInv, InUse
  <2>. QED
    BY <2>1, <2>2
<1>9. Distinct'
  BY <1>6 DEF LockInv, LockTypeOK, Distinct
<1>10. EntriesAreInUse'
  <2>1. ASSUME NEW j \in Keys, j # k
        PROVE  /\ renderLocks'[j] = NoLock <=> Users(j)' = {}
               /\ renderLocks'[j] # NoLock => refs'[renderLocks'[j]] = Cardinality(Users(j)')
    <3>1. renderLocks'[j] = renderLocks[j] /\ Users(j)' = Users(j)
      BY <1>3, <1>6, <2>1 DEF LockInv, LockTypeOK
    <3>2. renderLocks[j] # NoLock => renderLocks[j] # l
      BY <1>1, <2>1 DEF LockInv, Distinct
    <3>3. renderLocks[j] # NoLock => refs'[renderLocks[j]] = refs[renderLocks[j]]
      BY <1>2, <3>2 DEF LockInv, LockTypeOK
    <3>. QED
      BY <3>1, <3>3 DEF LockInv, EntriesAreInUse
  <2>2. renderLocks'[k] = NoLock <=> Users(k)' = {}
    BY <1>1, <1>6 DEF LockInv, LockTypeOK
  <2>3. renderLocks'[k] # NoLock => refs'[renderLocks'[k]] = Cardinality(Users(k)')
    BY <1>1, <1>2, <1>4, <1>6, <2>2 DEF LockInv, LockTypeOK
  <2>. QED
    BY <1>1, <2>1, <2>2, <2>3 DEF EntriesAreInUse
<1>11. HeldIsFull' /\ MutualExclusion'
  BY <1>2 DEF LockInv, LockTypeOK, HeldIsFull, MutualExclusion
<1>. QED
  BY <1>7, <1>8, <1>9, <1>10, <1>11 DEF LockInv

LEMMA LockStepInv ==
  ASSUME LockInv, NEW c \in Clients, Lock(c)
  PROVE  LockInv'
<1>1. LockTypeOK' /\ InUse' /\ Distinct' /\ EntriesAreInUse'
  BY DEF Lock, LockInv, LockTypeOK, InUse, Distinct, EntriesAreInUse, Users
<1>2. HeldIsFull'
  BY DEF Lock, LockInv, LockTypeOK, HeldIsFull, InUse
<1>3. ASSUME NEW d \in Clients, at[d] = "held" PROVE key[d] # key[c]
  BY <1>3 DEF Lock, LockInv, HeldIsFull, InUse
<1>4. MutualExclusion'
  BY <1>3 DEF Lock, LockInv, LockTypeOK, MutualExclusion
<1>. QED
  BY <1>1, <1>2, <1>4 DEF LockInv

LEMMA UnlockInv ==
  ASSUME LockInv, NEW c \in Clients, Unlock(c)
  PROVE  LockInv'
<1>0. UNCHANGED <<renderLocks, refs, key, lock>> /\ at' = [at EXCEPT ![c] = "leaving"]
      /\ at[c] = "held" /\ full' = [full EXCEPT ![lock[c]] = FALSE]
  BY DEF Unlock
<1>1. LockTypeOK' /\ InUse' /\ Distinct' /\ EntriesAreInUse' /\ MutualExclusion'
  <2>1. LockTypeOK'
    BY <1>0 DEF LockInv, LockTypeOK
  <2>2. \A d \in Clients : at'[d] = "out" <=> at[d] = "out"
    BY <1>0 DEF LockInv, LockTypeOK
  <2>3. InUse'
    BY <1>0, <2>2 DEF LockInv, InUse
  <2>4. Distinct'
    BY <1>0 DEF LockInv, Distinct
  <2>5. \A j : Users(j)' = Users(j)
    BY <1>0 DEF Users
  <2>6. EntriesAreInUse'
    BY <1>0, <2>5 DEF LockInv, EntriesAreInUse
  <2>7. MutualExclusion'
    BY <1>0 DEF LockInv, LockTypeOK, MutualExclusion
  <2>. QED
    BY <2>1, <2>3, <2>4, <2>6, <2>7
<1>2. ASSUME NEW d \in Clients, d # c, at[d] = "held" PROVE lock[d] # lock[c]
  <2>1. key[d] # key[c] /\ key[d] \in Keys /\ key[c] \in Keys
    BY <1>2 DEF Unlock, LockInv, MutualExclusion, InUse
  <2>2. lock[d] = renderLocks[key[d]] /\ lock[c] = renderLocks[key[c]] /\ lock[c] \in Locks
    BY <1>2 DEF Unlock, LockInv, InUse
  <2>. QED
    BY <2>1, <2>2, KeyedLockAssumption DEF LockInv, Distinct
<1>3. HeldIsFull'
  BY <1>2 DEF Unlock, LockInv, LockTypeOK, HeldIsFull, InUse
<1>. QED
  BY <1>1, <1>3 DEF LockInv

LEMMA LockNext == LockInv /\ [Next]_lockVars => LockInv'
<1>. SUFFICES ASSUME LockInv, [Next]_lockVars PROVE LockInv'
  OBVIOUS
<1>1. ASSUME NEW c \in Clients, GiveUp(c) \/ Leave(c) PROVE LockInv'
  BY <1>1, DropRefInv DEF GiveUp, Leave
<1>2. CASE UNCHANGED lockVars
  BY <1>2 DEF lockVars, LockInv, LockTypeOK, InUse, Distinct, EntriesAreInUse, Users,
              HeldIsFull, MutualExclusion
<1>. QED
  BY <1>1, <1>2, EnterInv, LockStepInv, UnlockInv DEF Next, Step

\* The count of a lock never goes below zero, and what a client refers to exists.
THEOREM LockTypes == Spec => []LockTypeOK
<1>1. LockInv => LockTypeOK
  BY DEF LockInv
<1>. QED
  BY <1>1, LockInit, LockNext, PTL DEF Spec

\* Two clients never hold locks of one key.
THEOREM LocksExclude == Spec => []MutualExclusion
<1>1. LockInv => MutualExclusion
  BY DEF LockInv
<1>. QED
  BY <1>1, LockInit, LockNext, PTL DEF Spec

\* The map holds exactly the locks in use, each with the number of its users.
THEOREM EntriesMatchUse == Spec => []EntriesAreInUse
<1>1. LockInv => EntriesAreInUse
  BY DEF LockInv
<1>. QED
  BY <1>1, LockInit, LockNext, PTL DEF Spec

-----------------------------------------------------------------------------
(* Refinement: a client holds the key of the lock it got.                  *)
Holds == [c \in Clients |-> IF at[c] = "held" THEN key[c] ELSE NoKey]

LEMMA InitHolds == Init => Mutex!Init
BY DEF Init, Mutex!Init

LEMMA StepHolds ==
  ASSUME LockInv, [Next]_lockVars
  PROVE  Mutex!Next \/ UNCHANGED Holds
<1>. USE KeyedLockAssumption
<1>1. ASSUME NEW c \in Clients, Lock(c) PROVE Mutex!Acquire(c, key[c]) /\ key[c] \in Keys
  <2>1. key[c] \in Keys /\ at[c] = "waiting" /\ lock[c] = renderLocks[key[c]]
    BY <1>1 DEF Lock, LockInv, InUse
  <2>2. ASSUME NEW d \in Clients, at[d] = "held" PROVE key[d] # key[c]
    BY <1>1, <2>1, <2>2 DEF Lock, LockInv, HeldIsFull, InUse
  <2>3. at' = [at EXCEPT ![c] = "held"] /\ key' = key
    BY <1>1 DEF Lock
  <2>4. Holds' = [Holds EXCEPT ![c] = key[c]]
    BY <2>3 DEF Holds, LockInv, LockTypeOK
  <2>5. Holds[c] = NoKey /\ \A d \in Clients : Holds[d] # key[c]
    BY <2>1, <2>2 DEF Holds
  <2>. QED
    BY <2>1, <2>4, <2>5 DEF Mutex!Acquire, Holds
<1>2. ASSUME NEW c \in Clients, Unlock(c) PROVE Mutex!Release(c)
  <2>1. key[c] \in Keys /\ at[c] = "held"
    BY <1>2 DEF Unlock, LockInv, InUse
  <2>2. at' = [at EXCEPT ![c] = "leaving"] /\ key' = key
    BY <1>2 DEF Unlock
  <2>3. Holds' = [Holds EXCEPT ![c] = NoKey]
    BY <2>2 DEF Holds, LockInv, LockTypeOK
  <2>4. Holds[c] # NoKey
    BY <2>1 DEF Holds
  <2>. QED
    BY <2>3, <2>4 DEF Mutex!Release, Holds
<1>3. ASSUME NEW c \in Clients, at[c] # "held", at'[c] # "held",
             \A d \in Clients : d # c => at'[d] = at[d] /\ key'[d] = key[d]
      PROVE  UNCHANGED Holds
  BY <1>3 DEF Holds
<1>4. ASSUME NEW c \in Clients, NEW k \in Keys, Enter(c, k) PROVE UNCHANGED Holds
  BY <1>3, <1>4 DEF Enter, LockInv, LockTypeOK
<1>5. ASSUME NEW c \in Clients, GiveUp(c) \/ Leave(c) PROVE UNCHANGED Holds
  BY <1>3, <1>5 DEF GiveUp, Leave, DropRef, LockInv, LockTypeOK
<1>6. CASE UNCHANGED lockVars
  BY <1>6 DEF lockVars, Holds
<1>7. ASSUME NEW c \in Clients, Lock(c) \/ Unlock(c) PROVE Mutex!Next
  <2>1. CASE Lock(c)
    <3>1. PICK k \in Keys : k = key[c]
      BY <1>1, <2>1
    <3>2. Holds[c] = NoKey /\ (\A d \in Clients : Holds[d] # k)
            /\ Holds' = [Holds EXCEPT ![c] = k]
      BY <1>1, <2>1, <3>1 DEF Mutex!Acquire, Holds
    <3>. QED
      BY <3>2 DEF Mutex!Next, Mutex!Acquire, Mutex!Release, Holds
  <2>2. CASE Unlock(c)
    <3>1. Holds[c] # NoKey /\ Holds' = [Holds EXCEPT ![c] = NoKey]
      BY <1>2, <2>2 DEF Mutex!Release, Holds
    <3>. QED
      BY <3>1 DEF Mutex!Next, Mutex!Acquire, Mutex!Release, Holds
  <2>. QED
    BY <1>7, <2>1, <2>2
<1>. QED
  BY <1>4, <1>5, <1>6, <1>7 DEF Next, Step

\* acquireRenderLock implements a mutex per key.
THEOREM ImplementsKeyedMutex == Spec => ImplementsMutex
<1>1. LockInv /\ [Next]_lockVars => [Mutex!Next]_Holds
  BY StepHolds
<1>. QED
  BY <1>1, LockInit, LockNext, InitHolds, PTL DEF Spec, ImplementsMutex, Mutex!Spec, Holds
=============================================================================
