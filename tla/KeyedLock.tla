----------------------------- MODULE KeyedLock ------------------------------
(***************************************************************************)
(* acquireRenderLock (internal/prototype/server.go): a mutex per key that  *)
(* exists only while somebody uses it.  Server.renderLocks maps a key to a *)
(* lock; a lock is a channel of capacity one and a count of the clients    *)
(* that got hold of it, and the last of them takes it out of the map.      *)
(*                                                                         *)
(* A step is a section under renderLockMu or one channel operation: what   *)
(* other clients do falls between looking the lock up and sending to its   *)
(* channel, and between receiving from it and giving the count back.       *)
(*                                                                         *)
(* A client is one call of acquireRenderLock and of the function it        *)
(* returns, so a request with two nested locks is two clients.  A lock     *)
(* nobody refers to is garbage: its identity may be used again.            *)
(***************************************************************************)
EXTENDS Integers, FiniteSets

CONSTANTS Clients, Keys, Locks, NoKey, NoLock

ASSUME KeyedLockAssumption ==
  /\ NoKey \notin Keys
  /\ NoLock \notin Locks
  /\ IsFiniteSet(Clients)

VARIABLES
  renderLocks,  \* Server.renderLocks, NoLock where the key is not in the map
  refs,         \* keyedRenderLock.refs
  full,         \* keyedRenderLock.ch holds its one element
  at,           \* where a client is in acquireRenderLock
  key,          \* its key
  lock          \* the lock it looked up

lockVars == <<renderLocks, refs, full, at, key, lock>>

Init ==
  /\ renderLocks = [k \in Keys |-> NoLock]
  /\ refs = [l \in Locks |-> 0]
  /\ full = [l \in Locks |-> FALSE]
  /\ at = [c \in Clients |-> "out"]
  /\ key = [c \in Clients |-> NoKey]
  /\ lock = [c \in Clients |-> NoLock]

Garbage(l) ==
  /\ \A k \in Keys : renderLocks[k] # l
  /\ \A c \in Clients : lock[c] # l

\* The key's lock and its count; a new one when the map has none.
Enter(c, k) ==
  /\ at[c] = "out"
  /\ \/ /\ renderLocks[k] # NoLock
        /\ refs' = [refs EXCEPT ![renderLocks[k]] = @ + 1]
        /\ lock' = [lock EXCEPT ![c] = renderLocks[k]]
        /\ UNCHANGED <<renderLocks, full>>
     \/ /\ renderLocks[k] = NoLock
        /\ \E l \in Locks :
             /\ Garbage(l)
             /\ renderLocks' = [renderLocks EXCEPT ![k] = l]
             /\ refs' = [refs EXCEPT ![l] = 1]
             /\ full' = [full EXCEPT ![l] = FALSE]
             /\ lock' = [lock EXCEPT ![c] = l]
  /\ key' = [key EXCEPT ![c] = k]
  /\ at' = [at EXCEPT ![c] = "waiting"]

\* The select took the send: the client holds the lock.
Lock(c) ==
  /\ at[c] = "waiting"
  /\ ~full[lock[c]]
  /\ full' = [full EXCEPT ![lock[c]] = TRUE]
  /\ at' = [at EXCEPT ![c] = "held"]
  /\ UNCHANGED <<renderLocks, refs, key, lock>>

\* (Mutants: the map entry goes with the first client that leaves, or never.)
DropRefAndEntry(c) ==
  /\ refs' = [refs EXCEPT ![lock[c]] = @ - 1]
  /\ renderLocks' = [renderLocks EXCEPT ![key[c]] = NoLock]
  /\ at' = [at EXCEPT ![c] = "out"]
  /\ key' = [key EXCEPT ![c] = NoKey]
  /\ lock' = [lock EXCEPT ![c] = NoLock]
DropRefOnly(c) ==
  /\ refs' = [refs EXCEPT ![lock[c]] = @ - 1]
  /\ at' = [at EXCEPT ![c] = "out"]
  /\ key' = [key EXCEPT ![c] = NoKey]
  /\ lock' = [lock EXCEPT ![c] = NoLock]
  /\ UNCHANGED renderLocks

\* The count goes down, and the last client removes the map entry.
DropRef(c) ==
  /\ refs' = [refs EXCEPT ![lock[c]] = @ - 1]
  /\ renderLocks' = IF refs[lock[c]] - 1 <= 0
                    THEN [renderLocks EXCEPT ![key[c]] = NoLock]
                    ELSE renderLocks
  /\ at' = [at EXCEPT ![c] = "out"]
  /\ key' = [key EXCEPT ![c] = NoKey]
  /\ lock' = [lock EXCEPT ![c] = NoLock]

\* The select took ctx.Done.
GiveUp(c) == at[c] = "waiting" /\ DropRef(c) /\ UNCHANGED full

\* The release function: receive, then give the count back.
\* (Mutant: the element stays in the channel.)
UnlockNothing(c) ==
  /\ at[c] = "held"
  /\ at' = [at EXCEPT ![c] = "leaving"]
  /\ UNCHANGED <<renderLocks, refs, full, key, lock>>
Unlock(c) ==
  /\ at[c] = "held"
  /\ full' = [full EXCEPT ![lock[c]] = FALSE]
  /\ at' = [at EXCEPT ![c] = "leaving"]
  /\ UNCHANGED <<renderLocks, refs, key, lock>>

Leave(c) == at[c] = "leaving" /\ DropRef(c) /\ UNCHANGED full

Step(c) ==
  \/ \E k \in Keys : Enter(c, k)
  \/ Lock(c)
  \/ GiveUp(c)
  \/ Unlock(c)
  \/ Leave(c)

Next == \E c \in Clients : Step(c)

\* Every section under renderLockMu ends and every holder calls its release
\* function (all callers defer it).  Blocked senders of a Go channel are served
\* in order, so a client is not passed over for ever: strong fairness of Lock.
Fairness ==
  \A c \in Clients :
    /\ SF_lockVars(Lock(c))
    /\ WF_lockVars(Unlock(c))
    /\ WF_lockVars(Leave(c))

Spec == Init /\ [][Next]_lockVars
FairSpec == Spec /\ Fairness

-----------------------------------------------------------------------------
Users(k) == {c \in Clients : key[c] = k}

LockTypeOK ==
  /\ renderLocks \in [Keys -> Locks \cup {NoLock}]
  /\ refs \in [Locks -> Nat]
  /\ full \in [Locks -> BOOLEAN]
  /\ at \in [Clients -> {"out", "waiting", "held", "leaving"}]
  /\ key \in [Clients -> Keys \cup {NoKey}]
  /\ lock \in [Clients -> Locks \cup {NoLock}]

\* Two clients never hold locks of one key, whatever gave up or is leaving.
MutualExclusion ==
  \A c, d \in Clients :
    at[c] = "held" /\ at[d] = "held" /\ key[c] = key[d] => c = d

\* The map holds exactly the locks in use, each with its number of users: an
\* entry is neither left behind nor taken from under a client.
EntriesAreInUse ==
  \A k \in Keys :
    /\ renderLocks[k] = NoLock <=> Users(k) = {}
    /\ renderLocks[k] # NoLock => refs[renderLocks[k]] = Cardinality(Users(k))

\* Who waits for a lock gets it or gives up.
EveryWaitEnds == \A c \in Clients : at[c] = "waiting" ~> at[c] # "waiting"

Mutex == INSTANCE KeyedMutex WITH
  holds <- [c \in Clients |-> IF at[c] = "held" THEN key[c] ELSE NoKey]

ImplementsMutex == Mutex!Spec
=============================================================================
