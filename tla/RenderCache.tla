---------------------------- MODULE RenderCache -----------------------------
(***************************************************************************)
(* The thumbnail cache: ensureCacheFile (internal/prototype/server.go) and *)
(* the requests that go through it.  The thumbnail of an image file is     *)
(* built under the lock of its cache path; the thumbnail of a page inside  *)
(* an archive is loaded under a source lock first, and built under the     *)
(* lock of its cache path while the source lock is kept.  Either waits     *)
(* with its locks for one of the permits that bound concurrent rendering.  *)
(*                                                                         *)
(* The locks are those of KeyedMutex, which acquireRenderLock implements   *)
(* (KeyedLock).  Names of files only matter as keys: a path stands for a   *)
(* cache path and for the two lock keys made from it.  A rendered file     *)
(* appears whole (a temporary file is renamed) and nothing removes it.     *)
(***************************************************************************)
EXTENDS Integers, FiniteSets

CONSTANTS Requests, Paths, Archived, MaxPermits, NoKey, NoPath

ASSUME RenderCacheAssumption ==
  /\ Archived \subseteq Paths
  /\ MaxPermits \in Nat \ {0}
  /\ IsFiniteSet(Requests)
  /\ NoKey \notin {"source", "build"} \X Paths
  /\ NoPath \notin Paths

Callers == Requests \X {"source", "build"}
LockKeys == {"source", "build"} \X Paths

VARIABLES
  holds,      \* the lock a caller of acquireRenderLock holds
  permitted,  \* the requests with an element in thumbnailSem
  cached,     \* the paths whose file is there
  pc,         \* where a request is
  path        \* the cache path it wants

vars == <<holds, permitted, cached, pc, path>>

Locks == INSTANCE KeyedMutex WITH Clients <- Callers, Keys <- LockKeys

Init ==
  /\ holds = [c \in Callers |-> NoKey]
  /\ permitted = {}
  /\ cached = {}
  /\ pc = [r \in Requests |-> "idle"]
  /\ path = [r \in Requests |-> NoPath]

Goto(r, stage) == pc' = [pc EXCEPT ![r] = stage]

\* Where a request goes that leaves ensureCacheFile.
After(r) == IF path[r] \in Archived THEN "unlockSource" ELSE "end"

\* The file is there: it is served at once.
Hit(r, p) ==
  /\ pc[r] = "idle"
  /\ p \in cached
  /\ UNCHANGED vars

Arrive(r, p) ==
  /\ pc[r] = "idle"
  /\ p \notin cached
  /\ path' = [path EXCEPT ![r] = p]
  /\ Goto(r, IF p \in Archived THEN "lockSource" ELSE "lockBuild")
  /\ UNCHANGED <<holds, permitted, cached>>

LockSource(r) ==
  /\ pc[r] = "lockSource"
  /\ Locks!Acquire(<<r, "source">>, <<"source", path[r]>>)
  /\ Goto(r, "look")
  /\ UNCHANGED <<permitted, cached, path>>

\* openCachedThumbnail once more, with the source lock.
\* (Mutant: the archive is opened without another look.)
LookAway(r) ==
  /\ pc[r] = "look"
  /\ Goto(r, "load")
  /\ UNCHANGED <<holds, permitted, cached, path>>
Look(r) ==
  /\ pc[r] = "look"
  /\ Goto(r, IF path[r] \in cached THEN "unlockSource" ELSE "load")
  /\ UNCHANGED <<holds, permitted, cached, path>>

\* loadSource fails, or hands the bytes to ensureCacheFile.
Load(r) ==
  /\ pc[r] = "load"
  /\ \E next \in {"unlockSource", "stat"} : Goto(r, next)
  /\ UNCHANGED <<holds, permitted, cached, path>>

\* One os.Stat of ensureCacheFile: the file is there, is not, or the call fails.
\* (Mutant: the result is not looked at.)
GoesOn(r, from, onwards, back) == pc[r] = from /\ Goto(r, onwards)
Check(r, from, onwards, back) ==
  /\ pc[r] = from
  /\ \/ path[r] \in cached /\ Goto(r, back)
     \/ path[r] \notin cached /\ Goto(r, onwards)
     \/ Goto(r, back)

\* The stat before the lock; Arrive stands for it when there is no archive.
Stat(r) ==
  /\ Check(r, "stat", "lockBuild", After(r))
  /\ UNCHANGED <<holds, permitted, cached, path>>

\* (Mutant: a lock per request.)
LockBuildUnshared(r) ==
  /\ pc[r] = "lockBuild"
  /\ holds' = [holds EXCEPT ![<<r, "build">>] = <<"build", path[r]>>]
  /\ Goto(r, "statLocked")
  /\ UNCHANGED <<permitted, cached, path>>
LockBuild(r) ==
  /\ pc[r] = "lockBuild"
  /\ Locks!Acquire(<<r, "build">>, <<"build", path[r]>>)
  /\ Goto(r, "statLocked")
  /\ UNCHANGED <<permitted, cached, path>>

StatLocked(r) ==
  /\ Check(r, "statLocked", "permit", "unlockBuild")
  /\ UNCHANGED <<holds, permitted, cached, path>>

TakePermit(r) ==
  /\ pc[r] = "permit"
  /\ Cardinality(permitted) < MaxPermits
  /\ permitted' = permitted \cup {r}
  /\ Goto(r, "statPermitted")
  /\ UNCHANGED <<holds, cached, path>>

StatPermitted(r) ==
  /\ Check(r, "statPermitted", "build", "releasePermit")
  /\ UNCHANGED <<holds, permitted, cached, path>>

Build(r) ==
  /\ pc[r] = "build"
  /\ cached' \in {cached, cached \cup {path[r]}}
  /\ Goto(r, "releasePermit")
  /\ UNCHANGED <<holds, permitted, path>>

\* (Mutant: the deferred release does not run.)
KeepPermit(r) ==
  /\ pc[r] = "releasePermit"
  /\ Goto(r, "unlockBuild")
  /\ UNCHANGED <<holds, permitted, cached, path>>
ReleasePermit(r) ==
  /\ pc[r] = "releasePermit"
  /\ permitted' = permitted \ {r}
  /\ Goto(r, "unlockBuild")
  /\ UNCHANGED <<holds, cached, path>>

UnlockBuild(r) ==
  /\ pc[r] = "unlockBuild"
  /\ Locks!Release(<<r, "build">>)
  /\ Goto(r, After(r))
  /\ UNCHANGED <<permitted, cached, path>>

UnlockSource(r) ==
  /\ pc[r] = "unlockSource"
  /\ Locks!Release(<<r, "source">>)
  /\ Goto(r, "end")
  /\ UNCHANGED <<permitted, cached, path>>

End(r) ==
  /\ pc[r] = "end"
  /\ path' = [path EXCEPT ![r] = NoPath]
  /\ Goto(r, "idle")
  /\ UNCHANGED <<holds, permitted, cached>>

\* The request's context is done before a lock or a permit is free.
GiveUp(r) ==
  /\ \/ pc[r] = "lockSource" /\ Goto(r, "end")
     \/ pc[r] = "lockBuild" /\ Goto(r, After(r))
     \/ pc[r] = "permit" /\ Goto(r, "unlockBuild")
  /\ UNCHANGED <<holds, permitted, cached, path>>

\* What a request does by itself, and what it waits for.
Work(r) ==
  \/ Look(r) \/ Load(r) \/ Stat(r) \/ StatLocked(r) \/ StatPermitted(r)
  \/ Build(r) \/ ReleasePermit(r) \/ UnlockBuild(r) \/ UnlockSource(r) \/ End(r)
Wait(r) == LockSource(r) \/ LockBuild(r) \/ TakePermit(r)

Next ==
  \E r \in Requests :
    \/ \E p \in Paths : Hit(r, p) \/ Arrive(r, p)
    \/ Wait(r)
    \/ Work(r)
    \/ GiveUp(r)

\* A request runs on, and the channels behind locks and permits serve blocked
\* senders in order.  Nobody has to give up.
Fairness == \A r \in Requests : WF_vars(Work(r)) /\ SF_vars(Wait(r))

Spec == Init /\ [][Next]_vars
FairSpec == Spec /\ Fairness

-----------------------------------------------------------------------------
RenderTypeOK ==
  /\ holds \in [Callers -> LockKeys \cup {NoKey}]
  /\ permitted \subseteq Requests
  /\ cached \subseteq Paths
  /\ pc \in [Requests -> {"idle", "lockSource", "look", "load", "stat", "lockBuild",
                          "statLocked", "permit", "statPermitted", "build",
                          "releasePermit", "unlockBuild", "unlockSource", "end"}]
  /\ path \in [Requests -> Paths \cup {NoPath}]

\* What is read from an archive is read for a file that is not there: requests
\* that queued up behind the first one notice its work.
LoadsAreNeeded ==
  \A r \in Requests : pc[r] = "load" => path[r] \notin cached

\* Requests never hold more permits than there are, and a request that is not
\* between taking and releasing one has none: no way out of ensureCacheFile
\* keeps a permit, so failures do not use them up.
PermitsAreAccounted ==
  /\ Cardinality(permitted) <= MaxPermits
  /\ permitted = {r \in Requests : pc[r] \in {"statPermitted", "build", "releasePermit"}}

\* Every request ends: the two locks and the permit are taken in one order, so
\* requests that wait never wait for each other.
EveryRequestEnds == \A r \in Requests : pc[r] # "idle" ~> pc[r] = "idle"

Writers(p) == {r \in Requests : pc[r] = "build" /\ path[r] = p}

Flight == INSTANCE SingleFlight WITH
  there <- cached,
  writers <- [p \in Paths |-> Writers(p)]

\* One request builds a file, and nobody builds a file that is there.
ImplementsSingleFlight == Flight!Spec
=============================================================================
