-------------------------- MODULE RenderCache_proofs --------------------------
(***************************************************************************)
(* The thumbnail cache writes a file once, for any number of requests,     *)
(* files and permits.  The argument: where a request is determines which   *)
(* locks and permits it holds (Held, Accounted), no lock has two holders   *)
(* (Exclusive), so the file a request has found missing under a lock stays *)
(* missing until that request builds it (LoadsAreNeeded, BuildsAreNeeded). *)
(***************************************************************************)
EXTENDS RenderCache, FiniteSetTheorems, TLAPS

InBuildLock ==
  {"statLocked", "permit", "statPermitted", "build", "releasePermit", "unlockBuild"}
InSourceLock == {"look", "load", "stat", "lockBuild", "unlockSource"} \cup InBuildLock
InPermit == {"statPermitted", "build", "releasePermit"}
OnlyArchived == {"lockSource", "look", "load", "stat", "unlockSource"}

Placed ==
  \A r \in Requests :
    /\ pc[r] # "idle" => path[r] \in Paths
    /\ pc[r] \in OnlyArchived => path[r] \in Archived

Held ==
  \A r \in Requests :
    /\ holds[<<r, "build">>] =
         IF pc[r] \in InBuildLock THEN <<"build", path[r]>> ELSE NoKey
    /\ holds[<<r, "source">>] =
         IF pc[r] \in InSourceLock /\ path[r] \in Archived
         THEN <<"source", path[r]>> ELSE NoKey

Exclusive == \A c, d \in Callers : holds[c] = holds[d] /\ holds[c] # NoKey => c = d

BuildsAreNeeded == \A r \in Requests : pc[r] = "build" => path[r] \notin cached

RenderInv ==
  /\ RenderTypeOK
  /\ Placed
  /\ Held
  /\ Exclusive
  /\ PermitsAreAccounted
  /\ LoadsAreNeeded
  /\ BuildsAreNeeded

-----------------------------------------------------------------------------
LEMMA RenderInit == Init => RenderInv
<1>. SUFFICES ASSUME Init PROVE RenderInv
  OBVIOUS
<1>. USE RenderCacheAssumption
<1>1. RenderTypeOK
  BY DEF Init, RenderTypeOK
<1>2. Held
  <2>. SUFFICES ASSUME NEW r \in Requests
       PROVE  holds[<<r, "build">>] = NoKey /\ holds[<<r, "source">>] = NoKey
    BY DEF Init, Held, InBuildLock, InSourceLock
  <2>1. <<r, "build">> \in Callers /\ <<r, "source">> \in Callers
    BY DEF Callers
  <2>. QED
    BY <2>1 DEF Init
<1>3. Placed /\ Exclusive /\ LoadsAreNeeded /\ BuildsAreNeeded
  BY DEF Init, Placed, OnlyArchived, Exclusive, LoadsAreNeeded, BuildsAreNeeded
<1>4. PermitsAreAccounted
  <2>1. Cardinality({}) = 0
    BY FS_EmptySet
  <2>2. permitted = {} /\ \A r \in Requests : pc[r] = "idle"
    BY DEF Init
  <2>. QED
    BY <2>1, <2>2 DEF PermitsAreAccounted
<1>. QED
  BY <1>1, <1>2, <1>3, <1>4 DEF RenderInv

\* Requests with a lock in common are one request.
LEMMA SameBuild ==
  ASSUME RenderInv, NEW q \in Requests, NEW r \in Requests,
         pc[q] \in InBuildLock, pc[r] \in InBuildLock, path[q] = path[r]
  PROVE  q = r
<1>1. <<q, "build">> \in Callers /\ <<r, "build">> \in Callers
  BY DEF Callers
<1>2. path[q] \in Paths
  BY DEF RenderInv, Placed, InBuildLock
<1>3. holds[<<q, "build">>] = <<"build", path[q]>> /\ holds[<<r, "build">>] = <<"build", path[q]>>
  BY DEF RenderInv, Held
<1>4. <<"build", path[q]>> # NoKey
  BY <1>2, RenderCacheAssumption
<1>. QED
  BY <1>1, <1>3, <1>4 DEF RenderInv, Exclusive

LEMMA SameSource ==
  ASSUME RenderInv, NEW q \in Requests, NEW r \in Requests,
         pc[q] \in InSourceLock, pc[r] \in InSourceLock,
         path[q] = path[r], path[q] \in Archived
  PROVE  q = r
<1>1. <<q, "source">> \in Callers /\ <<r, "source">> \in Callers
  BY DEF Callers
<1>2. holds[<<q, "source">>] = <<"source", path[q]>> /\ holds[<<r, "source">>] = <<"source", path[q]>>
  BY DEF RenderInv, Held
<1>3. <<"source", path[q]>> # NoKey
  BY RenderCacheAssumption
<1>. QED
  BY <1>1, <1>2, <1>3 DEF RenderInv, Exclusive

\* A request moves to another stage, where it holds what it held before.
LEMMA MoveInv ==
  ASSUME RenderInv, NEW r \in Requests, NEW s,
         pc[r] # "idle",
         s \in InSourceLock \cup {"lockSource", "end"},
         pc' = [pc EXCEPT ![r] = s],
         UNCHANGED <<holds, permitted, cached, path>>,
         pc[r] \in InBuildLock <=> s \in InBuildLock,
         path[r] \in Archived => (pc[r] \in InSourceLock <=> s \in InSourceLock),
         pc[r] \in InPermit <=> s \in InPermit,
         s \in OnlyArchived => path[r] \in Archived,
         s \in {"load", "build"} => path[r] \notin cached
  PROVE  RenderInv'
<1>. USE RenderCacheAssumption
<1>1. RenderTypeOK'
  BY DEF RenderInv, RenderTypeOK, InSourceLock, InBuildLock
<1>2. pc'[r] = s /\ \A q \in Requests : q # r => pc'[q] = pc[q]
  BY DEF RenderInv, RenderTypeOK
<1>3. Placed'
  BY <1>2 DEF RenderInv, Placed
<1>4. Held'
  BY <1>2 DEF RenderInv, Held
<1>5. Exclusive' /\ LoadsAreNeeded' /\ BuildsAreNeeded'
  BY <1>2 DEF RenderInv, Exclusive, LoadsAreNeeded, BuildsAreNeeded
<1>6. PermitsAreAccounted'
  <2>1. \A q \in Requests : pc'[q] \in InPermit <=> pc[q] \in InPermit
    BY <1>2
  <2>. QED
    BY <2>1 DEF RenderInv, PermitsAreAccounted, InPermit
<1>. QED
  BY <1>1, <1>3, <1>4, <1>5, <1>6 DEF RenderInv

\* A request takes the lock it waits for, which nobody holds.
LEMMA AcquireInv ==
  ASSUME RenderInv, NEW r \in Requests, NEW s, NEW k \in LockKeys,
         NEW side \in {"source", "build"},
         k = <<side, path[r]>>,
         pc[r] # "idle",
         pc' = [pc EXCEPT ![r] = s],
         Locks!Acquire(<<r, side>>, k),
         UNCHANGED <<permitted, cached, path>>,
         \/ side = "source" /\ pc[r] = "lockSource" /\ s = "look"
         \/ side = "build" /\ pc[r] = "lockBuild" /\ s = "statLocked"
  PROVE  RenderInv'
<1>. USE RenderCacheAssumption
<1>0. <<r, side>> \in Callers /\ \A d \in Callers : holds[d] # k
      /\ holds' = [holds EXCEPT ![<<r, side>>] = k]
  BY DEF Locks!Acquire, Callers
<1>1. RenderTypeOK'
  BY <1>0 DEF RenderInv, RenderTypeOK
<1>2. pc'[r] = s /\ \A q \in Requests : q # r => pc'[q] = pc[q]
  BY DEF RenderInv, RenderTypeOK
<1>3. /\ holds'[<<r, side>>] = k
      /\ \A q \in Requests, t \in {"source", "build"} :
           q # r \/ t # side => holds'[<<q, t>>] = holds[<<q, t>>]
  BY <1>0 DEF RenderInv, RenderTypeOK, Callers
<1>4. Placed'
  BY <1>2 DEF RenderInv, Placed, OnlyArchived
<1>5. Held'
  <2>. SUFFICES ASSUME NEW q \in Requests
       PROVE  /\ holds'[<<q, "build">>] =
                   IF pc'[q] \in InBuildLock THEN <<"build", path[q]>> ELSE NoKey
              /\ holds'[<<q, "source">>] =
                   IF pc'[q] \in InSourceLock /\ path[q] \in Archived
                   THEN <<"source", path[q]>> ELSE NoKey
    BY DEF Held
  <2>1. CASE q # r
    BY <2>1, <1>2, <1>3 DEF RenderInv, Held
  <2>2. CASE q = r /\ side = "source"
    <3>1. path[r] \in Archived
      BY <2>2 DEF RenderInv, Placed, OnlyArchived
    <3>2. holds[<<r, "build">>] = NoKey
      BY <2>2 DEF RenderInv, Held, InBuildLock
    <3>. QED
      BY <2>2, <3>1, <3>2, <1>2, <1>3 DEF InBuildLock, InSourceLock
  <2>3. CASE q = r /\ side = "build"
    <3>1. holds[<<r, "source">>] = IF path[r] \in Archived THEN <<"source", path[r]>> ELSE NoKey
      BY <2>3 DEF RenderInv, Held, InSourceLock
    <3>. QED
      BY <2>3, <3>1, <1>2, <1>3 DEF InBuildLock, InSourceLock
  <2>. QED
    BY <2>1, <2>2, <2>3
<1>6. Exclusive'
  BY <1>0 DEF RenderInv, RenderTypeOK, Exclusive
<1>7. LoadsAreNeeded' /\ BuildsAreNeeded'
  BY <1>2 DEF RenderInv, LoadsAreNeeded, BuildsAreNeeded
<1>8. PermitsAreAccounted'
  <2>1. \A q \in Requests : pc'[q] \in InPermit <=> pc[q] \in InPermit
    BY <1>2 DEF InPermit
  <2>. QED
    BY <2>1 DEF RenderInv, PermitsAreAccounted, InPermit
<1>. QED
  BY <1>1, <1>4, <1>5, <1>6, <1>7, <1>8 DEF RenderInv

\* A request gives a lock back.
LEMMA ReleaseInv ==
  ASSUME RenderInv, NEW r \in Requests, NEW s,
         NEW side \in {"source", "build"},
         pc' = [pc EXCEPT ![r] = s],
         Locks!Release(<<r, side>>),
         UNCHANGED <<permitted, cached, path>>,
         \/ side = "source" /\ pc[r] = "unlockSource" /\ s = "end"
         \/ side = "build" /\ pc[r] = "unlockBuild" /\ s = After(r)
  PROVE  RenderInv'
<1>. USE RenderCacheAssumption
<1>0. <<r, side>> \in Callers /\ holds' = [holds EXCEPT ![<<r, side>>] = NoKey]
      /\ s \in {"unlockSource", "end"} /\ (s = "unlockSource" => path[r] \in Archived)
  BY DEF Locks!Release, Callers, After
<1>1. RenderTypeOK'
  BY <1>0 DEF RenderInv, RenderTypeOK
<1>2. pc'[r] = s /\ \A q \in Requests : q # r => pc'[q] = pc[q]
  BY DEF RenderInv, RenderTypeOK
<1>3. /\ holds'[<<r, side>>] = NoKey
      /\ \A q \in Requests, t \in {"source", "build"} :
           q # r \/ t # side => holds'[<<q, t>>] = holds[<<q, t>>]
  BY <1>0 DEF RenderInv, RenderTypeOK, Callers
<1>4. Placed'
  BY <1>0, <1>2 DEF RenderInv, Placed, OnlyArchived
<1>5. Held'
  <2>. SUFFICES ASSUME NEW q \in Requests
       PROVE  /\ holds'[<<q, "build">>] =
                   IF pc'[q] \in InBuildLock THEN <<"build", path[q]>> ELSE NoKey
              /\ holds'[<<q, "source">>] =
                   IF pc'[q] \in InSourceLock /\ path[q] \in Archived
                   THEN <<"source", path[q]>> ELSE NoKey
    BY DEF Held
  <2>1. CASE q # r
    BY <2>1, <1>2, <1>3 DEF RenderInv, Held
  <2>2. CASE q = r /\ side = "source"
    <3>1. holds[<<r, "build">>] = NoKey
      BY <2>2 DEF RenderInv, Held, InBuildLock
    <3>. QED
      BY <2>2, <3>1, <1>2, <1>3 DEF InBuildLock, InSourceLock
  <2>3. CASE q = r /\ side = "build"
    <3>1. holds[<<r, "source">>] = IF path[r] \in Archived THEN <<"source", path[r]>> ELSE NoKey
      BY <2>3 DEF RenderInv, Held, InSourceLock, InBuildLock
    <3>2. s = IF path[r] \in Archived THEN "unlockSource" ELSE "end"
      BY <2>3 DEF After
    <3>. QED
      BY <2>3, <3>1, <3>2, <1>2, <1>3 DEF InBuildLock, InSourceLock
  <2>. QED
    BY <2>1, <2>2, <2>3
<1>6. Exclusive'
  BY <1>0 DEF RenderInv, RenderTypeOK, Exclusive
<1>7. LoadsAreNeeded' /\ BuildsAreNeeded'
  BY <1>0, <1>2 DEF RenderInv, LoadsAreNeeded, BuildsAreNeeded
<1>8. PermitsAreAccounted'
  <2>1. \A q \in Requests : pc'[q] \in InPermit <=> pc[q] \in InPermit
    BY <1>0, <1>2 DEF InPermit
  <2>. QED
    BY <2>1 DEF RenderInv, PermitsAreAccounted, InPermit
<1>. QED
  BY <1>1, <1>4, <1>5, <1>6, <1>7, <1>8 DEF RenderInv

\* A request takes or gives back a permit.
LEMMA PermitInv ==
  ASSUME RenderInv, NEW r \in Requests, TakePermit(r) \/ ReleasePermit(r)
  PROVE  RenderInv'
<1>. USE RenderCacheAssumption
<1>1. RenderTypeOK'
  BY DEF RenderInv, RenderTypeOK, TakePermit, ReleasePermit, Goto
<1>2. PICK s \in {"statPermitted", "unlockBuild"} :
        pc' = [pc EXCEPT ![r] = s] /\ UNCHANGED <<holds, cached, path>>
  BY DEF TakePermit, ReleasePermit, Goto
<1>3. pc'[r] = s /\ \A q \in Requests : q # r => pc'[q] = pc[q]
  BY <1>2 DEF RenderInv, RenderTypeOK
<1>4. pc[r] \in {"permit", "releasePermit"}
  BY DEF TakePermit, ReleasePermit
<1>5. Placed' /\ Exclusive' /\ LoadsAreNeeded' /\ BuildsAreNeeded'
  BY <1>2, <1>3, <1>4 DEF RenderInv, Placed, OnlyArchived, Exclusive, LoadsAreNeeded,
                          BuildsAreNeeded
<1>6. Held'
  <2>1. pc[r] \in InBuildLock /\ s \in InBuildLock
    BY <1>4 DEF InBuildLock
  <2>. QED
    BY <2>1, <1>2, <1>3 DEF RenderInv, Held, InSourceLock
<1>7. IsFiniteSet(permitted) /\ Cardinality(permitted) \in Nat
  BY FS_Subset, FS_CardinalityType DEF RenderInv, RenderTypeOK
<1>8. PermitsAreAccounted'
  <2>1. CASE TakePermit(r)
    <3>1. permitted' = permitted \cup {r} /\ r \notin permitted /\ s = "statPermitted"
          /\ Cardinality(permitted) < MaxPermits
      BY <2>1, <1>3 DEF TakePermit, Goto, RenderInv, RenderTypeOK, PermitsAreAccounted
    <3>2. Cardinality(permitted') = Cardinality(permitted) + 1
      BY <3>1, <1>7, FS_AddElement
    <3>3. Cardinality(permitted') <= MaxPermits
      BY <3>1, <3>2, <1>7
    <3>4. permitted' = {q \in Requests : pc'[q] \in {"statPermitted", "build", "releasePermit"}}
      BY <3>1, <1>3 DEF RenderInv, PermitsAreAccounted
    <3>. QED
      BY <3>3, <3>4 DEF PermitsAreAccounted
  <2>2. CASE ReleasePermit(r)
    <3>1. permitted' = permitted \ {r} /\ r \in permitted /\ s = "unlockBuild"
      BY <2>2, <1>3 DEF ReleasePermit, Goto, RenderInv, RenderTypeOK, PermitsAreAccounted
    <3>2. Cardinality(permitted') = Cardinality(permitted) - 1
      BY <3>1, <1>7, FS_RemoveElement
    <3>3. Cardinality(permitted') <= MaxPermits
      BY <3>2, <1>7 DEF RenderInv, PermitsAreAccounted
    <3>4. permitted' = {q \in Requests : pc'[q] \in {"statPermitted", "build", "releasePermit"}}
      BY <3>1, <1>3 DEF RenderInv, PermitsAreAccounted
    <3>. QED
      BY <3>3, <3>4 DEF PermitsAreAccounted
  <2>. QED
    BY <2>1, <2>2
<1>. QED
  BY <1>1, <1>5, <1>6, <1>8 DEF RenderInv

\* The file that appears is the one of the request that holds its lock: nobody
\* else is about to build it or to read the archive for it.
LEMMA BuildInv ==
  ASSUME RenderInv, NEW r \in Requests, Build(r)
  PROVE  RenderInv'
<1>. USE RenderCacheAssumption
<1>1. /\ pc[r] = "build" /\ pc' = [pc EXCEPT ![r] = "releasePermit"]
      /\ cached' \in {cached, cached \cup {path[r]}}
      /\ UNCHANGED <<holds, permitted, path>>
  BY DEF Build, Goto
<1>2. pc'[r] = "releasePermit" /\ \A q \in Requests : q # r => pc'[q] = pc[q]
  BY <1>1 DEF RenderInv, RenderTypeOK
<1>3. RenderTypeOK'
  BY <1>1 DEF RenderInv, RenderTypeOK, Placed
<1>4. Placed' /\ Exclusive'
  BY <1>1, <1>2 DEF RenderInv, Placed, OnlyArchived, Exclusive
<1>5. Held'
  BY <1>1, <1>2 DEF RenderInv, Held, InSourceLock, InBuildLock
<1>6. PermitsAreAccounted'
  <2>1. \A q \in Requests : pc'[q] \in InPermit <=> pc[q] \in InPermit
    BY <1>1, <1>2 DEF InPermit
  <2>. QED
    BY <1>1, <2>1 DEF RenderInv, PermitsAreAccounted, InPermit
<1>7. LoadsAreNeeded'
  <2>. SUFFICES ASSUME NEW q \in Requests, pc'[q] = "load" PROVE path[q] \notin cached'
    BY <1>1 DEF LoadsAreNeeded
  <2>1. q # r /\ pc[q] = "load" /\ path[q] \notin cached
    BY <1>2 DEF RenderInv, LoadsAreNeeded
  <2>2. path[q] \in Archived
    BY <2>1 DEF RenderInv, Placed, OnlyArchived
  <2>3. path[q] # path[r]
    BY <2>1, <2>2, <1>1, SameSource DEF InSourceLock, InBuildLock
  <2>. QED
    BY <2>1, <2>3, <1>1
<1>8. BuildsAreNeeded'
  <2>. SUFFICES ASSUME NEW q \in Requests, pc'[q] = "build" PROVE path[q] \notin cached'
    BY <1>1 DEF BuildsAreNeeded
  <2>1. q # r /\ pc[q] = "build" /\ path[q] \notin cached
    BY <1>2 DEF RenderInv, BuildsAreNeeded
  <2>2. path[q] # path[r]
    BY <2>1, <1>1, SameBuild DEF InBuildLock
  <2>. QED
    BY <2>1, <2>2, <1>1
<1>. QED
  BY <1>3, <1>4, <1>5, <1>6, <1>7, <1>8 DEF RenderInv

\* A request that starts or ends holds nothing.
LEMMA EdgeInv ==
  ASSUME RenderInv, NEW r \in Requests, NEW p \in Paths, Arrive(r, p) \/ End(r)
  PROVE  RenderInv'
<1>. USE RenderCacheAssumption
<1>1. PICK s \in {"lockSource", "lockBuild", "idle"}, t \in Paths \cup {NoPath} :
        /\ pc[r] \in {"idle", "end"} /\ pc' = [pc EXCEPT ![r] = s]
        /\ path' = [path EXCEPT ![r] = t]
        /\ UNCHANGED <<holds, permitted, cached>>
        /\ s # "idle" => t \in Paths
        /\ s = "lockSource" => t \in Archived
        /\ s = "lockBuild" => t \notin Archived
  BY DEF Arrive, End, Goto
<1>2. /\ pc'[r] = s /\ \A q \in Requests : q # r => pc'[q] = pc[q]
      /\ path'[r] = t /\ \A q \in Requests : q # r => path'[q] = path[q]
  BY <1>1 DEF RenderInv, RenderTypeOK
<1>3. RenderTypeOK' /\ Placed' /\ Exclusive' /\ LoadsAreNeeded' /\ BuildsAreNeeded'
  <2>1. RenderTypeOK'
    BY <1>1 DEF RenderInv, RenderTypeOK
  <2>2. Placed'
    BY <1>1, <1>2 DEF RenderInv, Placed, OnlyArchived
  <2>3. Exclusive'
    BY <1>1 DEF RenderInv, Exclusive
  <2>4. LoadsAreNeeded' /\ BuildsAreNeeded'
    BY <1>1, <1>2 DEF RenderInv, LoadsAreNeeded, BuildsAreNeeded
  <2>. QED
    BY <2>1, <2>2, <2>3, <2>4
<1>4. Held'
  <2>1. holds[<<r, "build">>] = NoKey /\ holds[<<r, "source">>] = NoKey
    BY <1>1 DEF RenderInv, Held, InSourceLock, InBuildLock
  <2>2. s \notin InBuildLock /\ ~(s \in InSourceLock /\ t \in Archived)
    BY <1>1 DEF InSourceLock, InBuildLock
  <2>3. holds' = holds
    BY <1>1
  <2>4. ASSUME NEW q \in Requests, q # r
        PROVE  /\ holds[<<q, "build">>] =
                    IF pc'[q] \in InBuildLock THEN <<"build", path'[q]>> ELSE NoKey
               /\ holds[<<q, "source">>] =
                    IF pc'[q] \in InSourceLock /\ path'[q] \in Archived
                    THEN <<"source", path'[q]>> ELSE NoKey
    BY <1>2, <2>4 DEF RenderInv, Held
  <2>5. /\ pc'[r] \notin InBuildLock
        /\ ~(pc'[r] \in InSourceLock /\ path'[r] \in Archived)
    BY <1>2, <2>2
  <2>. QED
    BY <2>1, <2>3, <2>4, <2>5 DEF Held
<1>5. PermitsAreAccounted'
  <2>1. \A q \in Requests : pc'[q] \in InPermit <=> pc[q] \in InPermit
    BY <1>1, <1>2 DEF InPermit
  <2>. QED
    BY <1>1, <2>1 DEF RenderInv, PermitsAreAccounted, InPermit
<1>. QED
  BY <1>3, <1>4, <1>5 DEF RenderInv

\* Looking, loading, the stats, taking no lock: stages that hold the same.
LEMMA StayInv ==
  ASSUME RenderInv, NEW r \in Requests,
         Look(r) \/ Load(r) \/ Stat(r) \/ StatLocked(r) \/ StatPermitted(r) \/ GiveUp(r)
  PROVE  RenderInv'
<1>. USE DEF Goto, After, Check, InBuildLock, InSourceLock, InPermit, OnlyArchived
<1>0. pc[r] \in OnlyArchived => path[r] \in Archived
  BY DEF RenderInv, Placed
<1>1. CASE Look(r)
  <2>1. PICK s \in {"unlockSource", "load"} :
          pc' = [pc EXCEPT ![r] = s] /\ (s = "load" => path[r] \notin cached)
    BY <1>1 DEF Look
  <2>. QED
    BY <1>0, <1>1, <2>1, MoveInv DEF Look
<1>2. CASE Load(r)
  <2>1. PICK s \in {"unlockSource", "stat"} : pc' = [pc EXCEPT ![r] = s]
    BY <1>2 DEF Load
  <2>. QED
    BY <1>0, <1>2, <2>1, MoveInv DEF Load
<1>3. CASE Stat(r)
  <2>1. PICK s \in {"lockBuild", "unlockSource"} : pc' = [pc EXCEPT ![r] = s]
    BY <1>0, <1>3 DEF Stat
  <2>. QED
    BY <1>0, <1>3, <2>1, MoveInv DEF Stat
<1>4. CASE StatLocked(r)
  <2>1. PICK s \in {"permit", "unlockBuild"} : pc' = [pc EXCEPT ![r] = s]
    BY <1>4 DEF StatLocked
  <2>. QED
    BY <1>0, <1>4, <2>1, MoveInv DEF StatLocked
<1>5. CASE StatPermitted(r)
  <2>1. PICK s \in {"build", "releasePermit"} :
          pc' = [pc EXCEPT ![r] = s] /\ (s = "build" => path[r] \notin cached)
    BY <1>5 DEF StatPermitted
  <2>. QED
    BY <1>0, <1>5, <2>1, MoveInv DEF StatPermitted
<1>6. CASE GiveUp(r)
  <2>1. CASE pc[r] = "lockSource"
    BY <1>6, <2>1, MoveInv DEF GiveUp
  <2>2. CASE pc[r] = "lockBuild"
    <3>1. PICK s \in {"unlockSource", "end"} :
            /\ pc' = [pc EXCEPT ![r] = s]
            /\ s = IF path[r] \in Archived THEN "unlockSource" ELSE "end"
      BY <1>6, <2>2 DEF GiveUp
    <3>. QED
      BY <1>6, <2>2, <3>1, MoveInv DEF GiveUp
  <2>3. CASE pc[r] = "permit"
    BY <1>6, <2>3, MoveInv DEF GiveUp
  <2>. QED
    BY <1>6, <2>1, <2>2, <2>3 DEF GiveUp
<1>. QED
  BY <1>1, <1>2, <1>3, <1>4, <1>5, <1>6

LEMMA RenderNext == RenderInv /\ [Next]_vars => RenderInv'
<1>. SUFFICES ASSUME RenderInv, [Next]_vars PROVE RenderInv'
  OBVIOUS
<1>1. ASSUME NEW r \in Requests, LockSource(r) PROVE RenderInv'
  <2>1. PICK k \in LockKeys : k = <<"source", path[r]>>
    BY <1>1 DEF LockSource, RenderInv, Placed, LockKeys
  <2>. QED
    BY <1>1, <2>1, AcquireInv DEF LockSource, Goto
<1>2. ASSUME NEW r \in Requests, LockBuild(r) PROVE RenderInv'
  <2>1. PICK k \in LockKeys : k = <<"build", path[r]>>
    BY <1>2 DEF LockBuild, RenderInv, Placed, LockKeys
  <2>. QED
    BY <1>2, <2>1, AcquireInv DEF LockBuild, Goto
<1>3. ASSUME NEW r \in Requests, UnlockBuild(r) PROVE RenderInv'
  <2>1. PICK s : s = After(r)
    OBVIOUS
  <2>. QED
    BY <1>3, <2>1, ReleaseInv DEF UnlockBuild, Goto
<1>4. ASSUME NEW r \in Requests, UnlockSource(r) PROVE RenderInv'
  BY <1>4, ReleaseInv DEF UnlockSource, Goto
<1>5. ASSUME NEW r \in Requests, End(r) PROVE RenderInv'
  <2>1. PICK p \in Paths : p = path[r]
    BY <1>5 DEF End, RenderInv, Placed
  <2>. QED
    BY <1>5, <2>1, EdgeInv
<1>6. CASE UNCHANGED vars
  BY <1>6 DEF vars, RenderInv, RenderTypeOK, Placed, Held, Exclusive, PermitsAreAccounted,
              LoadsAreNeeded, BuildsAreNeeded
<1>7. ASSUME NEW r \in Requests, Work(r) PROVE RenderInv'
  BY <1>3, <1>4, <1>5, <1>7, StayInv, BuildInv, PermitInv DEF Work
<1>8. ASSUME NEW r \in Requests, Wait(r) PROVE RenderInv'
  BY <1>1, <1>2, <1>8, PermitInv DEF Wait
<1>. QED
  BY <1>6, <1>7, <1>8, EdgeInv, StayInv DEF Next, Hit

-----------------------------------------------------------------------------
\* Every value has its type: where requests are, what they hold and want.
THEOREM RenderTypes == Spec => []RenderTypeOK
<1>1. RenderInv => RenderTypeOK
  BY DEF RenderInv
<1>. QED
  BY <1>1, RenderInit, RenderNext, PTL DEF Spec

\* An archive is read for a thumbnail only while the thumbnail is missing.
THEOREM LoadsAreForMissingFiles == Spec => []LoadsAreNeeded
<1>1. RenderInv => LoadsAreNeeded
  BY DEF RenderInv
<1>. QED
  BY <1>1, RenderInit, RenderNext, PTL DEF Spec

\* At most MaxPermits requests render, and no request keeps a permit.
THEOREM PermitsBoundRendering == Spec => []PermitsAreAccounted
<1>1. RenderInv => PermitsAreAccounted
  BY DEF RenderInv
<1>. QED
  BY <1>1, RenderInit, RenderNext, PTL DEF Spec

-----------------------------------------------------------------------------
(* Refinement: who writes which file.                                      *)
AllWriters == [p \in Paths |-> Writers(p)]

LEMMA InitWriters == Init => Flight!Init
BY DEF Init, Flight!Init, Writers

\* The steps that neither enter nor leave the stage "build" change no writer.
LEMMA OtherSteps ==
  ASSUME UNCHANGED cached,
         \A q \in Requests : pc'[q] = "build" <=> pc[q] = "build",
         \A q \in Requests : pc[q] = "build" => path'[q] = path[q]
  PROVE  UNCHANGED <<cached, AllWriters>>
<1>1. \A p : Writers(p)' = Writers(p)
  BY DEF Writers
<1>. QED
  BY <1>1 DEF AllWriters

LEMMA StepWriters ==
  ASSUME RenderInv, [Next]_vars
  PROVE  Flight!Next \/ UNCHANGED <<cached, AllWriters>>
<1>1. ASSUME NEW r \in Requests, StatPermitted(r), pc'[r] = "build" PROVE Flight!Next
  <2>1. PICK p \in Paths : p = path[r]
    BY <1>1 DEF StatPermitted, Check, RenderInv, Placed
  <2>2. /\ pc[r] = "statPermitted" /\ pc' = [pc EXCEPT ![r] = "build"]
        /\ p \notin cached /\ UNCHANGED <<cached, path>>
    BY <1>1, <2>1 DEF StatPermitted, Check, Goto, RenderInv, RenderTypeOK
  <2>3. Writers(p) = {}
    <3>. SUFFICES ASSUME NEW q \in Requests, pc[q] = "build", path[q] = p PROVE FALSE
      BY DEF Writers
    <3>. QED
      BY <2>1, <2>2, SameBuild DEF InBuildLock
  <2>4. Writers(p)' = {r}
    BY <2>1, <2>2, <2>3 DEF Writers, RenderInv, RenderTypeOK
  <2>5. \A o \in Paths : o # p => Writers(o)' = Writers(o)
    BY <2>1, <2>2 DEF Writers, RenderInv, RenderTypeOK
  <2>6. AllWriters' = [AllWriters EXCEPT ![p] = {r}]
    BY <2>4, <2>5 DEF AllWriters
  <2>. QED
    BY <2>2, <2>3, <2>6 DEF Flight!Next, Flight!Begin, AllWriters
<1>2. ASSUME NEW r \in Requests, Build(r) PROVE Flight!Next
  <2>1. PICK p \in Paths : p = path[r]
    BY <1>2 DEF Build, RenderInv, Placed
  <2>2. /\ pc[r] = "build" /\ pc' = [pc EXCEPT ![r] = "releasePermit"]
        /\ p \notin cached /\ path' = path
        /\ cached' = cached \/ cached' = cached \cup {p}
    BY <1>2, <2>1 DEF Build, Goto, RenderInv, BuildsAreNeeded
  <2>3. Writers(p) = {r}
    <3>1. r \in Writers(p)
      BY <2>1, <2>2 DEF Writers
    <3>2. ASSUME NEW q \in Requests, pc[q] = "build", path[q] = p PROVE q = r
      BY <2>1, <2>2, <3>2, SameBuild DEF InBuildLock
    <3>. QED
      BY <3>1, <3>2 DEF Writers
  <2>4. Writers(p)' = {}
    BY <2>1, <2>2, <2>3 DEF Writers, RenderInv, RenderTypeOK
  <2>5. \A o \in Paths : o # p => Writers(o)' = Writers(o)
    BY <2>1, <2>2 DEF Writers, RenderInv, RenderTypeOK
  <2>6. AllWriters' = [AllWriters EXCEPT ![p] = {}]
    BY <2>4, <2>5 DEF AllWriters
  <2>. QED
    BY <2>2, <2>3, <2>6 DEF Flight!Next, Flight!Finish, Flight!Fail, AllWriters
<1>3. ASSUME NEW r \in Requests, Wait(r) \/ GiveUp(r) PROVE UNCHANGED <<cached, AllWriters>>
  <2>1. /\ UNCHANGED <<cached, path>> /\ pc[r] # "build"
        /\ \E s : s # "build" /\ pc' = [pc EXCEPT ![r] = s]
    BY <1>3 DEF Wait, LockSource, LockBuild, TakePermit, GiveUp, Goto, After
  <2>. QED
    BY <2>1, OtherSteps DEF RenderInv, RenderTypeOK
<1>4. ASSUME NEW r \in Requests, NEW p \in Paths, Arrive(r, p) \/ End(r) PROVE UNCHANGED <<cached, AllWriters>>
  <2>1. /\ UNCHANGED cached /\ pc[r] # "build"
        /\ \E s : s # "build" /\ pc' = [pc EXCEPT ![r] = s]
        /\ \E t : path' = [path EXCEPT ![r] = t]
    BY <1>4 DEF Arrive, End, Goto
  <2>. QED
    BY <2>1, OtherSteps DEF RenderInv, RenderTypeOK
<1>5. ASSUME NEW r \in Requests, StatPermitted(r), pc'[r] # "build" PROVE UNCHANGED <<cached, AllWriters>>
  <2>1. /\ UNCHANGED <<cached, path>> /\ pc[r] # "build"
        /\ \E s : s # "build" /\ pc' = [pc EXCEPT ![r] = s]
    BY <1>5 DEF StatPermitted, Check, Goto, RenderInv, RenderTypeOK
  <2>. QED
    BY <2>1, OtherSteps DEF RenderInv, RenderTypeOK
<1>6. ASSUME NEW r \in Requests,
             Look(r) \/ Load(r) \/ Stat(r) \/ StatLocked(r) \/ ReleasePermit(r)
               \/ UnlockBuild(r) \/ UnlockSource(r)
      PROVE  UNCHANGED <<cached, AllWriters>>
  <2>1. /\ UNCHANGED <<cached, path>> /\ pc[r] # "build"
        /\ \E s : s # "build" /\ pc' = [pc EXCEPT ![r] = s]
    BY <1>6 DEF Look, Load, Stat, StatLocked, ReleasePermit, UnlockBuild, UnlockSource,
                Check, Goto, After
  <2>. QED
    BY <2>1, OtherSteps DEF RenderInv, RenderTypeOK
<1>7. CASE UNCHANGED vars
  BY <1>7 DEF vars, AllWriters, Writers
<1>8. ASSUME NEW r \in Requests, Work(r) PROVE Flight!Next \/ UNCHANGED <<cached, AllWriters>>
  <2>1. CASE End(r)
    <3>1. PICK p \in Paths : p = path[r]
      BY <2>1 DEF End, RenderInv, Placed
    <3>. QED
      BY <2>1, <3>1, <1>4
  <2>. QED
    BY <2>1, <1>1, <1>2, <1>5, <1>6, <1>8 DEF Work
<1>. QED
  BY <1>3, <1>4, <1>7, <1>8 DEF Next, Hit

\* A thumbnail is built by one request at a time and never again once it is
\* there.
THEOREM BuildsFlySingle == Spec => ImplementsSingleFlight
<1>1. RenderInv /\ [Next]_vars => [Flight!Next]_<<cached, AllWriters>>
  BY StepWriters
<1>. QED
  BY <1>1, RenderInit, RenderNext, InitWriters, PTL
     DEF Spec, ImplementsSingleFlight, Flight!Spec, Flight!vars, AllWriters
=============================================================================
