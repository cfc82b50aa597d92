-------------------------- MODULE ServerState_proofs --------------------------
(***************************************************************************)
(* What holds of the state the server keeps besides reading, for every      *)
(* number of sessions, requests, targets and tags.                          *)
(***************************************************************************)
EXTENDS SessionStore, LoginLimiter, Tags, DuplicatePair, ResponseCaches, FiniteSetTheorems, TLAPS

(***************************************************************************)
(* Sessions.  The map and the file may differ while the process runs: what  *)
(* was pruned may not have been written, and a store that was moved away    *)
(* is not read.  SessionInv says by how much.                               *)
(***************************************************************************)

\* What the file has besides the map has expired.
FileMatches ==
  up => IF file = NoFile THEN stranded \/ live = Empty
        ELSE \A k \in Keys : live[k] = file[k] \/ (live[k] = NoSession /\ file[k] <= now)

\* A session that was logged out is not in the map, nor in what a start reads.
LoggedOutIsGone ==
  \A k \in out : live[k] = NoSession /\ (file = NoFile \/ file[k] <= now)

SessionInv ==
  /\ SessionTypeOK
  /\ up => Cardinality(Sessions(live)) <= limit
  /\ ~up => live = Empty
  /\ stranded => file = NoFile
  /\ FileMatches
  /\ LoggedOutIsGone
  /\ SessionsSurvive

LEMMA SessionsAreFinite ==
  ASSUME NEW m
  PROVE  Sessions(m) \in SUBSET Keys /\ IsFiniteSet(Sessions(m)) /\ Cardinality(Sessions(m)) \in Nat
<1>1. Sessions(m) \subseteq Keys
  BY DEF Sessions
<1>. QED
  BY <1>1, SessionStoreAssumption, FS_Subset, FS_CardinalityType

\* Pruning only takes away what has expired.
LEMMA PrunedKeeps ==
  ASSUME NEW m \in Stores, now \in Nat
  PROVE  /\ Pruned(m) \in Stores
         /\ \A k \in Keys : Pruned(m)[k] = IF m[k] <= now THEN NoSession ELSE m[k]
         /\ Sessions(Pruned(m)) \subseteq Sessions(m)
         /\ Cardinality(Sessions(Pruned(m))) <= Cardinality(Sessions(m))
<1>1. /\ Pruned(m) \in Stores
      /\ \A k \in Keys : Pruned(m)[k] = IF m[k] <= now THEN NoSession ELSE m[k]
  BY DEF Pruned, Stores, Expiries, NoSession
<1>2. Sessions(Pruned(m)) \subseteq Sessions(m)
  BY <1>1 DEF Sessions
<1>. QED
  BY <1>1, <1>2, SessionsAreFinite, FS_Subset

\* Eviction only takes sessions away, none within the limit, and then keeps the limit.
LEMMA EvictedKeeps ==
  ASSUME NEW m \in Stores, NEW n \in Nat, NEW r \in Evicted(m, n)
  PROVE  /\ r \in Stores
         /\ \A k \in Keys : r[k] = m[k] \/ r[k] = NoSession
         /\ Cardinality(Sessions(r)) <= n
         /\ Cardinality(Sessions(m)) <= n => r = m
<1>1. CASE Cardinality(Sessions(m)) <= n
  BY <1>1 DEF Evicted
<1>2. CASE ~(Cardinality(Sessions(m)) <= n)
  <2>1. PICK S \in SUBSET Sessions(m) :
          Cardinality(S) = n /\ r = [k \in Keys |-> IF k \in S THEN m[k] ELSE NoSession]
    BY <1>2, Zenon DEF Evicted
  <2>2. Sessions(r) = S
    BY <2>1 DEF Sessions
  <2>3. r \in Stores
    BY <2>1 DEF Stores, Expiries, NoSession
  <2>. QED
    BY <1>2, <2>1, <2>2, <2>3
<1>. QED
  BY <1>1, <1>2

LEMMA SessionInvInit == SessionInit => SessionInv
<1>. SUFFICES ASSUME SessionInit PROVE SessionInv
  OBVIOUS
<1>1. Empty \in Stores /\ Sessions(Empty) = {}
  BY DEF Empty, Stores, Expiries, NoSession, Sessions
<1>2. SessionTypeOK
  <2>1. up \in BOOLEAN /\ stranded \in BOOLEAN
    BY Zenon DEF SessionInit
  <2>2. now \in 1..MaxTime
    BY SessionStoreAssumption DEF SessionInit
  <2>. QED
    BY <1>1, <2>1, <2>2, Zenon DEF SessionInit, SessionTypeOK
<1>3. SessionsSurvive
  BY <1>1 DEF SessionInit, SessionsSurvive
<1>4. FileMatches /\ LoggedOutIsGone
  BY DEF SessionInit, FileMatches, LoggedOutIsGone
<1>. QED
  BY <1>2, <1>3, <1>4 DEF SessionInit, SessionInv

-----------------------------------------------------------------------------
LEMMA StartKeeps == SessionInv /\ Start => SessionInv'
<1>. SUFFICES ASSUME SessionInv, Start PROVE SessionInv'
  OBVIOUS
<1>. DEFINE read == IF file = NoFile THEN Empty ELSE file
<1>. USE DEF SessionInv, SessionTypeOK
<1>1. read \in Stores /\ Empty \in Stores /\ Sessions(Empty) = {}
  BY DEF Empty, Stores, Expiries, NoSession, Sessions
<1>2. limit' \in Limits /\ limit' \in Nat /\ now' = now /\ now \in Nat /\ held' = held /\ out' = out /\ ~up
  BY SessionStoreAssumption DEF Start
<1>3. PICK m \in Evicted(Pruned(read), limit') :
        /\ ended' = ended \cup IF file = NoFile
                               THEN IF stranded THEN Sessions(held) ELSE {}
                               ELSE {k \in Sessions(file) : file[k] > now /\ m[k] = NoSession}
        /\ \/ /\ IF file \in {NoFile, m} THEN UNCHANGED <<file, stranded>> ELSE Written(m)
              /\ up' = TRUE
              /\ live' = m
           \/ /\ file \notin {NoFile, m}
              /\ Unwritten
              /\ UNCHANGED <<up, live>>
  BY DEF Start
<1>4. /\ Pruned(read) \in Stores
      /\ \A k \in Keys : Pruned(read)[k] = IF read[k] <= now THEN NoSession ELSE read[k]
  BY <1>1, <1>2, PrunedKeeps
<1>5. /\ m \in Stores
      /\ \A k \in Keys : m[k] = Pruned(read)[k] \/ m[k] = NoSession
      /\ Cardinality(Sessions(m)) <= limit'
  BY <1>2, <1>3, <1>4, EvictedKeeps
<1>6. \A k \in Keys : m[k] = NoSession \/ (m[k] = read[k] /\ read[k] > now)
  BY <1>1, <1>2, <1>4, <1>5 DEF Stores, Expiries
<1>7. ended' \subseteq Keys
  BY <1>3, <1>5 DEF Sessions
<1>8. CASE up' = TRUE
  <2>1. live' = m /\ IF file \in {NoFile, m} THEN UNCHANGED <<file, stranded>> ELSE Written(m)
    BY <1>2, <1>3, <1>8
  <2>2. SessionTypeOK' /\ Cardinality(Sessions(live'))  <= limit' /\ (stranded' => file' = NoFile)
    BY <1>2, <1>5, <1>7, <1>8, <2>1 DEF Written
  <2>3. FileMatches'
    <3>1. CASE file = NoFile
      <4>1. m = Empty
        BY <1>1, <1>5, <1>6, <3>1 DEF Stores, Empty, NoSession
      <4>. QED
        BY <2>1, <3>1, <4>1 DEF FileMatches, Empty
    <3>2. CASE file # NoFile
      <4>1. file' = m
        BY <2>1, <3>2 DEF Written
      <4>. QED
        BY <2>1, <4>1, <1>5, SessionStoreAssumption DEF FileMatches
    <3>. QED
      BY <3>1, <3>2
  <2>4. LoggedOutIsGone'
    <3>. SUFFICES ASSUME NEW k \in out PROVE m[k] = NoSession /\ (file' = NoFile \/ file'[k] <= now)
      BY <1>2, <2>1 DEF LoggedOutIsGone
    <3>1. file = NoFile \/ file[k] <= now
      BY DEF LoggedOutIsGone
    <3>2. k \in Keys
      OBVIOUS
    <3>3. m[k] = NoSession
      BY <1>2, <1>6, <3>1, <3>2 DEF Empty, Stores, Expiries
    <3>. QED
      BY <1>2, <2>1, <3>1, <3>3 DEF Written, NoSession
  <2>5. SessionsSurvive'
    <3>. SUFFICES ASSUME NEW k \in Sessions(held) \ (out \cup ended'), held[k] > now
                  PROVE  m[k] = held[k]
      BY <1>2, <1>8, <2>1 DEF SessionsSurvive, Sessions
    <3>1. k \in Keys /\ k \notin ended /\ k \in Sessions(held)
      BY <1>3 DEF Sessions
    <3>2. stranded \/ (file # NoFile /\ file[k] = held[k])
      BY <1>2, <3>1 DEF SessionsSurvive
    <3>3. file # NoFile /\ file[k] = held[k]
      BY <1>3, <3>1, <3>2
    <3>4. k \in Sessions(file) /\ file[k] > now
      BY <3>1, <3>3 DEF Sessions
    <3>5. m[k] # NoSession
      BY <1>3, <3>3, <3>4
    <3>. QED
      BY <1>6, <3>1, <3>3, <3>5
  <2>. QED
    BY <1>8, <2>2, <2>3, <2>4, <2>5
<1>9. CASE up' # TRUE
  <2>1. file # NoFile /\ Unwritten /\ up' = up /\ live' = live
    BY <1>3, <1>9
  <2>2. SessionsSurvive'
    <3>. SUFFICES ASSUME NEW k \in Sessions(held) \ (out \cup ended'), held[k] > now
                  PROVE  stranded' \/ (file' # NoFile /\ file'[k] = held[k])
      BY <1>2, <2>1 DEF SessionsSurvive, Sessions
    <3>1. k \notin ended
      BY <1>3
    <3>2. stranded \/ (file # NoFile /\ file[k] = held[k])
      BY <1>2, <3>1 DEF SessionsSurvive
    <3>. QED
      BY <2>1, <3>2 DEF Unwritten
  <2>3. LoggedOutIsGone'
    BY <1>2, <2>1 DEF LoggedOutIsGone, Unwritten
  <2>4. up' \in BOOLEAN /\ stranded' \in BOOLEAN
    BY <2>1, Zenon DEF Unwritten
  <2>5. SessionTypeOK' /\ (stranded' => file' = NoFile) /\ ~up' /\ live' = Empty
    BY <1>2, <1>7, <2>1, <2>4 DEF Unwritten
  <2>. QED
    BY <2>2, <2>3, <2>5 DEF FileMatches
<1>. QED
  BY <1>8, <1>9

\* A map that reaches the file keeps the invariant, if it has the sessions it should.
LEMMA WrittenKeeps ==
  ASSUME NEW m \in Stores, SessionInv, up, Written(m),
         live' = m, up' = up, now' = now, limit' = limit,
         Cardinality(Sessions(m)) <= limit,
         held' \in Stores, out' \subseteq Keys, ended' \subseteq Keys,
         \A k \in out' : m[k] = NoSession,
         \A k \in Sessions(held') \ (out' \cup ended') : held'[k] > now => m[k] = held'[k]
  PROVE  SessionInv'
<1>1. SessionTypeOK' /\ (stranded' => file' = NoFile) /\ file' = m /\ m # NoFile
  BY SessionStoreAssumption DEF SessionInv, SessionTypeOK, Written
<1>2. FileMatches'
  BY <1>1 DEF FileMatches
<1>3. LoggedOutIsGone'
  BY <1>1 DEF LoggedOutIsGone, SessionInv, SessionTypeOK, NoSession
<1>4. SessionsSurvive'
  BY DEF SessionsSurvive, Sessions
<1>. QED
  BY <1>1, <1>2, <1>3, <1>4 DEF SessionInv, Sessions

\* A map that does not reach the file has lost no more than what expired.
LEMMA UnwrittenKeeps ==
  ASSUME NEW m \in Stores, SessionInv, up, Unwritten,
         live' = m, up' = up, now' = now, limit' = limit, held' = held, out' = out,
         Cardinality(Sessions(m)) <= limit,
         ended \subseteq ended', ended' \subseteq Keys,
         \A k \in Keys : m[k] = live[k] \/ (m[k] = NoSession /\ live[k] <= now)
  PROVE  SessionInv'
<1>1. SessionTypeOK' /\ (stranded' => file' = NoFile)
  <2>1. up' \in BOOLEAN /\ stranded' \in BOOLEAN
    BY Zenon DEF SessionInv, SessionTypeOK, Unwritten
  <2>. QED
    BY <2>1 DEF SessionInv, SessionTypeOK, Unwritten
<1>2. FileMatches'
  <2>1. CASE file' = NoFile /\ ~stranded'
    <3>1. live = Empty
      BY <2>1 DEF SessionInv, FileMatches, Unwritten
    <3>2. m = Empty
      BY <3>1 DEF Empty, Stores, NoSession
    <3>. QED
      BY <2>1, <3>2 DEF FileMatches, Empty
  <2>2. CASE file' # NoFile
    <3>1. file' = file
      BY <2>2 DEF Unwritten
    <3>. QED
      BY <2>2, <3>1 DEF SessionInv, FileMatches
  <2>. QED
    BY <2>1, <2>2 DEF FileMatches
<1>3. LoggedOutIsGone'
  BY DEF LoggedOutIsGone, SessionInv, SessionTypeOK, Unwritten
<1>4. SessionsSurvive'
  <2>. SUFFICES ASSUME NEW k \in Sessions(held) \ (out \cup ended'), held[k] > now
                PROVE  m[k] = held[k]
    BY DEF SessionsSurvive, Sessions
  <2>1. k \in Keys /\ live[k] = held[k]
    BY DEF SessionInv, SessionsSurvive, Sessions
  <2>. QED
    BY <2>1 DEF SessionInv, SessionTypeOK, Stores, Expiries
<1>. QED
  BY <1>1, <1>2, <1>3, <1>4 DEF SessionInv, Sessions

\* What a crash in a write loses was dropped by the write, or is stranded.
LEMMA DyingKeeps ==
  ASSUME NEW m \in Stores, SessionInv, up, Dies(m),
         now' = now, limit' = limit, held' = held, out' = out,
         ended \subseteq ended', ended' \subseteq Keys, Dropped(m) \subseteq ended',
         \A k \in Keys \ ended' : m[k] = live[k] \/ m[k] = NoSession,
         \A k \in out : m[k] = NoSession
  PROVE  SessionInv'
<1>1. /\ live' = Empty /\ up' = FALSE
      /\ (file' = m /\ stranded' = FALSE) \/ Unwritten
  BY DEF Dies, Written
<1>2. Empty \in Stores /\ m # NoFile
  BY SessionStoreAssumption DEF Empty, Stores, Expiries, NoSession
<1>3. SessionTypeOK' /\ (stranded' => file' = NoFile)
  <2>1. up' \in BOOLEAN /\ stranded' \in BOOLEAN
    BY <1>1, Zenon DEF SessionInv, SessionTypeOK, Unwritten
  <2>. QED
    BY <1>1, <1>2, <2>1 DEF SessionInv, SessionTypeOK, Unwritten
<1>4. LoggedOutIsGone'
  <2>1. \A k \in out' : live'[k] = NoSession
    BY <1>1 DEF SessionInv, SessionTypeOK, Empty
  <2>2. \A k \in out : file' = NoFile \/ file'[k] <= now
    BY <1>1 DEF Unwritten, LoggedOutIsGone, SessionInv, SessionTypeOK, NoSession
  <2>. QED
    BY <2>1, <2>2 DEF LoggedOutIsGone
<1>5. SessionsSurvive'
  <2>. SUFFICES ASSUME NEW k \in Sessions(held) \ (out \cup ended'), held[k] > now
                PROVE  stranded' \/ (file' # NoFile /\ file'[k] = held[k])
    BY <1>1 DEF SessionsSurvive, Sessions
  <2>1. k \in Keys /\ live[k] = held[k] /\ live[k] # NoSession
    BY DEF SessionInv, SessionsSurvive, Sessions
  <2>2. m[k] = live[k]
    BY <2>1 DEF Dropped, Sessions
  <2>3. CASE file' = m
    BY <1>2, <2>1, <2>2, <2>3
  <2>4. CASE Unwritten /\ ~stranded'
    <3>1. file' = file /\ ~stranded
      BY <2>4 DEF Unwritten, SessionInv, SessionTypeOK
    <3>2. live # Empty
      BY <2>1 DEF Empty
    <3>3. file # NoFile
      BY <3>1, <3>2 DEF SessionInv, FileMatches
    <3>. QED
      BY <2>1, <3>1, <3>3 DEF SessionInv, FileMatches
  <2>. QED
    BY <1>1, <2>3, <2>4
<1>. QED
  BY <1>1, <1>3, <1>4, <1>5 DEF SessionInv, FileMatches

LEMMA AddKeeps ==
  ASSUME SessionInv, NEW k \in Keys, Add(k)
  PROVE  SessionInv'
<1>. USE DEF SessionInv, SessionTypeOK
<1>1. /\ limit \in Nat \ {0} /\ limit - 1 \in Nat /\ now \in Nat \ {0} /\ Life \in Nat
      /\ up /\ held[k] = NoSession /\ k \notin out \cup ended
      /\ now' = now /\ limit' = limit /\ out' = out
  BY SessionStoreAssumption DEF Add
<1>2. PICK m0 \in Evicted(Pruned(live), limit - 1) :
        LET m == [m0 EXCEPT ![k] = now + Life]
        IN  \/ /\ Written(m)
               /\ live' = m
               /\ held' = [held EXCEPT ![k] = now + Life]
               /\ ended' = ended \cup Dropped(m)
               /\ UNCHANGED up
            \/ /\ Unwritten
               /\ UNCHANGED <<up, live, held, ended>>
            \/ /\ Dies(m)
               /\ ended' = ended \cup Dropped(m) \cup {k}
               /\ UNCHANGED held
  BY DEF Add
<1>. DEFINE m == [m0 EXCEPT ![k] = now + Life]
<1>3. Pruned(live) \in Stores /\ \A j \in Keys : Pruned(live)[j] = IF live[j] <= now THEN NoSession ELSE live[j]
  BY <1>1, PrunedKeeps
<1>4. /\ m0 \in Stores
      /\ \A j \in Keys : m0[j] = Pruned(live)[j] \/ m0[j] = NoSession
      /\ Cardinality(Sessions(m0)) <= limit - 1
  BY <1>1, <1>3, EvictedKeeps
<1>5. /\ m \in Stores
      /\ m[k] = now + Life
      /\ \A j \in Keys \ {k} : m[j] = live[j] \/ m[j] = NoSession
  BY <1>1, <1>3, <1>4 DEF Stores, Expiries
<1>6. Cardinality(Sessions(m)) <= limit
  <2>1. Sessions(m) \subseteq Sessions(m0) \cup {k}
    BY <1>4 DEF Sessions, Stores
  <2>. DEFINE S == Sessions(m0)
  <2>2. /\ IsFiniteSet(S \cup {k})
        /\ Cardinality(S \cup {k}) \in Nat
        /\ Cardinality(S \cup {k}) <= Cardinality(S) + 1
    <3>1. IsFiniteSet(S) /\ Cardinality(S) \in Nat
      BY SessionsAreFinite
    <3>. HIDE DEF S, SessionInv, SessionTypeOK
    <3>2. /\ IsFiniteSet(S \cup {k})
          /\ Cardinality(S \cup {k}) = IF k \in S THEN Cardinality(S) ELSE Cardinality(S) + 1
      BY <3>1, FS_AddElement
    <3>. QED
      BY <3>1, <3>2
  <2>3. Cardinality(Sessions(m)) <= Cardinality(Sessions(m0) \cup {k})
    BY <2>1, <2>2, FS_Subset
  <2>. QED
    BY <1>1, <1>4, <2>2, <2>3, SessionsAreFinite
<1>7. Dropped(m) \subseteq Keys /\ \A j \in out : m[j] = NoSession
  BY <1>1, <1>5 DEF Dropped, Sessions, LoggedOutIsGone
<1>8. CASE Written(m) /\ live' = m /\ held' = [held EXCEPT ![k] = now + Life]
           /\ ended' = ended \cup Dropped(m) /\ UNCHANGED up
  <2>1. held' \in Stores /\ ended' \subseteq Keys /\ out' \subseteq Keys
    <3>. HIDE DEF m
    <3>. QED
      BY <1>1, <1>7, <1>8 DEF Stores, Expiries
  <2>2. ASSUME NEW j \in Sessions(held') \ (out' \cup ended'), held'[j] > now
        PROVE  m[j] = held'[j]
    <3>1. j \in Keys /\ j \notin out \cup ended \cup Dropped(m)
      BY <1>1, <1>8, <2>2 DEF Sessions
    <3>2. CASE j = k
      BY <1>5, <1>8, <3>2 DEF Stores
    <3>3. CASE j # k
      <4>1. held'[j] = held[j] /\ j \in Sessions(held)
        BY <1>8, <2>2, <3>1, <3>3 DEF Stores, Sessions
      <4>2. live[j] = held[j] /\ j \in Sessions(live)
        BY <1>1, <2>2, <3>1, <4>1 DEF SessionsSurvive, Sessions
      <4>3. m[j] # NoSession
        BY <2>2, <3>1, <4>1, <4>2 DEF Dropped
      <4>. QED
        BY <1>5, <3>1, <3>3, <4>1, <4>2, <4>3
    <3>. QED
      BY <3>2, <3>3
  <2>3. \A j \in Sessions(held') \ (out' \cup ended') : held'[j] > now => m[j] = held'[j]
    BY <2>2
  <2>4. \A j \in out' : m[j] = NoSession
    BY <1>1, <1>7
  <2>. HIDE DEF m, SessionInv, SessionTypeOK
  <2>. QED
    BY <1>1, <1>5, <1>6, <1>8, <2>1, <2>3, <2>4, WrittenKeeps
<1>9. CASE Unwritten /\ UNCHANGED <<up, live, held, ended>>
  BY <1>1, <1>9, UnwrittenKeeps
<1>10. CASE Dies(m) /\ ended' = ended \cup Dropped(m) \cup {k} /\ UNCHANGED held
  <2>1. ended \subseteq ended' /\ ended' \subseteq Keys /\ Dropped(m) \subseteq ended'
    BY <1>7, <1>10
  <2>2. \A j \in Keys \ ended' : m[j] = live[j] \/ m[j] = NoSession
    BY <1>5, <1>10
  <2>. HIDE DEF m, SessionInv
  <2>. QED
    BY <1>1, <1>5, <1>7, <1>10, <2>1, <2>2, DyingKeeps
<1>. QED
  BY <1>2, <1>8, <1>9, <1>10

LEMMA ValidKeeps ==
  ASSUME SessionInv, NEW k \in Keys, Valid(k)
  PROVE  SessionInv'
<1>. DEFINE m == Pruned(live)
<1>1. /\ limit \in Nat /\ now \in Nat /\ up /\ live \in Stores
      /\ now' = now /\ limit' = limit /\ out' = out /\ held' = held
  BY SessionStoreAssumption DEF Valid, SessionInv, SessionTypeOK
<1>2. /\ m \in Stores
      /\ \A j \in Keys : m[j] = IF live[j] <= now THEN NoSession ELSE live[j]
      /\ Cardinality(Sessions(m)) <= Cardinality(Sessions(live))
  BY <1>1, PrunedKeeps
<1>3. Cardinality(Sessions(m)) <= limit
  BY <1>1, <1>2, SessionsAreFinite DEF SessionInv
<1>4. \A r \in Evicted(m, limit) : r = m
  BY <1>1, <1>2, <1>3, EvictedKeeps
<1>5. Dropped(m) = {}
  BY <1>2, <1>1 DEF Dropped, Sessions, Stores, Expiries, NoSession
<1>6. \/ m = live /\ UNCHANGED <<up, live, file, stranded, ended>>
      \/ /\ ended' = ended
         /\ \/ live' = m /\ (Written(m) \/ Unwritten) /\ UNCHANGED up
            \/ Dies(m)
  BY <1>4, <1>5 DEF Valid
<1>7. /\ \A j \in out : m[j] = NoSession
      /\ \A j \in Keys : m[j] = live[j] \/ (m[j] = NoSession /\ live[j] <= now)
      /\ \A j \in Sessions(held) \ (out \cup ended) : held[j] > now => m[j] = held[j]
  <2>1. \A j \in Keys : m[j] = live[j] \/ (m[j] = NoSession /\ live[j] <= now)
    BY <1>2
  <2>2. \A j \in out : m[j] = NoSession
    BY <1>2 DEF SessionInv, SessionTypeOK, LoggedOutIsGone
  <2>3. \A j \in Sessions(held) \ (out \cup ended) : held[j] > now => m[j] = held[j]
    BY <1>1, <1>2 DEF SessionInv, SessionTypeOK, SessionsSurvive, Sessions, Stores, Expiries
  <2>. QED
    BY <2>1, <2>2, <2>3
<1>8. held \in Stores /\ out \subseteq Keys /\ ended \subseteq Keys
  BY DEF SessionInv, SessionTypeOK
<1>. HIDE DEF m
<1>9. CASE ended' = ended /\ live' = m /\ Written(m) /\ up' = up
  BY <1>1, <1>2, <1>3, <1>7, <1>8, <1>9, WrittenKeeps
<1>10. CASE ended' = ended /\ live' = m /\ Unwritten /\ up' = up
  BY <1>1, <1>2, <1>3, <1>7, <1>8, <1>10, UnwrittenKeeps
<1>11. CASE ended' = ended /\ Dies(m)
  BY <1>1, <1>2, <1>5, <1>7, <1>8, <1>11, DyingKeeps
<1>12. CASE m = live /\ UNCHANGED <<up, live, file, stranded, ended>>
  BY <1>1, <1>12 DEF SessionInv, SessionTypeOK, FileMatches, LoggedOutIsGone, SessionsSurvive, Sessions
<1>. QED
  BY <1>6, <1>9, <1>10, <1>11, <1>12

LEMMA RevokeKeeps ==
  ASSUME SessionInv, NEW k \in Keys, Revoke(k)
  PROVE  SessionInv'
<1>. DEFINE others == [live EXCEPT ![k] = NoSession]
            m == Pruned(others)
            restored == [m EXCEPT ![k] = live[k]]
<1>1. /\ limit \in Nat /\ now \in Nat /\ up /\ live \in Stores
      /\ now' = now /\ limit' = limit /\ held' = held
      /\ held \in Stores /\ out \subseteq Keys /\ ended \subseteq Keys
  BY SessionStoreAssumption DEF Revoke, SessionInv, SessionTypeOK
<1>2. others \in Stores /\ Sessions(others) \subseteq Sessions(live)
  BY <1>1 DEF Stores, Expiries, NoSession, Sessions
<1>3. /\ m \in Stores
      /\ \A j \in Keys : m[j] = IF others[j] <= now THEN NoSession ELSE others[j]
      /\ Sessions(m) \subseteq Sessions(others)
  BY <1>1, <1>2, PrunedKeeps
<1>4. /\ m[k] = NoSession
      /\ \A j \in Keys \ {k} : m[j] = live[j] \/ (m[j] = NoSession /\ live[j] <= now)
  BY <1>1, <1>3 DEF Stores
<1>. HIDE DEF m, others
<1>5. Cardinality(Sessions(m)) <= limit
  <2>1. Cardinality(Sessions(m)) <= Cardinality(Sessions(live))
    BY <1>2, <1>3, SessionsAreFinite, FS_Subset
  <2>. QED
    BY <1>1, <2>1, SessionsAreFinite DEF SessionInv
<1>6. \A j \in out : m[j] = NoSession
  BY <1>1, <1>4 DEF SessionInv, LoggedOutIsGone
<1>7. \A j \in Sessions(held) \ (out \cup ended \cup {k}) : held[j] > now => m[j] = held[j]
  <2>. SUFFICES ASSUME NEW j \in Sessions(held) \ (out \cup ended \cup {k}), held[j] > now
                PROVE  m[j] = held[j]
    OBVIOUS
  <2>1. j \in Keys \ {k} /\ live[j] = held[j]
    BY <1>1 DEF SessionInv, SessionsSurvive, Sessions
  <2>. QED
    BY <1>1, <1>4, <2>1 DEF Stores, Expiries
<1>8. CASE live[k] = NoSession /\ out' = out \cup {k} /\ UNCHANGED <<up, live, file, stranded, ended>>
  <2>1. file = NoFile \/ file[k] <= now
    BY <1>1, <1>8 DEF SessionInv, FileMatches, NoSession
  <2>2. LoggedOutIsGone'
    BY <1>1, <1>8, <2>1 DEF SessionInv, LoggedOutIsGone
  <2>3. SessionsSurvive'
    BY <1>1, <1>8 DEF SessionInv, SessionsSurvive, Sessions
  <2>4. SessionTypeOK' /\ FileMatches'
    BY <1>1, <1>8 DEF SessionInv, SessionTypeOK, FileMatches
  <2>. QED
    BY <1>1, <1>8, <2>2, <2>3, <2>4 DEF SessionInv, Sessions
<1>9. CASE Written(m) /\ live' = m /\ out' = out \cup {k} /\ UNCHANGED <<up, ended>>
  <2>. QED
    BY <1>1, <1>3, <1>4, <1>5, <1>6, <1>7, <1>9, WrittenKeeps
<1>10. CASE Unwritten /\ live' = restored /\ UNCHANGED <<up, out, ended>>
  <2>1. /\ restored \in Stores
        /\ \A j \in Keys : restored[j] = live[j] \/ (restored[j] = NoSession /\ live[j] <= now)
    BY <1>1, <1>3, <1>4 DEF Stores
  <2>2. Cardinality(Sessions(restored)) <= limit
    <3>1. Sessions(restored) \subseteq Sessions(live)
      BY <2>1 DEF Sessions
    <3>. HIDE DEF restored
    <3>2. Cardinality(Sessions(restored)) <= Cardinality(Sessions(live))
      BY <3>1, SessionsAreFinite, FS_Subset
    <3>. QED
      BY <1>1, <3>2, SessionsAreFinite DEF SessionInv
  <2>. HIDE DEF restored
  <2>. QED
    BY <1>1, <1>10, <2>1, <2>2, UnwrittenKeeps
<1>11. CASE Dies(m) /\ ended' = ended \cup {k} /\ UNCHANGED out
  <2>1. Dropped(m) \subseteq ended'
    BY <1>1, <1>4, <1>11 DEF Dropped, Sessions, Stores, Expiries
  <2>. QED
    BY <1>1, <1>3, <1>4, <1>6, <1>11, <2>1, DyingKeeps
<1>. QED
  BY <1>8, <1>9, <1>10, <1>11, Zenon DEF Revoke, m, others

LEMMA StopKeeps == SessionInv /\ Stop => SessionInv'
<1>. SUFFICES ASSUME SessionInv, Stop PROVE SessionInv'
  OBVIOUS
<1>1. live \in Stores /\ up /\ Dropped(live) = {}
  <2>1. Dropped(live) = {}
    BY DEF Dropped, Sessions
  <2>. QED
    BY <2>1, Zenon DEF SessionInv, SessionTypeOK, Stop
<1>2. Dies(live)
  BY Zenon DEF Stop, Dies, Unwritten
<1>. QED
  BY <1>1, <1>2, DyingKeeps DEF Stop, SessionInv, SessionTypeOK, LoggedOutIsGone

LEMMA ElapseKeeps == SessionInv /\ Elapse => SessionInv'
<1>. SUFFICES ASSUME SessionInv, Elapse PROVE SessionInv'
  OBVIOUS
<1>. USE DEF SessionInv, SessionTypeOK, Elapse
<1>1. SessionTypeOK'
  BY SessionStoreAssumption
<1>2. FileMatches'
  BY DEF FileMatches, Stores, Expiries
<1>3. LoggedOutIsGone'
  BY DEF LoggedOutIsGone, Stores, Expiries
<1>4. SessionsSurvive'
  BY DEF SessionsSurvive, Sessions, Stores, Expiries
<1>. QED
  BY <1>1, <1>2, <1>3, <1>4 DEF Sessions

LEMMA SessionInvariant == SessionSpec => []SessionInv
<1>1. ASSUME SessionInv, UNCHANGED sessionVars PROVE SessionInv'
  BY <1>1 DEF sessionVars, SessionInv, SessionTypeOK, FileMatches, LoggedOutIsGone, SessionsSurvive, Sessions
<1>2. SessionInv /\ [SessionNext]_sessionVars => SessionInv'
  BY <1>1, StartKeeps, AddKeeps, ValidKeeps, RevokeKeeps, StopKeeps, ElapseKeeps DEF SessionNext
<1>. QED
  BY <1>2, SessionInvInit, PTL DEF SessionSpec

\* A session whose logout was answered is never valid again.
THEOREM LogoutsStand == SessionSpec => []LoggedOutStaysOut
<1>1. SessionInv => LoggedOutStaysOut
  BY DEF SessionInv, LoggedOutIsGone, LoggedOutStaysOut
<1>. QED
  BY <1>1, SessionInvariant, PTL

\* A session that was handed out outlives crashes and restarts, unless its store is
\* stranded.
THEOREM SessionsOutliveCrashes == SessionSpec => []SessionsSurvive
<1>1. SessionInv => SessionsSurvive
  BY DEF SessionInv
<1>. QED
  BY <1>1, SessionInvariant, PTL

-----------------------------------------------------------------------------
(***************************************************************************)
(* Failed logins.  Failures are counted from the first of a window on, so   *)
(* what an entry counts was logged in the window that begins there, and the *)
(* failures that led to a block are those of the window before it began.    *)
(***************************************************************************)

LimiterEntries == [first : Nat, failures : Nat, until : Nat, seen : Nat]

LogIsSound(log) ==
  /\ IsFiniteSet(log)
  /\ \A f \in log : f.time \in Nat \ {0} /\ f.time <= clock
                    /\ f.number \in Nat /\ f.number <= Cardinality(log)

EntryIsEarned(e, log, max) ==
  /\ e.first <= clock
  /\ e.first # Never => e.failures <= Failures(log, e.first, e.first + Window)
  /\ e.until # Never => Failures(log, e.until - Block - Window, e.until - Block) >= max

LimiterInv ==
  /\ clock \in Nat \ {0}
  /\ entries \in [Addresses -> LimiterEntries] /\ account \in LimiterEntries
  /\ DOMAIN tries = Addresses
  /\ \A a \in Addresses : LogIsSound(tries[a]) /\ EntryIsEarned(entries[a], tries[a], FailureLimit)
  /\ LogIsSound(allTries) /\ EntryIsEarned(account, allTries, AccountLimit)

LEMMA FailuresInBounds ==
  ASSUME NEW log, NEW more, IsFiniteSet(more), log \subseteq more,
         NEW first \in Int, NEW last \in Int, NEW from2 \in Int, NEW to2 \in Int,
         \A f \in log : f.time \in first..last => f.time \in from2..to2
  PROVE  /\ Failures(log, first, last) \in Nat /\ Failures(more, from2, to2) \in Nat
         /\ Failures(log, first, last) <= Failures(more, from2, to2)
<1>. DEFINE A == {f \in log : f.time \in first..last}
            B == {f \in more : f.time \in from2..to2}
<1>1. A \subseteq B /\ B \subseteq more
  OBVIOUS
<1>2. IsFiniteSet(B) /\ IsFiniteSet(A)
  BY <1>1, FS_Subset
<1>3. Cardinality(A) \in Nat /\ Cardinality(B) \in Nat /\ Cardinality(A) <= Cardinality(B)
  BY <1>1, <1>2, FS_Subset, FS_CardinalityType
<1>. QED
  BY <1>3 DEF Failures

\* A failure that is logged is one more in every window that ends now.
LEMMA LoggedCounts ==
  ASSUME NEW log, LogIsSound(log), clock \in Nat \ {0}, NEW first \in Int, NEW last \in Int,
         first <= clock, clock <= last
  PROVE  /\ LogIsSound(Logged(log)) /\ log \subseteq Logged(log)
         /\ Failures(log, first, last) \in Nat
         /\ Failures(Logged(log), first, last) = Failures(log, first, last) + 1
<1>. DEFINE new == [time |-> clock, number |-> Cardinality(log) + 1]
            A == {f \in log : f.time \in first..last}
<1>1. Cardinality(log) \in Nat /\ IsFiniteSet(log)
  BY FS_CardinalityType DEF LogIsSound
<1>2. new \notin log /\ new.time = clock /\ new.number = Cardinality(log) + 1
  BY <1>1 DEF LogIsSound
<1>3. Logged(log) = log \cup {new}
  BY DEF Logged
<1>. HIDE DEF new
<1>4. IsFiniteSet(Logged(log)) /\ Cardinality(Logged(log)) = Cardinality(log) + 1
  BY <1>1, <1>2, <1>3, FS_AddElement
<1>5. LogIsSound(Logged(log))
  <2>. SUFFICES ASSUME NEW f \in Logged(log)
                PROVE  f.time \in Nat \ {0} /\ f.time <= clock
                       /\ f.number \in Nat /\ f.number <= Cardinality(log) + 1
    BY <1>4 DEF LogIsSound
  <2>1. CASE f \in log
    BY <1>1, <2>1 DEF LogIsSound
  <2>2. CASE f = new
    BY <1>1, <1>2, <2>2
  <2>. QED
    BY <1>3, <2>1, <2>2
<1>6. {f \in Logged(log) : f.time \in first..last} = A \cup {new}
  BY <1>2, <1>3
<1>7. IsFiniteSet(A) /\ new \notin A
  BY <1>1, <1>2, FS_Subset
<1>8. Cardinality(A \cup {new}) = Cardinality(A) + 1 /\ Cardinality(A) \in Nat
  BY <1>7, FS_AddElement, FS_CardinalityType
<1>. QED
  BY <1>3, <1>5, <1>6, <1>8 DEF Failures

\* A pruned entry counts nothing.
LEMMA CurrentIsEarned ==
  ASSUME NEW e \in LimiterEntries, NEW log, NEW max, EntryIsEarned(e, log, max), clock \in Nat
  PROVE  Current(e) \in LimiterEntries /\ EntryIsEarned(Current(e), log, max)
<1>1. NoEntry \in LimiterEntries /\ EntryIsEarned(NoEntry, log, max)
  BY DEF NoEntry, Never, LimiterEntries, EntryIsEarned
<1>2. Current(e) = e \/ Current(e) = NoEntry
  BY DEF Current
<1>. QED
  BY <1>1, <1>2

LEMMA SeenIsEarned ==
  ASSUME NEW e \in LimiterEntries, NEW log, NEW max, EntryIsEarned(e, log, max), clock \in Nat
  PROVE  Seen(e) \in LimiterEntries /\ EntryIsEarned(Seen(e), log, max)
<1>1. Seen(e) \in LimiterEntries /\ Seen(e).first = e.first /\ Seen(e).failures = e.failures
      /\ Seen(e).until = e.until
  BY DEF Seen, LimiterEntries
<1>. QED
  BY <1>1 DEF EntryIsEarned

LEMMA RecordedIsEarned ==
  ASSUME NEW e \in LimiterEntries, NEW log, NEW max \in Nat \ {0}, LogIsSound(log),
         EntryIsEarned(e, log, max), clock \in Nat \ {0}
  PROVE  /\ Recorded(e, max) \in LimiterEntries
         /\ EntryIsEarned(Recorded(e, max), Logged(log), max)
<1>. USE LoginLimiterAssumption
<1>1. PICK base : base = IF e.first = Never \/ clock - e.first > Window
                           THEN [NoEntry EXCEPT !.first = clock] ELSE e
  OBVIOUS
<1>2. PICK new : new = Recorded(e, max)
  OBVIOUS
<1>3. /\ new = [first |-> base.first, failures |-> base.failures + 1,
                until |-> IF base.failures + 1 >= max THEN clock + Block ELSE base.until,
                seen |-> clock]
  BY <1>1, <1>2 DEF Recorded
<1>4. /\ base \in LimiterEntries /\ base.first # Never /\ base.first <= clock
      /\ clock <= base.first + Window
      /\ base.failures <= Failures(log, base.first, base.first + Window)
      /\ base.until # Never => Failures(log, base.until - Block - Window, base.until - Block) >= max
  <2>1. CASE e.first = Never \/ clock - e.first > Window
    <3>1. base = [first |-> clock, failures |-> 0, until |-> Never, seen |-> Never]
      BY <1>1, <2>1 DEF NoEntry
    <3>2. Failures(log, clock, clock + Window) \in Nat
      BY FailuresInBounds DEF LogIsSound
    <3>. QED
      BY <3>1, <3>2 DEF LimiterEntries, Never
  <2>2. CASE ~(e.first = Never \/ clock - e.first > Window)
    BY <1>1, <2>2 DEF LimiterEntries, EntryIsEarned, Never
  <2>. QED
    BY <2>1, <2>2
<1>5. /\ base.first \in Nat /\ base.failures \in Nat /\ base.until \in Nat
  BY <1>4 DEF LimiterEntries
<1>6. new \in LimiterEntries
  BY <1>3, <1>5 DEF LimiterEntries
<1>7. /\ LogIsSound(Logged(log)) /\ log \subseteq Logged(log) /\ IsFiniteSet(Logged(log))
      /\ Failures(log, base.first, base.first + Window) \in Nat
      /\ Failures(Logged(log), base.first, base.first + Window) =
           Failures(log, base.first, base.first + Window) + 1
  BY <1>4, <1>5, LoggedCounts DEF LogIsSound
<1>8. base.failures + 1 <= Failures(Logged(log), base.first, base.first + Window)
  BY <1>4, <1>5, <1>7
<1>9. new.until # Never => Failures(Logged(log), new.until - Block - Window, new.until - Block) >= max
  <2>1. CASE base.failures + 1 >= max
    <3>1. new.until - Block - Window = clock - Window /\ new.until - Block = clock
      BY <1>3, <2>1
    <3>2. \A f \in Logged(log) : f.time \in base.first..(base.first + Window) =>
                                   f.time \in (clock - Window)..clock
      BY <1>4, <1>5, <1>7 DEF LogIsSound
    <3>3. /\ Failures(Logged(log), clock - Window, clock) \in Nat
          /\ Failures(Logged(log), base.first, base.first + Window) <=
               Failures(Logged(log), clock - Window, clock)
      BY <1>5, <1>7, <3>2, FailuresInBounds
    <3>. QED
      BY <1>5, <1>7, <1>8, <2>1, <3>1, <3>3
  <2>2. CASE ~(base.failures + 1 >= max)
    <3>1. new.until = base.until
      BY <1>3, <2>2
    <3>2. /\ Failures(log, base.until - Block - Window, base.until - Block) \in Nat
          /\ Failures(Logged(log), base.until - Block - Window, base.until - Block) \in Nat
          /\ Failures(log, base.until - Block - Window, base.until - Block) <=
               Failures(Logged(log), base.until - Block - Window, base.until - Block)
      BY <1>5, <1>7, FailuresInBounds
    <3>. QED
      BY <1>4, <3>1, <3>2
  <2>. QED
    BY <2>1, <2>2
<1>. QED
  BY <1>2, <1>3, <1>4, <1>6, <1>8, <1>9 DEF EntryIsEarned

LEMMA NothingIsEarned ==
  ASSUME NEW max, clock \in Nat
  PROVE  NoEntry \in LimiterEntries /\ EntryIsEarned(NoEntry, {}, max) /\ LogIsSound({})
BY FS_EmptySet DEF NoEntry, Never, LimiterEntries, EntryIsEarned, LogIsSound

LEMMA LimiterInvInit == LimiterInit => LimiterInv
<1>. SUFFICES ASSUME LimiterInit PROVE LimiterInv
  OBVIOUS
<1>1. clock \in Nat \ {0}
  BY DEF LimiterInit
<1>. QED
  BY <1>1, NothingIsEarned DEF LimiterInit, LimiterInv

\* What is in force at the time of a step.
LEMMA EntriesAreEarned ==
  ASSUME LimiterInv
  PROVE  /\ clock \in Nat \ {0} /\ clock \in Nat
         /\ \A a \in Addresses :
              /\ entries[a] \in LimiterEntries /\ LogIsSound(tries[a])
              /\ EntryIsEarned(entries[a], tries[a], FailureLimit)
              /\ Current(entries[a]) \in LimiterEntries
              /\ EntryIsEarned(Current(entries[a]), tries[a], FailureLimit)
         /\ account \in LimiterEntries /\ LogIsSound(allTries)
         /\ EntryIsEarned(account, allTries, AccountLimit)
         /\ Current(account) \in LimiterEntries
         /\ EntryIsEarned(Current(account), allTries, AccountLimit)
<1>1. /\ clock \in Nat \ {0} /\ clock \in Nat
      /\ \A a \in Addresses :
           entries[a] \in LimiterEntries /\ LogIsSound(tries[a])
           /\ EntryIsEarned(entries[a], tries[a], FailureLimit)
      /\ account \in LimiterEntries /\ LogIsSound(allTries)
      /\ EntryIsEarned(account, allTries, AccountLimit)
  BY DEF LimiterInv
<1>2. \A a \in Addresses :
        Current(entries[a]) \in LimiterEntries
        /\ EntryIsEarned(Current(entries[a]), tries[a], FailureLimit)
  BY <1>1, CurrentIsEarned
<1>3. /\ Current(account) \in LimiterEntries
      /\ EntryIsEarned(Current(account), allTries, AccountLimit)
  BY <1>1, CurrentIsEarned
<1>. QED
  BY <1>1, <1>2, <1>3

\* A step at one time keeps the invariant when each entry it leaves is earned.
LEMMA EarnedSteps ==
  ASSUME LimiterInv, clock' = clock,
         NEW es, entries' = [a \in Addresses |-> es[a]], DOMAIN tries' = Addresses,
         \A a \in Addresses :
           es[a] \in LimiterEntries /\ LogIsSound(tries'[a])
           /\ EntryIsEarned(es[a], tries'[a], FailureLimit),
         account' \in LimiterEntries, LogIsSound(allTries'),
         EntryIsEarned(account', allTries', AccountLimit)
  PROVE  LimiterInv'
BY DEF LimiterInv, LogIsSound, EntryIsEarned, Failures

LEMMA CheckKeeps ==
  ASSUME LimiterInv, NEW r \in Attempts, NEW a \in Addresses, NEW c, Check(r, a, c)
  PROVE  LimiterInv'
<1>. DEFINE e == Current(entries[a])
            es == [x \in Addresses |-> IF x = a THEN Seen(e) ELSE Current(entries[x])]
<1>1. entries' = es /\ clock' = clock /\ tries' = tries /\ allTries' = allTries
  BY DEF Check
<1>2. account' = Current(account) \/ account' = Seen(Current(account))
  BY DEF Check
<1>3. Seen(e) \in LimiterEntries /\ EntryIsEarned(Seen(e), tries[a], FailureLimit)
  BY EntriesAreEarned, SeenIsEarned
<1>4. /\ Seen(Current(account)) \in LimiterEntries
      /\ EntryIsEarned(Seen(Current(account)), allTries, AccountLimit)
  BY EntriesAreEarned, SeenIsEarned
<1>5. \A x \in Addresses :
        es[x] \in LimiterEntries /\ LogIsSound(tries[x])
        /\ EntryIsEarned(es[x], tries[x], FailureLimit)
  BY <1>3, EntriesAreEarned
<1>6. entries' = [x \in Addresses |-> es[x]] /\ DOMAIN tries' = Addresses
  BY <1>1 DEF LimiterInv
<1>. HIDE DEF es
<1>. QED
  BY <1>1, <1>2, <1>4, <1>5, <1>6, EntriesAreEarned, EarnedSteps

LEMMA FailKeeps ==
  ASSUME LimiterInv, NEW r \in Attempts, FailLogin(r)
  PROVE  LimiterInv'
<1>. USE LoginLimiterAssumption
<1>1. PICK a : a = from[r]
  OBVIOUS
<1>. DEFINE es == [x \in Addresses |->
                     IF x = a THEN Recorded(Current(entries[x]), FailureLimit)
                     ELSE Current(entries[x])]
<1>2. /\ entries' = es /\ clock' = clock
      /\ tries' = [tries EXCEPT ![a] = Logged(tries[a])] /\ allTries' = Logged(allTries)
      /\ account' = Recorded(Current(account), AccountLimit)
  BY <1>1 DEF FailLogin, Leave
<1>0. ASSUME NEW log, LogIsSound(log) PROVE LogIsSound(Logged(log))
  <2>1. clock \in Nat \ {0} /\ clock \in Int /\ clock <= clock
    BY EntriesAreEarned
  <2>. QED
    BY ONLY <1>0, <2>1, LoggedCounts
<1>3. /\ LogIsSound(Logged(allTries)) /\ Recorded(Current(account), AccountLimit) \in LimiterEntries
      /\ EntryIsEarned(Recorded(Current(account), AccountLimit), Logged(allTries), AccountLimit)
  BY <1>0, EntriesAreEarned, RecordedIsEarned
<1>4. \A x \in Addresses :
        /\ LogIsSound(Logged(tries[x]))
        /\ Recorded(Current(entries[x]), FailureLimit) \in LimiterEntries
        /\ EntryIsEarned(Recorded(Current(entries[x]), FailureLimit), Logged(tries[x]), FailureLimit)
  BY <1>0, EntriesAreEarned, RecordedIsEarned
<1>5. \A x \in Addresses : tries'[x] = IF x = a THEN Logged(tries[x]) ELSE tries[x]
  BY <1>2 DEF LimiterInv
<1>6. \A x \in Addresses :
        es[x] \in LimiterEntries /\ LogIsSound(tries'[x])
        /\ EntryIsEarned(es[x], tries'[x], FailureLimit)
  BY <1>4, <1>5, EntriesAreEarned
<1>7. entries' = [x \in Addresses |-> es[x]] /\ DOMAIN tries' = Addresses
  BY <1>2 DEF LimiterInv
<1>. HIDE DEF es
<1>. QED
  BY <1>2, <1>3, <1>6, <1>7, EarnedSteps

LEMMA ForgetKeeps ==
  ASSUME LimiterInv, NEW a, Forget(a), clock' = clock
  PROVE  LimiterInv'
<1>. DEFINE es == [entries EXCEPT ![a] = NoEntry]
<1>1. /\ entries' = es /\ tries' = [tries EXCEPT ![a] = {}]
      /\ account' = NoEntry /\ allTries' = {}
  BY DEF Forget
<1>2. /\ clock \in Nat /\ NoEntry \in LimiterEntries /\ LogIsSound({})
      /\ EntryIsEarned(NoEntry, {}, FailureLimit) /\ EntryIsEarned(NoEntry, {}, AccountLimit)
  BY EntriesAreEarned, NothingIsEarned
<1>3. /\ entries' = [x \in Addresses |-> es[x]] /\ DOMAIN tries' = Addresses
      /\ \A x \in Addresses : es[x] = (IF x = a THEN NoEntry ELSE entries[x])
                            /\ tries'[x] = (IF x = a THEN {} ELSE tries[x])
  BY <1>1 DEF LimiterInv
<1>4. \A x \in Addresses :
        es[x] \in LimiterEntries /\ LogIsSound(tries'[x])
        /\ EntryIsEarned(es[x], tries'[x], FailureLimit)
  BY <1>2, <1>3, EntriesAreEarned
<1>. HIDE DEF es
<1>. QED
  BY <1>1, <1>2, <1>3, <1>4, EarnedSteps

\* Time only makes what was logged older.
LEMMA PassKeeps == LimiterInv /\ Pass => LimiterInv'
<1>. SUFFICES ASSUME LimiterInv, Pass PROVE LimiterInv'
  OBVIOUS
<1>1. /\ clock \in Nat \ {0} /\ clock' = clock + 1 /\ entries' = entries /\ account' = account
      /\ tries' = tries /\ allTries' = allTries
  BY DEF Pass, LimiterInv
<1>2. ASSUME NEW log, LogIsSound(log)
      PROVE  /\ IsFiniteSet(log)
             /\ \A f \in log : f.time \in Nat \ {0} /\ f.time <= clock'
                               /\ f.number \in Nat /\ f.number <= Cardinality(log)
  BY <1>1, <1>2 DEF LogIsSound
<1>3. ASSUME NEW e \in LimiterEntries, NEW log, NEW max, EntryIsEarned(e, log, max)
      PROVE  /\ e.first <= clock'
             /\ e.first # Never => e.failures <= Failures(log, e.first, e.first + Window)
             /\ e.until # Never => Failures(log, e.until - Block - Window, e.until - Block) >= max
  BY <1>1, <1>3 DEF EntryIsEarned, LimiterEntries
<1>4. \A a \in Addresses : LogIsSound(tries[a])' /\ EntryIsEarned(entries[a], tries[a], FailureLimit)'
  BY <1>1, <1>2, <1>3 DEF LimiterInv, LogIsSound, EntryIsEarned
<1>5. LogIsSound(allTries)' /\ EntryIsEarned(account, allTries, AccountLimit)'
  BY <1>1, <1>2, <1>3 DEF LimiterInv, LogIsSound, EntryIsEarned
<1>6. clock' \in Nat \ {0}
  BY <1>1
<1>. QED
  BY <1>1, <1>4, <1>5, <1>6 DEF LimiterInv

LEMMA LimiterInvariant == LimiterSpec => []LimiterInv
<1>1. ASSUME LimiterInv, [LimiterNext]_limiterVars
      PROVE  LimiterInv'
  <2>1. CASE Pass
    BY <1>1, <2>1, PassKeeps
  <2>2. ASSUME NEW r \in Attempts, NEW a \in Addresses, NEW c \in {"right", "wrong"}, Check(r, a, c)
        PROVE  LimiterInv'
    BY <1>1, <2>2, CheckKeeps
  <2>3. ASSUME NEW r \in Attempts, FailLogin(r)
        PROVE  LimiterInv'
    BY <1>1, <2>3, FailKeeps
  <2>4. ASSUME NEW r \in Attempts, Succeed(r)
        PROVE  LimiterInv'
    BY <1>1, <2>4, ForgetKeeps DEF Succeed, Leave
  <2>5. ASSUME NEW r \in Attempts, Refuse(r)
        PROVE  LimiterInv'
    BY <1>1, <2>5 DEF Refuse, Leave, LimiterInv, LogIsSound, EntryIsEarned, Failures
  <2>6. ASSUME NEW a \in Addresses, Basic(a)
        PROVE  LimiterInv'
    BY <1>1, <2>6, ForgetKeeps DEF Basic
  <2>7. CASE UNCHANGED limiterVars
    BY <1>1, <2>7 DEF limiterVars, LimiterInv, LogIsSound, EntryIsEarned, Failures
  <2>. QED
    BY <1>1, <2>1, <2>2, <2>3, <2>4, <2>5, <2>6, <2>7 DEF LimiterNext
<1>. QED
  BY <1>1, LimiterInvInit, PTL DEF LimiterSpec

\* Who is blocked, an address or the account, is blocked for as many failures as
\* the limit within one window (sessionAuth and loginLimiter of main.go).
THEOREM BlocksAreAlwaysEarned == LimiterSpec => []BlocksAreEarned
<1>1. LimiterInv => BlocksAreEarned
  <2>. SUFFICES ASSUME LimiterInv PROVE BlocksAreEarned
    OBVIOUS
  <2>1. ASSUME NEW e \in LimiterEntries, NEW log, NEW max, EntryIsEarned(e, log, max)
        PROVE  Earned(e, log, max)
    BY <2>1, EntriesAreEarned DEF EntryIsEarned, Earned, Blocked, Never, LimiterEntries
  <2>. QED
    BY <2>1, EntriesAreEarned DEF BlocksAreEarned
<1>. QED
  BY <1>1, LimiterInvariant, PTL

-----------------------------------------------------------------------------
(***************************************************************************)
(* Tags.  A request that has written the tag and not yet the link relies on *)
(* the row, unless it was overtaken by one that deleted it.                  *)
(***************************************************************************)
Jobs == [next : {"none", "tag", "link", "unlink", "collect"},
         target : Targets \cup {NoTag}, key : TagKeys \cup {NoTag}, overtaken : BOOLEAN]

TagTypeOK ==
  /\ tags \in [TagKeys -> Colors \cup {Plain, NoTag}]
  /\ links \subseteq Targets \X TagKeys
  /\ job \in [TagRequests -> Jobs]

\* Requests under way know a target and a key; what they wrote first is still there.
JobsStand ==
  \A r \in TagRequests : job[r].next # "none" =>
    /\ job[r].target \in Targets /\ job[r].key \in TagKeys
    /\ job[r].next = "link" => job[r].overtaken \/ tags[job[r].key] # NoTag

LinksHaveRows == \A l \in links : tags[l[2]] # NoTag \/ l \in orphans

InUse(k) ==
  \/ \E l \in links : l[2] = k
  \/ k \in left
  \/ \E r \in TagRequests : job[r].key = k /\ job[r].next \in {"link", "collect"}
RowsAreInUse == \A k \in TagKeys : tags[k] # NoTag => InUse(k)

TagInv == TagTypeOK /\ JobsStand /\ LinksHaveRows /\ RowsAreInUse

LEMMA TagInvInit == TagsInit => TagInv
BY TagsAssumption DEF TagsInit, TagInv, TagTypeOK, JobsStand, LinksHaveRows, RowsAreInUse, Done, Jobs

\* What Overtaken does to a request.
LEMMA OvertakenJobs ==
  ASSUME TagTypeOK, NEW k \in TagKeys
  PROVE  /\ Overtaken(k) \in [TagRequests -> Jobs]
         /\ \A r \in TagRequests :
              /\ Overtaken(k)[r].next = job[r].next
              /\ Overtaken(k)[r].target = job[r].target
              /\ Overtaken(k)[r].key = job[r].key
              /\ job[r].overtaken => Overtaken(k)[r].overtaken
              /\ job[r].next = "link" /\ job[r].key = k => Overtaken(k)[r].overtaken
BY DEF TagTypeOK, Overtaken, Jobs

LEMMA AcceptKeeps ==
  ASSUME TagInv, NEW r \in TagRequests, NEW t \in Targets, NEW k \in TagKeys,
         Accept(r, "tag", t, k) \/ Accept(r, "unlink", t, k)
  PROVE  TagInv'
<1>. USE DEF TagInv, Accept
<1>1. TagTypeOK'
  <2>1. \A next \in {"tag", "unlink"} : [next |-> next, target |-> t, key |-> k, overtaken |-> FALSE] \in Jobs
    BY DEF Jobs
  <2>. QED
    BY <2>1 DEF TagTypeOK
<1>2. JobsStand'
  BY DEF TagTypeOK, JobsStand, Jobs
<1>3. LinksHaveRows'
  BY DEF LinksHaveRows
<1>4. RowsAreInUse'
  BY DEF TagTypeOK, RowsAreInUse, InUse, Done, Jobs
<1>. QED
  BY <1>1, <1>2, <1>3, <1>4

LEMMA AddTagKeeps ==
  ASSUME TagInv, NEW r \in TagRequests, NEW color \in Colors \cup {NoTag}, AddTag(r, color)
  PROVE  TagInv'
<1>. DEFINE k == job[r].key
<1>. USE DEF TagInv
<1>1. /\ k \in TagKeys /\ job[r].next = "tag"
      /\ tags' \in [TagKeys -> Colors \cup {Plain, NoTag}] /\ tags'[k] # NoTag
      /\ \A j \in TagKeys \ {k} : tags'[j] = tags[j]
      /\ links' = links /\ orphans' = orphans /\ left' = left
  BY TagsAssumption DEF AddTag, TagTypeOK, JobsStand, Jobs
<1>2. /\ job'[r].next = "link" /\ job'[r].key = k
      /\ \A q \in TagRequests \ {r} : job'[q] = job[q]
      /\ job'[r].target = job[r].target
  BY DEF AddTag, TagTypeOK, Jobs
<1>3. TagTypeOK'
  BY <1>1 DEF TagTypeOK, AddTag, Jobs
<1>4. JobsStand'
  BY <1>1, <1>2 DEF JobsStand, TagTypeOK, Jobs
<1>5. LinksHaveRows'
  BY <1>1 DEF LinksHaveRows, TagTypeOK, Jobs
<1>6. RowsAreInUse'
  BY <1>1, <1>2 DEF RowsAreInUse, InUse
<1>. QED
  BY <1>3, <1>4, <1>5, <1>6

LEMMA LinkKeeps ==
  ASSUME TagInv, NEW r \in TagRequests, AddLink(r) \/ RemoveLink(r)
  PROVE  TagInv'
<1>. DEFINE k == job[r].key
            own == <<job[r].target, k>>
<1>. USE DEF TagInv
<1>1. k \in TagKeys /\ job[r].target \in Targets /\ own \in Targets \X TagKeys /\ own[2] = k
  BY DEF AddLink, RemoveLink, JobsStand
<1>2. TagTypeOK'
  <2>1. Done \in Jobs
    BY DEF Done, Jobs
  <2>2. CASE AddLink(r)
    BY <1>1, <2>1, <2>2 DEF AddLink, TagTypeOK
  <2>3. CASE RemoveLink(r)
    BY <1>1, <2>3 DEF RemoveLink, TagTypeOK, Jobs
  <2>. QED
    BY <2>2, <2>3
<1>3. JobsStand'
  BY <1>1 DEF AddLink, RemoveLink, TagTypeOK, JobsStand, Done, Jobs
<1>4. LinksHaveRows'
  <2>1. CASE AddLink(r)
    BY <1>1, <2>1 DEF AddLink, LinksHaveRows, JobsStand
  <2>2. CASE RemoveLink(r)
    BY <2>2 DEF RemoveLink, LinksHaveRows
  <2>. QED
    BY <2>1, <2>2
<1>5. RowsAreInUse'
  <2>. SUFFICES ASSUME NEW j \in TagKeys, tags[j] # NoTag PROVE InUse(j)'
    BY DEF RowsAreInUse, AddLink, RemoveLink
  <2>1. InUse(j)
    BY DEF RowsAreInUse
  <2>2. CASE AddLink(r)
    <3>1. CASE j = k
      BY <1>1, <2>2, <3>1 DEF AddLink, InUse
    <3>2. CASE j # k
      BY <2>1, <2>2, <3>2 DEF AddLink, InUse, TagTypeOK, Jobs
    <3>. QED
      BY <3>1, <3>2
  <2>3. CASE RemoveLink(r)
    <3>1. CASE j = k
      BY <2>3, <3>1 DEF RemoveLink, InUse, TagTypeOK, Jobs
    <3>2. CASE j # k
      <4>1. \A l \in links : l[2] = j => l \in links'
        BY <1>1, <2>3, <3>2 DEF RemoveLink
      <4>. QED
        BY <2>1, <2>3, <3>2, <4>1 DEF RemoveLink, InUse, TagTypeOK, Jobs
    <3>. QED
      BY <3>1, <3>2
  <2>. QED
    BY <2>2, <2>3
<1>. QED
  BY <1>2, <1>3, <1>4, <1>5

LEMMA EndKeeps ==
  ASSUME TagInv, NEW r \in TagRequests, Collect(r) \/ Abort(r)
  PROVE  TagInv'
<1>. DEFINE k == job[r].key
<1>. USE DEF TagInv
<1>1. links' = links /\ orphans' = orphans
  BY DEF Collect, Abort
<1>2. CASE /\ Collect(r) /\ Linked(k) = {}
           /\ tags' = [tags EXCEPT ![k] = NoTag]
           /\ left' = left \ {k}
           /\ job' = [Overtaken(k) EXCEPT ![r] = Done]
  <2>1. k \in TagKeys
    BY <1>2 DEF Collect, JobsStand
  <2>2. /\ TagTypeOK'
        /\ job'[r] = Done
        /\ \A q \in TagRequests \ {r} :
             /\ job'[q].next = job[q].next /\ job'[q].target = job[q].target /\ job'[q].key = job[q].key
             /\ job[q].overtaken => job'[q].overtaken
             /\ job[q].next = "link" /\ job[q].key = k => job'[q].overtaken
    BY <1>1, <1>2, <2>1, OvertakenJobs, TagsAssumption DEF TagTypeOK, Done, Jobs
  <2>3. JobsStand'
    BY <1>2, <2>1, <2>2 DEF JobsStand, TagTypeOK, Done, Jobs
  <2>4. LinksHaveRows'
    BY <1>1, <1>2, <2>1 DEF LinksHaveRows, Linked, TagTypeOK, Jobs
  <2>5. RowsAreInUse'
    BY <1>1, <1>2, <2>1, <2>2 DEF RowsAreInUse, InUse, TagTypeOK, Collect, Jobs
  <2>. QED
    BY <2>2, <2>3, <2>4, <2>5
<1>3. CASE /\ tags' = tags /\ job' = [job EXCEPT ![r] = Done]
           /\ \/ left' = left /\ Linked(k) # {}
              \/ left' = left \cup IF job[r].next \in {"link", "collect"} THEN {k} ELSE {}
  <2>1. TagTypeOK'
    BY <1>1, <1>3, TagsAssumption DEF TagTypeOK, Done, Jobs
  <2>2. JobsStand'
    BY <1>3 DEF JobsStand, TagTypeOK, Done, Jobs
  <2>3. LinksHaveRows'
    BY <1>1, <1>3 DEF LinksHaveRows
  <2>4. RowsAreInUse'
    BY <1>1, <1>3 DEF RowsAreInUse, InUse, TagTypeOK, Linked, Jobs
  <2>. QED
    BY <2>1, <2>2, <2>3, <2>4
<1>. QED
  BY <1>2, <1>3 DEF Collect, Abort

LEMMA ManageKeeps ==
  ASSUME TagInv, NEW k \in TagKeys,
         \/ DeleteTag(k)
         \/ \E color \in Colors : Recolor(k, color)
         \/ \E to \in TagKeys, color \in Colors \cup {NoTag} : Rename(k, to, color)
  PROVE  TagInv'
<1>. USE DEF TagInv
<1>1. CASE DeleteTag(k)
  <2>1. /\ TagTypeOK'
        /\ tags' = [tags EXCEPT ![k] = NoTag] /\ job' = Overtaken(k)
    BY <1>1, OvertakenJobs DEF DeleteTag, TagTypeOK, Jobs
  <2>2. JobsStand'
    BY <2>1, OvertakenJobs DEF JobsStand, TagTypeOK, Jobs
  <2>3. LinksHaveRows'
    BY <1>1, <2>1 DEF DeleteTag, LinksHaveRows, Linked, TagTypeOK, Jobs
  <2>4. RowsAreInUse'
    BY <1>1, <2>1, OvertakenJobs DEF DeleteTag, RowsAreInUse, InUse, Linked, TagTypeOK, Jobs
  <2>. QED
    BY <2>1, <2>2, <2>3, <2>4
<1>2. ASSUME NEW color \in Colors, Recolor(k, color) PROVE TagInv'
  <2>1. /\ tags' \in [TagKeys -> Colors \cup {Plain, NoTag}]
        /\ tags[k] # NoTag /\ tags'[k] # NoTag
        /\ \A j \in TagKeys : tags'[j] = NoTag <=> tags[j] = NoTag
        /\ UNCHANGED <<links, job, orphans, left>>
    BY <1>2, TagsAssumption DEF Recolor, Rows, TagTypeOK, Jobs
  <2>. QED
    BY <2>1 DEF TagTypeOK, JobsStand, LinksHaveRows, RowsAreInUse, InUse, Jobs
<1>3. ASSUME NEW to \in TagKeys, NEW color \in Colors \cup {NoTag}, Rename(k, to, color) PROVE TagInv'
  <2>. DEFINE moved == {<<l[1], to>> : l \in Linked(k)}
  <2>1. /\ to # k
        /\ tags' \in [TagKeys -> Colors \cup {Plain, NoTag}]
        /\ tags'[k] = NoTag /\ tags'[to] # NoTag
        /\ \A j \in TagKeys \ {k, to} : tags'[j] = tags[j]
    BY <1>3, TagsAssumption DEF Rename, Rows, TagTypeOK, Jobs
  <2>2. /\ links' = (links \ Linked(k)) \cup moved
        /\ orphans' = orphans \ Linked(k)
        /\ left' = (left \ {k}) \cup IF moved = {} /\ Linked(to) = {} THEN {to} ELSE {}
        /\ job' = Overtaken(k)
    BY <1>3, Zenon DEF Rename
  <2>3. \A l \in moved : l \in Targets \X TagKeys /\ l[2] = to
    BY DEF Linked, TagTypeOK, Jobs
  <2>. HIDE DEF moved
  <2>4. TagTypeOK'
    BY <2>1, <2>2, <2>3, OvertakenJobs DEF TagTypeOK, Jobs
  <2>5. JobsStand'
    BY <2>1, <2>2, OvertakenJobs DEF JobsStand, TagTypeOK, Jobs
  <2>6. LinksHaveRows'
    BY <2>1, <2>2, <2>3 DEF LinksHaveRows, Linked, TagTypeOK, Jobs
  <2>7. RowsAreInUse'
    <3>. SUFFICES ASSUME NEW j \in TagKeys \ {k}, j = to \/ tags[j] # NoTag PROVE InUse(j)'
      BY <2>1 DEF RowsAreInUse
    <3>1. \A l \in links : l[2] = j => l \in links'
      BY <2>2 DEF Linked
    <3>2. CASE j = to
      BY <2>2, <2>3, <3>1, <3>2 DEF InUse, Linked
    <3>3. CASE j # to
      BY <2>2, <3>1, <3>3, OvertakenJobs DEF RowsAreInUse, InUse
    <3>. QED
      BY <3>2, <3>3
  <2>. QED
    BY <2>4, <2>5, <2>6, <2>7
<1>. QED
  BY <1>1, <1>2, <1>3

LEMMA TagInvariant == TagsSpec => []TagInv
<1>1. ASSUME TagInv, UNCHANGED tagVars PROVE TagInv'
  BY <1>1 DEF tagVars, TagInv, TagTypeOK, JobsStand, LinksHaveRows, RowsAreInUse, InUse, Jobs
<1>2. TagInv /\ [TagsNext]_tagVars => TagInv'
  BY <1>1, AcceptKeeps, AddTagKeeps, LinkKeeps, EndKeeps, ManageKeeps DEF TagsNext
<1>. QED
  BY <1>2, TagInvInit, PTL DEF TagsSpec

\* Links and rows match, but for adds overtaken by a deletion or failed half-way.
THEOREM TagsMatch == TagsSpec => []TagRowsMatchLinks
<1>1. TagInv => TagRowsMatchLinks
  BY DEF TagInv, TagTypeOK, LinksHaveRows, RowsAreInUse, InUse, TagRowsMatchLinks, Rows, Linked, Jobs
<1>. QED
  BY <1>1, TagInvariant, PTL

-----------------------------------------------------------------------------
(***************************************************************************)
(* Decisions on a pair.  What a request found is what the row says, unless    *)
(* it is stale, and the score does not depend on who is named first.         *)
(***************************************************************************)
Evidence ==
  [left : Works, status : PairStatuses, preference : Preferences \cup {Unsaid},
   score : 0..64, found : Preferences, stale : BOOLEAN]

PairTypeOK ==
  /\ asked \in [Deciders -> Evidence \cup {Unasked}]
  /\ row \in PairRows \cup {Undecided}
  /\ mistaken \in BOOLEAN

EvidenceStands ==
  \A d \in Deciders : asked[d] # Unasked =>
    /\ asked[d].score = Score(First, Second)
    /\ asked[d].stale \/ asked[d].found = Found

\* An undecided pair prefers nobody.
UndecidedPrefersNobody == row = Undecided => chosen = "" /\ ~mistaken

PairInv == PairTypeOK /\ EvidenceStands /\ UndecidedPrefersNobody /\ DecisionStands

LEMMA OtherWork == Other(First) = Second /\ Other(Second) = First
<1>1. \A v \in Works : v # First <=> v = Second
  BY DuplicatePairAssumption DEF Works
<1>2. \A v \in Works : v # Second <=> v = First
  BY DuplicatePairAssumption DEF Works
<1>. QED
  BY <1>1, <1>2 DEF Other, Works

\* The score is that of the pair, whoever is named first.
LEMMA ScoreIsSymmetric ==
  ASSUME NEW l \in Works
  PROVE  Score(l, Other(l)) = Score(First, Second) /\ Score(First, Second) \in 0..64
<1>1. Distance(First, Second) = Distance(Second, First)
  <2>1. {hashes[First], hashes[Second]} = {hashes[Second], hashes[First]}
    OBVIOUS
  <2>2. (hashes[First] \ hashes[Second]) \cup (hashes[Second] \ hashes[First])
          = (hashes[Second] \ hashes[First]) \cup (hashes[First] \ hashes[Second])
    OBVIOUS
  <2>. QED
    BY <2>1, <2>2, Zenon DEF Distance
<1>2. l = First \/ l = Second
  BY DEF Works
<1>3. Score(l, Other(l)) = Score(First, Second)
  BY <1>1, <1>2, OtherWork DEF Score
<1>. QED
  BY <1>3 DEF Score

LEMMA PairInvInit == PairInit => PairInv
<1>. SUFFICES ASSUME PairInit PROVE PairInv
  OBVIOUS
<1>1. mistaken \in BOOLEAN /\ ~mistaken
  BY Zenon DEF PairInit
<1>2. PairTypeOK
  BY <1>1 DEF PairInit, PairTypeOK
<1>. QED
  BY <1>1, <1>2 DEF PairInit, PairInv, EvidenceStands, UndecidedPrefersNobody, DecisionStands

LEMMA CollectKeeps ==
  ASSUME PairInv, NEW d \in Deciders, NEW l \in Works, NEW a \in Decisions,
         CollectEvidence(d, l, a[1], a[2])
  PROVE  PairInv'
<1>. DEFINE new == [left |-> l, status |-> a[1], preference |-> a[2],
                    score |-> Score(l, Other(l)), found |-> Found, stale |-> FALSE]
<1>1. asked' = [asked EXCEPT ![d] = new] /\ UNCHANGED <<hashes, row, chosen, mistaken>>
  BY Zenon DEF CollectEvidence
<1>2. new.score = Score(First, Second) /\ new.found = Found
  BY ScoreIsSymmetric
<1>3. new \in Evidence
  <2>1. a[1] \in PairStatuses /\ a[2] \in Preferences \cup {Unsaid}
    BY DuplicatePairAssumption
  <2>2. Found \in Preferences
    BY DEF PairInv, PairTypeOK, PairRows, Found, Preferences
  <2>. QED
    BY <2>1, <2>2, ScoreIsSymmetric DEF Evidence
<1>. HIDE DEF new
<1>4. PairTypeOK'
  BY <1>1, <1>3 DEF PairInv, PairTypeOK
<1>5. Score(First, Second)' = Score(First, Second) /\ Found' = Found
  BY <1>1 DEF Score, Distance, Found
<1>6. EvidenceStands'
  BY <1>1, <1>2, <1>5 DEF PairInv, PairTypeOK, EvidenceStands
<1>7. UndecidedPrefersNobody' /\ DecisionStands'
  BY <1>1, <1>5 DEF PairInv, UndecidedPrefersNobody, DecisionStands, Named
<1>. QED
  BY <1>4, <1>6, <1>7 DEF PairInv

LEMMA DecideKeeps ==
  ASSUME PairInv, NEW d \in Deciders, Decide(d)
  PROVE  PairInv'
<1>. DEFINE a == asked[d]
            preference == DecidedPreference(a)
            asks == a.preference # Unsaid
            new == [status |-> IF preference # "" THEN "version" ELSE a.status,
                    preference |-> preference, score |-> a.score]
<1>1. /\ a # Unasked
      /\ row' = new
      /\ chosen' = IF asks THEN Named(a.preference, a.left)
                   ELSE IF a.status = "version" THEN chosen ELSE ""
      /\ mistaken' = IF asks THEN a.preference \in {"prefer_left", "prefer_right"} /\ a.left # First
                     ELSE a.status = "version" /\ (mistaken \/ a.stale)
      /\ asked' = [e \in Deciders |-> IF e = d THEN Unasked
                                      ELSE IF asked[e] = Unasked THEN Unasked
                                      ELSE [asked[e] EXCEPT !.stale = TRUE]]
      /\ hashes' = hashes
  BY Zenon DEF Decide
<1>2. /\ a \in Evidence
      /\ a.score = Score(First, Second)
      /\ a.stale \/ a.found = Found
  BY <1>1 DEF PairInv, PairTypeOK, EvidenceStands
<1>3. preference \in Preferences /\ new \in PairRows
  BY <1>2 DEF DecidedPreference, Evidence, Preferences, PairRows, PairStatuses, Unsaid
<1>4. PairTypeOK'
  <2>1. mistaken' \in BOOLEAN
    BY <1>1, <1>2, Zenon DEF PairInv, PairTypeOK, Evidence
  <2>2. asked' \in [Deciders -> Evidence \cup {Unasked}]
    BY <1>1 DEF PairInv, PairTypeOK, Evidence
  <2>. HIDE DEF new
  <2>. QED
    BY <1>1, <1>3, <2>1, <2>2 DEF PairTypeOK
<1>5. Score(First, Second)' = Score(First, Second)
  BY <1>1 DEF Score, Distance
<1>6. EvidenceStands'
  BY <1>1, <1>5 DEF PairInv, PairTypeOK, EvidenceStands, Evidence
<1>7. row' # Undecided
  BY <1>1, <1>3, DuplicatePairAssumption
<1>8. mistaken' \/ Named(preference, First) = chosen'
  <2>1. CASE asks
    <3>1. preference = a.preference
      BY <2>1 DEF DecidedPreference
    <3>. QED
      BY <1>1, <2>1, <3>1 DEF Named
  <2>2. CASE ~asks /\ a.status = "version"
    <3>1. preference = a.found
      BY <2>2 DEF DecidedPreference
    <3>2. CASE a.stale \/ mistaken
      BY <1>1, <2>2, <3>2
    <3>3. CASE ~a.stale /\ ~mistaken
      BY <1>1, <1>2, <2>2, <3>1, <3>3
         DEF Found, Named, PairInv, UndecidedPrefersNobody, DecisionStands
    <3>. QED
      BY <3>2, <3>3
  <2>3. CASE ~asks /\ a.status # "version"
    <3>1. preference = ""
      BY <2>3 DEF DecidedPreference
    <3>. QED
      BY <1>1, <2>3, <3>1 DEF Named
  <2>. QED
    BY <2>1, <2>2, <2>3
<1>9. DecisionStands'
  BY <1>1, <1>2, <1>5, <1>8 DEF DecisionStands, Named
<1>. QED
  BY <1>4, <1>6, <1>7, <1>9 DEF PairInv, UndecidedPrefersNobody

LEMMA GiveUpKeeps ==
  ASSUME PairInv, NEW d \in Deciders, GiveUp(d)
  PROVE  PairInv'
<1>1. asked' = [asked EXCEPT ![d] = Unasked] /\ UNCHANGED <<hashes, row, chosen, mistaken>>
  BY DEF GiveUp
<1>2. Score(First, Second)' = Score(First, Second) /\ Found' = Found
  BY <1>1 DEF Score, Distance, Found
<1>. QED
  BY <1>1, <1>2 DEF PairInv, PairTypeOK, EvidenceStands, UndecidedPrefersNobody, DecisionStands, Named

LEMMA PairInvariant == PairSpec => []PairInv
<1>1. ASSUME PairInv, UNCHANGED pairVars PROVE PairInv'
  BY <1>1 DEF pairVars, PairInv, PairTypeOK, EvidenceStands, UndecidedPrefersNobody, DecisionStands,
              Named, Score, Distance, Found
<1>2. PairInv /\ [PairNext]_pairVars => PairInv'
  BY <1>1, CollectKeeps, DecideKeeps, GiveUpKeeps DEF PairNext
<1>. QED
  BY <1>2, PairInvInit, PTL DEF PairSpec

\* The row prefers whom the last decision preferred, unless that one was made on an
\* old row or on swapped sides.
THEOREM DecisionsStand == PairSpec => []DecisionStands
<1>1. PairInv => DecisionStands
  BY DEF PairInv
<1>. QED
  BY <1>1, PairInvariant, PTL

-----------------------------------------------------------------------------
(***************************************************************************)
(* Cached answers.  What a request has read is what a correction that was    *)
(* stored since has changed only if the request was marked as overlapped, or *)
(* has an older version.  Versions come back, but only with late decisions,  *)
(* which mark whoever has an older one and clear what was cached under it.   *)
(***************************************************************************)
Texts == {"", "open", "ok", "needs_fix", "normal_manga"}
Versions == Nat \X Nat
Older(v, u) == v[1] < u[1] \/ (v[1] = u[1] /\ v[2] < u[2])
Works0 ==
  [step : {"none", "clear_review", "clear_duplicates", "map"}]
    \cup [step : {"commit"}, chosen : Corrections, at : Nat]
    \cup [step : {"rows"}, map : [Slots -> Texts], overlapped : BOOLEAN]
    \cup [step : {"store"}, items : SUBSET (Issues \X Texts), overlapped : BOOLEAN]
    \cup [step : {"look", "query"}, search : Searches, version : Versions, overlapped : BOOLEAN]
    \cup [step : {"keep"}, search : Searches, version : Versions, body : [HashSlots -> Texts],
          overlapped : BOOLEAN]

CacheTypeOK ==
  /\ time \in Nat
  /\ corrections \in [Slots -> [value : Texts, at : Nat] \cup {Nothing}]
  /\ issues \subseteq Issues
  /\ work \in [Handlers -> Works0]
  /\ duplicates = [q \in Searches |-> duplicates[q]]

\* Corrections have the values of their slot.
CorrectionsOK ==
  \A s \in Slots : corrections[s] # Nothing => corrections[s].value \in Values[s]

ReviewStands ==
  /\ \A h \in Handlers :
       /\ work[h].step = "rows" => work[h].overlapped \/ work[h].map = CorrectionMap
       /\ work[h].step = "store" => work[h].overlapped \/ work[h].items = Items(CorrectionMap, issues)
  /\ review # Nothing =>
       review.overlapped \/ Clearing({"clear_review"}) \/ review.items = Items(CorrectionMap, issues)

DuplicatesStand ==
  /\ \A h \in Handlers : work[h].step \in {"look", "query", "keep"} =>
       \/ work[h].overlapped
       \/ Older(work[h].version, Version)
       \/ work[h].version = Version /\ (work[h].step = "keep" => work[h].body = Groups)
  /\ \A q \in Searches : duplicates[q] # Nothing =>
       \/ duplicates[q].overlapped \/ duplicates[q].version # Version
       \/ duplicates[q].body = Groups
       \/ Clearing({"clear_review", "clear_duplicates"})

CacheInv == CacheTypeOK /\ CorrectionsOK /\ ReviewStands /\ DuplicatesStand

LEMMA HashSlotsFinite == IsFiniteSet(HashSlots)
<1>1. IsFiniteSet({"hash2_status"})
  BY FS_Singleton
<1>2. HashSlots = {"hash2_status"} \cup {"hash1_status"}
  BY DEF HashSlots
<1>. QED
  BY <1>1, <1>2, FS_AddElement

\* The version is the number of the decisions, and a bound of their times.
LEMMA VersionIs ==
  CacheTypeOK => /\ Version \in Versions
                 /\ Version[1] = Cardinality(Decided)
                 /\ \A s \in Decided : corrections[s].at <= Version[2]
<1>. SUFFICES ASSUME CacheTypeOK
              PROVE  /\ Version \in Versions
                     /\ Version[1] = Cardinality(Decided)
                     /\ \A s \in Decided : corrections[s].at <= Version[2]
  OBVIOUS
<1>1. IsFiniteSet(Decided)
  BY HashSlotsFinite, FS_Subset DEF Decided
<1>2. Cardinality(Decided) \in Nat
  BY <1>1, FS_CardinalityType
<1>3. DecidedAt \subseteq Nat
  BY DEF DecidedAt, Decided, CacheTypeOK, Slots
<1>4. CASE DecidedAt = {}
  BY <1>2, <1>4 DEF Version, Versions, DecidedAt
<1>5. CASE DecidedAt # {}
  <2>. DEFINE at(s) == corrections[s].at
  <2>1. /\ Decided \subseteq {"hash1_status", "hash2_status"}
        /\ DecidedAt = {at(s) : s \in Decided}
        /\ \A s \in Decided : at(s) \in Nat
    BY DEF Decided, DecidedAt, HashSlots, Slots, CacheTypeOK
  <2>. HIDE DEF at
  <2>2. \E m \in DecidedAt : \A n \in DecidedAt : m >= n
    <3>1. PICK s \in Decided : TRUE
      BY <1>5, <2>1
    <3>2. CASE Decided = {s}
      BY <2>1, <3>1, <3>2
    <3>3. CASE "hash1_status" \in Decided /\ "hash2_status" \in Decided
      <4>1. DecidedAt = {at("hash1_status"), at("hash2_status")}
        BY <2>1, <3>3
      <4>. QED
        BY <2>1, <3>3, <4>1
    <3>. QED
      BY <2>1, <3>1, <3>2, <3>3
  <2>3. /\ Max(DecidedAt) \in DecidedAt
        /\ \A n \in DecidedAt : Max(DecidedAt) >= n
    BY <2>2 DEF Max
  <2>4. \A s \in Decided : at(s) <= Max(DecidedAt)
    BY <1>3, <2>1, <2>3
  <2>. QED
    BY <1>2, <1>3, <1>5, <2>3, <2>4 DEF Version, Versions, at
<1>. QED
  BY <1>4, <1>5

LEMMA CacheInvInit == CachesInit => CacheInv
<1>. SUFFICES ASSUME CachesInit PROVE CacheInv
  OBVIOUS
<1>1. PICK earlier \in SUBSET {"hash1_status"} :
        corrections = [s \in Slots |-> IF s \in earlier THEN [value |-> "ok", at |-> 1] ELSE Nothing]
  BY DEF CachesInit
<1>2. CacheTypeOK
  <2>1. corrections \in [Slots -> [value : Texts, at : Nat] \cup {Nothing}]
    BY <1>1 DEF Texts
  <2>2. Resting \in Works0
    BY DEF Resting, Works0
  <2>. QED
    BY <2>1, <2>2 DEF CachesInit, CacheTypeOK
<1>3. CorrectionsOK
  <2>1. ASSUME NEW s \in Slots, corrections[s] # Nothing
        PROVE  s = "hash1_status" /\ corrections[s].value = "ok"
    BY <1>1, <2>1
  <2>2. "ok" \in Values["hash1_status"]
    BY DEF Values
  <2>. QED
    BY <2>1, <2>2 DEF CorrectionsOK
<1>4. \A h \in Handlers : work[h].step = "none"
  BY DEF CachesInit, Resting
<1>. QED
  BY <1>2, <1>3, <1>4 DEF CachesInit, CacheInv, ReviewStands, DuplicatesStand

\* What follows from the corrections stays while they do.
LEMMA CorrectionsStay ==
  ASSUME corrections' = corrections
  PROVE  /\ CorrectionMap' = CorrectionMap
         /\ Version' = Version
         /\ Groups' = Groups
BY DEF CorrectionMap, Version, Decided, DecidedAt, Value, Groups

\* A correction is taken up or refused: nothing is stored.
LEMMA SaveKeeps ==
  ASSUME CacheInv, NEW h \in Handlers, (\E c \in Corrections : Save(h, c)) \/ Refused(h)
  PROVE  CacheInv'
<1>. USE DEF CacheInv
<1>1. UNCHANGED <<time, corrections, issues, review, duplicates>>
  BY DEF Save, Refused
<1>2. /\ work[h].step \in {"none", "commit"} /\ work'[h].step \in {"none", "commit"}
      /\ work' \in [Handlers -> Works0]
      /\ \A g \in Handlers \ {h} : work'[g] = work[g]
  <2>1. ASSUME NEW c \in Corrections, Save(h, c) PROVE <1>2!:
    BY <2>1 DEF Save, CacheTypeOK, Works0, Resting
  <2>2. CASE Refused(h)
    BY <2>2 DEF Refused, CacheTypeOK, Works0, Resting
  <2>. QED
    BY <2>1, <2>2
<1>3. \A steps \in {{"clear_review"}, {"clear_review", "clear_duplicates"}} :
        Clearing(steps)' <=> Clearing(steps)
  BY <1>2 DEF Clearing
<1>4. ReviewStands' /\ DuplicatesStand'
  BY <1>1, <1>2, <1>3, CorrectionsStay DEF ReviewStands, DuplicatesStand
<1>. QED
  BY <1>1, <1>2, <1>4 DEF CacheTypeOK, CorrectionsOK

\* A correction is stored: who read before it is overlapped, or has an older version.
LEMMA CommitKeeps ==
  ASSUME CacheInv, NEW h \in Handlers, Commit(h)
  PROVE  CacheInv'
<1>. USE DEF CacheInv
<1>. DEFINE c == work[h].chosen
            at == work[h].at
<1>1. /\ work[h].step = "commit" /\ c \in Corrections /\ at \in Nat
      /\ corrections' = [s \in Slots |-> IF s \in DOMAIN c THEN [value |-> c[s], at |-> at]
                                         ELSE corrections[s]]
      /\ work' = Marked(h, "clear_review")
      /\ UNCHANGED <<time, issues, review, duplicates>>
  BY DEF Commit, Stored, CacheTypeOK, Works0
<1>late. Late(work[h]) <=> /\ DOMAIN c \cap HashSlots # {} /\ DOMAIN c \cap HashSlots \subseteq Decided
                          /\ at <= Version[2]
  BY DEF Late
<1>. HIDE DEF c, at
<1>2. \A s \in DOMAIN c : s \in Slots /\ c[s] \in Values[s] /\ c[s] \in Texts
  <2>1. c \in AnyCorrections
    BY <1>1, ResponseCachesAssumption
  <2>2. PICK S \in SUBSET Slots : DOMAIN c = S /\ \A s \in DOMAIN c : c[s] \in Values[s]
    BY <2>1 DEF AnyCorrections
  <2>3. \A s \in Slots : Values[s] \subseteq Texts
    <3>1. /\ Values["hash1_status"] = {"ok", "needs_fix"}
          /\ Values["hash2_status"] = {"ok", "needs_fix"}
          /\ Values["series_status"] = {"open", "ok", "needs_fix"}
          /\ Values["series_kind"] = {"normal_manga"}
      BY DEF Values
    <3>. QED
      BY <3>1 DEF Slots, HashSlots, Texts
  <2>. QED
    BY <2>2, <2>3
<1>3. ASSUME NEW g \in Handlers
      PROVE  /\ work'[g] \in Works0
             /\ g # h => work'[g].step = work[g].step
             /\ work'[g].step \in {"look", "query", "keep"} => work'[g].version = work[g].version
             /\ work'[g].step = "keep" => work'[g].body = work[g].body
             /\ work'[g].step \in {"rows", "store"} => work'[g].overlapped
             /\ work'[g].step \in {"look", "query", "keep"} =>
                  /\ work[g].overlapped => work'[g].overlapped
                  /\ Late(work[h]) => work'[g].overlapped
             /\ g = h => work'[g].step = "clear_review"
  <2>0. g = h => work'[g] = [step |-> "clear_review"]
    BY <1>1 DEF Marked
  <2>1. g # h => \/ /\ work'[g] = work[g]
                    /\ work[g].step \notin {"rows", "store"}
                    /\ work[g].step \in {"look", "query", "keep"} => ~Late(work[h])
                 \/ /\ work'[g] = [work[g] EXCEPT !.overlapped = TRUE]
                    /\ work[g].step \in {"rows", "store", "look", "query", "keep"}
    BY <1>1 DEF Marked
  <2>2. work[g] \in Works0
    BY DEF CacheTypeOK
  <2>3. CASE g = h
    <3>1. work'[g] \in Works0
      BY <2>0, <2>3 DEF Works0
    <3>. QED
      BY <2>0, <2>3, <3>1
  <2>4. CASE /\ g # h /\ work'[g] = work[g]
             /\ work[g].step \notin {"rows", "store"}
             /\ work[g].step \in {"look", "query", "keep"} => ~Late(work[h])
    <3>1. work'[g].overlapped = work[g].overlapped
      BY <2>4
    <3>2. work'[g].step \notin {"rows", "store"} /\ work'[g].step = work[g].step
      BY <2>4
    <3>3. work[g].overlapped => work'[g].overlapped
      BY <3>1, Zenon
    <3>4. work'[g].version = work[g].version /\ work'[g].body = work[g].body
      BY <2>4
    <3>5. work'[g].step \in {"look", "query", "keep"} => ~Late(work[h])
      BY <2>4, <3>2, Zenon
    <3>. QED
      BY <2>2, <2>4, <3>2, <3>3, <3>4, <3>5, Zenon
  <2>5. CASE /\ g # h /\ work'[g] = [work[g] EXCEPT !.overlapped = TRUE]
             /\ work[g].step \in {"rows", "store", "look", "query", "keep"}
    <3>1. CASE work[g] \in [step : {"rows"}, map : [Slots -> Texts], overlapped : BOOLEAN]
      BY <2>5, <3>1 DEF Works0
    <3>2. CASE work[g] \in [step : {"store"}, items : SUBSET (Issues \X Texts), overlapped : BOOLEAN]
      BY <2>5, <3>2 DEF Works0
    <3>3. CASE work[g] \in [step : {"look", "query"}, search : Searches, version : Versions,
                            overlapped : BOOLEAN]
      BY <2>5, <3>3 DEF Works0
    <3>4. CASE work[g] \in [step : {"keep"}, search : Searches, version : Versions,
                            body : [HashSlots -> Texts], overlapped : BOOLEAN]
      BY <2>5, <3>4 DEF Works0
    <3>. QED
      BY <2>2, <2>5, <3>1, <3>2, <3>3, <3>4 DEF Works0
  <2>. QED
    BY <2>1, <2>3, <2>4, <2>5
<1>4. CacheTypeOK'
  <2>1. corrections' \in [Slots -> [value : Texts, at : Nat] \cup {Nothing}]
    BY <1>1, <1>2 DEF CacheTypeOK
  <2>2. work' \in [Handlers -> Works0]
    BY <1>1, <1>3 DEF Marked
  <2>. QED
    BY <1>1, <2>1, <2>2 DEF CacheTypeOK
<1>5. CorrectionsOK'
  BY <1>1, <1>2 DEF CorrectionsOK, CacheTypeOK
<1>6. Clearing({"clear_review"})' /\ Clearing({"clear_review", "clear_duplicates"})'
  BY <1>3 DEF Clearing
<1>7. ReviewStands'
  BY <1>1, <1>3, <1>6 DEF ReviewStands
<1>8. /\ Version \in Versions /\ Version[1] = Cardinality(Decided)
      /\ Version' \in Versions /\ Version'[1] = Cardinality(Decided')
      /\ \A s \in Decided' : corrections'[s].at <= Version'[2]
  <2>1. (CacheTypeOK => /\ Version \in Versions
                        /\ Version[1] = Cardinality(Decided)
                        /\ \A s \in Decided : corrections[s].at <= Version[2])'
    BY VersionIs, PTL
  <2>. QED
    BY <1>4, <2>1, VersionIs
<1>9. \/ Late(work[h])
      \/ Version' = Version /\ Groups' = Groups
      \/ Older(Version, Version')
  <2>. DEFINE again == DOMAIN c \cap HashSlots
  <2>1. Decided' = Decided \cup again /\ HashSlots \subseteq Slots
    <3>1. \A s \in again : [value |-> c[s], at |-> at] # Nothing
      BY <1>1, <1>2, ResponseCachesAssumption DEF Slots
    <3>. QED
      BY <1>1, <3>1 DEF Decided, Slots
  <2>2. CASE again = {}
    <3>1. \A s \in HashSlots : corrections'[s] = corrections[s]
      BY <1>1, <2>1, <2>2
    <3>2. Decided' = Decided /\ DecidedAt' = DecidedAt
      BY <2>1, <2>2, <3>1 DEF DecidedAt, Decided
    <3>3. Groups' = Groups
      BY <3>1 DEF Groups, Value
    <3>. QED
      BY <3>2, <3>3 DEF Version
  <2>3. CASE ~(again \subseteq Decided)
    <3>1. IsFiniteSet(Decided') /\ Decided \subseteq Decided' /\ Decided # Decided'
      <4>1. Decided' \subseteq HashSlots
        BY <2>1 DEF Decided
      <4>. QED
        BY <2>1, <2>3, <4>1, HashSlotsFinite, FS_Subset
    <3>2. Cardinality(Decided) < Cardinality(Decided')
      BY <3>1, FS_Subset, FS_CardinalityType
    <3>. QED
      BY <1>8, <3>2 DEF Older
  <2>4. CASE again # {} /\ again \subseteq Decided /\ ~(at <= Version[2])
    <3>1. PICK s \in again : s \in Decided' /\ corrections'[s].at = at
      BY <1>1, <2>1, <2>4
    <3>2. Decided' = Decided
      BY <2>1, <2>4
    <3>3. at <= Version'[2] /\ Version'[1] = Version[1]
      BY <1>8, <3>1, <3>2
    <3>. QED
      BY <1>1, <1>8, <2>4, <3>3 DEF Older, Versions
  <2>. QED
    BY <1>late, <2>2, <2>3, <2>4
<1>10. DuplicatesStand'
  <2>1. ASSUME NEW g \in Handlers, work'[g].step \in {"look", "query", "keep"}
        PROVE  \/ work'[g].overlapped
               \/ Older(work'[g].version, Version')
               \/ work'[g].version = Version' /\ (work'[g].step = "keep" => work'[g].body = Groups')
    <3>1. /\ work[g].step = work'[g].step /\ work'[g].version = work[g].version
          /\ work[g].version \in Versions
      BY <1>3, <2>1 DEF CacheTypeOK, Works0
    <3>2. \/ work[g].overlapped
          \/ Older(work[g].version, Version)
          \/ work[g].version = Version /\ (work[g].step = "keep" => work[g].body = Groups)
      BY <2>1, <3>1 DEF DuplicatesStand
    <3>3. Older(work[g].version, Version) /\ Older(Version, Version') => Older(work[g].version, Version')
      BY <1>8, <3>1 DEF Older, Versions
    <3>. QED
      BY <1>3, <1>9, <2>1, <3>1, <3>2, <3>3
  <2>. QED
    BY <1>1, <1>6, <2>1 DEF DuplicatesStand
<1>. QED
  BY <1>4, <1>5, <1>7, <1>10

LEMMA ClearKeeps ==
  ASSUME CacheInv, NEW h \in Handlers, ClearReview(h) \/ ClearDuplicates(h)
  PROVE  CacheInv'
<1>. USE DEF CacheInv
<1>1. /\ UNCHANGED <<time, corrections, issues>>
      /\ work[h].step \in {"none", "clear_review", "clear_duplicates"}
      /\ work' = [work EXCEPT ![h] = [step |-> "clear_duplicates"]]
           \/ work' = [work EXCEPT ![h] = [step |-> "none"]]
  BY DEF ClearReview, ClearDuplicates, Resting
<1>2. CacheTypeOK'
  <2>1. duplicates' = [q \in Searches |-> duplicates'[q]]
    BY DEF ClearReview, ClearDuplicates, CacheTypeOK
  <2>2. work' \in [Handlers -> Works0]
    BY <1>1 DEF CacheTypeOK, Works0
  <2>. QED
    BY <1>1, <2>1, <2>2 DEF CacheTypeOK
<1>3. /\ work'[h].step \in {"none", "clear_duplicates"}
      /\ \A g \in Handlers \ {h} : work'[g] = work[g]
  BY <1>1 DEF CacheTypeOK
<1>4. ReviewStands'
  <2>1. CASE ClearReview(h)
    BY <1>1, <1>3, <2>1, CorrectionsStay DEF ClearReview, ReviewStands
  <2>2. CASE ClearDuplicates(h)
    <3>1. Clearing({"clear_review"}) => Clearing({"clear_review"})'
      BY <1>3, <2>2 DEF ClearDuplicates, Clearing
    <3>. QED
      BY <1>1, <1>3, <2>2, <3>1, CorrectionsStay DEF ClearDuplicates, ReviewStands
  <2>. QED
    BY <2>1, <2>2
<1>5. DuplicatesStand'
  <2>1. CASE ClearReview(h)
    <3>1. Clearing({"clear_review", "clear_duplicates"})'
      BY <2>1 DEF ClearReview, Clearing, CacheTypeOK
    <3>. QED
      BY <1>1, <1>3, <2>1, <3>1, CorrectionsStay DEF ClearReview, DuplicatesStand
  <2>2. CASE ClearDuplicates(h)
    BY <1>1, <1>3, <2>2, CorrectionsStay DEF ClearDuplicates, DuplicatesStand
  <2>. QED
    BY <2>1, <2>2
<1>. QED
  BY <1>1, <1>2, <1>4, <1>5 DEF CorrectionsOK

LEMMA ReviewKeeps ==
  ASSUME CacheInv, NEW h \in Handlers,
         ReviewMiss(h) \/ ReviewCorrections(h) \/ ReviewRows(h) \/ ReviewStore(h)
  PROVE  CacheInv'
<1>. USE DEF CacheInv
<1>1. UNCHANGED <<time, corrections, issues, duplicates>>
  BY DEF ReviewMiss, ReviewCorrections, ReviewRows, ReviewStore
<1>2. CorrectionMap \in [Slots -> Texts]
  BY DEF CacheTypeOK, CorrectionMap, Value, Texts
<1>3. /\ work[h].step \in {"none", "map", "rows", "store"}
      /\ work'[h].step \in {"none", "map", "rows", "store"}
      /\ \A g \in Handlers \ {h} : work'[g] = work[g]
  BY DEF ReviewMiss, ReviewCorrections, ReviewRows, ReviewStore, CacheTypeOK, Resting
<1>4. CacheTypeOK'
  <2>0. CASE ReviewMiss(h)
    BY <1>1, <2>0 DEF ReviewMiss, CacheTypeOK, Works0
  <2>1. CASE ReviewCorrections(h)
    <3>. DEFINE new == [step |-> "rows", map |-> CorrectionMap, overlapped |-> FALSE]
    <3>1. new \in Works0
      BY <1>2 DEF Works0
    <3>. QED
      BY <1>1, <2>1, <3>1, Zenon DEF ReviewCorrections, CacheTypeOK
  <2>2. CASE ReviewRows(h)
    <3>. DEFINE new == [step |-> "store", items |-> Items(work[h].map, issues), overlapped |-> work[h].overlapped]
    <3>1. work[h].overlapped \in BOOLEAN /\ work[h].map \in [Slots -> Texts]
      BY <2>2 DEF ReviewRows, CacheTypeOK, Works0
    <3>2. \A i \in Issues : ItemStatus(work[h].map, i) \in Texts
      BY <3>1 DEF ItemStatus, Slots, Texts
    <3>3. Items(work[h].map, issues) \subseteq Issues \X Texts
      BY <3>2 DEF Items, CacheTypeOK
    <3>4. new \in Works0
      BY <3>1, <3>3 DEF Works0
    <3>5. work' = [work EXCEPT ![h] = new]
      BY <2>2 DEF ReviewRows
    <3>. HIDE DEF new
    <3>. QED
      BY <1>1, <3>4, <3>5 DEF CacheTypeOK
  <2>3. CASE ReviewStore(h)
    BY <1>1, <2>3 DEF ReviewStore, CacheTypeOK, Works0, Resting
  <2>. QED
    BY <2>0, <2>1, <2>2, <2>3
<1>5. /\ work'[h].step = "rows" => work'[h].map = CorrectionMap
      /\ work'[h].step = "store" =>
           work'[h].overlapped \/ work'[h].items = Items(CorrectionMap, issues)
  <2>1. CASE ReviewMiss(h) \/ ReviewCorrections(h)
    BY <2>1 DEF ReviewMiss, ReviewCorrections, CacheTypeOK
  <2>2. CASE ReviewRows(h)
    BY <2>2 DEF ReviewRows, CacheTypeOK, ReviewStands
  <2>3. CASE ReviewStore(h)
    BY <2>3 DEF ReviewStore, CacheTypeOK, Resting
  <2>. QED
    BY <2>1, <2>2, <2>3
<1>6. ReviewStands'
  <2>1. Clearing({"clear_review"}) => Clearing({"clear_review"})'
    BY <1>3 DEF Clearing
  <2>2. review' = review \/ review'.overlapped \/ review'.items = Items(CorrectionMap, issues)
    <3>1. CASE ReviewStore(h)
      BY <3>1 DEF ReviewStore, ReviewStands
    <3>. QED
      BY <3>1 DEF ReviewMiss, ReviewCorrections, ReviewRows
  <2>. QED
    BY <1>1, <1>3, <1>5, <2>1, <2>2, CorrectionsStay DEF ReviewStands
<1>7. DuplicatesStand'
  <2>1. Clearing({"clear_review", "clear_duplicates"}) => Clearing({"clear_review", "clear_duplicates"})'
    BY <1>3 DEF Clearing
  <2>. QED
    BY <1>1, <1>3, <2>1, CorrectionsStay DEF DuplicatesStand
<1>. QED
  BY <1>1, <1>4, <1>6, <1>7 DEF CorrectionsOK

LEMMA AskKeeps ==
  ASSUME CacheInv, NEW h \in Handlers,
         (\E q \in Searches : AskDuplicates(h, q)) \/ LookUp(h) \/ Query(h) \/ Keep(h)
  PROVE  CacheInv'
<1>. USE DEF CacheInv
<1>1. UNCHANGED <<time, corrections, issues, review>>
  BY DEF AskDuplicates, LookUp, Query, Keep
<1>2. Version \in Versions /\ Groups \in [HashSlots -> Texts]
  BY VersionIs DEF CacheTypeOK, Groups, Value, Slots, Texts
<1>3. /\ work[h].step \in {"none", "look", "query", "keep"}
      /\ work'[h].step \in {"none", "look", "query", "keep"}
      /\ \A g \in Handlers \ {h} : work'[g] = work[g]
  <2>1. ASSUME NEW q \in Searches, AskDuplicates(h, q) PROVE <1>3!:
    BY <2>1 DEF AskDuplicates, CacheTypeOK, Resting
  <2>2. CASE LookUp(h)
    BY <2>2 DEF LookUp, CacheTypeOK, Resting, Works0
  <2>3. CASE Query(h) \/ Keep(h)
    BY <2>3 DEF Query, Keep, CacheTypeOK, Resting
  <2>. QED
    BY <2>1, <2>2, <2>3
<1>4. /\ work'[h] \in Works0
      /\ work' \in [Handlers -> Works0]
      /\ work'[h].step \in {"look", "query", "keep"} =>
           \/ work'[h].overlapped
           \/ Older(work'[h].version, Version)
           \/ work'[h].version = Version /\ (work'[h].step = "keep" => work'[h].body = Groups)
  <2>1. ASSUME NEW q \in Searches, AskDuplicates(h, q) PROVE <1>4!:
    <3>. DEFINE new == [step |-> "look", search |-> q, version |-> Version, overlapped |-> FALSE]
    <3>1. new \in Works0
      BY <1>2 DEF Works0
    <3>2. work' = [work EXCEPT ![h] = new]
      BY <2>1 DEF AskDuplicates
    <3>3. new.step = "look" /\ new.version = Version
      OBVIOUS
    <3>. HIDE DEF new
    <3>. QED
      BY <3>1, <3>2, <3>3 DEF CacheTypeOK
  <2>2. CASE LookUp(h)
    <3>1. work[h] \in [step : {"look", "query"}, search : Searches, version : Versions, overlapped : BOOLEAN]
      BY <2>2 DEF LookUp, CacheTypeOK, Works0
    <3>2. work[h].overlapped \/ Older(work[h].version, Version) \/ work[h].version = Version
      BY <2>2 DEF LookUp, DuplicatesStand
    <3>3. CASE work' = [work EXCEPT ![h] = Resting]
      BY <3>3 DEF Resting, Works0, CacheTypeOK
    <3>4. CASE work' = [work EXCEPT ![h].step = "query"]
      BY <3>1, <3>2, <3>4 DEF Works0, CacheTypeOK
    <3>. QED
      BY <2>2, <3>3, <3>4 DEF LookUp
  <2>3. CASE Query(h)
    <3>. DEFINE new == [step |-> "keep", search |-> work[h].search, version |-> work[h].version,
                        body |-> Groups, overlapped |-> work[h].overlapped]
    <3>1. work[h] \in [step : {"look", "query"}, search : Searches, version : Versions, overlapped : BOOLEAN]
      BY <2>3 DEF Query, CacheTypeOK, Works0
    <3>2. new \in Works0
      BY <1>2, <3>1 DEF Works0
    <3>3. /\ new.overlapped \/ Older(new.version, Version) \/ new.version = Version
          /\ new.body = Groups /\ new.step = "keep"
      BY <2>3 DEF Query, DuplicatesStand
    <3>4. work' = [work EXCEPT ![h] = new]
      BY <2>3 DEF Query
    <3>. HIDE DEF new
    <3>. QED
      BY <3>2, <3>3, <3>4 DEF CacheTypeOK
  <2>4. CASE Keep(h)
    BY <2>4 DEF Keep, Resting, Works0, CacheTypeOK
  <2>. QED
    BY <2>1, <2>2, <2>3, <2>4
<1>5. CacheTypeOK'
  <2>1. duplicates' = [q \in Searches |-> duplicates'[q]]
    BY DEF AskDuplicates, LookUp, Query, Keep, CacheTypeOK
  <2>. QED
    BY <1>1, <1>4, <2>1 DEF CacheTypeOK
<1>6. ReviewStands'
  <2>1. Clearing({"clear_review"}) => Clearing({"clear_review"})'
    BY <1>3 DEF Clearing
  <2>. QED
    BY <1>1, <1>3, <2>1, CorrectionsStay DEF ReviewStands
<1>7. \A q \in Searches :
        \/ duplicates'[q] = duplicates[q]
        \/ duplicates'[q] = Nothing
        \/ duplicates'[q].overlapped \/ duplicates'[q].version # Version
        \/ duplicates'[q].body = Groups
  <2>1. CASE Keep(h)
    <3>. DEFINE entry == [version |-> work[h].version, body |-> work[h].body, until |-> time + Lifetime,
                          overlapped |-> work[h].overlapped]
    <3>1. entry.overlapped \/ entry.version # Version \/ entry.body = Groups
      <4>1. work[h].version \in Versions
        BY <2>1 DEF Keep, CacheTypeOK, Works0
      <4>2. Older(work[h].version, Version) => work[h].version # Version
        BY <1>2, <4>1 DEF Older, Versions
      <4>. QED
        BY <2>1, <4>2 DEF Keep, DuplicatesStand
    <3>2. \A q \in Searches : duplicates'[q] \in {entry, duplicates[q], Nothing}
      BY <2>1 DEF Keep
    <3>. HIDE DEF entry
    <3>. QED
      BY <3>1, <3>2
  <2>2. CASE LookUp(h)
    BY <2>2 DEF LookUp, CacheTypeOK
  <2>. QED
    BY <2>1, <2>2 DEF AskDuplicates, Query
<1>8. DuplicatesStand'
  <2>1. Clearing({"clear_review", "clear_duplicates"}) => Clearing({"clear_review", "clear_duplicates"})'
    BY <1>3 DEF Clearing
  <2>. QED
    BY <1>1, <1>3, <1>4, <1>7, <2>1, CorrectionsStay DEF DuplicatesStand
<1>. QED
  BY <1>1, <1>5, <1>6, <1>8 DEF CorrectionsOK

LEMMA RescanKeeps ==
  ASSUME CacheInv, Rescan
  PROVE  CacheInv'
<1>. USE DEF CacheInv
<1>1. /\ UNCHANGED <<time, corrections, duplicates>> /\ issues' \subseteq Issues
      /\ review' = IF review = Nothing THEN Nothing ELSE [review EXCEPT !.overlapped = TRUE]
      /\ work' = [h \in Handlers |-> IF work[h].step = "store"
                                     THEN [work[h] EXCEPT !.overlapped = TRUE] ELSE work[h]]
  BY DEF Rescan
<1>2. ASSUME NEW h \in Handlers
      PROVE  /\ work'[h] \in Works0
             /\ work'[h].step = work[h].step
             /\ work[h].step # "store" => work'[h] = work[h]
             /\ work[h].step = "store" => work'[h].overlapped
  BY <1>1 DEF CacheTypeOK, Works0
<1>3. CacheTypeOK'
  BY <1>1, <1>2 DEF CacheTypeOK
<1>4. \A steps : Clearing(steps)' <=> Clearing(steps)
  BY <1>2 DEF Clearing
<1>5. review' # Nothing => review'.overlapped
  BY <1>1 DEF CacheTypeOK
<1>6. ReviewStands'
  BY <1>1, <1>2, <1>5, CorrectionsStay DEF ReviewStands
<1>7. DuplicatesStand'
  BY <1>1, <1>2, <1>4, CorrectionsStay DEF DuplicatesStand
<1>. QED
  BY <1>1, <1>3, <1>6, <1>7 DEF CorrectionsOK

LEMMA NextSecondKeeps ==
  ASSUME CacheInv, NextSecond
  PROVE  CacheInv'
<1>. USE DEF CacheInv
<1>1. UNCHANGED <<corrections, issues, review, duplicates, work>> /\ time' = time + 1
  BY DEF NextSecond
<1>2. CacheTypeOK' /\ CorrectionsOK'
  BY <1>1 DEF CacheTypeOK, CorrectionsOK
<1>3. ReviewStands' /\ DuplicatesStand'
  BY <1>1, CorrectionsStay DEF ReviewStands, DuplicatesStand, Clearing
<1>. QED
  BY <1>2, <1>3

LEMMA CacheInvariant == CachesSpec => []CacheInv
<1>1. ASSUME CacheInv, UNCHANGED cacheVars PROVE CacheInv'
  <2>1. UNCHANGED <<time, corrections, issues, review, duplicates, work>>
    BY <1>1 DEF cacheVars
  <2>. QED
    BY <1>1, <2>1, CorrectionsStay
       DEF CacheInv, CacheTypeOK, CorrectionsOK, ReviewStands, DuplicatesStand, Clearing
<1>2. CacheInv /\ [CachesNext]_cacheVars => CacheInv'
  BY <1>1, SaveKeeps, CommitKeeps, ClearKeeps, ReviewKeeps, AskKeeps, RescanKeeps, NextSecondKeeps DEF CachesNext
<1>. QED
  BY <1>2, CacheInvInit, PTL DEF CachesSpec

\* The list under a filter, and its number in the summary, are those of the bucket.
LEMMA BucketsAreFilters ==
  ASSUME CacheInv, NEW b \in {"open", "needs_fix", "reviewed"}
  PROVE  LET items == Items(CorrectionMap, issues)
             due == {i \in items : Bucket(i[2]) = b}
         IN  Filtered(items, b) = due /\ Counted(items, b) = Cardinality(due)
<1>. DEFINE items == Items(CorrectionMap, issues)
<1>1. \A i \in items : i[2] \in {"open", "ok", "needs_fix"}
  <2>1. CorrectionMap["series_status"] \in {"", "open", "ok", "needs_fix"}
    BY DEF CacheInv, CacheTypeOK, CorrectionsOK, CorrectionMap, Value, Slots, Values
  <2>2. \A issue \in issues : ItemStatus(CorrectionMap, issue) \in {"open", "ok", "needs_fix"}
    BY <2>1 DEF ItemStatus
  <2>. QED
    BY <2>2 DEF Items
<1>. HIDE DEF items
<1>2. Filtered(items, b) = {i \in items : Bucket(i[2]) = b}
  BY <1>1 DEF Filtered, Bucket
<1>3. Counted(items, b) = Cardinality({i \in items : Bucket(i[2]) = b})
  BY DEF Counted, Quantify
<1>. QED
  BY <1>2, <1>3 DEF items

\* The review list follows every correction it was not built during.
THEOREM ReviewsFollowCorrections == CachesSpec => []StaleReviewNeedsOverlap
<1>1. CacheInv => StaleReviewNeedsOverlap
  BY BucketsAreFilters DEF CacheInv, ReviewStands, StaleReviewNeedsOverlap
<1>. QED
  BY <1>1, CacheInvariant, PTL

\* Duplicates that may be answered from the cache follow every decision, but one
\* that was stamped no later than the newest and stored while they were computed.
THEOREM DuplicatesFollowDecisions == CachesSpec => []StaleDuplicatesNeedLateDecision
<1>1. CacheInv => StaleDuplicatesNeedLateDecision
  BY DEF CacheInv, DuplicatesStand, StaleDuplicatesNeedLateDecision, Usable
<1>. QED
  BY <1>1, CacheInvariant, PTL
=============================================================================
