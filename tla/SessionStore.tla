---------------------------- MODULE SessionStore ----------------------------
(***************************************************************************)
(* The sessions of logged-in browsers (cmd/bmanga-go/session_store.go): a   *)
(* map in memory, written to a file with every change.  One mutex is held   *)
(* from the first look at the map to the end of the write, so an operation  *)
(* is one step, unless the process dies in it.                              *)
(*                                                                         *)
(* The file is replaced by renaming a synced temporary file onto it.  Where *)
(* that fails, the file is first moved to a second name (".previous") that  *)
(* nothing reads, so between two renames there is no file.                  *)
(*                                                                         *)
(* A key stands for a nonce and its hash.  The order of hashes decides      *)
(* between sessions that expire together, so any of them may be the first.  *)
(* The wall clock is not set back.                                          *)
(***************************************************************************)
EXTENDS Integers, FiniteSets

CONSTANTS
  Keys,      \* nonces
  Limits,    \* values BMANGA_SESSION_MAX_ENTRIES may have at a start
  Life,      \* how long a session is valid
  MaxTime,   \* bound on the clock
  NoFile

NoSession == 0
Expiries == Nat
Stores == [Keys -> Expiries]
Empty == [k \in Keys |-> NoSession]

ASSUME SessionStoreAssumption ==
  /\ IsFiniteSet(Keys)
  /\ Limits \subseteq Nat \ {0}
  /\ Life \in Nat \ {0}
  /\ MaxTime \in Nat \ {0}
  /\ NoFile \notin Stores

VARIABLES
  now,
  up,        \* the process runs
  limit,     \* maxEntries
  live,      \* sessionStore.expires, NoSession for a key that is not there
  file,      \* what is under the name of the store
  stranded,  \* it is only under the other name
  held,      \* the cookies handed out, by the time they expire
  out,       \* sessions whose logout was answered
  ended      \* sessions evicted, or given up without an answer

sessionVars == <<now, up, limit, live, file, stranded, held, out, ended>>

SessionInit ==
  /\ now = 1
  /\ up = FALSE
  /\ limit \in Limits
  /\ live = Empty
  /\ file = NoFile
  /\ stranded = FALSE
  /\ held = Empty
  /\ out = {}
  /\ ended = {}

Sessions(m) == {k \in Keys : m[k] # NoSession}

\* pruneExpiredLocked.
Pruned(m) == [k \in Keys |-> IF m[k] <= now THEN NoSession ELSE m[k]]

\* evictEarliestLocked: of more than n sessions those go that expire first.
Evicted(m, n) ==
  IF Cardinality(Sessions(m)) <= n THEN {m}
  ELSE {[k \in Keys |-> IF k \in kept THEN m[k] ELSE NoSession] :
          kept \in {S \in SUBSET Sessions(m) :
                      /\ Cardinality(S) = n
                      /\ \A k \in S, j \in Sessions(m) \ S : m[k] >= m[j]}}

-----------------------------------------------------------------------------
\* persistLocked and writeSessionStoreAtomically with the store m.
Written(m) == file' = m /\ stranded' = FALSE

\* Everything is as before, or the renames failed after the first of them.
Unwritten ==
  \/ UNCHANGED <<file, stranded>>
  \/ file # NoFile /\ file' = NoFile /\ stranded' = TRUE

\* The process dies while it writes.
Dies(m) ==
  /\ up' = FALSE
  /\ live' = Empty
  /\ Written(m) \/ Unwritten

\* What the sessions that m no longer has are taken for.
Dropped(m) == {k \in Sessions(live) : live[k] > now /\ m[k] = NoSession}

-----------------------------------------------------------------------------
\* newPersistentSessionStore: a store that cannot be pruned is not started with.
Start ==
  /\ ~up
  /\ limit' \in Limits
  /\ \E m \in Evicted(Pruned(IF file = NoFile THEN Empty ELSE file), limit') :
       /\ ended' = ended \cup IF file = NoFile
                              THEN IF stranded THEN Sessions(held) ELSE {}
                              ELSE {k \in Sessions(file) : file[k] > now /\ m[k] = NoSession}
       /\ \/ /\ IF file \in {NoFile, m} THEN UNCHANGED <<file, stranded>> ELSE Written(m)
             /\ up' = TRUE
             /\ live' = m
          \/ /\ file \notin {NoFile, m}
             /\ Unwritten
             /\ UNCHANGED <<up, live>>
  /\ UNCHANGED <<now, held, out>>

\* sessionStore.add for a nonce that is new, and the cookie for it: a session
\* that is not stored is not handed out, and the map is as it was.
\* (Mutant: a session is handed out although it is not stored.)
AddAnyway(k) ==
  /\ up /\ held[k] = NoSession /\ k \notin out \cup ended
  /\ \E m0 \in Evicted(Pruned(live), limit - 1) :
       LET m == [m0 EXCEPT ![k] = now + Life]
       IN  /\ live' = m
           /\ held' = [held EXCEPT ![k] = now + Life]
           /\ ended' = ended \cup Dropped(m)
           /\ Written(m) \/ Unwritten
  /\ UNCHANGED <<now, up, limit, out>>
Add(k) ==
  /\ up /\ held[k] = NoSession /\ k \notin out \cup ended
  /\ \E m0 \in Evicted(Pruned(live), limit - 1) :
       LET m == [m0 EXCEPT ![k] = now + Life]
       IN  \/ /\ Written(m)
              /\ live' = m
              /\ held' = [held EXCEPT ![k] = now + Life]
              /\ ended' = ended \cup Dropped(m)
              /\ UNCHANGED up
           \/ /\ Unwritten
              /\ UNCHANGED <<up, live, held, ended>>
           \/ /\ Dies(m)
              /\ ended' = ended \cup Dropped(m) \cup {k}
              /\ UNCHANGED held
  /\ UNCHANGED <<now, limit, out>>

\* sessionStore.valid for a request with a cookie that has not expired: expired
\* sessions and those over the limit go; that this cannot be written is ignored.
Valid(k) ==
  /\ up /\ held[k] # NoSession /\ now <= held[k]
  /\ \E m \in Evicted(Pruned(live), limit) :
       \/ m = live /\ UNCHANGED <<up, live, file, stranded, ended>>
       \/ /\ m # live
          /\ ended' = ended \cup Dropped(m)
          /\ \/ live' = m /\ (Written(m) \/ Unwritten) /\ UNCHANGED up
             \/ Dies(m)
  /\ UNCHANGED <<now, limit, held, out>>

\* revokeRequest: the logout is answered when the file no longer has the session.
\* (Mutant: also when writing it failed.)
RevokeUnwritten(k) ==
  /\ up /\ held[k] # NoSession
  /\ LET m == Pruned([live EXCEPT ![k] = NoSession])
     IN  /\ Written(m) \/ Unwritten
         /\ live' = m
         /\ out' = out \cup {k}
  /\ UNCHANGED <<now, up, limit, held, ended>>
Revoke(k) ==
  /\ up /\ held[k] # NoSession
  /\ LET m == Pruned([live EXCEPT ![k] = NoSession])
     IN  \/ /\ live[k] = NoSession
            /\ out' = out \cup {k}
            /\ UNCHANGED <<up, live, file, stranded, ended>>
         \/ /\ live[k] # NoSession
            /\ Written(m)
            /\ live' = m
            /\ out' = out \cup {k}
            /\ UNCHANGED <<up, ended>>
         \/ /\ live[k] # NoSession
            /\ Unwritten
            /\ live' = [m EXCEPT ![k] = live[k]]
            /\ UNCHANGED <<up, out, ended>>
         \/ /\ live[k] # NoSession
            /\ Dies(m)
            /\ ended' = ended \cup {k}
            /\ UNCHANGED out
  /\ UNCHANGED <<now, limit, held>>

\* The server is stopped, or dies with nothing to write.
Stop ==
  /\ up
  /\ up' = FALSE
  /\ live' = Empty
  /\ UNCHANGED <<now, limit, file, stranded, held, out, ended>>

Elapse ==
  /\ now < MaxTime
  /\ now' = now + 1
  /\ UNCHANGED <<up, limit, live, file, stranded, held, out, ended>>

SessionNext ==
  \/ Start \/ Stop \/ Elapse
  \/ \E k \in Keys : Add(k) \/ Valid(k) \/ Revoke(k)

SessionSpec == SessionInit /\ [][SessionNext]_sessionVars

-----------------------------------------------------------------------------
SessionTypeOK ==
  /\ now \in 1..MaxTime
  /\ up \in BOOLEAN
  /\ limit \in Limits
  /\ live \in Stores
  /\ file \in Stores \cup {NoFile}
  /\ stranded \in BOOLEAN
  /\ held \in Stores
  /\ out \subseteq Keys
  /\ ended \subseteq Keys

\* A session whose logout was answered is never valid again, whatever was
\* pruned, evicted, written or not written before the next starts.
LoggedOutStaysOut == \A k \in out : live[k] = NoSession

\* A session that was handed out is there until it expires, logs out or gives way
\* to later ones at the limit, also after a crash at any point of a write and a
\* restart.  Only a crash that leaves the store under its other name loses it.
SessionsSurvive ==
  \A k \in Sessions(held) \ (out \cup ended) :
    held[k] > now =>
      IF up THEN live[k] = held[k]
      ELSE stranded \/ (file # NoFile /\ file[k] = held[k])
=============================================================================
