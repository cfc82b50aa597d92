----------------------------- MODULE BrowseState -----------------------------
(***************************************************************************)
(* The filters and the position of the library view, kept for the next     *)
(* device (internal/prototype/server_browse_state.go): one row, of which   *)
(* only the clock decides anything.  A save reads the row, refuses a state *)
(* that is older, and writes: two statements and no transaction.           *)
(* The clock is the device's stamp whatever it says, or the server's time  *)
(* when there is no readable stamp; equal stamps count as newer.           *)
(***************************************************************************)
EXTENDS Integers

CONSTANTS
  Devices,    \* that may save at the same time
  MaxTime     \* bound on time, and on stamps

Times == 1..MaxTime
NoStamp == 0   \* no stamp, or no row

VARIABLES
  browseRow,    \* client_updated_at of the row, NoStamp without one
  serverTime,   \* the server's clock
  browsePc,     \* where a request is
  stamp,        \* the clock of the state it wants stored
  browseSeen    \* the clock of the row it read

browseVars == <<browseRow, serverTime, browsePc, stamp, browseSeen>>

\* normalizeBrowseStatePayload.
SaveState(r) ==
  /\ browsePc[r] = "idle"
  /\ \E sent \in Times \cup {NoStamp} :
       stamp' = [stamp EXCEPT ![r] = IF sent = NoStamp THEN serverTime ELSE sent]
  /\ browsePc' = [browsePc EXCEPT ![r] = "read"]
  /\ UNCHANGED <<browseRow, serverTime, browseSeen>>

\* (Mutant: the comparison is the wrong way round.)
KeepsOlder(clock, current) == current = NoStamp \/ clock <= current
Keeps(clock, current) == current = NoStamp \/ current <= clock

\* The row is read; an older state is answered with the one in the row.
ReadRow(r) ==
  /\ browsePc[r] = "read"
  /\ \/ /\ Keeps(stamp[r], browseRow)
        /\ browseSeen' = [browseSeen EXCEPT ![r] = browseRow]
        /\ browsePc' = [browsePc EXCEPT ![r] = "write"]
        /\ UNCHANGED stamp
     \/ /\ ~Keeps(stamp[r], browseRow)
        /\ stamp' = [stamp EXCEPT ![r] = NoStamp]
        /\ browsePc' = [browsePc EXCEPT ![r] = "idle"]
        /\ UNCHANGED browseSeen
  /\ UNCHANGED <<browseRow, serverTime>>

\* The upsert does not look at the row again.
WriteRow(r) ==
  /\ browsePc[r] = "write"
  /\ browseRow' = stamp[r]
  /\ browseSeen' = [browseSeen EXCEPT ![r] = NoStamp]
  /\ stamp' = [stamp EXCEPT ![r] = NoStamp]
  /\ browsePc' = [browsePc EXCEPT ![r] = "idle"]
  /\ UNCHANGED serverTime

\* A statement fails, or the device is gone before it.
BreakSave(r) ==
  /\ browsePc[r] # "idle"
  /\ browseSeen' = [browseSeen EXCEPT ![r] = NoStamp]
  /\ stamp' = [stamp EXCEPT ![r] = NoStamp]
  /\ browsePc' = [browsePc EXCEPT ![r] = "idle"]
  /\ UNCHANGED <<browseRow, serverTime>>

Tick ==
  /\ serverTime < MaxTime
  /\ serverTime' = serverTime + 1
  /\ UNCHANGED <<browseRow, browsePc, stamp, browseSeen>>

BrowseNext ==
  Tick \/ \E r \in Devices : SaveState(r) \/ ReadRow(r) \/ WriteRow(r) \/ BreakSave(r)

BrowseInit ==
  /\ browseRow = NoStamp
  /\ serverTime = 1
  /\ browsePc = [r \in Devices |-> "idle"]
  /\ stamp = [r \in Devices |-> NoStamp]
  /\ browseSeen = [r \in Devices |-> NoStamp]

BrowseSpec == BrowseInit /\ [][BrowseNext]_browseVars

-----------------------------------------------------------------------------
\* What a save stored is replaced by a state that is at least as new.  Holds
\* while saves do not overlap.
KeepsNewest == [][browseRow' >= browseRow]_browseVars

\* Only a save that decided by a row since replaced puts an older state back.
LossNeedsOverlap ==
  [][browseRow' < browseRow =>
       \E r \in Devices :
         browsePc[r] = "write" /\ browsePc'[r] = "idle" /\ browseSeen[r] # browseRow]_browseVars
=============================================================================
