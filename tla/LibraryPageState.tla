-------------------------- MODULE LibraryPageState --------------------------
(***************************************************************************)
(* The place of a reader in the library, shared by all devices             *)
(* (internal/prototype/server_library_page_state.go): one row that holds   *)
(* the sort order and, for each list ("mode"), an offset.  Devices send    *)
(* batches of mutations, late and more than once; there is no transaction: *)
(* a mutation is merged into what was read and written back only where the *)
(* row still holds the text that was read (compare and swap), else it is   *)
(* tried again.                                                            *)
(*                                                                         *)
(* Mutations are ordered by (updated_at, event_id), a total order in which *)
(* no two mutations are equal: a mutation is named by its rank there, its  *)
(* "event".  Choosing another sort order starts all lists at the top.      *)
(* Batches refused before the first write (unreadable or future stamps)    *)
(* change nothing and are left out.                                        *)
(***************************************************************************)
EXTENDS Integers, FiniteSets

CONSTANTS
  Requests,
  Sorts,
  Modes,        \* libraryPageStateModes
  Offsets,      \* page starts, 0 among them
  Starts,       \* those lists can be at before there is a row
  MaxEvent,     \* bound on the mutations devices make
  MaxBatch,     \* libraryPageStateMaxBatch
  Attempts,     \* libraryPageStateCASAttempts
  NoRow, NoMutation

Events == 1..MaxEvent

\* start: initial_offsets, used only when there is no row.
Mutations == [sort : Sorts, mode : Modes, offset : Offsets, start : [Modes -> Starts]]

Positions == [offset : Offsets, event : Events]
Rows == [sort : Sorts, sortEvent : Events, at : [Modes -> Positions]]

ASSUME LibraryPageAssumption ==
  /\ 0 \in Offsets
  /\ Starts \subseteq Offsets
  /\ MaxEvent \in Nat
  /\ MaxBatch \in Nat \ {0}
  /\ Attempts \in Nat \ {0}
  /\ NoRow \notin Rows
  /\ NoMutation \notin Mutations

VARIABLES
  row,     \* the browse_states row, or NoRow
  made,    \* what an event is, NoMutation before a device made it
  pc,      \* where a request is
  batch,   \* the events a request brought
  todo,    \* those it has not stored yet
  seen,    \* the row it read last
  tries,   \* failed swaps for its current mutation
  acked    \* events some device was told are stored

vars == <<row, made, pc, batch, todo, seen, tries, acked>>

-----------------------------------------------------------------------------
\* libraryPageEventAfter against libraryPageStateLatestEvent.
NewerThanAll(e, state) ==
  e > state.sortEvent /\ \A m \in Modes : e > state.at[m].event

Started(e, m) ==
  [sort |-> m.sort, sortEvent |-> e,
   at |-> [n \in Modes |->
             [offset |-> IF n = m.mode THEN m.offset ELSE m.start[n], event |-> e]]]

\* (Mutant: the list that is in sight starts at the top as well.)
ResortedToTop(e, m) ==
  [sort |-> m.sort, sortEvent |-> e,
   at |-> [n \in Modes |-> [offset |-> 0, event |-> e]]]
Resorted(e, m) ==
  [sort |-> m.sort, sortEvent |-> e,
   at |-> [n \in Modes |-> [offset |-> IF n = m.mode THEN m.offset ELSE 0, event |-> e]]]

Moved(state, e, m) ==
  [state EXCEPT !.at[m.mode] = [offset |-> m.offset, event |-> e]]

Accepts(state, e, m) ==
  state # NoRow =>
    IF m.sort # state.sort THEN NewerThanAll(e, state) ELSE e > state.at[m.mode].event

Merged(state, e, m) ==
  IF state = NoRow THEN Started(e, m)
  ELSE IF m.sort # state.sort THEN Resorted(e, m)
  ELSE Moved(state, e, m)

-----------------------------------------------------------------------------
\* A device sends a batch: new mutations, and ones it was given no answer for.
Send(r) ==
  /\ pc[r] = "idle"
  /\ \E new \in SUBSET {e \in Events : made[e] = NoMutation}, old \in SUBSET Events :
       /\ \A e \in old : made[e] # NoMutation
       /\ new \cup old # {}
       /\ Cardinality(new \cup old) <= MaxBatch
       /\ \E what \in [new -> Mutations] :
            made' = [e \in Events |-> IF e \in new THEN what[e] ELSE made[e]]
       /\ batch' = [batch EXCEPT ![r] = new \cup old]
       /\ todo' = [todo EXCEPT ![r] = new \cup old]
  /\ tries' = [tries EXCEPT ![r] = 0]
  /\ pc' = [pc EXCEPT ![r] = "load"]
  /\ UNCHANGED <<row, seen, acked>>

\* The handler sorts the batch: the oldest event is stored first.
Current(r, e) == e \in todo[r] /\ \A f \in todo[r] : e <= f

\* The mutation is dealt with: on to the next one, or to the answer.
Finish(r, e) ==
  /\ seen' = [seen EXCEPT ![r] = NoRow]
  /\ todo' = [todo EXCEPT ![r] = @ \ {e}]
  /\ tries' = [tries EXCEPT ![r] = 0]
  /\ pc' = [pc EXCEPT ![r] = IF todo[r] = {e} THEN "answer" ELSE "load"]

\* loadLibraryPageState and the merge: a mutation that changes nothing is done.
Load(r) ==
  /\ pc[r] = "load"
  /\ \E e \in todo[r] :
       /\ Current(r, e)
       /\ \/ /\ Accepts(row, e, made[e])
             /\ seen' = [seen EXCEPT ![r] = row]
             /\ pc' = [pc EXCEPT ![r] = "swap"]
             /\ UNCHANGED <<todo, tries>>
          \/ /\ ~Accepts(row, e, made[e])
             /\ Finish(r, e)
  /\ UNCHANGED <<row, made, batch, acked>>

\* The INSERT or UPDATE touches the row only if it is the one that was read.
\* (Mutant: the UPDATE does not compare.)
Overwrite(r) ==
  /\ pc[r] = "swap"
  /\ \E e \in todo[r] :
       /\ Current(r, e)
       /\ row' = Merged(seen[r], e, made[e])
       /\ Finish(r, e)
  /\ UNCHANGED <<made, batch, acked>>
Swap(r) ==
  /\ pc[r] = "swap"
  /\ row = seen[r]
  /\ \E e \in todo[r] :
       /\ Current(r, e)
       /\ row' = Merged(seen[r], e, made[e])
       /\ Finish(r, e)
  /\ UNCHANGED <<made, batch, acked>>

Retry(r) ==
  /\ pc[r] = "swap"
  /\ row # seen[r]
  /\ seen' = [seen EXCEPT ![r] = NoRow]
  /\ tries' = [tries EXCEPT ![r] = @ + 1]
  /\ pc' = [pc EXCEPT ![r] = IF tries'[r] < Attempts THEN "load" ELSE "failed"]
  /\ UNCHANGED <<row, made, batch, todo, acked>>

\* The request is over: answered or not, and the answer may be lost.  Mutations
\* of a failed batch that were stored stay stored.
Leave(r) ==
  /\ batch' = [batch EXCEPT ![r] = {}]
  /\ todo' = [todo EXCEPT ![r] = {}]
  /\ seen' = [seen EXCEPT ![r] = NoRow]
  /\ tries' = [tries EXCEPT ![r] = 0]
  /\ pc' = [pc EXCEPT ![r] = "idle"]
  /\ UNCHANGED <<row, made>>

\* (Mutant: what was taken in is acknowledged before it is stored.)
ReplyEarly(r) ==
  /\ pc[r] \in {"load", "answer"}
  /\ acked' = acked \cup batch[r]
  /\ Leave(r)
Reply(r) ==
  /\ pc[r] = "answer"
  /\ acked' = acked \cup batch[r]
  /\ Leave(r)

Break(r) == pc[r] # "idle" /\ UNCHANGED acked /\ Leave(r)

Next ==
  \E r \in Requests : Send(r) \/ Load(r) \/ Swap(r) \/ Retry(r) \/ Reply(r) \/ Break(r)

Init ==
  /\ row = NoRow
  /\ made = [e \in Events |-> NoMutation]
  /\ pc = [r \in Requests |-> "idle"]
  /\ batch = [r \in Requests |-> {}]
  /\ todo = [r \in Requests |-> {}]
  /\ seen = [r \in Requests |-> NoRow]
  /\ tries = [r \in Requests |-> 0]
  /\ acked = {}

Spec == Init /\ [][Next]_vars

-----------------------------------------------------------------------------
LibraryTypeOK ==
  /\ row \in Rows \cup {NoRow}
  /\ made \in [Events -> Mutations \cup {NoMutation}]
  /\ pc \in [Requests -> {"idle", "load", "swap", "answer", "failed"}]
  /\ batch \in [Requests -> SUBSET Events]
  /\ todo \in [Requests -> SUBSET Events]
  /\ seen \in [Requests -> Rows \cup {NoRow}]
  /\ tries \in [Requests -> Nat]
  /\ acked \subseteq Events

\* The newest event decides the sort order and the offset of its list, whatever
\* older events came in after it.
NewestDecides ==
  row # NoRow =>
    \A m \in Modes :
      LET e == row.at[m].event
      IN  (\A n \in Modes : row.at[n].event <= e)
            => made[e].sort = row.sort /\ row.at[made[e].mode].offset = made[e].offset

\* A list keeps the newest acknowledged move since the sort order was chosen,
\* and an acknowledged choice of sort order gives way to newer events only.
AckedIsKept ==
  \A e \in acked :
    /\ row # NoRow
    /\ IF made[e].sort = row.sort
       THEN row.at[made[e].mode].event >= e
       ELSE ~NewerThanAll(e, row)

\* A device never sees a list jump back to an older event.
ClocksOnlyGrow ==
  [][row # NoRow =>
       /\ row' # NoRow
       /\ row'.sortEvent >= row.sortEvent
       /\ \A m \in Modes : row'.at[m].event >= row.at[m].event]_vars
=============================================================================
