-------------------------- MODULE SavedViews_proofs --------------------------
(***************************************************************************)
(* The library row, the browse row and the pending marks, for any number of *)
(* requests, devices and tabs.                                             *)
(***************************************************************************)
EXTENDS LibraryPageState, BrowseState, MarkQueue, FiniteSetTheorems, NaturalsInduction,
        SequenceTheorems, WellFoundedInduction, TLAPS

(***************************************************************************)
(* The library row keeps the newest events, for any number of requests,    *)
(* devices, lists and sort orders.  The argument: what the row holds comes *)
(* from events that were made (RowOK), a request swaps only what its       *)
(* mutation is newer than (SwapsOK), so clocks only grow, and an event     *)
(* that a request is done with is covered by the row (Covered) from then   *)
(* on.                                                                     *)
(***************************************************************************)

Made(e) == e \in Events /\ made[e] \in Mutations

\* Lists are never older than the sort order; a list with the clock of the sort
\* order may have been reset by it, any other holds what its event says.
RowOK(state) ==
  /\ Made(state.sortEvent)
  /\ made[state.sortEvent].sort = state.sort
  /\ \A m \in Modes :
       LET p == state.at[m]
       IN  /\ Made(p.event) /\ made[p.event].sort = state.sort
           /\ p.event >= state.sortEvent
           /\ p.event > state.sortEvent => made[p.event].mode = m
           /\ made[p.event].mode = m => p.offset = made[p.event].offset

BatchesOK ==
  \A r \in Requests :
    /\ todo[r] \subseteq batch[r]
    /\ \A e \in batch[r] : Made(e)
    /\ pc[r] = "answer" => todo[r] = {}

SwapsOK ==
  \A r \in Requests :
    pc[r] = "swap" => \A e \in todo[r] : Current(r, e) => Accepts(seen[r], e, made[e])

Covered(e) ==
  /\ Made(e)
  /\ row # NoRow
  /\ IF made[e].sort = row.sort THEN row.at[made[e].mode].event >= e ELSE ~NewerThanAll(e, row)

AllCovered ==
  /\ \A e \in acked : Covered(e)
  /\ \A r \in Requests : \A e \in batch[r] \ todo[r] : Covered(e)

LibraryInv ==
  /\ LibraryTypeOK
  /\ row # NoRow => RowOK(row)
  /\ BatchesOK
  /\ SwapsOK
  /\ AllCovered

-----------------------------------------------------------------------------
LEMMA LibraryInit == Init => LibraryInv
BY LibraryPageAssumption
   DEF Init, LibraryInv, LibraryTypeOK, BatchesOK, SwapsOK, AllCovered

\* What an accepted mutation makes of the row.
LEMMA MergeOK ==
  ASSUME LibraryTypeOK, NEW e, Made(e), row # NoRow => RowOK(row),
         Accepts(row, e, made[e])
  PROVE  /\ Merged(row, e, made[e]) \in Rows
         /\ RowOK(Merged(row, e, made[e]))
<1>. DEFINE m == made[e]
<1>. DEFINE next == Merged(row, e, m)
<1>. USE LibraryPageAssumption
<1>0. e \in Events /\ m \in Mutations /\ e \in Int
  BY DEF Made, Events
<1>1. CASE row = NoRow
  <2>1. next = Started(e, m)
    BY <1>1 DEF Merged
  <2>. QED
    BY <1>0, <2>1 DEF Started, Rows, Positions, Mutations, RowOK, Made
<1>2. CASE row # NoRow /\ m.sort # row.sort
  <2>1. next = Resorted(e, m)
    BY <1>2 DEF Merged
  <2>. QED
    BY <1>0, <2>1 DEF Resorted, Rows, Positions, Mutations, RowOK, Made
<1>3. CASE row # NoRow /\ m.sort = row.sort
  <2>0. row \in Rows /\ m.mode \in Modes /\ e > row.at[m.mode].event
    BY <1>0, <1>3 DEF LibraryTypeOK, Accepts, Mutations
  <2>1. next = Moved(row, e, m)
    BY <1>3 DEF Merged
  <2>2. /\ next \in Rows /\ next.sort = row.sort /\ next.sortEvent = row.sortEvent
        /\ next.at[m.mode] = [offset |-> m.offset, event |-> e]
        /\ \A n \in Modes : n # m.mode => next.at[n] = row.at[n]
    BY <1>0, <2>0, <2>1 DEF Moved, Rows, Positions, Mutations
  <2>3. row.at[m.mode].event \in Int /\ row.sortEvent \in Int
        /\ row.at[m.mode].event >= row.sortEvent
    BY <1>3, <2>0 DEF RowOK, Made, Rows, Positions, Events
  <2>4. e > row.sortEvent
    BY <1>0, <2>0, <2>3
  <2>5. ASSUME NEW n \in Modes
        PROVE  LET p == next.at[n]
               IN  /\ Made(p.event) /\ made[p.event].sort = next.sort
                   /\ p.event >= next.sortEvent
                   /\ p.event > next.sortEvent => made[p.event].mode = n
                   /\ made[p.event].mode = n => p.offset = made[p.event].offset
    <3>1. CASE n = m.mode
      <4>1. next.at[n].event = e /\ next.at[n].offset = m.offset
        BY <2>2, <3>1
      <4>. QED
        BY <1>0, <1>3, <2>2, <2>3, <2>4, <3>1, <4>1
    <3>2. CASE n # m.mode
      BY <1>3, <2>2, <3>2 DEF RowOK
    <3>. QED
      BY <3>1, <3>2
  <2>6. Made(next.sortEvent) /\ made[next.sortEvent].sort = next.sort
    BY <1>3, <2>2 DEF RowOK
  <2>. QED
    BY <2>2, <2>5, <2>6 DEF RowOK
<1>. QED
  BY <1>1, <1>2, <1>3

\* No clock of the row goes back.
LEMMA MergeGrows ==
  ASSUME LibraryTypeOK, NEW e, Made(e), row # NoRow, RowOK(row),
         Accepts(row, e, made[e])
  PROVE  LET next == Merged(row, e, made[e])
         IN  /\ next.sortEvent >= row.sortEvent
             /\ \A n \in Modes : next.at[n].event >= row.at[n].event
<1>. DEFINE m == made[e]
<1>. DEFINE next == Merged(row, e, m)
<1>0. e \in Int /\ m \in Mutations /\ row \in Rows /\ m.mode \in Modes
      /\ row.sortEvent \in Int /\ \A n \in Modes : row.at[n].event \in Int
  BY DEF Made, Events, LibraryTypeOK, Rows, Positions, Mutations
<1>1. CASE m.sort # row.sort
  <2>1. next.sortEvent = e /\ (\A n \in Modes : next.at[n].event = e) /\ NewerThanAll(e, row)
    BY <1>0, <1>1 DEF Merged, Resorted, Accepts
  <2>. QED
    BY <1>0, <2>1 DEF NewerThanAll
<1>2. CASE m.sort = row.sort
  <2>1. e > row.at[m.mode].event /\ next = Moved(row, e, m)
    BY <1>2 DEF Merged, Accepts
  <2>2. /\ next.sortEvent = row.sortEvent /\ next.at[m.mode].event = e
        /\ \A n \in Modes : n # m.mode => next.at[n] = row.at[n]
    BY <1>0, <2>1 DEF Moved, Rows, Positions
  <2>3. \A n \in Modes : next.at[n].event >= row.at[n].event
    BY <1>0, <2>1, <2>2
  <2>. QED
    BY <1>0, <2>2, <2>3
<1>. QED
  BY <1>1, <1>2

-----------------------------------------------------------------------------
\* An event that is covered stays so when another one is merged.
LEMMA CoveredKept ==
  ASSUME LibraryTypeOK, NEW e, Covered(e), NEW f, Made(f), RowOK(row),
         Accepts(row, f, made[f]), row' = Merged(row, f, made[f]), made' = made
  PROVE  Covered(e)'
<1>. USE LibraryPageAssumption
<1>0. /\ row # NoRow /\ row \in Rows /\ made[e].mode \in Modes /\ made[f].mode \in Modes
      /\ e \in Int /\ f \in Int /\ row.sortEvent \in Int
      /\ \A n \in Modes : row.at[n].event \in Int
  BY DEF LibraryTypeOK, Covered, Made, Mutations, Rows, Positions, Events
<1>1. row' \in Rows /\ row' # NoRow /\ Made(e)'
  BY <1>0, MergeOK DEF Covered, Made
<1>2. /\ row'.sortEvent >= row.sortEvent
      /\ \A n \in Modes : row'.at[n].event >= row.at[n].event
  BY <1>0, MergeGrows
<1>3. /\ row'.sortEvent \in Int /\ \A n \in Modes : row'.at[n].event \in Int
  BY <1>1 DEF Rows, Positions, Events
<1>4. ~NewerThanAll(e, row) => ~NewerThanAll(e, row')
  BY <1>0, <1>2, <1>3 DEF NewerThanAll
<1>5. CASE made[f].sort = row.sort
  <2>1. row'.sort = row.sort
    BY <1>0, <1>5 DEF Merged, Moved, Rows
  <2>. QED
    BY <1>0, <1>1, <1>2, <1>3, <1>4, <2>1 DEF Covered
<1>6. CASE made[f].sort # row.sort
  <2>1. /\ row'.sort = made[f].sort /\ NewerThanAll(f, row)
        /\ row'.sortEvent = f /\ \A n \in Modes : row'.at[n].event = f
    BY <1>0, <1>6 DEF Merged, Resorted, Accepts
  <2>2. f >= e
    <3>1. CASE made[e].sort = row.sort
      BY <1>0, <2>1, <3>1 DEF Covered, NewerThanAll
    <3>2. CASE made[e].sort # row.sort
      BY <1>0, <2>1, <3>2 DEF Covered, NewerThanAll
    <3>. QED
      BY <3>1, <3>2
  <2>. QED
    BY <1>0, <1>1, <2>1, <2>2 DEF Covered, NewerThanAll
<1>. QED
  BY <1>5, <1>6

\* A merged event is covered.
LEMMA CoveredNew ==
  ASSUME LibraryTypeOK, NEW e, Made(e), row # NoRow => RowOK(row),
         Accepts(row, e, made[e]), row' = Merged(row, e, made[e]), made' = made
  PROVE  Covered(e)'
<1>. USE LibraryPageAssumption
<1>0. e \in Int /\ made[e].mode \in Modes /\ row' \in Rows /\ row' # NoRow /\ Made(e)'
  BY MergeOK DEF Made, Mutations, Events
<1>1. CASE row = NoRow
  BY <1>0, <1>1 DEF Covered, Merged, Started
<1>2. CASE row # NoRow /\ made[e].sort # row.sort
  BY <1>0, <1>2 DEF Covered, Merged, Resorted
<1>3. CASE row # NoRow /\ made[e].sort = row.sort
  <2>1. row \in Rows
    BY <1>3 DEF LibraryTypeOK
  <2>2. row'.sort = row.sort /\ row'.at[made[e].mode].event = e
    BY <1>0, <1>3, <2>1 DEF Merged, Moved, Rows
  <2>. QED
    BY <1>0, <1>3, <2>2 DEF Covered
<1>. QED
  BY <1>1, <1>2, <1>3

\* An event the row already makes up for is covered.
LEMMA CoveredOld ==
  ASSUME LibraryTypeOK, NEW e, Made(e), ~Accepts(row, e, made[e])
  PROVE  Covered(e)
<1>1. row # NoRow /\ row \in Rows /\ made[e].mode \in Modes /\ e \in Int
  BY DEF Accepts, LibraryTypeOK, Made, Mutations, Events
<1>2. row.at[made[e].mode].event \in Int
  BY <1>1 DEF Rows, Positions, Events
<1>. QED
  BY <1>1, <1>2 DEF Accepts, Covered

\* Nothing but requests and acknowledgements changes: what was covered still is.
LEMMA CoveredSame ==
  ASSUME NEW e, Covered(e), row' = row, made' = made
  PROVE  Covered(e)'
BY DEF Covered, Made

-----------------------------------------------------------------------------
\* Making new mutations leaves what is known of the old ones.
LEMMA RowSame ==
  ASSUME RowOK(row), \A e : Made(e) => Made(e)' /\ made'[e] = made[e], row' = row
  PROVE  RowOK(row)'
<1>1. Made(row.sortEvent) /\ made[row.sortEvent].sort = row.sort
  BY DEF RowOK
<1>2. ASSUME NEW m \in Modes
      PROVE  LET p == row.at[m]
             IN  /\ Made(p.event)' /\ made'[p.event].sort = row.sort
                 /\ p.event >= row.sortEvent
                 /\ p.event > row.sortEvent => made'[p.event].mode = m
                 /\ made'[p.event].mode = m => p.offset = made'[p.event].offset
  <2>. DEFINE d == row.at[m].event
  <2>1. /\ Made(d) /\ made[d].sort = row.sort /\ d >= row.sortEvent
        /\ d > row.sortEvent => made[d].mode = m
        /\ made[d].mode = m => row.at[m].offset = made[d].offset
    BY DEF RowOK
  <2>2. made'[d] = made[d] /\ (Made(row.at[m].event))'
    BY <2>1 DEF Made
  <2>. QED
    BY <2>1, <2>2
<1>. QED
  BY <1>1, <1>2 DEF RowOK, Made

LEMMA CoveredStays ==
  ASSUME NEW e, Covered(e), Made(e)', made'[e] = made[e], row' = row
  PROVE  Covered(e)'
BY DEF Covered, NewerThanAll

LEMMA SendInv ==
  ASSUME LibraryInv, NEW r \in Requests, Send(r)
  PROVE  LibraryInv'
<1>. USE LibraryPageAssumption
<1>1. PICK new \in SUBSET {e \in Events : made[e] = NoMutation}, old \in SUBSET Events :
        /\ \A e \in old : made[e] # NoMutation
        /\ \E what \in [new -> Mutations] :
             made' = [e \in Events |-> IF e \in new THEN what[e] ELSE made[e]]
        /\ batch' = [batch EXCEPT ![r] = new \cup old]
        /\ todo' = [todo EXCEPT ![r] = new \cup old]
  BY DEF Send
<1>2. /\ tries' = [tries EXCEPT ![r] = 0] /\ pc' = [pc EXCEPT ![r] = "load"]
      /\ UNCHANGED <<row, seen, acked>> /\ pc[r] = "idle"
  BY DEF Send
<1>3. /\ made' \in [Events -> Mutations \cup {NoMutation}]
      /\ \A e \in new : e \in Events /\ made'[e] \in Mutations
      /\ \A e \in Events : made[e] \in Mutations => made'[e] = made[e]
  <2>1. PICK what \in [new -> Mutations] :
          made' = [e \in Events |-> IF e \in new THEN what[e] ELSE made[e]]
    BY <1>1
  <2>2. made \in [Events -> Mutations \cup {NoMutation}]
    BY DEF LibraryInv, LibraryTypeOK
  <2>. QED
    BY <2>1, <2>2 DEF Made
<1>4. LibraryTypeOK'
  <2>1. new \cup old \subseteq Events
    BY <1>1
  <2>. QED
    BY <1>1, <1>2, <1>3, <2>1 DEF LibraryInv, LibraryTypeOK
<1>3a. ASSUME NEW e, Made(e)
       PROVE  Made(e)' /\ made'[e] = made[e]
  <2>1. e \in Events /\ made[e] \in Mutations
    BY <1>3a DEF Made
  <2>2. made'[e] = made[e]
    BY <2>1, <1>3
  <2>. QED
    BY <2>1, <2>2 DEF Made
<1>5. row' # NoRow => RowOK(row)'
  BY <1>2, <1>3a, RowSame DEF LibraryInv
<1>6. \A e \in old : Made(e)
  BY <1>1 DEF LibraryInv, LibraryTypeOK, Made
<1>7. \A q \in Requests :
        /\ q = r => pc'[q] = "load" /\ batch'[q] = new \cup old /\ todo'[q] = new \cup old
        /\ q # r => pc'[q] = pc[q] /\ batch'[q] = batch[q] /\ todo'[q] = todo[q]
  BY <1>1, <1>2 DEF LibraryInv, LibraryTypeOK
<1>8. BatchesOK'
  <2>. SUFFICES ASSUME NEW q \in Requests
       PROVE  /\ todo'[q] \subseteq batch'[q]
              /\ \A f \in batch'[q] : Made(f)'
              /\ pc'[q] = "answer" => todo'[q] = {}
    BY DEF BatchesOK
  <2>1. \A f \in new : Made(f)'
    BY <1>3 DEF Made
  <2>2. \A f \in old : Made(f)'
    BY <1>3a, <1>6
  <2>3. q # r => \A f \in batch[q] : Made(f)'
    BY <1>3a DEF LibraryInv, BatchesOK
  <2>. QED
    BY <1>7, <2>1, <2>2, <2>3 DEF LibraryInv, BatchesOK
<1>9. SwapsOK'
  <2>. SUFFICES ASSUME NEW q \in Requests, pc'[q] = "swap", NEW e \in todo'[q], Current(q, e)'
       PROVE  Accepts(seen[q], e, made'[e])
    BY <1>2 DEF SwapsOK
  <2>1. q # r /\ pc[q] = "swap" /\ e \in todo[q] /\ Current(q, e)
    BY <1>7 DEF Current
  <2>2. Made(e)
    BY <2>1 DEF LibraryInv, BatchesOK
  <2>3. made'[e] = made[e]
    BY <2>2, <1>3a
  <2>. QED
    BY <2>1, <2>3 DEF LibraryInv, SwapsOK
<1>10. \A e : Covered(e) => Covered(e)'
  BY <1>2, <1>3a, CoveredStays DEF Covered
<1>11. AllCovered'
  BY <1>2, <1>7, <1>10 DEF LibraryInv, AllCovered
<1>. QED
  BY <1>4, <1>5, <1>8, <1>9, <1>11 DEF LibraryInv

LEMMA LoadInv ==
  ASSUME LibraryInv, NEW r \in Requests, Load(r)
  PROVE  LibraryInv'
<1>1. PICK e \in todo[r] :
        /\ Current(r, e)
        /\ \/ /\ Accepts(row, e, made[e])
              /\ seen' = [seen EXCEPT ![r] = row]
              /\ pc' = [pc EXCEPT ![r] = "swap"]
              /\ UNCHANGED <<todo, tries>>
           \/ /\ ~Accepts(row, e, made[e])
              /\ Finish(r, e)
  BY DEF Load
<1>2. UNCHANGED <<row, made, batch, acked>> /\ pc[r] = "load" /\ Made(e) /\ e \in batch[r]
  BY DEF Load, LibraryInv, BatchesOK
<1>3. CASE Accepts(row, e, made[e]) /\ seen' = [seen EXCEPT ![r] = row]
           /\ pc' = [pc EXCEPT ![r] = "swap"] /\ UNCHANGED <<todo, tries>>
  <2>1. LibraryTypeOK'
    BY <1>2, <1>3 DEF LibraryInv, LibraryTypeOK
  <2>2. \A q \in Requests : q # r => pc'[q] = pc[q] /\ seen'[q] = seen[q]
    BY <1>3 DEF LibraryInv, LibraryTypeOK
  <2>3. pc'[r] = "swap" /\ seen'[r] = row
    BY <1>3 DEF LibraryInv, LibraryTypeOK
  <2>4. BatchesOK'
    BY <1>2, <1>3, <2>2, <2>3 DEF LibraryInv, BatchesOK, Made
  <2>5. \A f \in todo[r] : Current(r, f) => f = e
    BY <1>1 DEF Current, LibraryInv, LibraryTypeOK, Events
  <2>6. SwapsOK'
    BY <1>2, <1>3, <2>2, <2>3, <2>5 DEF LibraryInv, SwapsOK, Current
  <2>7. AllCovered' /\ (row' # NoRow => RowOK(row)')
    BY <1>2, <1>3, CoveredSame DEF LibraryInv, AllCovered, RowOK, Made
  <2>. QED
    BY <2>1, <2>4, <2>6, <2>7 DEF LibraryInv
<1>4. CASE ~Accepts(row, e, made[e]) /\ Finish(r, e)
  <2>1. LibraryTypeOK'
    BY <1>2, <1>4 DEF LibraryInv, LibraryTypeOK, Finish
  <2>2. /\ \A q \in Requests : q # r => pc'[q] = pc[q] /\ seen'[q] = seen[q] /\ todo'[q] = todo[q]
        /\ todo'[r] = todo[r] \ {e}
        /\ pc'[r] = IF todo[r] = {e} THEN "answer" ELSE "load"
    BY <1>4 DEF Finish, LibraryInv, LibraryTypeOK
  <2>3. BatchesOK'
    <3>. SUFFICES ASSUME NEW q \in Requests
         PROVE  /\ todo'[q] \subseteq batch[q]
                /\ \A f \in batch[q] : Made(f)'
                /\ pc'[q] = "answer" => todo'[q] = {}
      BY <1>2 DEF BatchesOK
    <3>. QED
      BY <1>2, <2>2 DEF LibraryInv, BatchesOK, Made
  <2>4. SwapsOK'
    <3>. SUFFICES ASSUME NEW q \in Requests, pc'[q] = "swap"
         PROVE  \A f \in todo'[q] : Current(q, f)' => Accepts(seen'[q], f, made[f])
      BY <1>2 DEF SwapsOK
    <3>1. q # r /\ pc[q] = "swap" /\ todo'[q] = todo[q] /\ seen'[q] = seen[q]
      BY <2>2
    <3>. QED
      BY <3>1 DEF LibraryInv, SwapsOK, Current
  <2>5. \A f : Covered(f) => Covered(f)'
    BY <1>2, CoveredSame
  <2>6. Covered(e)
    BY <1>2, <1>4, CoveredOld DEF LibraryInv
  <2>7. AllCovered'
    BY <1>2, <2>2, <2>5, <2>6 DEF LibraryInv, AllCovered
  <2>8. row' # NoRow => RowOK(row)'
    BY <1>2 DEF LibraryInv, RowOK, Made
  <2>. QED
    BY <2>1, <2>3, <2>4, <2>7, <2>8 DEF LibraryInv
<1>. QED
  BY <1>1, <1>3, <1>4

LEMMA SwapInv ==
  ASSUME LibraryInv, NEW r \in Requests, Swap(r)
  PROVE  LibraryInv'
<1>1. PICK e \in todo[r] : Current(r, e) /\ row' = Merged(seen[r], e, made[e]) /\ Finish(r, e)
  BY DEF Swap
<1>2. UNCHANGED <<made, batch, acked>> /\ pc[r] = "swap" /\ Made(e) /\ e \in batch[r]
      /\ row = seen[r]
  BY DEF Swap, LibraryInv, BatchesOK
<1>3. Accepts(row, e, made[e]) /\ row' = Merged(row, e, made[e])
  BY <1>1, <1>2 DEF LibraryInv, SwapsOK
<1>4. row' \in Rows /\ RowOK(row')
  BY <1>2, <1>3, MergeOK DEF LibraryInv
<1>5. /\ \A q \in Requests : q # r => pc'[q] = pc[q] /\ seen'[q] = seen[q] /\ todo'[q] = todo[q]
      /\ todo'[r] = todo[r] \ {e}
      /\ pc'[r] = IF todo[r] = {e} THEN "answer" ELSE "load"
  BY <1>1 DEF Finish, LibraryInv, LibraryTypeOK
<1>6. LibraryTypeOK'
  BY <1>1, <1>2, <1>4 DEF LibraryInv, LibraryTypeOK, Finish
<1>7. BatchesOK'
  <2>. SUFFICES ASSUME NEW q \in Requests
       PROVE  /\ todo'[q] \subseteq batch[q]
              /\ \A f \in batch[q] : Made(f)'
              /\ pc'[q] = "answer" => todo'[q] = {}
    BY <1>2 DEF BatchesOK
  <2>. QED
    BY <1>2, <1>5 DEF LibraryInv, BatchesOK, Made
<1>8. SwapsOK'
  <2>. SUFFICES ASSUME NEW q \in Requests, pc'[q] = "swap"
       PROVE  \A f \in todo'[q] : Current(q, f)' => Accepts(seen'[q], f, made[f])
    BY <1>2 DEF SwapsOK
  <2>1. q # r /\ pc[q] = "swap" /\ todo'[q] = todo[q] /\ seen'[q] = seen[q]
    BY <1>5
  <2>. QED
    BY <2>1 DEF LibraryInv, SwapsOK, Current
<1>9. \A f : Covered(f) => Covered(f)'
  BY <1>2, <1>3, CoveredKept DEF LibraryInv, Covered
<1>10. Covered(e)'
  BY <1>2, <1>3, CoveredNew DEF LibraryInv
<1>11. AllCovered'
  BY <1>2, <1>5, <1>9, <1>10 DEF LibraryInv, AllCovered
<1>12. RowOK(row)'
  BY <1>2, <1>4 DEF RowOK, Made
<1>. QED
  BY <1>6, <1>7, <1>8, <1>11, <1>12 DEF LibraryInv

\* Retries and ends of requests leave the row alone; an answer acknowledges a
\* batch that is stored.
LEMMA OtherInv ==
  ASSUME LibraryInv, NEW r \in Requests, Retry(r) \/ Reply(r) \/ Break(r)
  PROVE  LibraryInv'
<1>. USE LibraryPageAssumption
<1>1. UNCHANGED <<row, made>>
  BY DEF Retry, Reply, Break, Leave
<1>2. LibraryTypeOK'
  <2>1. CASE Retry(r)
    BY <2>1 DEF Retry, LibraryInv, LibraryTypeOK
  <2>2. CASE Reply(r) \/ Break(r)
    BY <2>2 DEF Reply, Break, Leave, LibraryInv, LibraryTypeOK
  <2>. QED
    BY <2>1, <2>2
<1>3. /\ \A q \in Requests : q # r => pc'[q] = pc[q] /\ seen'[q] = seen[q] /\ todo'[q] = todo[q]
                                       /\ batch'[q] = batch[q]
      /\ pc'[r] # "swap" /\ pc'[r] # "answer"
      /\ \/ todo'[r] = todo[r] /\ batch'[r] = batch[r]
         \/ todo'[r] = {} /\ batch'[r] = {}
  <2>1. CASE Retry(r)
    BY <2>1 DEF Retry, LibraryInv, LibraryTypeOK
  <2>2. CASE Reply(r) \/ Break(r)
    BY <2>2 DEF Reply, Break, Leave, LibraryInv, LibraryTypeOK
  <2>. QED
    BY <2>1, <2>2
<1>4. BatchesOK'
  <2>. SUFFICES ASSUME NEW q \in Requests
       PROVE  /\ todo'[q] \subseteq batch'[q]
              /\ \A f \in batch'[q] : Made(f)'
              /\ pc'[q] = "answer" => todo'[q] = {}
    BY DEF BatchesOK
  <2>. QED
    BY <1>1, <1>3 DEF LibraryInv, BatchesOK, Made
<1>5. SwapsOK'
  <2>. SUFFICES ASSUME NEW q \in Requests, pc'[q] = "swap"
       PROVE  \A f \in todo'[q] : Current(q, f)' => Accepts(seen'[q], f, made[f])
    BY <1>1 DEF SwapsOK
  <2>1. q # r /\ pc[q] = "swap" /\ todo'[q] = todo[q] /\ seen'[q] = seen[q]
    BY <1>3
  <2>. QED
    BY <2>1 DEF LibraryInv, SwapsOK, Current
<1>6. \A f : Covered(f) => Covered(f)'
  BY <1>1, CoveredSame
<1>7. \A f \in acked' : Covered(f)
  <2>1. CASE Reply(r)
    <3>1. acked' = acked \cup batch[r] /\ todo[r] = {}
      BY <2>1 DEF Reply, LibraryInv, BatchesOK
    <3>. QED
      BY <3>1 DEF LibraryInv, AllCovered
  <2>2. CASE ~Reply(r)
    BY <2>2 DEF Retry, Break, LibraryInv, AllCovered
  <2>. QED
    BY <2>1, <2>2
<1>8. AllCovered'
  <2>. SUFFICES ASSUME NEW q \in Requests, NEW f \in batch'[q] \ todo'[q] PROVE Covered(f)
    BY <1>6, <1>7 DEF AllCovered
  <2>. QED
    BY <1>3 DEF LibraryInv, AllCovered
<1>9. row' # NoRow => RowOK(row)'
  BY <1>1 DEF LibraryInv, RowOK, Made
<1>. QED
  BY <1>2, <1>4, <1>5, <1>8, <1>9 DEF LibraryInv

LEMMA LibraryNext == LibraryInv /\ [Next]_vars => LibraryInv'
<1>. SUFFICES ASSUME LibraryInv, [Next]_vars PROVE LibraryInv'
  OBVIOUS
<1>1. ASSUME NEW r \in Requests, Send(r) \/ Load(r) \/ Swap(r) \/ Retry(r) \/ Reply(r) \/ Break(r)
      PROVE  LibraryInv'
  BY <1>1, SendInv, LoadInv, SwapInv, OtherInv
<1>2. CASE UNCHANGED vars
  BY <1>2 DEF vars, LibraryInv, LibraryTypeOK, RowOK, BatchesOK, SwapsOK, AllCovered, Covered,
     NewerThanAll, Made, Current, Accepts
<1>. QED
  BY <1>1, <1>2 DEF Next

THEOREM LibraryInvariant == Spec => []LibraryInv
BY LibraryInit, LibraryNext, PTL DEF Spec

-----------------------------------------------------------------------------
\* The row, the mutations and the requests keep their form.
THEOREM LibraryTypes == Spec => []LibraryTypeOK
<1>1. LibraryInv => LibraryTypeOK
  BY DEF LibraryInv
<1>. QED
  BY <1>1, LibraryInvariant, PTL

\* What the server acknowledged it keeps, until something newer takes its place.
THEOREM AcknowledgedIsKept == Spec => []AckedIsKept
<1>1. LibraryInv => AckedIsKept
  BY DEF LibraryInv, AllCovered, Covered, AckedIsKept
<1>. QED
  BY <1>1, LibraryInvariant, PTL

\* The newest event the row holds is the one it shows.
THEOREM NewestEventDecides == Spec => []NewestDecides
<1>1. ASSUME LibraryInv, row # NoRow, NEW m \in Modes,
             \A n \in Modes : row.at[n].event <= row.at[m].event
      PROVE  LET e == row.at[m].event
             IN  made[e].sort = row.sort /\ row.at[made[e].mode].offset = made[e].offset
  <2>0. PICK e, k : e = row.at[m].event /\ k = made[e].mode
    OBVIOUS
  <2>1. /\ Made(e) /\ made[e].sort = row.sort /\ e >= row.sortEvent
        /\ e > row.sortEvent => k = m
        /\ k = m => row.at[m].offset = made[e].offset
    BY <1>1, <2>0 DEF LibraryInv, RowOK
  <2>2. k \in Modes
    BY <2>0, <2>1 DEF Made, Mutations
  <2>3. /\ Made(row.at[k].event) /\ row.at[k].event >= row.sortEvent
        /\ made[row.at[k].event].mode = k => row.at[k].offset = made[row.at[k].event].offset
        /\ Made(row.sortEvent)
    BY <1>1, <2>2 DEF LibraryInv, RowOK
  <2>4. e \in Int /\ row.at[k].event \in Int /\ row.sortEvent \in Int
    BY <2>1, <2>3 DEF Made, Events
  <2>5. row.at[k].event <= e
    BY <1>1, <2>0, <2>2
  <2>6. CASE k = m
    BY <2>0, <2>1, <2>6
  <2>7. CASE k # m
    <3>1. row.at[k].event = e
      BY <2>1, <2>3, <2>4, <2>5, <2>7
    <3>. QED
      BY <2>0, <2>1, <2>3, <3>1
  <2>. QED
    BY <2>6, <2>7
<1>2. LibraryInv => NewestDecides
  BY <1>1 DEF NewestDecides
<1>. QED
  BY <1>2, LibraryInvariant, PTL

\* No request, however late, moves a list back to an older event.
THEOREM RowClocksGrow == Spec => ClocksOnlyGrow
<1>. DEFINE Grows == row # NoRow =>
       /\ row' # NoRow
       /\ row'.sortEvent >= row.sortEvent
       /\ \A m \in Modes : row'.at[m].event >= row.at[m].event
<1>1. ASSUME LibraryInv, [Next]_vars, row # NoRow
      PROVE  Grows
  <2>1. /\ row.sortEvent \in Int /\ \A m \in Modes : row.at[m].event \in Int
    BY <1>1 DEF LibraryInv, LibraryTypeOK, Rows, Positions, Events
  <2>2. CASE row' = row
    BY <1>1, <2>1, <2>2
  <2>3. ASSUME NEW r \in Requests, Swap(r)
        PROVE  Grows
    <3>1. PICK e \in todo[r] :
            Current(r, e) /\ row' = Merged(seen[r], e, made[e]) /\ row = seen[r]
      BY <2>3 DEF Swap
    <3>2. Made(e) /\ Accepts(row, e, made[e])
      BY <1>1, <2>3, <3>1 DEF Swap, LibraryInv, BatchesOK, SwapsOK
    <3>3. LibraryTypeOK /\ RowOK(row)
      BY <1>1 DEF LibraryInv
    <3>4. row' \in Rows
      BY <1>1, <3>1, <3>2, <3>3, MergeOK
    <3>5. row' # NoRow
      BY <3>4, LibraryPageAssumption
    <3>6. /\ row'.sortEvent >= row.sortEvent
          /\ \A n \in Modes : row'.at[n].event >= row.at[n].event
      BY <1>1, <3>1, <3>2, <3>3, MergeGrows
    <3>. QED
      BY <3>5, <3>6
  <2>. QED
    BY <1>1, <2>2, <2>3 DEF Next, Send, Load, Retry, Reply, Break, Leave, vars
<1>2. LibraryInv /\ [Next]_vars => [Grows]_vars
  BY <1>1
<1>. QED
  BY <1>2, LibraryInvariant, PTL DEF Spec, ClocksOnlyGrow

-----------------------------------------------------------------------------
(***************************************************************************)
(* Where the newest browse state can be lost, for any number of devices:   *)
(* only by a save whose read is out of date (OverlapIsNeeded), so never    *)
(* while one save is served at a time (SavesInTurnKeepNewest).             *)
(***************************************************************************)

BrowseTypeOK ==
  /\ browseRow \in Nat
  /\ serverTime \in Nat
  /\ browsePc \in [Devices -> {"idle", "read", "write"}]
  /\ stamp \in [Devices -> Nat]
  /\ browseSeen \in [Devices -> Nat]

\* A save that is about to write is at least as new as the row it read.
WritesOK == \A r \in Devices : browsePc[r] = "write" => stamp[r] >= browseSeen[r]

BrowseInv == BrowseTypeOK /\ WritesOK

LEMMA BrowseStarts == BrowseInit => BrowseInv
BY DEF BrowseInit, BrowseInv, BrowseTypeOK, WritesOK, NoStamp

LEMMA BrowseSteps == BrowseInv /\ [BrowseNext]_browseVars => BrowseInv'
<1>. SUFFICES ASSUME BrowseInv, [BrowseNext]_browseVars PROVE BrowseInv'
  OBVIOUS
<1>. USE DEF BrowseInv, BrowseTypeOK, WritesOK, NoStamp
<1>1. ASSUME NEW r \in Devices, SaveState(r) PROVE BrowseInv'
  <2>1. stamp' \in [Devices -> Nat]
    BY <1>1 DEF SaveState, Times
  <2>2. \A q \in Devices : browsePc'[q] = "write" => q # r /\ browsePc[q] = "write" /\ stamp'[q] = stamp[q]
    BY <1>1 DEF SaveState
  <2>. QED
    BY <1>1, <2>1, <2>2 DEF SaveState
<1>2. ASSUME NEW r \in Devices, ReadRow(r) PROVE BrowseInv'
  BY <1>2 DEF ReadRow, Keeps
<1>3. ASSUME NEW r \in Devices, WriteRow(r) PROVE BrowseInv'
  BY <1>3 DEF WriteRow
<1>4. ASSUME NEW r \in Devices, BreakSave(r) PROVE BrowseInv'
  BY <1>4 DEF BreakSave
<1>5. CASE Tick
  BY <1>5 DEF Tick
<1>6. CASE UNCHANGED browseVars
  BY <1>6 DEF browseVars
<1>. QED
  BY <1>1, <1>2, <1>3, <1>4, <1>5, <1>6 DEF BrowseNext

LEMMA BrowseInvariant == BrowseSpec => []BrowseInv
BY BrowseStarts, BrowseSteps, PTL DEF BrowseSpec

\* Only a write moves the clock of the row, and back only over a row it did not
\* read.
LEMMA OnlyWritesMoveBack ==
  ASSUME BrowseInv, [BrowseNext]_browseVars, browseRow' < browseRow
  PROVE  \E r \in Devices : browsePc[r] = "write" /\ browsePc'[r] = "idle" /\ browseSeen[r] # browseRow
<1>1. PICK r \in Devices : WriteRow(r)
  <2>1. browseRow' # browseRow
    BY DEF BrowseInv, BrowseTypeOK
  <2>. QED
    BY <2>1 DEF BrowseNext, SaveState, ReadRow, BreakSave, Tick, browseVars
<1>2. browsePc[r] = "write" /\ browsePc'[r] = "idle" /\ browseRow' = stamp[r] /\ stamp[r] >= browseSeen[r]
  BY <1>1 DEF WriteRow, BrowseInv, BrowseTypeOK, WritesOK
<1>3. browseSeen[r] # browseRow
  BY <1>2 DEF BrowseInv, BrowseTypeOK
<1>. QED
  BY <1>2, <1>3

\* An older state gets into the row only by a save whose read is out of date.
THEOREM OverlapIsNeeded == BrowseSpec => LossNeedsOverlap
<1>1. BrowseInv /\ [BrowseNext]_browseVars =>
        [browseRow' < browseRow => \E r \in Devices : browsePc[r] = "write" /\ browsePc'[r] = "idle" /\ browseSeen[r] # browseRow]_browseVars
  BY OnlyWritesMoveBack
<1>. QED
  BY <1>1, BrowseInvariant, PTL DEF BrowseSpec, LossNeedsOverlap

-----------------------------------------------------------------------------
\* While there is one handler, what it read is what is there.
ReadsAreCurrent == \A r \in Devices : browsePc[r] = "write" => browseSeen[r] = browseRow

\* The newest browse state is kept while one save is served at a time.
THEOREM SavesInTurnKeepNewest ==
  ASSUME \A q, r \in Devices : q = r
  PROVE  BrowseSpec => KeepsNewest
<1>1. BrowseInit => ReadsAreCurrent
  BY DEF BrowseInit, ReadsAreCurrent
<1>2. BrowseInv /\ ReadsAreCurrent /\ [BrowseNext]_browseVars => ReadsAreCurrent'
  BY DEF BrowseInv, BrowseTypeOK, ReadsAreCurrent, BrowseNext, SaveState, ReadRow, WriteRow, BreakSave, Tick, browseVars
<1>3. BrowseInv /\ ReadsAreCurrent /\ [BrowseNext]_browseVars => [browseRow' >= browseRow]_browseVars
  <2>. SUFFICES ASSUME BrowseInv, BrowseInv', ReadsAreCurrent, [BrowseNext]_browseVars PROVE browseRow' >= browseRow
    BY BrowseSteps
  <2>1. ~(browseRow' < browseRow)
    BY OnlyWritesMoveBack DEF ReadsAreCurrent
  <2>. QED
    BY <2>1 DEF BrowseInv, BrowseTypeOK
<1>. QED
  BY <1>1, <1>2, <1>3, BrowseInvariant, PTL DEF BrowseSpec, KeepsNewest

-----------------------------------------------------------------------------
(***************************************************************************)
(* Marks that are pending are not lost, for any number of tabs and marks   *)
(* and any length of the list.  The argument: one step of a tab keeps what *)
(* every other tab has in hand (StepOfTab), what a step takes off the list *)
(* is on the server, or was found there, or replaced (MarkIsKept), and a   *)
(* flush puts back what failed, as no two pending marks have one key.      *)
(***************************************************************************)

(* What the list operations keep.                                           *)

\* Induction up to N, for a set of numbers.
LEMMA UpTo ==
  ASSUME NEW N \in Nat, NEW S, 0 \in S, \A n \in 0..(N - 1) : n \in S => n + 1 \in S
  PROVE  0..N \subseteq S
<1>. DEFINE Bad == 0..N \ S
<1>. SUFFICES ASSUME Bad # {} PROVE FALSE
  OBVIOUS
<1>1. IsWellFoundedOn({ss \in Nat \X Nat : ss[1] < ss[2]}, Nat)
  BY NatLessThanWellFounded DEF OpToRel
<1>2. Bad \subseteq Nat
  OBVIOUS
<1>3. PICK n \in Bad : \A m \in Bad : ~(<<m, n>> \in {ss \in Nat \X Nat : ss[1] < ss[2]})
  <2>. HIDE DEF Bad
  <2>. QED
    BY <1>1, <1>2, WFMin
<1>4. \A m \in Bad : ~(m < n)
  BY <1>2, <1>3
<1>5. n # 0 /\ n - 1 \in 0..(N - 1) /\ (n - 1) + 1 = n
  BY <1>3
<1>. QED
  BY <1>3, <1>4, <1>5

LEMMA Elements ==
  ASSUME NEW T, NEW items \in Seq(T)
  PROVE  /\ ToSet(items) \subseteq T /\ Len(items) \in Nat
         /\ \A i \in 1..Len(items) : items[i] \in ToSet(items)
         /\ \A x \in ToSet(items) : \E i \in 1..Len(items) : x = items[i]
<1>1. DOMAIN items = 1..Len(items) /\ Len(items) \in Nat /\ \A i \in 1..Len(items) : items[i] \in T
  OBVIOUS
<1>. QED
  BY <1>1 DEF ToSet

LEMMA ConcatElements ==
  ASSUME NEW T, NEW a \in Seq(T), NEW b \in Seq(T)
  PROVE  a \o b \in Seq(T) /\ ToSet(a \o b) = ToSet(a) \cup ToSet(b)
<1>1. \A f : ToSet(f) = Range(f)
  BY DEF ToSet, Range
<1>. QED
  BY <1>1, RangeConcatenation

LEMMA AppendElements ==
  ASSUME NEW T, NEW list \in Seq(T), NEW x \in T
  PROVE  Append(list, x) \in Seq(T) /\ ToSet(Append(list, x)) = ToSet(list) \cup {x}
<1>. DEFINE longer == Append(list, x)
<1>1. /\ longer \in Seq(T) /\ Len(longer) = Len(list) + 1 /\ Len(list) \in Nat
      /\ \A i \in 1..Len(list) : longer[i] = list[i]
      /\ longer[Len(list) + 1] = x
  BY AppendProperties
<1>. HIDE DEF longer
<1>2. \A i \in 1..(Len(list) + 1) : i \in 1..Len(list) \/ i = Len(list) + 1
  BY <1>1
<1>3. \A y : y \in ToSet(longer) <=> \E i \in 1..Len(longer) : y = longer[i]
  BY <1>1, Elements
<1>4. \A y : y \in ToSet(list) <=> \E i \in 1..Len(list) : y = list[i]
  BY Elements
<1>5. ASSUME NEW y \in ToSet(longer) PROVE y \in ToSet(list) \cup {x}
  BY <1>1, <1>2, <1>3, <1>4
<1>6. ASSUME NEW y \in ToSet(list) PROVE y \in ToSet(longer)
  BY <1>1, <1>3, <1>4
<1>7. x \in ToSet(longer)
  BY <1>1, <1>3
<1>8. ToSet(longer) = ToSet(list) \cup {x}
  BY <1>5, <1>6, <1>7
<1>. QED
  BY <1>1, <1>8 DEF longer

\* A list cut in two.
LEMMA CutElements ==
  ASSUME NEW T, NEW items \in Seq(T), NEW n \in 0..Len(items)
  PROVE  /\ SubSeq(items, n + 1, Len(items)) \in Seq(T)
         /\ ToSet(SubSeq(items, 1, n)) \cup ToSet(SubSeq(items, n + 1, Len(items))) = ToSet(items)
<1>1. Len(items) \in Nat /\ n \in Nat /\ n <= Len(items)
  OBVIOUS
<1>2. /\ items = SubSeq(items, 1, Len(items))
      /\ 1 \in 1..(Len(items) + 1) /\ n \in (1 - 1)..Len(items) /\ Len(items) \in n..Len(items)
  BY <1>1, SubSeqFull
<1>3. SubSeq(items, 1, n) \in Seq(T) /\ SubSeq(items, n + 1, Len(items)) \in Seq(T)
  BY <1>1, SubSeqProperties
<1>4. SubSeq(items, 1, n) \o SubSeq(items, n + 1, Len(items)) = items
  BY <1>1, <1>2, ConcatAdjacentSubSeq
<1>. QED
  BY <1>3, <1>4, ConcatElements

\* Without takes away what is gone, and nothing else.
LEMMA WithoutElements ==
  ASSUME NEW T, NEW items \in Seq(T), NEW gone
  PROVE  /\ Without(items, gone) \in Seq(T)
         /\ ToSet(Without(items, gone)) = ToSet(items) \ gone
<1>. DEFINE N == Len(items)
            Add(l, n) == IF items[n] \in gone THEN l ELSE Append(l, items[n])
            Up(f, n) == f[0] = <<>> /\ \A i \in 1..n : f[i] = Add(f[i - 1], i)
            Reached == {n \in 0..N : \E f : Up(f, n)}
            Rec(f) == f = [n \in 0..N |-> IF n = 0 THEN <<>>
                                          ELSE IF items[n] \in gone THEN f[n - 1]
                                          ELSE Append(f[n - 1], items[n])]
            kept == CHOOSE f : Rec(f)
<1>1. N \in Nat /\ \A n \in 1..N : items[n] \in T
  BY LenProperties
<1>2. Without(items, gone) = kept[N]
  BY DEF Without
<1>3. 0 \in Reached
  <2>. HIDE DEF Add
  <2>1. PICK f : f = [i \in {0} |-> <<>>]
    OBVIOUS
  <2>2. Up(f, 0)
    BY <2>1
  <2>. QED
    BY <1>1, <2>2
<1>4. ASSUME NEW n \in 0..(N - 1), n \in Reached PROVE n + 1 \in Reached
  <2>. HIDE DEF Add
  <2>1. PICK f : Up(f, n)
    BY <1>4
  <2>2. PICK g : g = [i \in 0..(n + 1) |-> IF i = n + 1 THEN Add(f[n], n + 1) ELSE f[i]]
    OBVIOUS
  <2>3. \A i \in 0..n : g[i] = f[i]
    BY <1>1, <2>2
  <2>4. g[n + 1] = Add(g[n], n + 1)
    BY <1>1, <2>2, <2>3
  <2>5. ASSUME NEW i \in 1..(n + 1) PROVE g[i] = Add(g[i - 1], i)
    <3>1. CASE i = n + 1
      BY <1>1, <2>4, <3>1
    <3>2. CASE i # n + 1
      <4>1. i \in 1..n /\ i \in 0..n /\ i - 1 \in 0..n
        BY <1>1, <3>2
      <4>. QED
        BY <2>1, <2>3, <4>1
    <3>. QED
      BY <3>1, <3>2
  <2>6. g[0] = <<>>
    BY <1>1, <2>1, <2>3
  <2>7. Up(g, n + 1) /\ n + 1 \in 0..N
    BY <1>1, <2>5, <2>6
  <2>. QED
    BY <2>7
<1>5. N \in Reached
  <2>. HIDE DEF Reached
  <2>1. 0..N \subseteq Reached
    BY <1>1, <1>3, <1>4, UpTo
  <2>. QED
    BY <1>1, <2>1
<1>6. Rec(kept)
  <2>1. PICK f : Up(f, N)
    BY <1>5
  <2>2. PICK g : g = [n \in 0..N |-> f[n]]
    OBVIOUS
  <2>3. Rec(g)
    BY <1>1, <2>1, <2>2
  <2>. QED
    BY <2>3
<1>. HIDE DEF kept
<1>7. kept[0] = <<>> /\ \A n \in 1..N : kept[n] = Add(kept[n - 1], n)
  <2>1. 0 \in 0..N /\ \A n \in 1..N : n \in 0..N /\ n # 0
    BY <1>1
  <2>. QED
    BY <1>6, <2>1
<1>. DEFINE Good == {n \in 0..N : kept[n] \in Seq(T) /\ ToSet(kept[n]) = {items[i] : i \in 1..n} \ gone}
<1>8. 0 \in Good
  <2>1. ToSet(<<>>) = {} /\ <<>> \in Seq(T)
    BY DEF ToSet
  <2>2. {items[i] : i \in 1..0} = {}
    OBVIOUS
  <2>3. 0 \in 0..N
    BY <1>1
  <2>. QED
    BY <1>7, <2>1, <2>2, <2>3
<1>9. ASSUME NEW n \in 0..(N - 1), n \in Good PROVE n + 1 \in Good
  <2>1. n + 1 \in 1..N /\ n + 1 \in 0..N /\ (n + 1) - 1 = n
    BY <1>1
  <2>2. kept[n + 1] = Add(kept[n], n + 1)
    BY <1>7, <2>1
  <2>3. {items[i] : i \in 1..(n + 1)} = {items[i] : i \in 1..n} \cup {items[n + 1]}
    BY <1>1
  <2>4. kept[n] \in Seq(T) /\ ToSet(kept[n]) = {items[i] : i \in 1..n} \ gone
    BY <1>9
  <2>5. CASE items[n + 1] \in gone
    BY <2>1, <2>2, <2>3, <2>4, <2>5
  <2>6. CASE items[n + 1] \notin gone
    <3>1. kept[n + 1] = Append(kept[n], items[n + 1]) /\ items[n + 1] \in T
      BY <1>1, <2>1, <2>2, <2>6
    <3>2. ToSet(kept[n + 1]) = ToSet(kept[n]) \cup {items[n + 1]}
      BY <2>4, <3>1, AppendElements
    <3>3. kept[n + 1] \in Seq(T)
      BY <2>4, <3>1
    <3>. QED
      BY <2>1, <2>3, <2>4, <2>6, <3>2, <3>3
  <2>. QED
    BY <2>5, <2>6
<1>10. N \in Good
  <2>. HIDE DEF Good
  <2>1. 0..N \subseteq Good
    BY <1>1, <1>8, <1>9, UpTo
  <2>. QED
    BY <1>1, <2>1
<1>11. {items[i] : i \in 1..N} = ToSet(items)
  BY <1>1 DEF ToSet
<1>. QED
  BY <1>2, <1>10, <1>11

-----------------------------------------------------------------------------
(* The invariant: a mark that is settled in a flush or a save was delivered,  *)
(* failed, or was found on the server, and no two pending marks have one key. *)

GivenMarks == [key : Marks, value : Values, stamp : Nat \ {0}]

MarkQueueTypeOK ==
  /\ given \in SUBSET GivenMarks /\ IsFiniteSet(given)
  /\ pending \in Seq(GivenMarks) /\ ToSet(pending) \subseteq given
  /\ saver \in [Tabs -> [mark : GivenMarks \cup {NoMark},
                         at : {"none", "sent", "stored", "lost", "matched"}]]
  /\ flusher \in [Tabs -> [initial : Seq(GivenMarks), next : Nat \ {0},
                           at : {"none", "sent", "stored", "end"}, failed : Seq(GivenMarks)]]
  /\ stored \in [Marks -> [value : Values \cup {NoMark}, stamp : Nat]]

OneOfEachKey(set) == \A i, j \in set : i.key = j.key => i = j
OnServer(mark) == stored[mark.key].stamp >= mark.stamp

SaverStands(s) ==
  /\ s.at # "none" => s.mark \in given
  /\ s.at = "stored" => OnServer(s.mark)
  /\ s.at = "matched" => s.mark \in matched

FlusherStands(f) ==
  /\ ToSet(f.initial) \subseteq given /\ OneOfEachKey(ToSet(f.initial))
  /\ ToSet(f.failed) \subseteq ToSet(f.initial)
  /\ f.at \in {"sent", "stored"} => f.next <= Len(f.initial)
  /\ f.at = "end" => f.next = Len(f.initial) + 1
  /\ \A i \in 1..Len(f.initial) :
       i < f.next => OnServer(f.initial[i]) \/ f.initial[i] \in ToSet(f.failed)
  /\ f.at = "stored" => OnServer(f.initial[f.next])

MarksAreDated == \A mark \in given : mark.stamp < Now

Replaced(mark) == \E later \in given : later.key = mark.key /\ later.stamp > mark.stamp
MarkIsKept(mark) ==
  Replaced(mark) \/ mark \in ToSet(pending) \/ OnServer(mark) \/ mark \in matched \cup cut

MarkQueueInv ==
  /\ MarkQueueTypeOK
  /\ OneOfEachKey(ToSet(pending))
  /\ \A t \in Tabs : SaverStands(saver[t]) /\ FlusherStands(flusher[t])
  /\ MarksAreDated
  /\ \A mark \in given : MarkIsKept(mark)

-----------------------------------------------------------------------------
(* What only grows, and what stands as long as it does.                    *)

QueueGrows ==
  /\ given \subseteq given'
  /\ \A m \in Marks : stored'[m].stamp >= stored[m].stamp
  /\ matched \subseteq matched' /\ cut \subseteq cut'

LEMMA StampTypes ==
  ASSUME MarkQueueTypeOK
  PROVE  /\ \A m \in Marks : stored[m].stamp \in Nat
         /\ \A mark \in given : mark \in GivenMarks
         /\ Cardinality(given) \in Nat /\ Now \in Nat \ {0} /\ Now = Cardinality(given) + 1
<1>1. Cardinality(given) \in Nat
  BY FS_CardinalityType DEF MarkQueueTypeOK
<1>. QED
  BY <1>1 DEF MarkQueueTypeOK, Now

LEMMA OnServerStays ==
  ASSUME MarkQueueTypeOK, MarkQueueTypeOK', QueueGrows, NEW mark \in GivenMarks, OnServer(mark)
  PROVE  OnServer(mark)'
<1>1. mark.key \in Marks /\ mark.stamp \in Nat
  BY DEF GivenMarks
<1>2. stored[mark.key].stamp \in Nat /\ stored'[mark.key].stamp \in Nat
  BY <1>1 DEF MarkQueueTypeOK
<1>. QED
  BY <1>1, <1>2 DEF OnServer, QueueGrows

LEMMA SaverStays ==
  ASSUME MarkQueueTypeOK, MarkQueueTypeOK', QueueGrows, NEW s, SaverStands(s)
  PROVE  /\ s.at # "none" => s.mark \in given'
         /\ s.at = "stored" => OnServer(s.mark)'
         /\ s.at = "matched" => s.mark \in matched'
<1>1. s.at # "none" => s.mark \in GivenMarks
  BY DEF SaverStands, MarkQueueTypeOK
<1>. QED
  BY <1>1, OnServerStays DEF SaverStands, QueueGrows

LEMMA FlusherStays ==
  ASSUME MarkQueueTypeOK, MarkQueueTypeOK', QueueGrows, NEW f, FlusherStands(f),
         f.initial \in Seq(GivenMarks)
  PROVE  /\ ToSet(f.initial) \subseteq given' /\ OneOfEachKey(ToSet(f.initial))
         /\ ToSet(f.failed) \subseteq ToSet(f.initial)
         /\ f.at \in {"sent", "stored"} => f.next <= Len(f.initial)
         /\ f.at = "end" => f.next = Len(f.initial) + 1
         /\ \A i \in 1..Len(f.initial) :
              i < f.next => OnServer(f.initial[i])' \/ f.initial[i] \in ToSet(f.failed)
         /\ f.at = "stored" /\ f.next \in 1..Len(f.initial) => OnServer(f.initial[f.next])'
<1>1. \A i \in 1..Len(f.initial) : f.initial[i] \in GivenMarks
  BY LenProperties
<1>2. ASSUME NEW i \in 1..Len(f.initial), OnServer(f.initial[i]) PROVE OnServer(f.initial[i])'
  <2>1. PICK mark \in GivenMarks : mark = f.initial[i]
    BY <1>1
  <2>. QED
    BY <1>2, <2>1, OnServerStays
<1>. QED
  BY <1>2 DEF FlusherStands, QueueGrows

LEMMA MarkStaysKept ==
  ASSUME MarkQueueTypeOK, MarkQueueTypeOK', QueueGrows, NEW mark \in given, MarkIsKept(mark),
         mark \in ToSet(pending) => MarkIsKept(mark)'
  PROVE  MarkIsKept(mark)'
<1>1. mark \in GivenMarks
  BY StampTypes
<1>2. CASE Replaced(mark)
  BY <1>2 DEF MarkIsKept, Replaced, QueueGrows
<1>3. CASE OnServer(mark)
  BY <1>1, <1>3, OnServerStays DEF MarkIsKept
<1>4. CASE mark \in matched \cup cut
  BY <1>4 DEF MarkIsKept, QueueGrows
<1>. QED
  BY <1>2, <1>3, <1>4 DEF MarkIsKept

\* What a step leaves in a tab's hand.
LEMMA LeftInHand ==
  ASSUME MarkQueueInv, MarkQueueTypeOK', QueueGrows, NEW u \in Tabs
  PROVE  /\ saver'[u] = saver[u] => SaverStands(saver[u])'
         /\ flusher'[u] = flusher[u] => FlusherStands(flusher[u])'
<1>1. PICK s, f : s = saver[u] /\ f = flusher[u]
  OBVIOUS
<1>2. /\ SaverStands(s) /\ FlusherStands(f)
      /\ f.initial \in Seq(GivenMarks) /\ f.next \in Nat \ {0}
  BY <1>1 DEF MarkQueueInv, MarkQueueTypeOK
<1>3. saver'[u] = s => SaverStands(saver[u])'
  BY <1>2, SaverStays DEF MarkQueueInv, SaverStands
<1>4. f.at = "stored" => f.next \in 1..Len(f.initial)
  BY <1>2, LenProperties DEF FlusherStands
<1>5. flusher'[u] = f => FlusherStands(flusher[u])'
  BY <1>2, <1>4, FlusherStays DEF MarkQueueInv, FlusherStands
<1>. QED
  BY <1>1, <1>3, <1>5

\* A step of tab t: it is enough to look at the tab, at what is no longer pending and
\* at what is given.
LEMMA StepOfTab ==
  ASSUME MarkQueueInv, MarkQueueTypeOK', QueueGrows, OneOfEachKey(ToSet(pending))',
         NEW t \in Tabs,
         \A u \in Tabs \ {t} : saver'[u] = saver[u] /\ flusher'[u] = flusher[u],
         SaverStands(saver[t])', FlusherStands(flusher[t])',
         MarksAreDated',
         \A mark \in ToSet(pending) \cup (given' \ given) : MarkIsKept(mark)'
  PROVE  MarkQueueInv'
<1>1. ASSUME NEW u \in Tabs PROVE SaverStands(saver[u])' /\ FlusherStands(flusher[u])'
  <2>1. CASE u = t
    BY <2>1
  <2>2. CASE u # t
    BY <2>2, LeftInHand
  <2>. QED
    BY <2>1, <2>2
<1>2. ASSUME NEW mark \in given' PROVE MarkIsKept(mark)'
  BY MarkStaysKept DEF MarkQueueInv
<1>. QED
  BY <1>1, <1>2 DEF MarkQueueInv

\* What is written is pending, or cut.
LEMMA WrittenIsPending ==
  ASSUME NEW items \in Seq(GivenMarks), WritePending(items)
  PROVE  /\ pending' \in Seq(GivenMarks) /\ ToSet(pending') \subseteq ToSet(items)
         /\ ToSet(items) \subseteq ToSet(pending') \cup cut' /\ cut \subseteq cut'
<1>. DEFINE n == IF Len(items) > MaxPending THEN Len(items) - MaxPending ELSE 0
<1>1. n \in 0..Len(items)
  BY MarkQueueAssumption
<1>2. /\ pending' = SubSeq(items, n + 1, Len(items))
      /\ cut' = cut \cup ToSet(SubSeq(items, 1, n))
  BY DEF WritePending
<1>. HIDE DEF n
<1>. QED
  BY <1>1, <1>2, CutElements

\* The server ends with the mark or something newer.
LEMMA ReceivedIsOnServer ==
  ASSUME MarkQueueTypeOK, NEW mark \in GivenMarks, Receive(mark)
  PROVE  /\ stored' \in [Marks -> [value : Values \cup {NoMark}, stamp : Nat]]
         /\ \A m \in Marks : stored'[m].stamp >= stored[m].stamp
         /\ stored'[mark.key].stamp >= mark.stamp
<1>1. mark.key \in Marks /\ mark.value \in Values /\ mark.stamp \in Nat
  BY DEF GivenMarks
<1>2. stored \in [Marks -> [value : Values \cup {NoMark}, stamp : Nat]]
  BY DEF MarkQueueTypeOK
<1>3. CASE mark.stamp > stored[mark.key].stamp
  BY <1>1, <1>2, <1>3 DEF Receive
<1>4. CASE ~(mark.stamp > stored[mark.key].stamp)
  BY <1>1, <1>2, <1>4 DEF Receive
<1>. QED
  BY <1>3, <1>4

\* A step after which pending and given are the same.
LEMMA QuietStep ==
  ASSUME MarkQueueInv, NEW t \in Tabs, MarkQueueTypeOK', QueueGrows,
         UNCHANGED <<pending, given>>,
         \A u \in Tabs \ {t} : saver'[u] = saver[u] /\ flusher'[u] = flusher[u],
         SaverStands(saver[t])', FlusherStands(flusher[t])'
  PROVE  MarkQueueInv'
<1>1. OneOfEachKey(ToSet(pending))' /\ MarksAreDated'
  BY DEF MarkQueueInv, OneOfEachKey, MarksAreDated, Now
<1>2. \A mark \in ToSet(pending) \cup (given' \ given) : MarkIsKept(mark)'
  BY DEF MarkIsKept
<1>. QED
  BY <1>1, <1>2, StepOfTab

\* What the tab has in hand.
LEMMA InHand ==
  ASSUME MarkQueueInv, NEW t \in Tabs
  PROVE  /\ SaverStands(saver[t]) /\ FlusherStands(flusher[t])
         /\ saver[t] \in [mark : GivenMarks \cup {NoMark},
                          at : {"none", "sent", "stored", "lost", "matched"}]
         /\ flusher[t] \in [initial : Seq(GivenMarks), next : Nat \ {0},
                            at : {"none", "sent", "stored", "end"}, failed : Seq(GivenMarks)]
         /\ flusher[t].initial \in Seq(GivenMarks) /\ flusher[t].failed \in Seq(GivenMarks)
         /\ flusher[t].next \in Nat \ {0}
BY DEF MarkQueueInv, MarkQueueTypeOK

LEMMA IdleStands ==
  /\ SaverStands(Idle)' /\ FlusherStands(NotFlushing)'
  /\ SaverStands(Idle) /\ FlusherStands(NotFlushing)
  /\ Idle \in [mark : GivenMarks \cup {NoMark}, at : {"none", "sent", "stored", "lost", "matched"}]
  /\ NotFlushing \in [initial : Seq(GivenMarks), next : Nat \ {0},
                      at : {"none", "sent", "stored", "end"}, failed : Seq(GivenMarks)]
<1>1. ToSet(<<>>) = {} /\ Len(<<>>) = 0 /\ <<>> \in Seq(GivenMarks)
  BY DEF ToSet
<1>. QED
  BY <1>1 DEF Idle, NotFlushing, SaverStands, FlusherStands, OneOfEachKey

LEMMA SaveArrivesStands ==
  ASSUME MarkQueueInv, NEW t \in Tabs, SaveArrives(t)
  PROVE  MarkQueueInv'
<1>1. PICK s, f, mark : s = saver[t] /\ f = flusher[t] /\ mark = s.mark
  OBVIOUS
<1>2. /\ s.at = "sent" /\ Receive(mark) /\ saver' = [saver EXCEPT ![t].at = "stored"]
      /\ UNCHANGED <<pending, flusher, given, matched, cut>>
  BY <1>1 DEF SaveArrives
<1>3. SaverStands(s) /\ FlusherStands(f)
  BY <1>1, InHand
<1>4. mark \in given /\ mark \in GivenMarks
  BY <1>1, <1>2, <1>3 DEF SaverStands, MarkQueueInv, MarkQueueTypeOK
<1>5. /\ stored' \in [Marks -> [value : Values \cup {NoMark}, stamp : Nat]]
      /\ \A m \in Marks : stored'[m].stamp >= stored[m].stamp
      /\ stored'[mark.key].stamp >= mark.stamp
  BY <1>2, <1>4, ReceivedIsOnServer DEF MarkQueueInv
<1>6. /\ saver'[t].at = "stored" /\ saver'[t].mark = mark
      /\ \A u \in Tabs \ {t} : saver'[u] = saver[u]
      /\ saver' \in [Tabs -> [mark : GivenMarks \cup {NoMark},
                              at : {"none", "sent", "stored", "lost", "matched"}]]
  BY <1>1, <1>2 DEF MarkQueueInv, MarkQueueTypeOK
<1>7. MarkQueueTypeOK'
  BY <1>2, <1>5, <1>6 DEF MarkQueueInv, MarkQueueTypeOK
<1>8. QueueGrows
  BY <1>2, <1>5 DEF QueueGrows
<1>9. SaverStands(saver[t])'
  BY <1>2, <1>4, <1>5, <1>6 DEF SaverStands, OnServer
<1>10. FlusherStands(flusher[t])'
  BY <1>2, <1>7, <1>8, LeftInHand
<1>. QED
  BY <1>2, <1>6, <1>7, <1>8, <1>9, <1>10, QuietStep

LEMMA FlushArrivesStands ==
  ASSUME MarkQueueInv, NEW t \in Tabs, FlushArrives(t)
  PROVE  MarkQueueInv'
<1>1. PICK f : f = flusher[t]
  OBVIOUS
<1>2. PICK mark : mark = f.initial[f.next]
  OBVIOUS
<1>3. /\ f.at = "sent" /\ Receive(mark) /\ flusher' = [flusher EXCEPT ![t].at = "stored"]
      /\ UNCHANGED <<pending, saver, given, matched, cut>>
  BY <1>1, <1>2 DEF FlushArrives
<1>4. FlusherStands(f) /\ f.initial \in Seq(GivenMarks) /\ f.next \in Nat \ {0}
  BY <1>1, InHand
<1>5. f.next \in 1..Len(f.initial)
  BY <1>3, <1>4, LenProperties DEF FlusherStands
<1>6. mark \in GivenMarks
  BY <1>2, <1>4, <1>5, LenProperties
<1>7. /\ stored' \in [Marks -> [value : Values \cup {NoMark}, stamp : Nat]]
      /\ \A m \in Marks : stored'[m].stamp >= stored[m].stamp
      /\ stored'[mark.key].stamp >= mark.stamp
  BY <1>3, <1>6, ReceivedIsOnServer DEF MarkQueueInv
<1>8. /\ flusher'[t].at = "stored" /\ flusher'[t].initial = f.initial
      /\ flusher'[t].next = f.next /\ flusher'[t].failed = f.failed
      /\ \A u \in Tabs \ {t} : flusher'[u] = flusher[u]
      /\ flusher' \in [Tabs -> [initial : Seq(GivenMarks), next : Nat \ {0},
                                at : {"none", "sent", "stored", "end"}, failed : Seq(GivenMarks)]]
  BY <1>1, <1>3 DEF MarkQueueInv, MarkQueueTypeOK
<1>9. MarkQueueTypeOK'
  BY <1>3, <1>7, <1>8 DEF MarkQueueInv, MarkQueueTypeOK
<1>10. QueueGrows
  BY <1>3, <1>7 DEF QueueGrows
<1>11. FlusherStands(flusher[t])'
  <2>1. OnServer(mark)'
    BY <1>7 DEF OnServer
  <2>. QED
    BY <1>2, <1>3, <1>4, <1>5, <1>8, <1>9, <1>10, <2>1, FlusherStays
       DEF MarkQueueInv, FlusherStands
<1>. QED
  BY <1>3, <1>8, <1>9, <1>10, <1>11, LeftInHand, QuietStep

\* A tab goes on with its next mark.
LEMMA FollowingStands ==
  ASSUME MarkQueueInv, NEW t \in Tabs, NEW f, f = flusher[t], f.at \in {"sent", "stored"},
         NEW failed \in Seq(GivenMarks),
         (f.at = "stored" /\ failed = f.failed) \/ failed = Append(f.failed, f.initial[f.next]),
         flusher' = [flusher EXCEPT ![t] = Following(f, failed)],
         UNCHANGED <<pending, saver, stored, given, matched, cut>>
  PROVE  MarkQueueInv'
<1>1. /\ FlusherStands(f) /\ f.initial \in Seq(GivenMarks) /\ f.next \in Nat \ {0}
      /\ f.failed \in Seq(GivenMarks)
  BY InHand
<1>2. f.next \in 1..Len(f.initial) /\ Len(f.initial) \in Nat
  BY <1>1, LenProperties DEF FlusherStands
<1>3. PICK mark \in GivenMarks : mark = f.initial[f.next]
  BY <1>1, <1>2, LenProperties
<1>4. mark \in ToSet(f.initial)
  BY <1>1, <1>2, <1>3, Elements
<1>5. \/ f.at = "stored" /\ ToSet(failed) = ToSet(f.failed)
      \/ ToSet(failed) = ToSet(f.failed) \cup {mark}
  <2>1. PICK list \in Seq(GivenMarks) : list = f.failed
    BY <1>1
  <2>2. ToSet(Append(list, mark)) = ToSet(list) \cup {mark}
    BY AppendElements
  <2>. QED
    BY <1>3, <2>1, <2>2
<1>6. /\ flusher'[t] = Following(f, failed)
      /\ \A u \in Tabs \ {t} : flusher'[u] = flusher[u]
  BY DEF MarkQueueInv, MarkQueueTypeOK
<1>7. PICK g : g = Following(f, failed)
  OBVIOUS
<1>8. /\ g.initial = f.initial /\ g.next = f.next + 1 /\ g.failed = failed
      /\ g.at = IF f.next = Len(f.initial) THEN "end" ELSE "sent"
      /\ g \in [initial : Seq(GivenMarks), next : Nat \ {0},
                at : {"none", "sent", "stored", "end"}, failed : Seq(GivenMarks)]
  BY <1>1, <1>7 DEF Following
<1>9. MarkQueueTypeOK'
  BY <1>6, <1>7, <1>8 DEF MarkQueueInv, MarkQueueTypeOK
<1>10. QueueGrows
  BY StampTypes DEF QueueGrows, MarkQueueInv
<1>11. FlusherStands(g)
  <2>1. ToSet(g.failed) \subseteq ToSet(g.initial)
    BY <1>1, <1>4, <1>5, <1>8 DEF FlusherStands
  <2>2. (g.at = "sent" => g.next <= Len(g.initial)) /\ (g.at = "end" => g.next = Len(g.initial) + 1)
    BY <1>2, <1>8
  <2>3. ASSUME NEW i \in 1..Len(g.initial), i < g.next
        PROVE  OnServer(g.initial[i]) \/ g.initial[i] \in ToSet(g.failed)
    <3>1. CASE i < f.next
      BY <1>1, <1>5, <1>8, <2>3, <3>1 DEF FlusherStands
    <3>2. CASE i = f.next
      BY <1>1, <1>3, <1>5, <1>8, <3>2 DEF FlusherStands
    <3>. QED
      BY <1>2, <1>8, <2>3, <3>1, <3>2
  <2>. QED
    BY <1>1, <1>8, <2>1, <2>2, <2>3 DEF FlusherStands
<1>12. FlusherStands(flusher[t])'
  BY <1>6, <1>7, <1>8, <1>9, <1>10, <1>11, FlusherStays DEF MarkQueueInv, FlusherStands
<1>. QED
  BY <1>6, <1>9, <1>10, <1>12, LeftInHand, QuietStep

LEMMA QuietActionsStand ==
  ASSUME MarkQueueInv, NEW t \in Tabs,
         \/ SaveLost(t) \/ ReadBack(t) \/ FlushStart(t) \/ FlushAnswered(t) \/ FlushLost(t)
         \/ CloseTab(t)
  PROVE  MarkQueueInv'
<1>1. CASE SaveLost(t)
  <2>1. PICK s : s = saver[t]
    OBVIOUS
  <2>2. /\ s.at \in {"sent", "stored"} /\ saver' = [saver EXCEPT ![t].at = "lost"]
        /\ UNCHANGED <<pending, flusher, stored, given, matched, cut>>
    BY <1>1, <2>1 DEF SaveLost
  <2>3. /\ saver'[t].at = "lost" /\ saver'[t].mark = s.mark
        /\ \A u \in Tabs \ {t} : saver'[u] = saver[u]
        /\ MarkQueueTypeOK'
    BY <2>1, <2>2 DEF MarkQueueInv, MarkQueueTypeOK
  <2>4. QueueGrows
    BY <2>2, StampTypes DEF QueueGrows, MarkQueueInv
  <2>5. SaverStands(saver[t])'
    BY <2>1, <2>2, <2>3, InHand DEF SaverStands
  <2>. QED
    BY <2>2, <2>3, <2>4, <2>5, LeftInHand, QuietStep
<1>2. CASE ReadBack(t)
  <2>1. PICK mark : mark = saver[t].mark
    OBVIOUS
  <2>2. /\ saver[t].at = "lost"
        /\ \/ saver' = [saver EXCEPT ![t] = [mark |-> mark, at |-> "matched"]]
              /\ matched' = matched \cup {mark}
           \/ saver' = [saver EXCEPT ![t] = Idle] /\ matched' = matched
        /\ UNCHANGED <<pending, flusher, stored, given, cut>>
    BY <1>2, <2>1 DEF ReadBack
  <2>3. mark \in given /\ mark \in GivenMarks
    BY <2>1, <2>2, InHand DEF SaverStands, MarkQueueInv, MarkQueueTypeOK
  <2>4. /\ \/ saver'[t] = [mark |-> mark, at |-> "matched"] /\ mark \in matched'
           \/ saver'[t] = Idle
        /\ \A u \in Tabs \ {t} : saver'[u] = saver[u]
    BY <2>2 DEF MarkQueueInv, MarkQueueTypeOK
  <2>5. saver'[t] \in [mark : GivenMarks \cup {NoMark},
                       at : {"none", "sent", "stored", "lost", "matched"}]
    BY <2>3, <2>4, IdleStands
  <2>6. saver' = [saver EXCEPT ![t] = saver'[t]]
    BY <2>2, <2>4
  <2>7. MarkQueueTypeOK'
    BY <2>2, <2>5, <2>6 DEF MarkQueueInv, MarkQueueTypeOK
  <2>8. QueueGrows
    BY <2>2, StampTypes DEF QueueGrows, MarkQueueInv
  <2>9. SaverStands(saver[t])'
    <3>1. CASE saver'[t] = [mark |-> mark, at |-> "matched"] /\ mark \in matched'
      BY <2>2, <2>3, <3>1 DEF SaverStands
    <3>2. CASE saver'[t] = Idle
      BY <3>2, IdleStands DEF SaverStands
    <3>. QED
      BY <2>4, <3>1, <3>2
  <2>. QED
    BY <2>2, <2>4, <2>7, <2>8, <2>9, LeftInHand, QuietStep
<1>3. CASE FlushStart(t)
  <2>1. PICK g : g = [initial |-> pending, next |-> 1, at |-> "sent", failed |-> <<>>]
    OBVIOUS
  <2>2. /\ pending # <<>> /\ flusher' = [flusher EXCEPT ![t] = g]
        /\ UNCHANGED <<pending, saver, stored, given, matched, cut>>
    BY <1>3, <2>1 DEF FlushStart
  <2>3. pending \in Seq(GivenMarks) /\ Len(pending) >= 1 /\ <<>> \in Seq(GivenMarks)
    BY <2>2 DEF MarkQueueInv, MarkQueueTypeOK
  <2>4. /\ flusher'[t] = g /\ \A u \in Tabs \ {t} : flusher'[u] = flusher[u]
        /\ MarkQueueTypeOK'
    BY <2>1, <2>2, <2>3 DEF MarkQueueInv, MarkQueueTypeOK
  <2>5. QueueGrows
    BY <2>2, StampTypes DEF QueueGrows, MarkQueueInv
  <2>6. FlusherStands(flusher[t])'
    <3>1. ToSet(g.failed) = {} /\ g.initial = pending /\ g.next = 1 /\ g.at = "sent"
      BY <2>1 DEF ToSet
    <3>2. \A i \in 1..Len(pending) : ~(i < 1)
      BY <2>3
    <3>3. ToSet(pending) \subseteq given' /\ OneOfEachKey(ToSet(pending))
      BY <2>2 DEF MarkQueueInv, MarkQueueTypeOK
    <3>. QED
      BY <2>2, <2>3, <2>4, <3>1, <3>2, <3>3 DEF FlusherStands
  <2>. QED
    BY <2>2, <2>4, <2>5, <2>6, LeftInHand, QuietStep
<1>4. CASE FlushAnswered(t)
  <2>1. PICK f : f = flusher[t]
    OBVIOUS
  <2>2. f.failed \in Seq(GivenMarks)
    BY <2>1, InHand
  <2>. QED
    BY <1>4, <2>1, <2>2, FollowingStands DEF FlushAnswered
<1>5. CASE FlushLost(t)
  <2>1. PICK f : f = flusher[t]
    OBVIOUS
  <2>2. FlusherStands(f) /\ f.initial \in Seq(GivenMarks) /\ f.failed \in Seq(GivenMarks)
        /\ f.next \in Nat \ {0} /\ f.at \in {"sent", "stored"}
    BY <1>5, <2>1, InHand DEF FlushLost
  <2>3. f.initial[f.next] \in GivenMarks
    BY <2>2, LenProperties DEF FlusherStands
  <2>4. Append(f.failed, f.initial[f.next]) \in Seq(GivenMarks)
    BY <2>2, <2>3, AppendProperties
  <2>. QED
    BY <1>5, <2>1, <2>2, <2>4, FollowingStands DEF FlushLost
<1>6. CASE CloseTab(t)
  <2>1. /\ saver' = [saver EXCEPT ![t] = Idle] /\ flusher' = [flusher EXCEPT ![t] = NotFlushing]
        /\ UNCHANGED <<pending, stored, given, matched, cut>>
    BY <1>6 DEF CloseTab
  <2>2. /\ saver'[t] = Idle /\ flusher'[t] = NotFlushing
        /\ \A u \in Tabs \ {t} : saver'[u] = saver[u] /\ flusher'[u] = flusher[u]
        /\ MarkQueueTypeOK'
    BY <2>1, IdleStands DEF MarkQueueInv, MarkQueueTypeOK
  <2>3. QueueGrows
    BY <2>1, StampTypes DEF QueueGrows, MarkQueueInv
  <2>4. SaverStands(saver[t])' /\ FlusherStands(flusher[t])'
    BY <2>2, IdleStands DEF SaverStands, FlusherStands
  <2>. QED
    BY <2>1, <2>2, <2>3, <2>4, QuietStep
<1>. QED
  BY <1>1, <1>2, <1>3, <1>4, <1>5, <1>6

\* A list that is written keeps what is given, one mark of a key.
LEMMA WriteStep ==
  ASSUME MarkQueueInv, NEW items \in Seq(GivenMarks), WritePending(items),
         given \subseteq given', given' \subseteq GivenMarks, IsFiniteSet(given'),
         ToSet(items) \subseteq given', OneOfEachKey(ToSet(items)),
         saver' \in [Tabs -> [mark : GivenMarks \cup {NoMark},
                             at : {"none", "sent", "stored", "lost", "matched"}]],
         flusher' \in [Tabs -> [initial : Seq(GivenMarks), next : Nat \ {0},
                               at : {"none", "sent", "stored", "end"}, failed : Seq(GivenMarks)]],
         UNCHANGED <<stored, matched>>
  PROVE  /\ MarkQueueTypeOK' /\ QueueGrows /\ OneOfEachKey(ToSet(pending))'
         /\ \A mark \in ToSet(items) : MarkIsKept(mark)'
<1>1. /\ pending' \in Seq(GivenMarks) /\ ToSet(pending') \subseteq ToSet(items)
      /\ ToSet(items) \subseteq ToSet(pending') \cup cut' /\ cut \subseteq cut'
  BY WrittenIsPending
<1>2. MarkQueueTypeOK'
  BY <1>1 DEF MarkQueueInv, MarkQueueTypeOK
<1>3. QueueGrows
  BY <1>1, StampTypes DEF MarkQueueInv, QueueGrows
<1>4. OneOfEachKey(ToSet(pending))'
  BY <1>1 DEF OneOfEachKey
<1>5. \A mark \in ToSet(items) : MarkIsKept(mark)'
  BY <1>1 DEF MarkIsKept
<1>. QED
  BY <1>2, <1>3, <1>4, <1>5

LEMMA DatedStays ==
  ASSUME MarkQueueInv, given' = given
  PROVE  MarksAreDated' /\ given' \ given = {}
BY DEF MarkQueueInv, MarksAreDated, Now

\* What is acknowledged was delivered, or its value was found on the server.
LEMMA SettledStands ==
  ASSUME MarkQueueInv, NEW t \in Tabs, SaveAnswered(t) \/ Reconcile(t)
  PROVE  MarkQueueInv'
<1>1. PICK s, items : s = saver[t] /\ items = Without(pending, {s.mark})
  OBVIOUS
<1>2. /\ s.at \in {"stored", "matched"} /\ WritePending(items)
      /\ saver' = [saver EXCEPT ![t] = Idle]
      /\ UNCHANGED <<flusher, stored, given, matched>>
  BY <1>1 DEF SaveAnswered, Reconcile, Acknowledged
<1>3. SaverStands(s)
  BY <1>1, InHand
<1>4. /\ pending \in Seq(GivenMarks) /\ ToSet(pending) \subseteq given
      /\ OneOfEachKey(ToSet(pending))
      /\ given \in SUBSET GivenMarks /\ IsFiniteSet(given)
  BY DEF MarkQueueInv, MarkQueueTypeOK
<1>5. items \in Seq(GivenMarks) /\ ToSet(items) = ToSet(pending) \ {s.mark}
  BY <1>1, <1>4, WithoutElements
<1>6. OneOfEachKey(ToSet(items))
  BY <1>4, <1>5 DEF OneOfEachKey
<1>7. /\ saver'[t] = Idle /\ \A u \in Tabs \ {t} : saver'[u] = saver[u]
      /\ saver' \in [Tabs -> [mark : GivenMarks \cup {NoMark},
                              at : {"none", "sent", "stored", "lost", "matched"}]]
  BY <1>2, IdleStands DEF MarkQueueInv, MarkQueueTypeOK
<1>8. flusher' \in [Tabs -> [initial : Seq(GivenMarks), next : Nat \ {0},
                            at : {"none", "sent", "stored", "end"}, failed : Seq(GivenMarks)]]
  BY <1>2 DEF MarkQueueInv, MarkQueueTypeOK
<1>9. /\ MarkQueueTypeOK' /\ QueueGrows /\ OneOfEachKey(ToSet(pending))'
      /\ \A mark \in ToSet(items) : MarkIsKept(mark)'
  BY <1>2, <1>4, <1>5, <1>6, <1>7, <1>8, WriteStep
<1>10. SaverStands(saver[t])'
  BY <1>7, IdleStands DEF SaverStands
<1>11. s.mark \in ToSet(pending) => MarkIsKept(s.mark)'
  BY <1>2, <1>3 DEF SaverStands, MarkIsKept, OnServer
<1>12. \A mark \in ToSet(pending) : MarkIsKept(mark)'
  BY <1>5, <1>9, <1>11
<1>13. FlusherStands(flusher[t])'
  BY <1>2, <1>9, LeftInHand
<1>14. MarksAreDated' /\ given' \ given = {}
  BY <1>2, DatedStays
<1>. QED
  BY <1>2, <1>7, <1>9, <1>10, <1>12, <1>13, <1>14, StepOfTab

\* What a flush takes from the list was delivered, or failed and is put back.
LEMMA FlushEndStands ==
  ASSUME MarkQueueInv, NEW t \in Tabs, FlushEnd(t)
  PROVE  MarkQueueInv'
<1>1. PICK f, fresh : f = flusher[t] /\ fresh = Without(pending, ToSet(f.initial))
  OBVIOUS
<1>2. PICK replaced : replaced = {i \in ToSet(f.failed) : OfKey(i.key, fresh) # {}}
  OBVIOUS
<1>3. PICK back : back = Without(f.failed, replaced)
  OBVIOUS
<1>4. PICK items : items = fresh \o back
  OBVIOUS
<1>5. /\ f.at = "end" /\ WritePending(items)
      /\ flusher' = [flusher EXCEPT ![t] = NotFlushing]
      /\ UNCHANGED <<saver, stored, given, matched>>
  BY <1>1, <1>2, <1>3, <1>4 DEF FlushEnd, Remaining
<1>6. FlusherStands(f) /\ f.initial \in Seq(GivenMarks) /\ f.failed \in Seq(GivenMarks)
  BY <1>1, InHand
<1>7. /\ pending \in Seq(GivenMarks) /\ ToSet(pending) \subseteq given
      /\ OneOfEachKey(ToSet(pending))
      /\ given \in SUBSET GivenMarks /\ IsFiniteSet(given)
  BY DEF MarkQueueInv, MarkQueueTypeOK
<1>8. fresh \in Seq(GivenMarks) /\ ToSet(fresh) = ToSet(pending) \ ToSet(f.initial)
  BY <1>1, <1>7, WithoutElements
<1>9. back \in Seq(GivenMarks) /\ ToSet(back) = ToSet(f.failed) \ replaced
  BY <1>3, <1>6, WithoutElements
<1>10. items \in Seq(GivenMarks) /\ ToSet(items) = ToSet(fresh) \cup ToSet(back)
  BY <1>4, <1>8, <1>9, ConcatElements
<1>11. \A i \in ToSet(f.failed) : i \in replaced <=> \E j \in ToSet(fresh) : j.key = i.key
  BY <1>2 DEF OfKey
<1>12. OneOfEachKey(ToSet(items))
  BY <1>6, <1>7, <1>8, <1>9, <1>10, <1>11 DEF OneOfEachKey, FlusherStands
<1>13. ToSet(items) \subseteq given
  BY <1>6, <1>7, <1>8, <1>9, <1>10 DEF FlusherStands
<1>14. /\ flusher'[t] = NotFlushing /\ \A u \in Tabs \ {t} : flusher'[u] = flusher[u]
       /\ flusher' \in [Tabs -> [initial : Seq(GivenMarks), next : Nat \ {0},
                                 at : {"none", "sent", "stored", "end"}, failed : Seq(GivenMarks)]]
  BY <1>5, IdleStands DEF MarkQueueInv, MarkQueueTypeOK
<1>15. saver' \in [Tabs -> [mark : GivenMarks \cup {NoMark},
                           at : {"none", "sent", "stored", "lost", "matched"}]]
  BY <1>5 DEF MarkQueueInv, MarkQueueTypeOK
<1>16. /\ MarkQueueTypeOK' /\ QueueGrows /\ OneOfEachKey(ToSet(pending))'
       /\ \A mark \in ToSet(items) : MarkIsKept(mark)'
  BY <1>5, <1>7, <1>10, <1>12, <1>13, <1>14, <1>15, WriteStep
<1>17. ASSUME NEW mark \in ToSet(pending) PROVE MarkIsKept(mark)'
  <2>1. CASE mark \notin ToSet(f.initial)
    BY <1>8, <1>10, <1>16, <2>1
  <2>2. CASE mark \in ToSet(f.failed)
    <3>1. mark \notin replaced
      BY <1>6, <1>7, <1>8, <1>11, <2>2 DEF OneOfEachKey, FlusherStands
    <3>. QED
      BY <1>9, <1>10, <1>16, <2>2, <3>1
  <2>3. CASE mark \in ToSet(f.initial) /\ mark \notin ToSet(f.failed)
    <3>1. PICK i \in 1..Len(f.initial) : mark = f.initial[i]
      BY <1>6, <2>3, Elements
    <3>2. OnServer(mark)
      BY <1>5, <1>6, <2>3, <3>1, Elements DEF FlusherStands
    <3>. QED
      BY <1>5, <3>2 DEF MarkIsKept, OnServer
  <2>. QED
    BY <2>1, <2>2, <2>3
<1>18. FlusherStands(flusher[t])'
  BY <1>14, IdleStands DEF FlusherStands
<1>19. SaverStands(saver[t])'
  BY <1>5, <1>16, LeftInHand
<1>20. MarksAreDated' /\ given' \ given = {}
  BY <1>5, DatedStays
<1>. QED
  BY <1>5, <1>14, <1>16, <1>17, <1>18, <1>19, <1>20, StepOfTab

\* A mark replaces what is pending for its key, which is older.
LEMMA GiveStands ==
  ASSUME MarkQueueInv, NEW t \in Tabs, NEW m \in Marks, NEW v \in Values, Give(t, m, v)
  PROVE  MarkQueueInv'
<1>1. PICK mark : mark = [key |-> m, value |-> v, stamp |-> Now]
  OBVIOUS
<1>2. PICK others : others = Without(pending, OfKey(m, pending))
  OBVIOUS
<1>3. PICK items : items = Append(others, mark)
  OBVIOUS
<1>4. /\ WritePending(items) /\ saver' = [saver EXCEPT ![t] = [mark |-> mark, at |-> "sent"]]
      /\ given' = given \cup {mark}
      /\ UNCHANGED <<flusher, stored, matched>>
  BY <1>1, <1>2, <1>3 DEF Give
<1>5. Now = Cardinality(given) + 1 /\ Now \in Nat \ {0} /\ Cardinality(given) \in Nat
  BY StampTypes DEF MarkQueueInv
<1>6. mark \in GivenMarks /\ mark.key = m /\ mark.stamp = Now
  BY <1>1, <1>5 DEF GivenMarks
<1>7. /\ pending \in Seq(GivenMarks) /\ ToSet(pending) \subseteq given
      /\ OneOfEachKey(ToSet(pending))
      /\ given \in SUBSET GivenMarks /\ IsFiniteSet(given)
  BY DEF MarkQueueInv, MarkQueueTypeOK
<1>8. others \in Seq(GivenMarks) /\ ToSet(others) = {i \in ToSet(pending) : i.key # m}
  BY <1>2, <1>7, WithoutElements DEF OfKey
<1>9. items \in Seq(GivenMarks) /\ ToSet(items) = ToSet(others) \cup {mark}
  BY <1>3, <1>6, <1>8, AppendElements
<1>10. OneOfEachKey(ToSet(items))
  BY <1>6, <1>7, <1>8, <1>9 DEF OneOfEachKey
<1>11. mark \notin given
  BY <1>5, <1>6 DEF MarkQueueInv, MarksAreDated
<1>12. IsFiniteSet(given') /\ Cardinality(given') = Cardinality(given) + 1
  BY <1>4, <1>7, <1>11, FS_AddElement
<1>13. MarksAreDated'
  <2>1. \A g \in given : g.stamp < Now /\ g.stamp \in Nat
    BY <1>7 DEF MarkQueueInv, MarksAreDated, GivenMarks
  <2>2. Now' = Now + 1
    BY <1>5, <1>12 DEF Now
  <2>3. \A g \in given' : g.stamp < Now'
    BY <1>4, <1>5, <1>6, <2>1, <2>2
  <2>. QED
    BY <2>3 DEF MarksAreDated
<1>14. /\ saver'[t] = [mark |-> mark, at |-> "sent"]
       /\ \A u \in Tabs \ {t} : saver'[u] = saver[u]
       /\ saver' \in [Tabs -> [mark : GivenMarks \cup {NoMark},
                               at : {"none", "sent", "stored", "lost", "matched"}]]
  BY <1>4, <1>6 DEF MarkQueueInv, MarkQueueTypeOK
<1>15. flusher' \in [Tabs -> [initial : Seq(GivenMarks), next : Nat \ {0},
                             at : {"none", "sent", "stored", "end"}, failed : Seq(GivenMarks)]]
  BY <1>4 DEF MarkQueueInv, MarkQueueTypeOK
<1>16. given \subseteq given' /\ given' \subseteq GivenMarks /\ ToSet(items) \subseteq given'
  BY <1>4, <1>6, <1>7, <1>8, <1>9
<1>17. /\ MarkQueueTypeOK' /\ QueueGrows /\ OneOfEachKey(ToSet(pending))'
       /\ \A i \in ToSet(items) : MarkIsKept(i)'
  BY <1>4, <1>9, <1>10, <1>12, <1>14, <1>15, <1>16, WriteStep
<1>18. ASSUME NEW i \in ToSet(pending) \cup (given' \ given) PROVE MarkIsKept(i)'
  <2>1. CASE i \in ToSet(items)
    BY <1>17, <2>1
  <2>2. CASE i \in ToSet(pending) /\ i.key = m
    <3>1. mark \in given' /\ mark.key = i.key /\ mark.stamp > i.stamp
      BY <1>4, <1>5, <1>6, <1>7, <2>2 DEF MarkQueueInv, MarksAreDated, GivenMarks
    <3>. QED
      BY <3>1 DEF MarkIsKept, Replaced
  <2>. QED
    BY <1>4, <1>8, <1>9, <2>1, <2>2
<1>19. SaverStands(saver[t])'
  BY <1>4, <1>14 DEF SaverStands
<1>20. FlusherStands(flusher[t])'
  BY <1>4, <1>17, LeftInHand
<1>. QED
  BY <1>4, <1>13, <1>14, <1>17, <1>18, <1>19, <1>20, StepOfTab

LEMMA OtherDeviceStands ==
  ASSUME MarkQueueInv, NEW m \in Marks, NEW v \in Values, OtherDevice(m, v)
  PROVE  MarkQueueInv'
<1>1. PICK s \in (stored[m].stamp + 1)..Cardinality(given) :
        Receive([key |-> m, value |-> v, stamp |-> s])
  BY DEF OtherDevice
<1>2. PICK mark : mark = [key |-> m, value |-> v, stamp |-> s]
  OBVIOUS
<1>3. mark \in GivenMarks /\ Receive(mark)
  BY <1>1, <1>2, StampTypes DEF MarkQueueInv, GivenMarks
<1>4. UNCHANGED <<pending, saver, flusher, given, matched, cut>>
  BY DEF OtherDevice
<1>5. /\ stored' \in [Marks -> [value : Values \cup {NoMark}, stamp : Nat]]
      /\ \A n \in Marks : stored'[n].stamp >= stored[n].stamp
  BY <1>3, ReceivedIsOnServer DEF MarkQueueInv
<1>6. MarkQueueTypeOK' /\ QueueGrows
  BY <1>4, <1>5 DEF MarkQueueInv, MarkQueueTypeOK, QueueGrows
<1>7. ASSUME NEW t \in Tabs PROVE SaverStands(saver[t])' /\ FlusherStands(flusher[t])'
  BY <1>4, <1>6, LeftInHand
<1>8. OneOfEachKey(ToSet(pending))' /\ MarksAreDated'
  BY <1>4 DEF MarkQueueInv, OneOfEachKey, MarksAreDated, Now
<1>9. ASSUME NEW i \in given' PROVE MarkIsKept(i)'
  <2>1. i \in ToSet(pending) => MarkIsKept(i)'
    BY <1>4 DEF MarkIsKept
  <2>. QED
    BY <1>4, <1>6, <2>1, MarkStaysKept DEF MarkQueueInv
<1>. QED
  BY <1>6, <1>7, <1>8, <1>9 DEF MarkQueueInv

-----------------------------------------------------------------------------
LEMMA MarkQueueStarts == MarkQueueInit => MarkQueueInv
<1>. SUFFICES ASSUME MarkQueueInit PROVE MarkQueueInv
  OBVIOUS
<1>1. ToSet(<<>>) = {} /\ <<>> \in Seq(GivenMarks)
  BY DEF ToSet
<1>2. MarkQueueTypeOK
  BY <1>1, FS_EmptySet, IdleStands DEF MarkQueueInit, MarkQueueTypeOK
<1>3. OneOfEachKey(ToSet(pending)) /\ MarksAreDated
  BY <1>1 DEF MarkQueueInit, OneOfEachKey, MarksAreDated
<1>. QED
  BY <1>2, <1>3, IdleStands DEF MarkQueueInit, MarkQueueInv

LEMMA MarkQueueSteps == MarkQueueInv /\ [MarkQueueNext]_markQueueVars => MarkQueueInv'
<1>. SUFFICES ASSUME MarkQueueInv, [MarkQueueNext]_markQueueVars PROVE MarkQueueInv'
  OBVIOUS
<1>1. CASE UNCHANGED markQueueVars
  <2>1. UNCHANGED <<pending, saver, flusher, stored, given, matched, cut>>
    BY <1>1 DEF markQueueVars
  <2>. QED
    BY <2>1 DEF MarkQueueInv, MarkQueueTypeOK, OneOfEachKey, SaverStands, FlusherStands,
                MarksAreDated, MarkIsKept, Replaced, OnServer, Now
<1>2. ASSUME NEW t \in Tabs,
             \/ \E m \in Marks, v \in Values : Give(t, m, v)
             \/ SaveArrives(t) \/ SaveAnswered(t) \/ SaveLost(t) \/ ReadBack(t) \/ Reconcile(t)
             \/ FlushStart(t) \/ FlushArrives(t) \/ FlushAnswered(t) \/ FlushLost(t) \/ FlushEnd(t)
             \/ CloseTab(t)
      PROVE  MarkQueueInv'
  BY <1>2, GiveStands, SaveArrivesStands, SettledStands, FlushArrivesStands, FlushEndStands,
     QuietActionsStand
<1>. QED
  BY <1>1, <1>2, OtherDeviceStands DEF MarkQueueNext

\* The last mark given for a target's fields is pending until the server has it or
\* something newer, or has its value, or the list was too long
\* (queuePendingUserMark, acknowledgePendingUserMark, flushPendingUserMarks): for any
\* number of tabs and marks, whatever is lost or closed.
THEOREM MarksAreNeverLost == MarkQueueSpec => []MarksAreKept
<1>1. MarkQueueInv => MarksAreKept
  BY DEF MarkQueueInv, MarksAreKept, MarkIsKept, Replaced, OnServer
<1>. QED
  BY <1>1, MarkQueueStarts, MarkQueueSteps, PTL DEF MarkQueueSpec
=============================================================================
