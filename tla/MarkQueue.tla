----------------------------- MODULE MarkQueue -----------------------------
(***************************************************************************)
(* The marks a browser has not delivered yet (web-v2/src/lib/               *)
(* userMarkQueue.ts, and its callers in App.tsx).  One item of localStorage *)
(* holds the list; the tabs share it and each function reads, changes and   *)
(* writes it without an await in between, so one step.  Between the steps   *)
(* any tab may run, requests and answers may be lost, and tabs are closed.  *)
(*                                                                         *)
(* A tab has one save and one flush under way; more saves of one tab are    *)
(* like saves of several.  The clock of the device is right and does not go *)
(* back (ProgressQueue has one that is wrong); storage that cannot be       *)
(* written is left out: then nothing is queued.                             *)
(***************************************************************************)
EXTENDS Integers, SequencesExt

CONSTANTS
  Tabs,
  Marks,        \* a target and the names of the fields set: the key of an item
  Values,
  MaxPending,   \* 100 in the code
  MaxMarks,     \* bound on marks given, which is the device's clock too
  NoMark        \* nothing under way, nothing stored

ASSUME MarkQueueAssumption ==
  /\ MaxPending \in Nat \ {0}
  /\ MaxMarks \in Nat
  /\ NoMark \notin Values

VARIABLES
  pending,   \* the list in localStorage
  saver,     \* of a tab: the mark it sends and how far that is
  flusher,   \* of a tab: the list it took, what of it is sent, what failed
  stored,    \* of the server: value and clock of each field
  given,     \* marks given on this device so far
  matched,      \* marks whose value was found on the server after their send failed
  cut        \* marks cut from a list that was too long

markQueueVars == <<pending, saver, flusher, stored, given, matched, cut>>

Idle == [mark |-> NoMark, at |-> "none"]
NotFlushing == [initial |-> <<>>, next |-> 1, at |-> "none", failed |-> <<>>]

MarkQueueInit ==
  /\ pending = <<>>
  /\ saver = [t \in Tabs |-> Idle]
  /\ flusher = [t \in Tabs |-> NotFlushing]
  /\ stored = [m \in Marks |-> [value |-> NoMark, stamp |-> 0]]
  /\ given = {}
  /\ matched = {}
  /\ cut = {}

Now == Cardinality(given) + 1

-----------------------------------------------------------------------------
\* items.filter: what is not gone, in its order.
Without(items, gone) ==
  LET kept[n \in 0..Len(items)] ==
        IF n = 0 THEN <<>>
        ELSE IF items[n] \in gone THEN kept[n - 1] ELSE Append(kept[n - 1], items[n])
  IN  kept[Len(items)]

OfKey(m, items) == {i \in ToSet(items) : i.key = m}

\* writePending: the last MaxPending of the list.
WritePending(items) ==
  LET excess == IF Len(items) > MaxPending THEN Len(items) - MaxPending ELSE 0
  IN  /\ pending' = SubSeq(items, excess + 1, Len(items))
      /\ cut' = cut \cup ToSet(SubSeq(items, 1, excess))

\* acknowledgePendingUserMark: of its key the mark itself, and not a newer one.
\* (Mutant: whatever has its key.)
AcknowledgedKey(mark, items) == Without(items, OfKey(mark.key, items))
Acknowledged(mark, items) == Without(items, {mark})

\* The server keeps the newest value of a field (ReadState has the details).
Receive(mark) ==
  stored' = IF mark.stamp > stored[mark.key].stamp
              THEN [stored EXCEPT ![mark.key] = [value |-> mark.value, stamp |-> mark.stamp]]
              ELSE stored

\* queuePendingUserMark, and the request that follows at once.
Give(t, m, v) ==
  LET mark == [key |-> m, value |-> v, stamp |-> Now]
  IN  /\ saver[t] = Idle
      /\ Now <= MaxMarks
      /\ WritePending(Append(Without(pending, OfKey(m, pending)), mark))
      /\ saver' = [saver EXCEPT ![t] = [mark |-> mark, at |-> "sent"]]
      /\ given' = given \cup {mark}
      /\ UNCHANGED <<flusher, stored, matched>>

SaveArrives(t) ==
  /\ saver[t].at = "sent"
  /\ Receive(saver[t].mark)
  /\ saver' = [saver EXCEPT ![t].at = "stored"]
  /\ UNCHANGED <<pending, flusher, given, matched, cut>>

\* Any answer settles the mark: a refused one gave way to something newer.
SaveAnswered(t) ==
  /\ saver[t].at = "stored"
  /\ WritePending(Acknowledged(saver[t].mark, pending))
  /\ saver' = [saver EXCEPT ![t] = Idle]
  /\ UNCHANGED <<flusher, stored, given, matched>>

\* The request or its answer is lost.  The mark is read back from the server ...
SaveLost(t) ==
  /\ saver[t].at \in {"sent", "stored"}
  /\ saver' = [saver EXCEPT ![t].at = "lost"]
  /\ UNCHANGED <<pending, flusher, stored, given, matched, cut>>

ReadBack(t) ==
  LET mark == saver[t].mark
      same == stored[mark.key].value = mark.value
  IN  /\ saver[t].at = "lost"
      /\ saver' = [saver EXCEPT ![t] = IF same THEN [mark |-> mark, at |-> "matched"] ELSE Idle]
      /\ matched' = IF same THEN matched \cup {mark} ELSE matched
      /\ UNCHANGED <<pending, flusher, stored, given, cut>>

\* ... and settled when the server has the value, whoever gave it.
Reconcile(t) ==
  /\ saver[t].at = "matched"
  /\ WritePending(Acknowledged(saver[t].mark, pending))
  /\ saver' = [saver EXCEPT ![t] = Idle]
  /\ UNCHANGED <<flusher, stored, given, matched>>

-----------------------------------------------------------------------------
\* flushPendingUserMarks: one at a time in a tab.
FlushStart(t) ==
  /\ flusher[t] = NotFlushing
  /\ pending # <<>>
  /\ flusher' = [flusher EXCEPT ![t] =
                 [initial |-> pending, next |-> 1, at |-> "sent", failed |-> <<>>]]
  /\ UNCHANGED <<pending, saver, stored, given, matched, cut>>

FlushArrives(t) ==
  /\ flusher[t].at = "sent"
  /\ Receive(flusher[t].initial[flusher[t].next])
  /\ flusher' = [flusher EXCEPT ![t].at = "stored"]
  /\ UNCHANGED <<pending, saver, given, matched, cut>>

\* The next item is sent after an answer or a failure of the one before.
Following(f, failed) ==
  [initial |-> f.initial, next |-> f.next + 1,
   at |-> IF f.next = Len(f.initial) THEN "end" ELSE "sent", failed |-> failed]

FlushAnswered(t) ==
  /\ flusher[t].at = "stored"
  /\ flusher' = [flusher EXCEPT ![t] = Following(@, @.failed)]
  /\ UNCHANGED <<pending, saver, stored, given, matched, cut>>

FlushLost(t) ==
  LET f == flusher[t]
  IN  /\ f.at \in {"sent", "stored"}
      /\ flusher' = [flusher EXCEPT ![t] =
                       Following(f, Append(f.failed, f.initial[f.next]))]
      /\ UNCHANGED <<pending, saver, stored, given, matched, cut>>

\* What was queued meanwhile stays, and replaces what failed.
\* (Mutant: only what failed is written.)
RemainingFailed(f, items) == f.failed
Remaining(f, items) ==
  LET fresh == Without(items, ToSet(f.initial))
      replaced == {i \in ToSet(f.failed) : OfKey(i.key, fresh) # {}}
  IN  fresh \o Without(f.failed, replaced)

FlushEnd(t) ==
  /\ flusher[t].at = "end"
  /\ WritePending(Remaining(flusher[t], pending))
  /\ flusher' = [flusher EXCEPT ![t] = NotFlushing]
  /\ UNCHANGED <<saver, stored, given, matched>>

-----------------------------------------------------------------------------
\* A tab is closed or reloaded; the list stays.
CloseTab(t) ==
  /\ saver[t] # Idle \/ flusher[t] # NotFlushing
  /\ saver' = [saver EXCEPT ![t] = Idle]
  /\ flusher' = [flusher EXCEPT ![t] = NotFlushing]
  /\ UNCHANGED <<pending, stored, given, matched, cut>>

\* A mark of another device, given at any time up to now; an older one changes nothing.
OtherDevice(m, v) ==
  /\ \E s \in (stored[m].stamp + 1)..Cardinality(given) :
       Receive([key |-> m, value |-> v, stamp |-> s])
  /\ UNCHANGED <<pending, saver, flusher, given, matched, cut>>

MarkQueueNext ==
  \/ \E t \in Tabs :
       \/ \E m \in Marks, v \in Values : Give(t, m, v)
       \/ SaveArrives(t) \/ SaveAnswered(t) \/ SaveLost(t) \/ ReadBack(t) \/ Reconcile(t)
       \/ FlushStart(t) \/ FlushArrives(t) \/ FlushAnswered(t) \/ FlushLost(t) \/ FlushEnd(t)
       \/ CloseTab(t)
  \/ \E m \in Marks, v \in Values : OtherDevice(m, v)

MarkQueueSpec == MarkQueueInit /\ [][MarkQueueNext]_markQueueVars

-----------------------------------------------------------------------------
\* The last mark given for a target's fields is in the list until the server has it
\* or something newer, or was seen to have its value, unless more marks were pending
\* than the list holds: tabs, flushes and lost answers do not make it disappear
\* (queuePendingUserMark, acknowledgePendingUserMark, flushPendingUserMarks).
MarksAreKept ==
  \A mark \in given :
    \/ \E later \in given : later.key = mark.key /\ later.stamp > mark.stamp
    \/ mark \in ToSet(pending)
    \/ stored[mark.key].stamp >= mark.stamp
    \/ mark \in matched \cup cut
=============================================================================
