--------------------------- MODULE ProgressQueue ---------------------------
(***************************************************************************)
(* The reading positions a browser has not delivered yet (web-v2/src/lib/   *)
(* progressQueue.ts, and its callers in App.tsx).  Every position is an     *)
(* item of localStorage of its own, shared by all tabs; each function works *)
(* on them without an await in between, so it is one step, but for two tabs *)
(* that queue a position at the same moment.                                *)
(*                                                                         *)
(* A position is of an edition: a work and one manifest of its pages.  Its  *)
(* stamp stands for its sequence and its time, which are made alike.  A tab *)
(* does one thing at a time here; more in one tab is like several tabs.     *)
(* Storage that cannot be written is left out.                              *)
(***************************************************************************)
EXTENDS Integers, FiniteSetsExt

CONSTANTS
  Tabs,
  Works,
  Editions,       \* numbers, of a work in the order of their manifests
  WorkOf,         \* the work of an edition
  Capacities,     \* of the queue: 80 in the code
  MaxSkew,        \* how far ahead of the server's time a stamp may be
  Ahead,          \* how far ahead a wrong clock of the device is
  MaxPositions,   \* bound on the positions taken, which are what moves time
  NoEntry         \* no position, no work

ASSUME ProgressQueueAssumption ==
  /\ Editions \subseteq Nat
  /\ WorkOf \in [Editions -> Works]
  /\ Capacities \subseteq Nat \ {0}
  /\ MaxSkew \in Nat /\ Ahead \in Nat /\ MaxPositions \in Nat

VARIABLES
  capacity,    \* MAX_ENTRIES, which no step changes
  entries,     \* in localStorage
  lastStamp,   \* lastTimestamp of a tab
  act,         \* what a tab is doing
  device,      \* the device's clock: always "right", "ahead", or "corrected" since
  manifest,    \* of a work: the edition whose manifest the server has
  saved,       \* of a work: the time of its position, 0 without one
  reset,       \* of a work: when it was last marked as unread, 0 if never
  taken,       \* positions taken so far
  givenUp      \* positions removed although not delivered, by the reason

progressQueueVars ==
  <<capacity, entries, lastStamp, act, device, manifest, saved, reset, taken, givenUp>>

\* A tab sends a position, of a reader or of a flush with more to send, or it asks for
\* something about a work.
Sending(what, e, stale, rest) ==
  [doing |-> what, entry |-> e, stale |-> stale, rest |-> rest, refused |-> FALSE,
   work |-> NoEntry, stamp |-> 0]
Asking(what, w, stamp) ==
  [doing |-> what, entry |-> NoEntry, stale |-> NoEntry, rest |-> {}, refused |-> FALSE,
   work |-> w, stamp |-> stamp]
AtRest == Sending("nothing", NoEntry, NoEntry, {})

ProgressQueueInit ==
  /\ capacity \in Capacities
  /\ entries = {}
  /\ lastStamp = [t \in Tabs |-> 0]
  /\ act = [t \in Tabs |-> AtRest]
  /\ device \in {"right", "ahead"}
  /\ manifest \in [Works -> Editions] /\ \A w \in Works : WorkOf[manifest[w]] = w
  /\ saved = [w \in Works |-> 0]
  /\ reset = [w \in Works |-> 0]
  /\ taken = {}
  /\ givenUp = [unread |-> {}, unsaved |-> {}, clock |-> {}, limit |-> {}]

\* The server's time, and the device's.
Now == Cardinality(taken) + 1
DeviceTime == Now + (IF device = "ahead" THEN Ahead ELSE 0)
Latest(w) == Max({saved[w], reset[w]})
OfWork(w) == {e \in entries : WorkOf[e.edition] = w}

-----------------------------------------------------------------------------
Older(e, f) == e.edition = f.edition /\ e.stamp < f.stamp

\* What no newer position of its edition supersedes.
Newest(set) == {e \in set : ~\E f \in set : Older(e, f)}

\* foldedEntries: one of each edition.  Which of two with equal stamps it is depends on
\* their random names.
Folds(set) ==
  {fold \in SUBSET Newest(set) :
     /\ \A e \in set : \E f \in fold : e.edition = f.edition
     /\ \A e, f \in fold : e.edition = f.edition => e = f}

\* compactStoredEntries: what is superseded goes, and of the rest the oldest over the
\* limit.
Overflows(current) ==
  {over \in SUBSET current :
     /\ Cardinality(over) = Max({0, Cardinality(current) - capacity})
     /\ \A e \in over, f \in current \ over : e.stamp <= f.stamp}
Compactions(set) ==
  {[left |-> Newest(set) \ over, over |-> over] : over \in Overflows(Newest(set))}

\* acknowledgePendingProgress: the position itself and older ones of its edition.
\* (Mutant: whatever is pending for its edition.)
AcknowledgedEdition(e, set) == {f \in set : f.edition # e.edition}
Acknowledged(e, set) ==
  IF e \in set THEN {f \in set : f # e /\ ~Older(f, e)} ELSE set

\* takeProgressTimestamp: later than all this tab gave and all that is pending.
NextStamp(t) == Max({DeviceTime, lastStamp[t] + 1} \cup {e.stamp + 1 : e \in entries})

-----------------------------------------------------------------------------
NewPosition(t, b) == [tab |-> t, edition |-> b, stamp |-> NextStamp(t)]

\* The request for e.  A confirmed calibration replaces a position that is pending for
\* an older manifest.
Saves(e) ==
  {Sending("save", e, stale, {}) :
     stale \in {NoEntry} \cup {f \in OfWork(WorkOf[e.edition]) : f.edition # e.edition}}

\* persistReader up to its request: the position is queued first.  The manifest of
\* the reader may change before it arrives.
Take(t, b) ==
  LET e == NewPosition(t, b)
  IN  /\ act[t] = AtRest
      /\ Cardinality(taken) < MaxPositions
      /\ b = manifest[WorkOf[b]]
      /\ \E c \in Compactions(entries \cup {e}) :
           /\ entries' = c.left
           /\ givenUp' = [givenUp EXCEPT !.limit = @ \cup c.over]
      /\ lastStamp' = [lastStamp EXCEPT ![t] = e.stamp]
      /\ \E request \in Saves(e) : act' = [act EXCEPT ![t] = request]
      /\ taken' = taken \cup {e}
      /\ UNCHANGED <<device, manifest, saved, reset>>

\* Two tabs do so at the same moment and neither sees the other's position: the stamps
\* may be equal.  Whoever looks next compacts what both left.
TakeTogether(t, u, b, c) ==
  LET e == NewPosition(t, b)
      f == NewPosition(u, c)
  IN  /\ t # u /\ act[t] = AtRest /\ act[u] = AtRest
      /\ Cardinality(taken) + 1 < MaxPositions
      /\ b = manifest[WorkOf[b]] /\ c = manifest[WorkOf[c]]
      /\ \E x \in Compactions(entries \cup {e}), y \in Compactions(entries \cup {f}) :
           \E z \in Compactions((x.left \cap y.left) \cup {e, f}) :
             /\ entries' = z.left
             /\ givenUp' = [givenUp EXCEPT !.limit = @ \cup x.over \cup y.over \cup z.over]
      /\ lastStamp' = [lastStamp EXCEPT ![t] = e.stamp, ![u] = f.stamp]
      /\ \E request \in Saves(e), other \in Saves(f) :
           act' = [act EXCEPT ![t] = request, ![u] = other]
      /\ taken' = taken \cup {e, f}
      /\ UNCHANGED <<device, manifest, saved, reset>>

\* What a flush does after one of its positions.
Flushing(rest) ==
  IF rest = {} THEN AtRest ELSE Sending("next", NoEntry, NoEntry, rest)

\* The answer of a request: refused for good, or not.
Decided(a, refused, stale) ==
  [doing |-> IF a.doing = "save" THEN "saved" ELSE "flushed", entry |-> a.entry,
   stale |-> stale, rest |-> a.rest, refused |-> refused, work |-> NoEntry, stamp |-> 0]

\* handleProgressSave, as far as it matters here: a position of another manifest is a
\* conflict and stays pending; a stamp too far ahead and one that is not newer are
\* refused for good; a newer one is stored.
Arrive(t) ==
  LET e == act[t].entry
      w == WorkOf[e.edition]
      future == e.stamp > Now + MaxSkew
  IN  /\ act[t].doing \in {"save", "flush"}
      /\ \/ /\ e.edition # manifest[w]
            /\ act' = [act EXCEPT ![t] = IF @.doing = "save" THEN AtRest ELSE Flushing(@.rest)]
            /\ UNCHANGED saved
         \/ /\ e.edition = manifest[w]
            /\ saved' = IF ~future /\ e.stamp > Latest(w)
                          THEN [saved EXCEPT ![w] = e.stamp] ELSE saved
            /\ act' = [act EXCEPT ![t] =
                          Decided(@, future, IF saved'[w] = 0 THEN NoEntry ELSE @.stale)]
      /\ UNCHANGED <<entries, lastStamp, device, manifest, reset, taken, givenUp>>

\* Both callers acknowledge what was stored and what was refused; persistReader also
\* the position it replaces, unless the answer is of yet another manifest.
Answered(t) ==
  LET a == act[t]
  IN  /\ a.doing \in {"saved", "flushed"}
      /\ \/ entries' = Acknowledged(a.entry, entries) /\ a.stale = NoEntry
         \/ entries' = Acknowledged(a.stale, Acknowledged(a.entry, entries)) /\ a.stale # NoEntry
         \/ entries' = entries /\ a.stale # NoEntry
      /\ givenUp' = IF a.refused THEN [givenUp EXCEPT !.clock = @ \cup {a.entry}] ELSE givenUp
      /\ act' = [act EXCEPT ![t] = Flushing(a.rest)]
      /\ UNCHANGED <<lastStamp, device, manifest, saved, reset, taken>>

\* The request or the answer is lost: a flush stops.
Lost(t) ==
  /\ act[t].doing \in {"save", "saved", "next", "flush", "flushed"}
  /\ act' = [act EXCEPT ![t] = AtRest]
  /\ UNCHANGED <<entries, lastStamp, device, manifest, saved, reset, taken, givenUp>>

\* flushPendingProgress works through the positions it found, the oldest first; one
\* of another manifest waits until its work is opened.
FlushStart(t) ==
  /\ act[t] = AtRest
  /\ entries # {}
  /\ \E fold \in Folds(entries) : act' = [act EXCEPT ![t] = Flushing(fold)]
  /\ UNCHANGED <<entries, lastStamp, device, manifest, saved, reset, taken, givenUp>>

FlushNext(t) ==
  /\ act[t].doing = "next"
  /\ \E e \in act[t].rest :
       /\ \A f \in act[t].rest : e.stamp <= f.stamp
       /\ LET rest == act[t].rest \ {e}
          IN  act' = [act EXCEPT ![t] =
                        IF e.edition = manifest[WorkOf[e.edition]]
                          THEN Sending("flush", e, NoEntry, rest)
                          ELSE Flushing(rest)]
  /\ UNCHANGED <<entries, lastStamp, device, manifest, saved, reset, taken, givenUp>>

-----------------------------------------------------------------------------
\* The reader of a work opens: the stored position is fetched ...
OpenFetch(t, w) ==
  /\ act[t] = AtRest
  /\ act' = [act EXCEPT ![t] = Asking("open", w, saved[w])]
  /\ UNCHANGED <<entries, lastStamp, device, manifest, saved, reset, taken, givenUp>>

\* The newest pending position counts if it is newer than the stored one.
\* (Mutant: only if none is stored.)
PendingWinsAlone(e, stored) == stored = 0
PendingWins(e, stored) == stored = 0 \/ e.stamp > stored

\* ... and what is pending is acknowledged but for the position that wins.
Open(t) ==
  LET a == act[t]
      gone(fold) ==
        {e \in fold : (\E f \in fold : f.stamp > e.stamp) \/ ~PendingWins(e, a.stamp)}
  IN  /\ a.doing = "open"
      /\ \E fold \in Folds(OfWork(a.work)) :
           entries' = {e \in entries \ gone(fold) : ~\E f \in gone(fold) : Older(e, f)}
      /\ act' = [act EXCEPT ![t] = AtRest]
      /\ UNCHANGED <<lastStamp, device, manifest, saved, reset, taken, givenUp>>

-----------------------------------------------------------------------------
\* The work is marked as unread (saveDetailPersonalMark), or a mark that is pending is
\* sent again (flushPendingMarks) ...
MarkUnread(t, w) ==
  /\ act[t] = AtRest
  /\ act' = [act EXCEPT ![t] = Asking("unread", w, DeviceTime)]
  /\ UNCHANGED <<entries, lastStamp, device, manifest, saved, reset, taken, givenUp>>

\* The server's answer says whether the position was reset, and what the status is: a
\* work that has no position is unread, also when no mark of it was ever stored
\* (formatUserMark).  If it is unread without a reset, a flush asks for the position.
UnreadArrives(t) ==
  LET w == act[t].work
      newer == act[t].stamp <= Now + MaxSkew /\ act[t].stamp > Latest(w)
  IN  /\ act[t].doing = "unread"
      /\ saved' = IF newer THEN [saved EXCEPT ![w] = 0] ELSE saved
      /\ reset' = IF newer THEN [reset EXCEPT ![w] = act[t].stamp] ELSE reset
      /\ \E answer \in {"reset", "notReset", "checking"} :
           /\ (answer = "reset") = newer
           /\ answer = "checking" => saved[w] = 0
           /\ act' = [act EXCEPT ![t].doing = answer]
      /\ UNCHANGED <<entries, lastStamp, device, manifest, taken, givenUp>>

\* When no answer comes, or an error, the status is fetched, and the position if the work
\* is unread by now.  That may fail too.
UnreadLost(t) ==
  /\ act[t].doing \in {"unread", "reset", "notReset", "checking"}
  /\ \/ act' = [act EXCEPT ![t] = AtRest]
     \/ saved[act[t].work] = 0 /\ act' = [act EXCEPT ![t].doing = "checking"]
  /\ UNCHANGED <<entries, lastStamp, device, manifest, saved, reset, taken, givenUp>>

UnreadChecked(t) ==
  /\ act[t].doing = "checking"
  /\ act' = [act EXCEPT ![t] =
               IF saved[@.work] = 0 THEN [@ EXCEPT !.doing = "empty"] ELSE AtRest]
  /\ UNCHANGED <<entries, lastStamp, device, manifest, saved, reset, taken, givenUp>>

\* ... and when it was reset, or there is no position, discardPendingProgressForCandidate
\* removes all that is pending for the work, also what was read since it was sent.
UnreadAnswered(t) ==
  LET gone == OfWork(act[t].work)
  IN  /\ \/ /\ act[t].doing = "reset"
            /\ entries' = entries \ gone
            /\ givenUp' = [givenUp EXCEPT !.unread = @ \cup gone]
         \/ /\ act[t].doing = "empty"
            /\ entries' = entries \ gone
            /\ givenUp' = [givenUp EXCEPT !.unsaved = @ \cup gone]
         \/ /\ act[t].doing = "notReset"
            /\ UNCHANGED <<entries, givenUp>>
      /\ act' = [act EXCEPT ![t] = AtRest]
      /\ UNCHANGED <<lastStamp, device, manifest, saved, reset, taken>>

-----------------------------------------------------------------------------
\* A tab is reloaded: what it was doing and its last stamp are gone.
Reload(t) ==
  /\ lastStamp' = [lastStamp EXCEPT ![t] = 0]
  /\ act' = [act EXCEPT ![t] = AtRest]
  /\ UNCHANGED <<entries, device, manifest, saved, reset, taken, givenUp>>

CorrectClock ==
  /\ device = "ahead"
  /\ device' = "corrected"
  /\ UNCHANGED <<entries, lastStamp, act, manifest, saved, reset, taken, givenUp>>

\* The pages of a work change; a manifest that is replaced does not come back.
NewManifest(b) ==
  /\ b > manifest[WorkOf[b]]
  /\ manifest' = [manifest EXCEPT ![WorkOf[b]] = b]
  /\ UNCHANGED <<entries, lastStamp, act, device, saved, reset, taken, givenUp>>

\* A newer position of another device.
NewerElsewhere(w) ==
  /\ \E s \in (Latest(w) + 1)..Now : saved' = [saved EXCEPT ![w] = s]
  /\ UNCHANGED <<entries, lastStamp, act, device, manifest, reset, taken, givenUp>>

ProgressQueueNext ==
  /\ UNCHANGED capacity
  /\ \/ \E t \in Tabs :
          \/ \E b \in Editions : Take(t, b)
          \/ \E u \in Tabs, b, c \in Editions : TakeTogether(t, u, b, c)
          \/ Arrive(t) \/ Answered(t) \/ Lost(t) \/ FlushStart(t) \/ FlushNext(t)
          \/ \E w \in Works : OpenFetch(t, w) \/ MarkUnread(t, w)
          \/ Open(t) \/ UnreadArrives(t) \/ UnreadLost(t) \/ UnreadChecked(t)
          \/ UnreadAnswered(t) \/ Reload(t)
     \/ CorrectClock
     \/ \E b \in Editions : NewManifest(b)
     \/ \E w \in Works : NewerElsewhere(w)

ProgressQueueSpec == ProgressQueueInit /\ [][ProgressQueueNext]_progressQueueVars

-----------------------------------------------------------------------------
\* The last position taken of a work is pending until the server has it or something
\* newer.  The exceptions are four: a work that was reset by an "unread" loses what is
\* pending for it; so does a work that has no position on the server when the reader
\* marked it as unread, even if that mark was never stored; a full queue drops its
\* oldest edition; and the server refuses stamps of a clock that was ahead, but none of
\* a clock that was always right (acknowledgePendingProgress, compactStoredEntries,
\* flushPendingProgress, and the clean-up when a reader opens).
PositionsAreKept ==
  \A e \in taken :
    LET w == WorkOf[e.edition]
    IN  \/ \E later \in taken : WorkOf[later.edition] = w /\ later.stamp > e.stamp
        \/ e \in entries
        \/ Latest(w) >= e.stamp
        \/ e \in givenUp.unread /\ reset[w] # 0
        \/ e \in givenUp.unsaved \cup givenUp.limit
        \/ e \in givenUp.clock /\ device # "right"
=============================================================================
