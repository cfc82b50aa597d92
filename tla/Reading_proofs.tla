----------------------------- MODULE Reading_proofs -----------------------------
(***************************************************************************)
(* What holds of the positions a browser has not delivered yet, for any     *)
(* number of tabs, works and editions and any capacity of the queue, and of *)
(* the book that is continued, for any library.                            *)
(***************************************************************************)
EXTENDS ProgressQueue, ContinueTarget, FiniteSetTheorems, SequenceTheorems, NaturalsInduction,
        WellFoundedInduction, TLAPS

(***************************************************************************)
(* Everything a tab holds was taken, and what it is about to acknowledge is *)
(* on the server, or too new for it, which a clock that was always right    *)
(* cannot make.  A tab that was told of a reset has a work that was reset.   *)
(***************************************************************************)
Positions == [tab : Tabs, edition : Editions, stamp : Nat \ {0}]
Acts ==
  [doing : {"nothing", "save", "flush", "saved", "flushed", "next", "open", "unread", "reset",
            "notReset", "checking", "empty"},
   entry : Positions \cup {NoEntry}, stale : Positions \cup {NoEntry}, work : Works \cup {NoEntry},
   stamp : Nat, refused : BOOLEAN, rest : SUBSET Positions]

GivenUps ==
  [unread : SUBSET Positions, unsaved : SUBSET Positions, clock : SUBSET Positions,
   limit : SUBSET Positions]

ProgressQueueTypeOK ==
  /\ taken \in SUBSET Positions /\ IsFiniteSet(taken)
  /\ entries \in SUBSET taken
  /\ lastStamp \in [Tabs -> Nat]
  /\ act \in [Tabs -> Acts]
  /\ device \in {"right", "ahead", "corrected"}
  /\ manifest \in [Works -> Editions]
  /\ saved \in [Works -> Nat] /\ reset \in [Works -> Nat]
  /\ givenUp \in GivenUps

\* The server has e or something newer.
Delivered(e) == Latest(WorkOf[e.edition]) >= e.stamp
SameWork(e, f) == WorkOf[e.edition] = WorkOf[f.edition]

ActStands(a) ==
  /\ a.doing \in {"save", "flush", "saved", "flushed"} => a.entry \in taken
  /\ a.rest \subseteq taken
  /\ a.stale # NoEntry =>
       /\ a.entry \in taken /\ a.stale \in taken
       /\ SameWork(a.entry, a.stale) /\ a.stale.stamp < a.entry.stamp
  /\ a.doing \in {"saved", "flushed"} =>
       IF a.refused THEN device # "right" ELSE Delivered(a.entry)
  /\ a.doing \in {"open", "unread", "reset", "notReset", "checking", "empty"} => a.work \in Works
  /\ a.doing = "reset" => reset[a.work] # 0
  /\ a.doing = "open" => a.stamp <= Latest(a.work)

\* With a clock that was always right no stamp is ahead of the server's time.
RightStamps ==
  device = "right" =>
    /\ \A e \in taken : e.stamp < Now
    /\ \A t \in Tabs : lastStamp[t] < Now

Superseded(e) == \E later \in taken : SameWork(later, e) /\ later.stamp > e.stamp
Kept(e) ==
  \/ Superseded(e)
  \/ e \in entries
  \/ Delivered(e)
  \/ e \in givenUp.unread /\ reset[WorkOf[e.edition]] # 0
  \/ e \in givenUp.unsaved \cup givenUp.limit
  \/ e \in givenUp.clock /\ device # "right"

ProgressQueueInv ==
  /\ ProgressQueueTypeOK
  /\ \A t \in Tabs : ActStands(act[t])
  /\ RightStamps
  /\ \A e \in taken : Kept(e)

-----------------------------------------------------------------------------
(* Maxima.                                                                 *)

\* By the smallest subset that has none.
LEMMA FiniteSetHasMax ==
  ASSUME NEW S \in SUBSET Int, IsFiniteSet(S), S # {}
  PROVE  \E m \in S : \A y \in S : m >= y
<1>. DEFINE Bad == {T \in FiniteSubsetsOf(S) : T # {} /\ ~\E m \in T : \A y \in T : m >= y}
<1>1. SUFFICES ASSUME Bad # {} PROVE FALSE
  BY DEF FiniteSubsetsOf
<1>2. PICK T \in Bad : \A U \in Bad : <<U, T>> \notin StrictSubsetOrdering(S)
  BY <1>1, FS_StrictSubsetOrderingWellFounded, WFMin
<1>3. PICK x \in T : TRUE
  BY <1>2
<1>4. T \ {x} \in FiniteSubsetsOf(S) /\ T \in FiniteSubsetsOf(S)
  BY <1>2, FS_RemoveElement DEF FiniteSubsetsOf
<1>5. T \ {x} \notin Bad
  BY <1>2, <1>3, <1>4 DEF StrictSubsetOrdering, FiniteSubsetsOf
<1>6. \A y \in T : y \in Int
  BY <1>2 DEF FiniteSubsetsOf
<1>7. CASE T \ {x} = {}
  BY <1>2, <1>3, <1>6, <1>7
<1>8. CASE T \ {x} # {}
  <2>1. PICK m \in T \ {x} : \A y \in T \ {x} : m >= y
    BY <1>4, <1>5, <1>8
  <2>2. \A y \in T : (IF m >= x THEN m ELSE x) >= y
    BY <1>3, <1>6, <2>1
  <2>. QED
    BY <1>2, <1>3, <2>1, <2>2
<1>. QED
  BY <1>7, <1>8

LEMMA MaxProperties ==
  ASSUME NEW S \in SUBSET Int, IsFiniteSet(S), S # {}
  PROVE  Max(S) \in S /\ \A y \in S : Max(S) >= y
BY FiniteSetHasMax DEF Max

LEMMA LatestIs ==
  ASSUME NEW w, saved[w] \in Nat, reset[w] \in Nat
  PROVE  Latest(w) = IF saved[w] >= reset[w] THEN saved[w] ELSE reset[w]
BY DEF Latest, Max

LEMMA LatestIsNext ==
  ASSUME NEW w, saved'[w] \in Nat, reset'[w] \in Nat
  PROVE  Latest(w)' = IF saved'[w] >= reset'[w] THEN saved'[w] ELSE reset'[w]
BY DEF Latest, Max

\* A stamp is later than what the tab gave and what is pending, and no later than
\* one of these or the device's clock makes it.
LEMMA NextStampIsNewer ==
  ASSUME ProgressQueueTypeOK, NEW t \in Tabs
  PROVE  /\ NextStamp(t) \in Nat \ {0}
         /\ NextStamp(t) >= DeviceTime /\ NextStamp(t) > lastStamp[t]
         /\ \A e \in entries : NextStamp(t) > e.stamp
         /\ \/ NextStamp(t) = DeviceTime
            \/ NextStamp(t) = lastStamp[t] + 1
            \/ \E e \in entries : NextStamp(t) = e.stamp + 1
<1>. DEFINE after == {e.stamp + 1 : e \in entries}
            S == {DeviceTime, lastStamp[t] + 1} \cup after
<1>1. IsFiniteSet(taken) /\ entries \in SUBSET taken /\ \A e \in taken : e.stamp \in Nat \ {0}
  BY DEF ProgressQueueTypeOK, Positions
<1>2. IsFiniteSet(entries)
  BY <1>1, FS_Subset
<1>3. [e \in entries |-> e.stamp + 1] \in Surjection(entries, after)
  BY DEF Surjection
<1>4. IsFiniteSet(after)
  BY <1>2, <1>3, FS_Surjection
<1>5. Cardinality(taken) \in Nat
  BY <1>1, FS_CardinalityType
<1>6. DeviceTime \in Nat \ {0} /\ lastStamp[t] \in Nat
  BY <1>5, ProgressQueueAssumption DEF DeviceTime, Now, ProgressQueueTypeOK
<1>7. IsFiniteSet({DeviceTime} \cup {lastStamp[t] + 1})
  BY FS_Singleton, FS_Union
<1>8. S = ({DeviceTime} \cup {lastStamp[t] + 1}) \cup after
  OBVIOUS
<1>9. IsFiniteSet(S)
  BY <1>4, <1>7, <1>8, FS_Union
<1>10. S \in SUBSET Int /\ S # {}
  BY <1>1, <1>6
<1>11. Max(S) \in S /\ \A y \in S : Max(S) >= y
  BY <1>9, <1>10, MaxProperties
<1>12. NextStamp(t) = Max(S)
  BY DEF NextStamp
<1>. HIDE DEF S
<1>13. DeviceTime \in S /\ lastStamp[t] + 1 \in S /\ \A e \in entries : e.stamp + 1 \in S
  BY DEF S
<1>14. NextStamp(t) = DeviceTime \/ NextStamp(t) = lastStamp[t] + 1 \/ NextStamp(t) \in after
  BY <1>11, <1>12 DEF S
<1>15. \A y \in S : NextStamp(t) >= y
  BY <1>11, <1>12
<1>16. NextStamp(t) \in Nat \ {0}
  BY <1>1, <1>6, <1>14
<1>17. NextStamp(t) >= DeviceTime /\ NextStamp(t) >= lastStamp[t] + 1
       /\ \A e \in entries : NextStamp(t) >= e.stamp + 1
  BY <1>13, <1>15
<1>. QED
  BY <1>1, <1>6, <1>14, <1>16, <1>17

-----------------------------------------------------------------------------
(* What only grows, and what stands as long as it does.                    *)

Grows ==
  /\ taken \subseteq taken'
  /\ \A w \in Works : Latest(w)' >= Latest(w)
  /\ \A w \in Works : reset[w] # 0 => reset'[w] # 0
  /\ givenUp.unread \subseteq givenUp'.unread
  /\ givenUp.unsaved \subseteq givenUp'.unsaved
  /\ givenUp.limit \subseteq givenUp'.limit
  /\ givenUp.clock \subseteq givenUp'.clock
  /\ device # "right" => device' # "right"

LEMMA EditionsHaveWorks ==
  ASSUME NEW e \in Positions
  PROVE  WorkOf[e.edition] \in Works /\ e.stamp \in Nat /\ e.stamp > 0 /\ e.edition \in Nat
<1>1. e.edition \in Editions /\ e.stamp \in Nat \ {0}
  BY DEF Positions
<1>2. Editions \subseteq Nat /\ WorkOf \in [Editions -> Works]
  BY ProgressQueueAssumption
<1>3. WorkOf[e.edition] \in Works /\ e.edition \in Nat
  BY <1>1, <1>2
<1>4. e.stamp \in Nat /\ e.stamp > 0
  BY <1>1
<1>. QED
  BY <1>3, <1>4

LEMMA LatestTypes ==
  ASSUME ProgressQueueTypeOK
  PROVE  \A w \in Works : Latest(w) \in Nat /\ saved[w] \in Nat /\ reset[w] \in Nat
                          /\ Latest(w) >= saved[w] /\ Latest(w) >= reset[w]
BY LatestIs DEF ProgressQueueTypeOK

LEMMA LatestTypesNext ==
  ASSUME ProgressQueueTypeOK'
  PROVE  \A w \in Works : Latest(w)' \in Nat
BY LatestIsNext DEF ProgressQueueTypeOK

LEMMA DeliveredStays ==
  ASSUME ProgressQueueTypeOK, ProgressQueueTypeOK', Grows, NEW e \in Positions, Delivered(e)
  PROVE  Delivered(e)'
BY EditionsHaveWorks, LatestTypes, LatestTypesNext DEF Grows, Delivered

LEMMA ActStays ==
  ASSUME ProgressQueueTypeOK, ProgressQueueTypeOK', Grows, NEW a \in Acts, ActStands(a)
  PROVE  /\ a.doing \in {"save", "flush", "saved", "flushed"} => a.entry \in taken'
         /\ a.rest \subseteq taken'
         /\ a.stale # NoEntry =>
              /\ a.entry \in taken' /\ a.stale \in taken'
              /\ SameWork(a.entry, a.stale) /\ a.stale.stamp < a.entry.stamp
         /\ a.doing \in {"saved", "flushed"} =>
              IF a.refused THEN device' # "right" ELSE Delivered(a.entry)'
         /\ a.doing \in {"open", "unread", "reset", "notReset", "checking", "empty"} =>
              a.work \in Works
         /\ a.doing = "reset" => reset'[a.work] # 0
         /\ a.doing = "open" => a.stamp <= Latest(a.work)'
<1>1. a.doing \in {"saved", "flushed"} =>
        IF a.refused THEN device' # "right" ELSE Delivered(a.entry)'
  <2>. SUFFICES ASSUME a.doing \in {"saved", "flushed"}
                PROVE  IF a.refused THEN device' # "right" ELSE Delivered(a.entry)'
    OBVIOUS
  <2>1. a.entry \in Positions
    BY DEF ActStands, ProgressQueueTypeOK
  <2>. QED
    BY <2>1, DeliveredStays DEF ActStands, Grows
<1>2. a.doing = "open" => a.stamp <= Latest(a.work)'
  BY LatestTypes, LatestTypesNext DEF ActStands, Grows, Acts
<1>3. a.doing \in {"open", "unread", "reset", "notReset", "checking", "empty"} => a.work \in Works
  BY DEF ActStands
<1>4. a.doing = "reset" => reset'[a.work] # 0
  BY <1>3 DEF ActStands, Grows
<1>. QED
  BY <1>1, <1>2, <1>3, <1>4 DEF ActStands, Grows

LEMMA KeptStays ==
  ASSUME ProgressQueueTypeOK, ProgressQueueTypeOK', Grows, NEW e \in taken, Kept(e),
         e \in entries => Kept(e)'
  PROVE  Kept(e)'
<1>1. e \in Positions
  BY DEF ProgressQueueTypeOK
<1>2. CASE Superseded(e)
  BY <1>2 DEF Superseded, Grows, Kept
<1>3. CASE Delivered(e)
  BY <1>1, <1>3, DeliveredStays DEF Kept
<1>4. CASE \/ e \in givenUp.unread /\ reset[WorkOf[e.edition]] # 0
           \/ e \in givenUp.unsaved \cup givenUp.limit
  BY <1>1, <1>4, EditionsHaveWorks DEF Grows, Kept
<1>5. CASE e \in givenUp.clock /\ device # "right"
  BY <1>5 DEF Grows, Kept
<1>. QED
  BY <1>2, <1>3, <1>4, <1>5 DEF Kept

\* A step of tab t that takes nothing: it is enough to look at what the tab does now
\* and at what is no longer pending.
LEMMA StepOfTab ==
  ASSUME ProgressQueueInv, ProgressQueueTypeOK', Grows, taken' = taken,
         \A u \in Tabs : lastStamp'[u] \in {lastStamp[u], 0},
         device' = "right" => device = "right",
         NEW t \in Tabs, \A u \in Tabs \ {t} : act'[u] = act[u],
         ActStands(act[t])',
         \A e \in entries \ entries' : Kept(e)'
  PROVE  ProgressQueueInv'
<1>. USE DEF ProgressQueueInv
<1>1. ASSUME NEW u \in Tabs PROVE ActStands(act[u])'
  <2>1. CASE u = t
    BY <2>1
  <2>2. CASE u # t
    <3>1. act[u] \in Acts /\ ActStands(act[u]) /\ act'[u] = act[u]
      BY <2>2 DEF ProgressQueueTypeOK
    <3>. QED
      BY <3>1, ActStays DEF ActStands
  <2>. QED
    BY <2>1, <2>2
<1>2. RightStamps'
  <2>1. Cardinality(taken) \in Nat
    BY FS_CardinalityType DEF ProgressQueueTypeOK
  <2>. QED
    BY <2>1 DEF RightStamps, Now
<1>3. ASSUME NEW e \in taken' PROVE Kept(e)'
  <2>1. e \in entries /\ e \in entries' => Kept(e)'
    BY DEF Kept
  <2>. QED
    BY <2>1, KeptStays
<1>. QED
  BY <1>1, <1>2, <1>3

\* Whatever tabs do, positions and acts keep their form.
LEMMA AtRestType == AtRest \in Acts /\ ActStands(AtRest)'
BY DEF AtRest, Sending, Acts, ActStands

LEMMA FlushingType ==
  ASSUME NEW rest, rest \subseteq Positions, rest \subseteq taken'
  PROVE  Flushing(rest) \in Acts /\ ActStands(Flushing(rest))'
<1>1. CASE rest = {}
  BY <1>1, AtRestType DEF Flushing
<1>2. CASE rest # {}
  <2>1. Flushing(rest) = [doing |-> "next", entry |-> NoEntry, stale |-> NoEntry, work |-> NoEntry,
                          stamp |-> 0, refused |-> FALSE, rest |-> rest]
    BY <1>2 DEF Flushing, Sending
  <2>. QED
    BY <2>1 DEF Acts, ActStands
<1>. QED
  BY <1>1, <1>2

-----------------------------------------------------------------------------
(* The actions.                                                            *)

LEMMA CompactionKeeps ==
  ASSUME NEW set, NEW c \in Compactions(set)
  PROVE  /\ c.left \subseteq set /\ c.over \subseteq set
         /\ \A e \in set : e \in c.left \/ e \in c.over \/ \E f \in set : Older(e, f)
<1>1. PICK over \in Overflows(Newest(set)) : c = [left |-> Newest(set) \ over, over |-> over]
  BY DEF Compactions
<1>2. over \subseteq Newest(set) /\ c.left = Newest(set) \ over /\ c.over = over
  BY <1>1 DEF Overflows
<1>. QED
  BY <1>2 DEF Newest

LEMMA SavesTypes ==
  ASSUME ProgressQueueTypeOK, NEW e \in Positions, \A f \in entries : f.stamp < e.stamp,
         NEW a \in Saves(e)
  PROVE  /\ a \in Acts /\ a.doing = "save" /\ a.entry = e /\ a.rest = {}
         /\ a.stale # NoEntry =>
              a.stale \in taken /\ SameWork(e, a.stale) /\ a.stale.stamp < e.stamp
<1>1. PICK stale \in {NoEntry} \cup {f \in OfWork(WorkOf[e.edition]) : f.edition # e.edition} :
        a = Sending("save", e, stale, {})
  BY DEF Saves
<1>2. a = [doing |-> "save", entry |-> e, stale |-> stale, work |-> NoEntry, stamp |-> 0,
           refused |-> FALSE, rest |-> {}]
  BY <1>1 DEF Sending
<1>3. stale # NoEntry =>
        /\ stale \in entries /\ stale \in taken /\ stale \in Positions
        /\ SameWork(e, stale) /\ stale.stamp < e.stamp
  BY <1>1 DEF OfWork, SameWork, ProgressQueueTypeOK
<1>. QED
  BY <1>2, <1>3 DEF Acts

\* Positions that are taken are newer than all before, so they move the time on; what is
\* no longer pending is over the limit or superseded.
LEMMA QueuedStands ==
  ASSUME ProgressQueueInv,
         NEW new \in SUBSET Positions, IsFiniteSet(new), new # {},
         \A e \in new : e.tab \in Tabs /\ e.stamp = NextStamp(e.tab),
         NEW over \in SUBSET Positions,
         taken' = taken \cup new, entries' \subseteq entries \cup new,
         givenUp' = [givenUp EXCEPT !.limit = @ \cup over],
         UNCHANGED <<device, manifest, saved, reset>>,
         lastStamp' \in [Tabs -> Nat],
         \A u \in Tabs : lastStamp'[u] = lastStamp[u] \/ \E e \in new : lastStamp'[u] = e.stamp,
         act' \in [Tabs -> Acts],
         \A u \in Tabs : act'[u] = act[u] \/ \E e \in new : act'[u] \in Saves(e),
         \A g \in entries \cup new :
           g \in entries' \/ g \in over \/ \E h \in entries \cup new : Older(g, h)
  PROVE  ProgressQueueInv'
<1>. USE DEF ProgressQueueInv
<1>1. ASSUME NEW e \in new
      PROVE  /\ \A f \in entries : f.stamp < e.stamp
             /\ e.stamp \in Nat /\ e \in taken'
  BY NextStampIsNewer
<1>2. entries \cup new \subseteq taken' /\ taken' \subseteq Positions /\ taken \subseteq taken'
  BY DEF ProgressQueueTypeOK
<1>3. /\ givenUp' \in GivenUps
      /\ givenUp'.unread = givenUp.unread /\ givenUp'.clock = givenUp.clock
      /\ givenUp'.unsaved = givenUp.unsaved /\ givenUp'.limit = givenUp.limit \cup over
  BY DEF ProgressQueueTypeOK, GivenUps
<1>4. ProgressQueueTypeOK'
  <2>1. IsFiniteSet(taken')
    BY FS_Union DEF ProgressQueueTypeOK
  <2>2. taken' \in SUBSET Positions /\ entries' \in SUBSET taken'
    BY <1>2
  <2>. QED
    BY <1>3, <2>1, <2>2 DEF ProgressQueueTypeOK
<1>5. Grows
  <2>1. \A w \in Works : Latest(w)' = Latest(w)
    BY DEF Latest
  <2>. QED
    BY <1>2, <1>3, <2>1, LatestTypes DEF Grows
<1>6. ASSUME NEW u \in Tabs PROVE ActStands(act[u])'
  <2>1. CASE act'[u] = act[u]
    <3>1. act[u] \in Acts /\ ActStands(act[u])
      BY DEF ProgressQueueTypeOK
    <3>. QED
      BY <1>4, <1>5, <2>1, <3>1, ActStays DEF ActStands
  <2>2. ASSUME NEW e \in new, act'[u] \in Saves(e) PROVE ActStands(act[u])'
    <3>1. PICK a : a = act'[u]
      OBVIOUS
    <3>2. /\ a.doing = "save" /\ a.entry = e /\ a.rest = {}
          /\ a.stale # NoEntry =>
               a.stale \in taken' /\ SameWork(e, a.stale) /\ a.stale.stamp < e.stamp
      BY <1>1, <1>2, <2>2, <3>1, SavesTypes
    <3>. QED
      BY <1>1, <3>1, <3>2 DEF ActStands
  <2>. QED
    BY <2>1, <2>2
<1>7. RightStamps'
  <2>. SUFFICES ASSUME device = "right" PROVE RightStamps'
    BY DEF RightStamps
  <2>1. Cardinality(taken) \in Nat /\ IsFiniteSet(taken)
    BY FS_CardinalityType DEF ProgressQueueTypeOK
  <2>2. \A f \in taken : f.stamp < Now /\ f.stamp \in Nat
    BY EditionsHaveWorks DEF RightStamps, ProgressQueueTypeOK
  <2>3. \A u \in Tabs : lastStamp[u] < Now /\ lastStamp[u] \in Nat
    BY DEF RightStamps, ProgressQueueTypeOK
  <2>4. ASSUME NEW e \in new PROVE e.stamp = Now
    <3>1. entries \subseteq taken
      BY DEF ProgressQueueTypeOK
    <3>. QED
      BY <2>1, <2>2, <2>3, <3>1, NextStampIsNewer DEF DeviceTime, Now
  <2>5. PICK e \in new : TRUE
    OBVIOUS
  <2>6. e \notin taken
    BY <2>1, <2>2, <2>4
  <2>7. IsFiniteSet(taken \cup {e}) /\ Cardinality(taken \cup {e}) = Cardinality(taken) + 1
    BY <2>1, <2>6, FS_AddElement
  <2>8. IsFiniteSet(taken') /\ taken \cup {e} \subseteq taken'
    BY <1>4 DEF ProgressQueueTypeOK
  <2>9. Cardinality(taken') \in Nat /\ Cardinality(taken') >= Cardinality(taken) + 1
    BY <2>7, <2>8, FS_Subset, FS_CardinalityType
  <2>10. Now' \in Nat /\ Now' > Now /\ Now \in Nat
    BY <2>1, <2>9 DEF Now
  <2>11. ASSUME NEW f \in taken' PROVE f.stamp < Now'
    BY <2>2, <2>4, <2>10
  <2>12. ASSUME NEW u \in Tabs PROVE lastStamp'[u] < Now'
    <3>1. lastStamp'[u] = lastStamp[u] \/ lastStamp'[u] = Now
      BY <2>4
    <3>. QED
      BY <2>3, <2>10, <3>1
  <2>. QED
    BY <2>11, <2>12 DEF RightStamps
<1>8. ASSUME NEW g \in entries \cup new PROVE Kept(g)'
  <2>1. CASE g \in entries'
    BY <2>1 DEF Kept
  <2>2. CASE g \in over
    BY <1>3, <2>2 DEF Kept
  <2>3. ASSUME NEW h \in entries \cup new, Older(g, h) PROVE Kept(g)'
    <3>1. h \in taken' /\ SameWork(h, g) /\ h.stamp > g.stamp
      BY <1>2, <2>3, EditionsHaveWorks DEF Older, SameWork
    <3>. QED
      BY <3>1 DEF Kept, Superseded
  <2>. QED
    BY <2>1, <2>2, <2>3
<1>9. ASSUME NEW f \in taken' PROVE Kept(f)'
  BY <1>4, <1>5, <1>8, KeptStays
<1>. QED
  BY <1>4, <1>6, <1>7, <1>9

LEMMA NewPositionIs ==
  ASSUME ProgressQueueTypeOK, NEW t \in Tabs, NEW b \in Editions
  PROVE  /\ NewPosition(t, b) \in Positions
         /\ NewPosition(t, b).tab = t /\ NewPosition(t, b).stamp = NextStamp(t)
         /\ NextStamp(t) \in Nat
         /\ \A f \in entries : f.stamp < NewPosition(t, b).stamp
BY NextStampIsNewer DEF NewPosition, Positions

LEMMA TakeStands ==
  ASSUME ProgressQueueInv, NEW t \in Tabs, NEW b \in Editions, Take(t, b)
  PROVE  ProgressQueueInv'
<1>. USE DEF ProgressQueueInv
<1>1. PICK e \in Positions : e = NewPosition(t, b)
  BY NewPositionIs
<1>2. PICK c \in Compactions(entries \cup {e}) :
        entries' = c.left /\ givenUp' = [givenUp EXCEPT !.limit = @ \cup c.over]
  BY <1>1 DEF Take
<1>3. PICK a \in Saves(e) : act' = [act EXCEPT ![t] = a]
  BY <1>1 DEF Take
<1>4. /\ lastStamp' = [lastStamp EXCEPT ![t] = e.stamp] /\ taken' = taken \cup {e}
      /\ UNCHANGED <<device, manifest, saved, reset>>
  BY <1>1 DEF Take
<1>5. e.tab = t /\ e.stamp = NextStamp(t) /\ e.stamp \in Nat /\ \A f \in entries : f.stamp < e.stamp
  BY <1>1, NewPositionIs
<1>6. a \in Acts
  BY <1>5, SavesTypes
<1>7. act' \in [Tabs -> Acts] /\ \A u \in Tabs : act'[u] = act[u] \/ act'[u] \in Saves(e)
  BY <1>3, <1>6 DEF ProgressQueueTypeOK
<1>8. /\ lastStamp' \in [Tabs -> Nat]
      /\ \A u \in Tabs : lastStamp'[u] = lastStamp[u] \/ lastStamp'[u] = e.stamp
  BY <1>4, <1>5 DEF ProgressQueueTypeOK
<1>9. /\ c.left \subseteq entries \cup {e} /\ c.over \subseteq entries \cup {e}
      /\ \A g \in entries \cup {e} :
           g \in c.left \/ g \in c.over \/ \E h \in entries \cup {e} : Older(g, h)
  BY CompactionKeeps
<1>10. c.over \in SUBSET Positions
  BY <1>9 DEF ProgressQueueTypeOK
<1>. DEFINE new == {e}
<1>11. IsFiniteSet(new) /\ new # {} /\ new \in SUBSET Positions
  BY FS_Singleton
<1>12. /\ taken' = taken \cup new /\ entries' \subseteq entries \cup new
       /\ \A g \in new : g.tab \in Tabs /\ g.stamp = NextStamp(g.tab)
       /\ \A u \in Tabs : lastStamp'[u] = lastStamp[u] \/ \E g \in new : lastStamp'[u] = g.stamp
       /\ \A u \in Tabs : act'[u] = act[u] \/ \E g \in new : act'[u] \in Saves(g)
       /\ \A g \in entries \cup new :
            g \in entries' \/ g \in c.over \/ \E h \in entries \cup new : Older(g, h)
  BY <1>2, <1>4, <1>5, <1>7, <1>8, <1>9
<1>. HIDE DEF new
<1>. QED
  BY <1>2, <1>4, <1>7, <1>8, <1>10, <1>11, <1>12, QueuedStands

\* Two tabs lose no more than one: each looks at its own position and what was there.
LEMMA TakeTogetherStands ==
  ASSUME ProgressQueueInv, NEW t \in Tabs, NEW u \in Tabs, NEW b \in Editions, NEW d \in Editions,
         TakeTogether(t, u, b, d)
  PROVE  ProgressQueueInv'
<1>. USE DEF ProgressQueueInv
<1>1. PICK e \in Positions : e = NewPosition(t, b)
  BY NewPositionIs
<1>2. PICK f \in Positions : f = NewPosition(u, d)
  BY NewPositionIs
<1>3. PICK x \in Compactions(entries \cup {e}), y \in Compactions(entries \cup {f}) :
        \E z \in Compactions((x.left \cap y.left) \cup {e, f}) :
          /\ entries' = z.left
          /\ givenUp' = [givenUp EXCEPT !.limit = @ \cup x.over \cup y.over \cup z.over]
  BY <1>1, <1>2 DEF TakeTogether
<1>4. PICK z \in Compactions((x.left \cap y.left) \cup {e, f}) :
        /\ entries' = z.left
        /\ givenUp' = [givenUp EXCEPT !.limit = @ \cup x.over \cup y.over \cup z.over]
  BY <1>3
<1>5. PICK a \in Saves(e), o \in Saves(f) : act' = [act EXCEPT ![t] = a, ![u] = o]
  BY <1>1, <1>2 DEF TakeTogether
<1>6. /\ t # u
      /\ lastStamp' = [lastStamp EXCEPT ![t] = e.stamp, ![u] = f.stamp]
      /\ taken' = taken \cup {e, f}
      /\ UNCHANGED <<device, manifest, saved, reset>>
  BY <1>1, <1>2 DEF TakeTogether
<1>7. /\ e.tab = t /\ e.stamp = NextStamp(t) /\ e.stamp \in Nat
      /\ f.tab = u /\ f.stamp = NextStamp(u) /\ f.stamp \in Nat
      /\ \A g \in entries : g.stamp < e.stamp /\ g.stamp < f.stamp
  BY <1>1, <1>2, NewPositionIs
<1>8. a \in Acts /\ o \in Acts
  BY <1>7, SavesTypes
<1>9. /\ act' \in [Tabs -> Acts]
      /\ \A v \in Tabs : act'[v] = act[v] \/ act'[v] \in Saves(e) \/ act'[v] \in Saves(f)
  BY <1>5, <1>8 DEF ProgressQueueTypeOK
<1>10. /\ lastStamp' \in [Tabs -> Nat]
       /\ \A v \in Tabs : lastStamp'[v] \in {lastStamp[v], e.stamp, f.stamp}
  BY <1>6, <1>7 DEF ProgressQueueTypeOK
<1>. DEFINE new == {e, f}
            over == x.over \cup y.over \cup z.over
<1>11. /\ x.left \subseteq entries \cup {e} /\ x.over \subseteq entries \cup {e}
       /\ \A g \in entries \cup {e} :
            g \in x.left \/ g \in x.over \/ \E h \in entries \cup {e} : Older(g, h)
  BY CompactionKeeps
<1>12. /\ y.left \subseteq entries \cup {f} /\ y.over \subseteq entries \cup {f}
       /\ \A g \in entries \cup {f} :
            g \in y.left \/ g \in y.over \/ \E h \in entries \cup {f} : Older(g, h)
  BY CompactionKeeps
<1>13. /\ z.left \subseteq (x.left \cap y.left) \cup {e, f}
       /\ z.over \subseteq (x.left \cap y.left) \cup {e, f}
       /\ \A g \in (x.left \cap y.left) \cup {e, f} :
            \/ g \in z.left \/ g \in z.over
            \/ \E h \in (x.left \cap y.left) \cup {e, f} : Older(g, h)
  BY CompactionKeeps
<1>14. entries' \subseteq entries \cup new /\ over \in SUBSET Positions
  BY <1>4, <1>11, <1>12, <1>13 DEF ProgressQueueTypeOK
<1>15. ASSUME NEW g \in entries \cup new
       PROVE  g \in entries' \/ g \in over \/ \E h \in entries \cup new : Older(g, h)
  <2>1. CASE g \in (x.left \cap y.left) \cup {e, f}
    BY <1>4, <1>11, <1>13, <2>1
  <2>2. CASE g \notin (x.left \cap y.left) \cup {e, f}
    BY <1>11, <1>12, <2>2
  <2>. QED
    BY <2>1, <2>2
<1>16. givenUp' = [givenUp EXCEPT !.limit = @ \cup over]
  <2>1. givenUp.limit \cup over = givenUp.limit \cup x.over \cup y.over \cup z.over
    OBVIOUS
  <2>. QED
    BY <1>4, <2>1
<1>17. IsFiniteSet(new) /\ new # {} /\ new \in SUBSET Positions
  <2>1. IsFiniteSet({e}) /\ IsFiniteSet({f})
    BY FS_Singleton
  <2>2. IsFiniteSet({e} \cup {f})
    BY <2>1, FS_Union
  <2>3. new = {e} \cup {f}
    OBVIOUS
  <2>4. IsFiniteSet(new)
    BY <2>2, <2>3, Zenon
  <2>. QED
    BY <2>4
<1>18. \A g \in new : g.tab \in Tabs /\ g.stamp = NextStamp(g.tab)
  BY <1>7
<1>19. /\ \A v \in Tabs : lastStamp'[v] = lastStamp[v] \/ \E g \in new : lastStamp'[v] = g.stamp
       /\ \A v \in Tabs : act'[v] = act[v] \/ \E g \in new : act'[v] \in Saves(g)
       /\ taken' = taken \cup new
  BY <1>6, <1>9, <1>10
<1>. HIDE DEF new, over
<1>. QED
  BY <1>6, <1>9, <1>10, <1>14, <1>15, <1>16, <1>17, <1>18, <1>19, QueuedStands

\* A step after which only the tab itself does something else.
LEMMA QuietStep ==
  ASSUME ProgressQueueInv, NEW t \in Tabs,
         UNCHANGED <<entries, lastStamp, device, manifest, saved, reset, taken, givenUp>>,
         act' = [act EXCEPT ![t] = act'[t]], act'[t] \in Acts, ActStands(act[t])'
  PROVE  ProgressQueueInv'
<1>1. ProgressQueueTypeOK'
  BY DEF ProgressQueueInv, ProgressQueueTypeOK
<1>2. Grows
  BY LatestTypes DEF ProgressQueueInv, Grows, Latest
<1>3. \A u \in Tabs \ {t} : act'[u] = act[u]
  BY DEF ProgressQueueInv, ProgressQueueTypeOK
<1>. QED
  BY <1>1, <1>2, <1>3, StepOfTab

\* What is refused is too new, which the right clock cannot make; everything else is
\* stored, or was not newer.
LEMMA ArriveStands ==
  ASSUME ProgressQueueInv, NEW t \in Tabs, Arrive(t)
  PROVE  ProgressQueueInv'
<1>. USE DEF ProgressQueueInv
<1>1. PICK a \in Acts : a = act[t]
  BY DEF ProgressQueueTypeOK
<1>2. PICK e : e = a.entry
  OBVIOUS
<1>3. PICK w : w = WorkOf[e.edition]
  OBVIOUS
<1>4. /\ ActStands(a) /\ a.doing \in {"save", "flush"}
      /\ UNCHANGED <<entries, lastStamp, device, manifest, reset, taken, givenUp>>
  BY <1>1 DEF Arrive
<1>5. e \in taken /\ e \in Positions /\ w \in Works /\ e.stamp \in Nat \ {0}
  BY <1>2, <1>3, <1>4, EditionsHaveWorks DEF ActStands, ProgressQueueTypeOK
<1>6. PICK future \in BOOLEAN : future = (e.stamp > Now + MaxSkew)
  <2>1. Now + MaxSkew \in Nat
    BY FS_CardinalityType, ProgressQueueAssumption DEF ProgressQueueTypeOK, Now
  <2>2. (e.stamp > Now + MaxSkew) \in BOOLEAN
    BY <1>5, <2>1
  <2>. QED
    BY <2>2, Zenon
<1>7. CASE act' = [act EXCEPT ![t] = IF @.doing = "save" THEN AtRest ELSE Flushing(@.rest)]
           /\ UNCHANGED saved
  <2>1. act'[t] = IF a.doing = "save" THEN AtRest ELSE Flushing(a.rest)
    BY <1>1, <1>7 DEF ProgressQueueTypeOK
  <2>2. a.rest \subseteq Positions /\ a.rest \subseteq taken'
    BY <1>4 DEF ActStands, Acts
  <2>3. act'[t] \in Acts /\ ActStands(act[t])'
    BY <2>1, <2>2, AtRestType, FlushingType DEF ActStands
  <2>4. act' = [act EXCEPT ![t] = act'[t]]
    BY <1>1, <1>7, <2>1
  <2>. QED
    BY <1>4, <1>7, <2>3, <2>4, QuietStep
<1>8. CASE /\ saved' = IF ~future /\ e.stamp > Latest(w)
                         THEN [saved EXCEPT ![w] = e.stamp] ELSE saved
           /\ act' = [act EXCEPT ![t] =
                        Decided(@, future, IF saved'[w] = 0 THEN NoEntry ELSE @.stale)]
  <2>1. PICK stale \in {NoEntry, a.stale} :
          /\ act'[t] = Decided(a, future, stale)
          /\ act' = [act EXCEPT ![t] = act'[t]]
    BY <1>1, <1>8 DEF ProgressQueueTypeOK
  <2>2. /\ act'[t].doing \in {"saved", "flushed"} /\ act'[t].refused = future
        /\ act'[t].stale = stale /\ act'[t].entry = e /\ act'[t].rest = a.rest
        /\ act'[t] \in Acts
    BY <1>2, <1>4, <2>1 DEF Decided, Acts
  <2>3. /\ Latest(w) \in Nat /\ Latest(w) >= saved[w] /\ Latest(w) >= reset[w]
        /\ \A v \in Works : saved[v] \in Nat /\ reset[v] \in Nat
    BY <1>5, LatestTypes
  <2>4. saved' \in [Works -> Nat] /\ \A v \in Works : saved'[v] >= saved[v]
    BY <1>5, <1>8, <2>3 DEF ProgressQueueTypeOK
  <2>5. ProgressQueueTypeOK'
    BY <1>4, <2>1, <2>2, <2>4 DEF ProgressQueueTypeOK
  <2>6. \A v \in Works : Latest(v)' >= Latest(v)
    BY <1>4, <2>3, <2>4, LatestIs, LatestIsNext DEF ProgressQueueTypeOK
  <2>7. Grows
    BY <1>4, <2>6 DEF Grows
  <2>8. ~future => Latest(w)' >= e.stamp
    <3>1. CASE ~future /\ e.stamp > Latest(w)
      <4>1. saved'[w] = e.stamp /\ saved'[w] \in Nat /\ reset'[w] \in Nat
        BY <1>4, <1>5, <1>8, <2>3, <3>1 DEF ProgressQueueTypeOK
      <4>. QED
        BY <4>1, LatestIsNext
    <3>2. CASE ~(e.stamp > Latest(w))
      BY <1>5, <2>3, <2>5, <2>6, <3>2, LatestTypesNext
    <3>. QED
      BY <3>1, <3>2
  <2>9. future => device' # "right"
    <3>1. Cardinality(taken) \in Nat
      BY FS_CardinalityType DEF ProgressQueueTypeOK
    <3>2. future => e.stamp > Now + MaxSkew
      BY <1>6
    <3>3. e.stamp > Now + MaxSkew => ~(e.stamp < Now)
      BY <1>5, <3>1, ProgressQueueAssumption DEF Now
    <3>. QED
      BY <1>4, <1>5, <3>2, <3>3 DEF RightStamps
  <2>10. ActStands(act[t])'
    <3>1. ~future => Delivered(act[t].entry)'
      BY <1>2, <1>3, <2>2, <2>8 DEF Delivered, Latest
    <3>2. stale # NoEntry => /\ e \in taken' /\ stale \in taken'
                             /\ SameWork(e, stale) /\ stale.stamp < e.stamp
      BY <1>2, <1>4, <1>5, <2>1 DEF ActStands
    <3>. QED
      BY <1>4, <1>5, <2>2, <2>9, <3>1, <3>2 DEF ActStands
  <2>11. \A u \in Tabs \ {t} : act'[u] = act[u]
    BY <2>1 DEF ProgressQueueTypeOK
  <2>. QED
    BY <1>4, <2>5, <2>7, <2>10, <2>11, StepOfTab
<1>. QED
  BY <1>1, <1>2, <1>3, <1>6, <1>7, <1>8 DEF Arrive

LEMMA QuietActionsStand ==
  ASSUME ProgressQueueInv, NEW t \in Tabs,
         \/ Lost(t) \/ FlushStart(t) \/ FlushNext(t)
         \/ \E w \in Works : OpenFetch(t, w) \/ MarkUnread(t, w)
         \/ UnreadLost(t) \/ UnreadChecked(t)
  PROVE  ProgressQueueInv'
<1>. USE DEF ProgressQueueInv
<1>0. act[t] \in Acts /\ ActStands(act[t])
  BY DEF ProgressQueueTypeOK
<1>1. CASE Lost(t)
  <2>1. act'[t] = AtRest /\ act' = [act EXCEPT ![t] = act'[t]]
    BY <1>1 DEF Lost, ProgressQueueTypeOK
  <2>. QED
    BY <1>1, <2>1, AtRestType, QuietStep DEF Lost, ActStands
<1>2. CASE FlushStart(t)
  <2>0. PICK fold \in Folds(entries) : act' = [act EXCEPT ![t] = Flushing(fold)]
    BY <1>2 DEF FlushStart
  <2>1. act'[t] = Flushing(fold) /\ act' = [act EXCEPT ![t] = act'[t]]
    BY <2>0 DEF ProgressQueueTypeOK
  <2>2. fold \subseteq Positions /\ fold \subseteq taken'
    BY <1>2 DEF FlushStart, Folds, Newest, ProgressQueueTypeOK
  <2>3. UNCHANGED <<entries, lastStamp, device, manifest, saved, reset, taken, givenUp>>
    BY <1>2 DEF FlushStart
  <2>4. act'[t] \in Acts /\ ActStands(act[t])'
    BY <2>1, <2>2, FlushingType DEF ActStands
  <2>. QED
    BY <2>1, <2>3, <2>4, QuietStep
<1>3. CASE FlushNext(t)
  <2>1. PICK e \in act[t].rest :
          act' = [act EXCEPT ![t] =
                    IF e.edition = manifest[WorkOf[e.edition]]
                      THEN Sending("flush", e, NoEntry, act[t].rest \ {e})
                      ELSE Flushing(act[t].rest \ {e})]
    BY <1>3 DEF FlushNext
  <2>2. \/ act'[t] = Sending("flush", e, NoEntry, act[t].rest \ {e})
        \/ act'[t] = Flushing(act[t].rest \ {e})
    BY <2>1 DEF ProgressQueueTypeOK
  <2>3. act' = [act EXCEPT ![t] = act'[t]]
    BY <2>1 DEF ProgressQueueTypeOK
  <2>4. /\ act[t].rest \ {e} \subseteq Positions /\ act[t].rest \ {e} \subseteq taken'
        /\ e \in Positions /\ e \in taken'
    BY <1>0, <1>3 DEF FlushNext, ActStands, Acts
  <2>5. act'[t] \in Acts /\ ActStands(act[t])'
    <3>1. CASE act'[t] = Sending("flush", e, NoEntry, act[t].rest \ {e})
      BY <2>4, <3>1 DEF Sending, Acts, ActStands
    <3>2. CASE act'[t] = Flushing(act[t].rest \ {e})
      BY <2>4, <3>2, FlushingType DEF ActStands
    <3>. QED
      BY <2>2, <3>1, <3>2
  <2>. QED
    BY <1>3, <2>3, <2>5, QuietStep DEF FlushNext
<1>4. ASSUME NEW w \in Works, OpenFetch(t, w) \/ MarkUnread(t, w) PROVE ProgressQueueInv'
  <2>1. saved[w] \in Nat /\ DeviceTime \in Nat
    BY FS_CardinalityType, ProgressQueueAssumption DEF ProgressQueueTypeOK, DeviceTime, Now
  <2>2. /\ act'[t] = Asking("open", w, saved[w]) \/ act'[t] = Asking("unread", w, DeviceTime)
        /\ act' = [act EXCEPT ![t] = act'[t]]
    BY <1>4 DEF OpenFetch, MarkUnread, ProgressQueueTypeOK
  <2>3. UNCHANGED <<entries, lastStamp, device, manifest, saved, reset, taken, givenUp>>
    BY <1>4 DEF OpenFetch, MarkUnread
  <2>4. saved[w] <= Latest(w)'
    BY <2>3, LatestTypes DEF Latest
  <2>5. act'[t] \in Acts /\ ActStands(act[t])'
    <3>1. CASE act'[t] = Asking("open", w, saved[w])
      <4>1. /\ act'[t].doing = "open" /\ act'[t].stale = NoEntry /\ act'[t].rest = {}
            /\ act'[t].work = w /\ act'[t].stamp = saved[w] /\ act'[t] \in Acts
        BY <2>1, <3>1 DEF Asking, Acts
      <4>. QED
        BY <2>4, <4>1 DEF ActStands
    <3>2. CASE act'[t] = Asking("unread", w, DeviceTime)
      BY <2>1, <3>2 DEF Asking, Acts, ActStands
    <3>. QED
      BY <2>2, <3>1, <3>2
  <2>. QED
    BY <2>2, <2>3, <2>5, QuietStep
<1>5. CASE UnreadLost(t) \/ UnreadChecked(t)
  <2>1. /\ act[t].doing \in {"unread", "reset", "notReset", "checking"}
        /\ UNCHANGED <<entries, lastStamp, device, manifest, saved, reset, taken, givenUp>>
    BY <1>5 DEF UnreadLost, UnreadChecked
  <2>2. \/ act'[t] = [act[t] EXCEPT !.doing = "checking"]
        \/ act'[t] = [act[t] EXCEPT !.doing = "empty"]
        \/ act'[t] = AtRest
    BY <1>5 DEF UnreadLost, UnreadChecked, ProgressQueueTypeOK
  <2>3. act' = [act EXCEPT ![t] = act'[t]]
    BY <1>5 DEF UnreadLost, UnreadChecked, ProgressQueueTypeOK
  <2>4. act'[t] \in Acts /\ ActStands(act[t])'
    <3>1. CASE \/ act'[t] = [act[t] EXCEPT !.doing = "checking"]
               \/ act'[t] = [act[t] EXCEPT !.doing = "empty"]
      BY <1>0, <2>1, <3>1 DEF Acts, ActStands
    <3>2. CASE act'[t] = AtRest
      BY <3>2, AtRestType DEF ActStands
    <3>. QED
      BY <2>2, <3>1, <3>2
  <2>. QED
    BY <2>1, <2>3, <2>4, QuietStep
<1>. QED
  BY <1>1, <1>2, <1>3, <1>4, <1>5

LEMMA AcknowledgedLoses ==
  ASSUME NEW e, NEW set, NEW f \in set, f \notin Acknowledged(e, set)
  PROVE  e \in set /\ (f = e \/ Older(f, e))
BY DEF Acknowledged

\* What is acknowledged was delivered, or refused; what goes with it is older.
LEMMA AnsweredStands ==
  ASSUME ProgressQueueInv, NEW t \in Tabs, Answered(t)
  PROVE  ProgressQueueInv'
<1>. USE DEF ProgressQueueInv
<1>1. PICK a \in Acts : a = act[t]
  BY DEF ProgressQueueTypeOK
<1>2. /\ ActStands(a) /\ a.doing \in {"saved", "flushed"}
      /\ \/ entries' = Acknowledged(a.entry, entries)
         \/ /\ entries' = Acknowledged(a.stale, Acknowledged(a.entry, entries))
            /\ a.stale # NoEntry
         \/ entries' = entries
      /\ givenUp' = IF a.refused THEN [givenUp EXCEPT !.clock = @ \cup {a.entry}] ELSE givenUp
      /\ act' = [act EXCEPT ![t] = Flushing(a.rest)]
      /\ UNCHANGED <<lastStamp, device, manifest, saved, reset, taken>>
  BY <1>1 DEF Answered
<1>3. /\ a.entry \in taken /\ a.entry \in Positions
      /\ a.rest \subseteq taken' /\ a.rest \subseteq Positions
  BY <1>2 DEF ActStands, Acts, ProgressQueueTypeOK
<1>4. act'[t] = Flushing(a.rest) /\ \A u \in Tabs \ {t} : act'[u] = act[u]
  BY <1>2 DEF ProgressQueueTypeOK
<1>5. act'[t] \in Acts /\ ActStands(act[t])'
  BY <1>3, <1>4, FlushingType DEF ActStands
<1>6. entries' \subseteq entries
  BY <1>2 DEF Acknowledged
<1>7. /\ givenUp'.unread = givenUp.unread /\ givenUp'.limit = givenUp.limit
      /\ givenUp'.unsaved = givenUp.unsaved
      /\ givenUp.clock \subseteq givenUp'.clock
      /\ a.refused => a.entry \in givenUp'.clock
      /\ givenUp' \in GivenUps
  BY <1>2, <1>3 DEF ProgressQueueTypeOK, GivenUps
<1>8. ProgressQueueTypeOK'
  BY <1>2, <1>5, <1>6, <1>7 DEF ProgressQueueTypeOK
<1>9. Grows
  BY <1>2, <1>7, LatestTypes DEF Grows, Latest
<1>10. ASSUME NEW f \in entries \ entries' PROVE Kept(f)'
  <2>1. \A g, h : g \in taken /\ Older(h, g) => g \in taken' /\ SameWork(g, h) /\ g.stamp > h.stamp
    BY <1>2, EditionsHaveWorks DEF Older, SameWork, ProgressQueueTypeOK
  <2>2. \/ f = a.entry \/ Older(f, a.entry)
        \/ a.stale # NoEntry /\ (f = a.stale \/ Older(f, a.stale))
    BY <1>2, <1>10, AcknowledgedLoses
  <2>3. CASE f = a.entry
    <3>1. CASE a.refused
      BY <1>2, <1>7, <2>3, <3>1 DEF ActStands, Kept
    <3>2. CASE ~a.refused
      BY <1>2, <2>3, <3>2 DEF ActStands, Kept, Delivered, Latest
    <3>. QED
      BY <3>1, <3>2
  <2>4. CASE Older(f, a.entry)
    BY <1>3, <2>1, <2>4 DEF Kept, Superseded
  <2>5. CASE a.stale # NoEntry /\ f = a.stale
    <3>1. a.entry \in taken' /\ SameWork(a.entry, f) /\ a.entry.stamp > f.stamp
      BY <1>2, <1>3, <2>5, EditionsHaveWorks DEF ActStands, SameWork, ProgressQueueTypeOK
    <3>. QED
      BY <3>1 DEF Kept, Superseded
  <2>6. CASE a.stale # NoEntry /\ Older(f, a.stale)
    BY <1>2, <2>1, <2>6 DEF ActStands, Kept, Superseded
  <2>. QED
    BY <2>2, <2>3, <2>4, <2>5, <2>6
<1>. QED
  BY <1>2, <1>4, <1>5, <1>8, <1>9, <1>10, StepOfTab

\* What a reader that opens removes is older than something pending, or not newer than
\* what the server had.
LEMMA OpenStands ==
  ASSUME ProgressQueueInv, NEW t \in Tabs, Open(t)
  PROVE  ProgressQueueInv'
<1>. USE DEF ProgressQueueInv
<1>1. PICK a \in Acts : a = act[t]
  BY DEF ProgressQueueTypeOK
<1>0. PICK mine \in Folds(OfWork(a.work)) :
        LET gone == {e \in mine : (\E f \in mine : f.stamp > e.stamp) \/ ~PendingWins(e, a.stamp)}
        IN  entries' = {e \in entries \ gone : ~\E f \in gone : Older(e, f)}
  BY <1>1 DEF Open
<1>. DEFINE gone == {e \in mine : (\E f \in mine : f.stamp > e.stamp) \/ ~PendingWins(e, a.stamp)}
<1>2. /\ ActStands(a) /\ a.doing = "open" /\ a.work \in Works
      /\ entries' = {e \in entries \ gone : ~\E f \in gone : Older(e, f)}
      /\ act' = [act EXCEPT ![t] = AtRest]
      /\ UNCHANGED <<lastStamp, device, manifest, saved, reset, taken, givenUp>>
  BY <1>0, <1>1 DEF Open, ActStands
<1>3. act'[t] = AtRest /\ \A u \in Tabs \ {t} : act'[u] = act[u]
  BY <1>2 DEF ProgressQueueTypeOK
<1>4. act'[t] \in Acts /\ ActStands(act[t])'
  BY <1>3, AtRestType DEF ActStands
<1>5. ProgressQueueTypeOK'
  BY <1>2, <1>4 DEF ProgressQueueTypeOK
<1>6. Grows
  BY <1>2, LatestTypes DEF Grows, Latest
<1>7. \A f \in mine : f \in entries /\ f \in taken' /\ f \in Positions /\ WorkOf[f.edition] = a.work
  BY <1>2 DEF Folds, Newest, OfWork, ProgressQueueTypeOK
<1>8. ASSUME NEW e \in entries \ entries' PROVE Kept(e)'
  <2>0. e \in Positions
    BY DEF ProgressQueueTypeOK
  <2>1. CASE \E f \in mine : SameWork(f, e) /\ f.stamp > e.stamp
    BY <1>7, <2>1 DEF Kept, Superseded
  <2>2. CASE e \in mine /\ ~PendingWins(e, a.stamp)
    <3>1. e.stamp <= a.stamp /\ a.stamp <= Latest(a.work)
      BY <1>2, <2>0, <2>2, EditionsHaveWorks DEF PendingWins, ActStands, Acts
    <3>2. Latest(WorkOf[e.edition]) >= e.stamp
      BY <1>2, <1>7, <2>0, <2>2, <3>1, EditionsHaveWorks, LatestTypes DEF Acts
    <3>. QED
      BY <1>2, <3>2 DEF Kept, Delivered, Latest
  <2>3. \/ e \in gone \/ \E f \in gone : Older(e, f)
    BY <1>2
  <2>4. CASE \E f \in gone : Older(e, f)
    BY <1>7, <2>0, <2>1, <2>4, EditionsHaveWorks DEF Older, SameWork
  <2>5. CASE e \in gone
    <3>1. e \in mine /\ ((\E f \in mine : f.stamp > e.stamp) \/ ~PendingWins(e, a.stamp))
      BY <2>5
    <3>. QED
      BY <1>7, <2>1, <2>2, <3>1 DEF SameWork
  <2>. QED
    BY <2>3, <2>4, <2>5
<1>. QED
  BY <1>2, <1>3, <1>4, <1>5, <1>6, <1>8, StepOfTab

\* Marking a work as unread takes its position away, but never the latest time.
LEMMA UnreadArrivesStands ==
  ASSUME ProgressQueueInv, NEW t \in Tabs, UnreadArrives(t)
  PROVE  ProgressQueueInv'
<1>. USE DEF ProgressQueueInv
<1>1. PICK a \in Acts : a = act[t]
  BY DEF ProgressQueueTypeOK
<1>2. PICK w : w = a.work
  OBVIOUS
<1>3. /\ ActStands(a) /\ a.doing = "unread" /\ w \in Works /\ a.stamp \in Nat
      /\ UNCHANGED <<entries, lastStamp, device, manifest, taken, givenUp>>
  BY <1>1, <1>2 DEF UnreadArrives, ActStands, Acts
<1>4. PICK doing \in {"reset", "notReset", "checking"} :
        /\ act' = [act EXCEPT ![t].doing = doing]
        /\ doing = "reset" => reset' = [reset EXCEPT ![w] = a.stamp] /\ a.stamp > Latest(w)
  BY <1>1, <1>2 DEF UnreadArrives
<1>5. act'[t] = [a EXCEPT !.doing = doing] /\ \A u \in Tabs \ {t} : act'[u] = act[u]
  BY <1>1, <1>4 DEF ProgressQueueTypeOK
<1>6. \/ UNCHANGED <<saved, reset>>
      \/ /\ a.stamp > Latest(w)
         /\ saved' = [saved EXCEPT ![w] = 0] /\ reset' = [reset EXCEPT ![w] = a.stamp]
  BY <1>1, <1>2 DEF UnreadArrives
<1>7. saved' \in [Works -> Nat] /\ reset' \in [Works -> Nat]
  BY <1>3, <1>6 DEF ProgressQueueTypeOK
<1>8. act'[t] \in Acts
  BY <1>3, <1>5 DEF Acts
<1>9. act' \in [Tabs -> Acts]
  BY <1>4, <1>5, <1>8 DEF ProgressQueueTypeOK
<1>10. ProgressQueueTypeOK'
  BY <1>3, <1>7, <1>9 DEF ProgressQueueTypeOK
<1>11. ASSUME NEW v \in Works PROVE Latest(v)' >= Latest(v)
  <2>1. /\ saved[v] \in Nat /\ reset[v] \in Nat /\ Latest(v) \in Nat
        /\ saved'[v] \in Nat /\ reset'[v] \in Nat
    BY <1>7, LatestTypes
  <2>2. CASE UNCHANGED <<saved, reset>>
    BY <2>1, <2>2 DEF Latest
  <2>3. CASE /\ a.stamp > Latest(w)
             /\ saved' = [saved EXCEPT ![w] = 0] /\ reset' = [reset EXCEPT ![w] = a.stamp]
    <3>1. CASE v = w
      BY <1>3, <2>1, <2>3, <3>1, LatestIs, LatestIsNext DEF ProgressQueueTypeOK
    <3>2. CASE v # w
      BY <2>1, <2>3, <3>2, LatestIs, LatestIsNext DEF ProgressQueueTypeOK
    <3>. QED
      BY <3>1, <3>2
  <2>. QED
    BY <1>6, <2>2, <2>3
<1>12. Grows
  <2>1. \A v \in Works : reset[v] # 0 => reset'[v] # 0
    BY <1>3, <1>6, LatestTypes DEF ProgressQueueTypeOK
  <2>. QED
    BY <1>3, <1>11, <2>1 DEF Grows
<1>13. ActStands(act[t])'
  <2>1. doing = "reset" => reset'[w] # 0
    BY <1>3, <1>4, LatestTypes DEF ProgressQueueTypeOK
  <2>. QED
    BY <1>2, <1>3, <1>4, <1>5, <2>1 DEF ActStands, Acts
<1>. QED
  BY <1>3, <1>5, <1>10, <1>12, <1>13, StepOfTab

LEMMA UnreadAnsweredStands ==
  ASSUME ProgressQueueInv, NEW t \in Tabs, UnreadAnswered(t)
  PROVE  ProgressQueueInv'
<1>. USE DEF ProgressQueueInv
<1>1. PICK gone, w : w = act[t].work /\ gone = OfWork(w)
  OBVIOUS
<1>2. /\ act' = [act EXCEPT ![t] = AtRest]
      /\ UNCHANGED <<lastStamp, device, manifest, saved, reset, taken>>
      /\ \/ /\ entries' = entries \ gone /\ givenUp' = [givenUp EXCEPT !.unread = @ \cup gone]
            /\ reset'[w] # 0
         \/ entries' = entries \ gone /\ givenUp' = [givenUp EXCEPT !.unsaved = @ \cup gone]
         \/ UNCHANGED <<entries, givenUp>>
  BY <1>1 DEF UnreadAnswered, ActStands
<1>3. act'[t] = AtRest /\ \A u \in Tabs \ {t} : act'[u] = act[u]
  BY <1>2 DEF ProgressQueueTypeOK
<1>4. act'[t] \in Acts /\ ActStands(act[t])'
  BY <1>3, AtRestType DEF ActStands
<1>5. gone \subseteq Positions /\ \A e \in gone : WorkOf[e.edition] = w
  BY <1>1 DEF OfWork, ProgressQueueTypeOK
<1>6. /\ givenUp' \in GivenUps
      /\ givenUp.unread \subseteq givenUp'.unread /\ givenUp.unsaved \subseteq givenUp'.unsaved
      /\ givenUp'.limit = givenUp.limit /\ givenUp'.clock = givenUp.clock
      /\ \A e \in entries \ entries' :
           \/ e \in givenUp'.unread /\ reset'[WorkOf[e.edition]] # 0
           \/ e \in givenUp'.unsaved
      /\ entries' \subseteq entries
  BY <1>2, <1>5 DEF ProgressQueueTypeOK, GivenUps
<1>7. ProgressQueueTypeOK'
  BY <1>2, <1>4, <1>6 DEF ProgressQueueTypeOK
<1>8. Grows
  BY <1>2, <1>6, LatestTypes DEF Grows, Latest
<1>9. \A e \in entries \ entries' : Kept(e)'
  BY <1>6 DEF Kept
<1>. QED
  BY <1>2, <1>3, <1>4, <1>7, <1>8, <1>9, StepOfTab

LEMMA ReloadStands ==
  ASSUME ProgressQueueInv, NEW t \in Tabs, Reload(t)
  PROVE  ProgressQueueInv'
<1>. USE DEF ProgressQueueInv
<1>1. /\ act' = [act EXCEPT ![t] = AtRest]
      /\ lastStamp' = [lastStamp EXCEPT ![t] = 0]
      /\ UNCHANGED <<entries, device, manifest, saved, reset, taken, givenUp>>
  BY DEF Reload
<1>2. /\ act'[t] = AtRest /\ \A u \in Tabs \ {t} : act'[u] = act[u]
      /\ \A u \in Tabs : lastStamp'[u] \in {lastStamp[u], 0}
  BY <1>1 DEF ProgressQueueTypeOK
<1>3. act'[t] \in Acts /\ ActStands(act[t])'
  BY <1>2, AtRestType DEF ActStands
<1>4. ProgressQueueTypeOK'
  BY <1>1, <1>3 DEF ProgressQueueTypeOK
<1>5. Grows
  BY <1>1, LatestTypes DEF Grows, Latest
<1>. QED
  BY <1>1, <1>2, <1>3, <1>4, <1>5, StepOfTab

\* What happens outside the tabs takes nothing and makes the server's times no older.
LEMMA OutsideStands ==
  ASSUME ProgressQueueInv,
         \/ CorrectClock \/ \E b \in Editions : NewManifest(b)
         \/ \E w \in Works : NewerElsewhere(w)
  PROVE  ProgressQueueInv'
<1>. USE DEF ProgressQueueInv
<1>1. /\ UNCHANGED <<entries, lastStamp, act, reset, taken, givenUp>>
      /\ (device' = device) \/ (device # "right" /\ device' = "corrected")
      /\ UNCHANGED manifest \/ \E b \in Editions : manifest' = [manifest EXCEPT ![WorkOf[b]] = b]
      /\ \/ UNCHANGED saved
         \/ \E w \in Works, s \in Nat : s > Latest(w) /\ saved' = [saved EXCEPT ![w] = s]
  <2>1. CASE CorrectClock
    BY <2>1 DEF CorrectClock
  <2>2. CASE \E b \in Editions : NewManifest(b)
    <3>1. PICK b \in Editions : NewManifest(b)
      BY <2>2
    <3>2. /\ UNCHANGED <<entries, lastStamp, act, device, saved, reset, taken, givenUp>>
          /\ manifest' = [manifest EXCEPT ![WorkOf[b]] = b]
      BY <3>1 DEF NewManifest
    <3>. QED
      BY <3>2
  <2>3. ASSUME NEW w \in Works, NewerElsewhere(w)
        PROVE  \E s \in Nat : s > Latest(w) /\ saved' = [saved EXCEPT ![w] = s]
    <3>1. Latest(w) \in Nat /\ Now \in Nat
      BY LatestTypes, FS_CardinalityType DEF ProgressQueueTypeOK, Now
    <3>2. PICK s \in (Latest(w) + 1)..Now : saved' = [saved EXCEPT ![w] = s]
      BY <2>3 DEF NewerElsewhere
    <3>3. s \in Nat /\ s > Latest(w)
      BY <3>1, <3>2
    <3>. QED
      BY <3>2, <3>3
  <2>4. CASE \E w \in Works : NewerElsewhere(w)
    <3>1. PICK w \in Works : NewerElsewhere(w)
      BY <2>4
    <3>2. \E s \in Nat : s > Latest(w) /\ saved' = [saved EXCEPT ![w] = s]
      BY <2>3, <3>1
    <3>3. UNCHANGED <<entries, lastStamp, act, device, manifest, reset, taken, givenUp>>
      BY <3>1 DEF NewerElsewhere
    <3>. QED
      BY <3>2, <3>3
  <2>. QED
    BY <2>1, <2>2, <2>4
<1>2. saved' \in [Works -> Nat] /\ \A v \in Works : saved'[v] >= saved[v]
  <2>1. CASE UNCHANGED saved
    BY <2>1 DEF ProgressQueueTypeOK
  <2>2. ASSUME NEW w \in Works, NEW s \in Nat, s > Latest(w), saved' = [saved EXCEPT ![w] = s]
        PROVE  saved' \in [Works -> Nat] /\ \A v \in Works : saved'[v] >= saved[v]
    BY <2>2, LatestTypes DEF ProgressQueueTypeOK
  <2>. QED
    BY <1>1, <2>1, <2>2
<1>3. manifest' \in [Works -> Editions]
  BY <1>1, ProgressQueueAssumption DEF ProgressQueueTypeOK
<1>4. ProgressQueueTypeOK'
  BY <1>1, <1>2, <1>3 DEF ProgressQueueTypeOK
<1>5. Grows
  BY <1>1, <1>2, LatestTypes, LatestIs, LatestIsNext DEF Grows, ProgressQueueTypeOK
<1>6. ASSUME NEW u \in Tabs PROVE ActStands(act[u])'
  <2>1. act[u] \in Acts /\ ActStands(act[u]) /\ act'[u] = act[u]
    BY <1>1 DEF ProgressQueueTypeOK
  <2>. QED
    BY <1>4, <1>5, <2>1, ActStays DEF ActStands
<1>7. RightStamps'
  BY <1>1 DEF RightStamps, Now
<1>8. ASSUME NEW e \in taken' PROVE Kept(e)'
  <2>1. e \in entries => Kept(e)'
    BY <1>1 DEF Kept
  <2>. QED
    BY <1>1, <1>4, <1>5, <2>1, KeptStays
<1>. QED
  BY <1>4, <1>6, <1>7, <1>8

-----------------------------------------------------------------------------
LEMMA InitStands == ProgressQueueInit => ProgressQueueInv
<1>. SUFFICES ASSUME ProgressQueueInit PROVE ProgressQueueInv
  OBVIOUS
<1>1. AtRest \in Acts /\ ActStands(AtRest)
  BY DEF AtRest, Sending, Acts, ActStands
<1>2. ProgressQueueTypeOK
  BY <1>1, FS_EmptySet DEF ProgressQueueInit, ProgressQueueTypeOK, GivenUps
<1>3. \A t \in Tabs : act[t] = AtRest
  BY DEF ProgressQueueInit
<1>4. RightStamps
  BY FS_EmptySet DEF ProgressQueueInit, RightStamps, Now
<1>. QED
  BY <1>1, <1>2, <1>3, <1>4 DEF ProgressQueueInit, ProgressQueueInv

LEMMA NextStands ==
  ProgressQueueInv /\ [ProgressQueueNext]_progressQueueVars => ProgressQueueInv'
<1>. SUFFICES ASSUME ProgressQueueInv, [ProgressQueueNext]_progressQueueVars
              PROVE  ProgressQueueInv'
  OBVIOUS
<1>1. CASE UNCHANGED progressQueueVars
  BY <1>1 DEF progressQueueVars, ProgressQueueInv, ProgressQueueTypeOK, ActStands, RightStamps,
              Kept, Superseded, Delivered, Latest, Now
<1>2. ASSUME NEW t \in Tabs,
             \/ \E b \in Editions : Take(t, b)
             \/ \E u \in Tabs, b, c \in Editions : TakeTogether(t, u, b, c)
             \/ Arrive(t) \/ Answered(t) \/ Lost(t) \/ FlushStart(t) \/ FlushNext(t)
             \/ \E w \in Works : OpenFetch(t, w) \/ MarkUnread(t, w)
             \/ Open(t) \/ UnreadArrives(t) \/ UnreadLost(t) \/ UnreadChecked(t)
             \/ UnreadAnswered(t) \/ Reload(t)
      PROVE  ProgressQueueInv'
  BY <1>2, TakeStands, TakeTogetherStands, ArriveStands, AnsweredStands, QuietActionsStand, OpenStands,
     UnreadArrivesStands, UnreadAnsweredStands, ReloadStands
<1>. QED
  BY <1>1, <1>2, OutsideStands DEF ProgressQueueNext

\* A position that is taken is pending until the server has it or something newer, but
\* for a work that was reset, one that was marked as unread while the server had no
\* position of it, a full queue and a clock that is or was ahead (acknowledgePendingProgress, compactStoredEntries, flushPendingProgress and the
\* clean-up when a reader opens): for any number of tabs, whatever is lost or reloaded.
THEOREM PositionsAreNeverLost == ProgressQueueSpec => []PositionsAreKept
<1>1. ProgressQueueInv => PositionsAreKept
  BY DEF ProgressQueueInv, PositionsAreKept, Kept, Superseded, Delivered, SameWork
<1>. QED
  BY <1>1, InitStands, NextStands, PTL DEF ProgressQueueSpec

-----------------------------------------------------------------------------
(***************************************************************************)
(* What is continued, for any library.  The argument: the scan of a series *)
(* finds the book read last (CursorIsReadLast), so a series gives a book    *)
(* exactly when it offers one (SeriesTargets); and while books are tried,   *)
(* whatever was tried offers nothing and whatever is left was read no later *)
(* (Tried).                                                                *)
(***************************************************************************)

BooksOK == books \in [Books -> BookStates]
Progress(b) == books[b].progress
Reading(b) == EffectiveReadState(b) = "reading"

\* The progress of two books is ordered, up to books that rank the same.
LEMMA ProgressIs ==
  ASSUME BooksOK, NEW b, b \in Books \cup {NoBook}, HasProgress(b)
  PROVE  Progress(b) \in [meaningful : BOOLEAN, time : Nat, completed : BOOLEAN]
<1>1. b \in Books /\ books[b] \in BookStates
  BY DEF BooksOK, HasProgress
<1>2. Progress(b) \in Progresses /\ Progress(b) # NoProgress
  BY <1>1, ContinueTargetAssumption DEF Progress, HasProgress
<1>. QED
  BY <1>2 DEF Progresses

LEMMA RanksAreOrdered ==
  ASSUME NEW p \in [meaningful : BOOLEAN, time : Nat, completed : BOOLEAN],
         NEW q \in [meaningful : BOOLEAN, time : Nat, completed : BOOLEAN],
         NEW r \in [meaningful : BOOLEAN, time : Nat, completed : BOOLEAN]
  PROVE  /\ ~Above(p, p)
         /\ ~(Above(p, q) /\ Above(q, p))
         /\ ~Above(p, q) /\ ~Above(q, r) => ~Above(p, r)
         /\ Above(p, q) /\ ~Above(r, q) => Above(p, r)
<1>1. /\ p.meaningful \in BOOLEAN /\ q.meaningful \in BOOLEAN /\ r.meaningful \in BOOLEAN
      /\ p.time \in Nat /\ q.time \in Nat /\ r.time \in Nat
  OBVIOUS
<1>. QED
  BY <1>1 DEF Above

\* Induction up to N, for a set of numbers.
LEMMA UpTo ==
  ASSUME NEW N \in Nat, NEW S, 0 \in S, \A n \in 0..(N - 1) : n \in S => n + 1 \in S
  PROVE  0..N \subseteq S
<1>. DEFINE Bad == 0..N \ S
<1>. SUFFICES ASSUME Bad # {} PROVE FALSE
  OBVIOUS
<1>1. IsWellFoundedOn({ss \in Nat \X Nat : ss[1] < ss[2]}, Nat)
  BY NatLessThanWellFounded DEF OpToRel
<1>2. Bad \subseteq Nat
  OBVIOUS
<1>3. PICK n \in Bad : \A m \in Bad : ~(<<m, n>> \in {ss \in Nat \X Nat : ss[1] < ss[2]})
  <2>. HIDE DEF Bad
  <2>. QED
    BY <1>1, <1>2, WFMin
<1>4. \A m \in Bad : ~(m < n)
  BY <1>2, <1>3
<1>5. n # 0 /\ n - 1 \in 0..(N - 1) /\ (n - 1) + 1 = n
  BY <1>3
<1>. QED
  BY <1>3, <1>4, <1>5

LEMMA LowestIs ==
  ASSUME NEW S \in SUBSET Nat, S # {}
  PROVE  Lowest(S) \in S /\ \A j \in S : Lowest(S) <= j
<1>1. IsWellFoundedOn({ss \in Nat \X Nat : ss[1] < ss[2]}, Nat)
  BY NatLessThanWellFounded DEF OpToRel
<1>2. PICK n \in S : \A m \in S : ~(<<m, n>> \in {ss \in Nat \X Nat : ss[1] < ss[2]})
  BY <1>1, WFMin
<1>3. S \subseteq Nat
  OBVIOUS
<1>4. \A m \in S : ~(m < n)
  BY <1>2, <1>3
<1>5. \A m \in S : n <= m
  BY <1>3, <1>4
<1>. QED
  BY <1>5 DEF Lowest

-----------------------------------------------------------------------------
(* The scan for the book read last.                                         *)

\* c is the last of the first n of seq whose progress nothing ranks above.
Leads(seq, n, c) ==
  \/ c = NoBook /\ \A j \in 1..n : ~HasProgress(seq[j])
  \/ \E i \in 1..n :
       /\ c = seq[i] /\ HasProgress(c)
       /\ \A j \in 1..n : HasProgress(seq[j]) =>
            /\ ~Above(Progress(seq[j]), Progress(c))
            /\ j > i => Above(Progress(c), Progress(seq[j]))

LEMMA LeadsOn ==
  ASSUME BooksOK, NEW seq \in Seq(Books \cup {NoBook}), NEW n \in 1..Len(seq),
         NEW c, Leads(seq, n - 1, c)
  PROVE  Leads(seq, n, Later(c, seq[n]))
<1>. DEFINE b == seq[n]
            d == Later(c, b)
<1>0. /\ n \in Nat /\ n > 0 /\ n \in 1..n /\ Len(seq) \in Nat
      /\ \A j \in 1..n : j \in 1..(n - 1) \/ j = n
      /\ \A j \in 1..(n - 1) : j \in 1..n /\ ~(j > n) /\ j \in 1..Len(seq) /\ n > j
  OBVIOUS
<1>1. \A j \in 1..n : seq[j] \in Books \cup {NoBook}
  BY <1>0
<1>2. \A j \in 1..n : HasProgress(seq[j]) =>
        Progress(seq[j]) \in [meaningful : BOOLEAN, time : Nat, completed : BOOLEAN]
  BY <1>1, ProgressIs
<1>3. c = NoBook \/ (HasProgress(c) /\ c # NoBook /\ \E i \in 1..(n - 1) : c = seq[i])
  BY DEF Leads, HasProgress
<1>4. CASE ~HasProgress(b)
  <2>1. d = c
    BY <1>4 DEF Later
  <2>2. CASE c = NoBook
    <3>1. \A j \in 1..(n - 1) : ~HasProgress(seq[j])
      BY <2>2 DEF Leads, HasProgress
    <3>. QED
      BY <1>0, <1>4, <2>1, <2>2, <3>1 DEF Leads
  <2>3. CASE c # NoBook
    <3>1. PICK i \in 1..(n - 1) :
            /\ c = seq[i] /\ HasProgress(c)
            /\ \A j \in 1..(n - 1) : HasProgress(seq[j]) =>
                 /\ ~Above(Progress(seq[j]), Progress(c))
                 /\ j > i => Above(Progress(c), Progress(seq[j]))
      BY <2>3 DEF Leads
    <3>. QED
      BY <1>0, <1>4, <2>1, <3>1 DEF Leads
  <2>. QED
    BY <2>2, <2>3
<1>5. CASE HasProgress(b) /\ (c = NoBook \/ ~Above(Progress(c), Progress(b)))
  <2>1. d = b
    BY <1>5 DEF Later, Progress
  <2>2. ASSUME NEW j \in 1..n, HasProgress(seq[j])
        PROVE  ~Above(Progress(seq[j]), Progress(b)) /\ ~(j > n)
    <3>1. CASE j = n
      BY <1>0, <1>2, <1>5, <3>1, RanksAreOrdered
    <3>2. CASE j \in 1..(n - 1) /\ c = NoBook
      BY <2>2, <3>2 DEF Leads, HasProgress
    <3>3. CASE j \in 1..(n - 1) /\ c # NoBook
      <4>1. ~Above(Progress(seq[j]), Progress(c))
        BY <2>2, <3>3 DEF Leads
      <4>2. ~Above(Progress(c), Progress(b))
        BY <1>5, <3>3
      <4>3. PICK i \in 1..n : c = seq[i] /\ HasProgress(seq[i])
        BY <1>0, <1>3, <3>3
      <4>. QED
        BY <1>0, <1>2, <1>5, <2>2, <3>3, <4>1, <4>2, <4>3, RanksAreOrdered
    <3>. QED
      BY <1>0, <3>1, <3>2, <3>3
  <2>. QED
    BY <1>0, <1>5, <2>1, <2>2 DEF Leads
<1>6. CASE HasProgress(b) /\ c # NoBook /\ Above(Progress(c), Progress(b))
  <2>1. d = c
    BY <1>6 DEF Later, Progress
  <2>2. PICK i \in 1..(n - 1) :
          /\ c = seq[i] /\ HasProgress(c)
          /\ \A j \in 1..(n - 1) : HasProgress(seq[j]) =>
               /\ ~Above(Progress(seq[j]), Progress(c))
               /\ j > i => Above(Progress(c), Progress(seq[j]))
    BY <1>6 DEF Leads
  <2>3. i \in 1..n /\ HasProgress(seq[i])
    BY <1>0, <2>2
  <2>4. ASSUME NEW j \in 1..n, HasProgress(seq[j])
        PROVE  /\ ~Above(Progress(seq[j]), Progress(c))
               /\ j > i => Above(Progress(c), Progress(seq[j]))
    <3>1. CASE j \in 1..(n - 1)
      BY <2>2, <2>4, <3>1
    <3>2. CASE j = n
      BY <1>0, <1>2, <1>6, <2>2, <2>3, <3>2, RanksAreOrdered
    <3>. QED
      BY <1>0, <3>1, <3>2
  <2>. QED
    BY <2>1, <2>2, <2>3, <2>4 DEF Leads
<1>. QED
  BY <1>4, <1>5, <1>6

LEMMA LastReadLeads ==
  ASSUME BooksOK, NEW seq \in Seq(Books \cup {NoBook})
  PROVE  Leads(seq, Len(seq), LastRead(seq))
<1>. DEFINE N == Len(seq)
            Up(f, n) == f[0] = NoBook /\ \A i \in 1..n : f[i] = Later(f[i - 1], seq[i])
            Reached == {n \in 0..N : \E f : Up(f, n)}
            Rec(f) == f = [n \in 0..N |-> IF n = 0 THEN NoBook ELSE Later(f[n - 1], seq[n])]
            best == CHOOSE f : Rec(f)
<1>1. N \in Nat
  OBVIOUS
<1>2. LastRead(seq) = best[N]
  BY DEF LastRead
<1>3. 0 \in Reached
  <2>1. PICK f : f = [i \in {0} |-> NoBook]
    OBVIOUS
  <2>2. Up(f, 0)
    BY <2>1
  <2>. QED
    BY <1>1, <2>2
<1>4. ASSUME NEW n \in 0..(N - 1), n \in Reached PROVE n + 1 \in Reached
  <2>1. PICK f : Up(f, n)
    BY <1>4
  <2>2. PICK g : g = [i \in 0..(n + 1) |-> IF i = n + 1 THEN Later(f[n], seq[n + 1]) ELSE f[i]]
    OBVIOUS
  <2>3. \A i \in 0..n : g[i] = f[i]
    BY <1>1, <2>2
  <2>4. g[n + 1] = Later(g[n], seq[n + 1])
    BY <1>1, <2>2, <2>3
  <2>5. ASSUME NEW i \in 1..(n + 1) PROVE g[i] = Later(g[i - 1], seq[i])
    <3>1. CASE i = n + 1
      BY <1>1, <2>4, <3>1
    <3>2. CASE i # n + 1
      <4>1. i \in 1..n /\ i \in 0..n /\ i - 1 \in 0..n
        BY <1>1, <3>2
      <4>. QED
        BY <2>1, <2>3, <4>1
    <3>. QED
      BY <3>1, <3>2
  <2>6. g[0] = NoBook
    BY <1>1, <2>1, <2>3
  <2>7. Up(g, n + 1) /\ n + 1 \in 0..N
    BY <1>1, <2>5, <2>6
  <2>. QED
    BY <2>7
<1>5. N \in Reached
  <2>. HIDE DEF Reached
  <2>1. 0..N \subseteq Reached
    BY <1>1, <1>3, <1>4, UpTo
  <2>. QED
    BY <1>1, <2>1
<1>6. Rec(best)
  <2>1. PICK f : Up(f, N)
    BY <1>5
  <2>2. PICK g : g = [n \in 0..N |-> f[n]]
    OBVIOUS
  <2>3. Rec(g)
    BY <1>1, <2>1, <2>2
  <2>. QED
    BY <2>3
<1>. HIDE DEF best
<1>7. best[0] = NoBook /\ \A n \in 1..N : best[n] = Later(best[n - 1], seq[n])
  <2>1. 0 \in 0..N /\ \A n \in 1..N : n \in 0..N /\ n # 0
    BY <1>1
  <2>. QED
    BY <1>6, <2>1
<1>. DEFINE Good == {n \in 0..N : Leads(seq, n, best[n])}
<1>8. 0 \in Good
  BY <1>1, <1>7 DEF Leads
<1>9. ASSUME NEW n \in 0..(N - 1), n \in Good PROVE n + 1 \in Good
  <2>1. n + 1 \in 1..N /\ (n + 1) - 1 = n /\ n + 1 \in 0..N
    BY <1>1
  <2>2. Leads(seq, (n + 1) - 1, best[n])
    BY <1>9, <2>1
  <2>3. Leads(seq, n + 1, Later(best[n], seq[n + 1]))
    BY <2>1, <2>2, LeadsOn
  <2>. QED
    BY <1>7, <2>1, <2>3
<1>. QED
  <2>. HIDE DEF Good
  <2>1. 0..N \subseteq Good
    BY <1>1, <1>8, <1>9, UpTo
  <2>. QED
    BY <1>1, <1>2, <2>1 DEF Good

-----------------------------------------------------------------------------
(* What a series gives.                                                      *)

Groups(s) == GroupsOf[s]

LEMMA GroupsAre ==
  ASSUME NEW s \in AllSeries
  PROVE  /\ s \in Nat /\ DOMAIN Groups(s) = 1..Len(Groups(s)) /\ Len(Groups(s)) \in Nat
         /\ \A i \in DOMAIN Groups(s) :
              /\ Groups(s)[i].primary \in Books
              /\ Groups(s)[i].entries \in Seq(Books)
              /\ DOMAIN Groups(s)[i].entries = 1..Len(Groups(s)[i].entries)
              /\ Len(Groups(s)[i].entries) \in Nat
              /\ \A k \in DOMAIN Groups(s)[i].entries : Groups(s)[i].entries[k] \in Books
<1>1. s \in Nat /\ Groups(s) \in Seq([primary : Books, entries : Seq(Books) \ {<<>>}])
  BY ContinueTargetAssumption DEF AllSeries, Groups
<1>2. \A i \in DOMAIN Groups(s) : Groups(s)[i] \in [primary : Books, entries : Seq(Books) \ {<<>>}]
  <2>1. \A T : \A f \in Seq(T) : \A i \in DOMAIN f : f[i] \in T
    OBVIOUS
  <2>. QED
    BY <1>1, <2>1
<1>3. \A i \in DOMAIN Groups(s) : Groups(s)[i].primary \in Books /\ Groups(s)[i].entries \in Seq(Books)
  BY <1>2
<1>4. \A e \in Seq(Books) : DOMAIN e = 1..Len(e) /\ Len(e) \in Nat /\ \A k \in DOMAIN e : e[k] \in Books
  OBVIOUS
<1>. QED
  BY <1>1, <1>3, <1>4

\* A place of a series, and the book at it.
LEMMA PlacesAre ==
  ASSUME NEW s \in AllSeries
  PROVE  /\ \A x \in Places(s) :
              /\ x[1] \in DOMAIN Groups(s) /\ x[2] \in DOMAIN Groups(s)[x[1]].entries
              /\ x = <<x[1], x[2]>> /\ BookAt(s, x) = Groups(s)[x[1]].entries[x[2]]
              /\ BookAt(s, x) \in Books /\ BookAt(s, x) \in InSeries(s)
         /\ \A i \in DOMAIN Groups(s) : \A k \in DOMAIN Groups(s)[i].entries :
              <<i, k>> \in Places(s) /\ BookAt(s, <<i, k>>) = Groups(s)[i].entries[k]
         /\ \A b \in InSeries(s) : \E x \in Places(s) : BookAt(s, x) = b
         /\ InSeries(s) \subseteq Books
<1>1. \A x : x \in Places(s) <=> \E i \in DOMAIN Groups(s) : x \in {i} \X DOMAIN Groups(s)[i].entries
  BY DEF Places, Groups
<1>2. \A x \in Places(s) : x = <<x[1], x[2]>> /\ x[1] \in DOMAIN Groups(s) /\ x[2] \in DOMAIN Groups(s)[x[1]].entries
  BY <1>1
<1>3. \A x \in Places(s) : BookAt(s, x) = Groups(s)[x[1]].entries[x[2]] /\ BookAt(s, x) \in Books
  BY <1>2, GroupsAre DEF BookAt, Groups
<1>4. \A b : b \in InSeries(s) <=>
        \E i \in DOMAIN Groups(s) : \E k \in DOMAIN Groups(s)[i].entries : b = Groups(s)[i].entries[k]
  BY DEF InSeries, InGroup, Groups
<1>5. \A i \in DOMAIN Groups(s) : \A k \in DOMAIN Groups(s)[i].entries :
        <<i, k>> \in Places(s) /\ BookAt(s, <<i, k>>) = Groups(s)[i].entries[k]
  <2>1. \A i, k : <<i, k>>[1] = i /\ <<i, k>>[2] = k
    OBVIOUS
  <2>2. \A D, i, k : k \in D => <<i, k>> \in {i} \X D
    OBVIOUS
  <2>3. \A i, k : BookAt(s, <<i, k>>) = Groups(s)[i].entries[k]
    BY <2>1 DEF BookAt, Groups
  <2>. QED
    BY <1>1, <2>2, <2>3
<1>6. \A b \in InSeries(s) : b \in Books
  BY <1>4, GroupsAre
<1>7. ASSUME NEW b \in InSeries(s) PROVE \E x \in Places(s) : BookAt(s, x) = b
  <2>1. PICK i \in DOMAIN Groups(s) : \E k \in DOMAIN Groups(s)[i].entries : b = Groups(s)[i].entries[k]
    BY <1>4
  <2>2. PICK k \in DOMAIN Groups(s)[i].entries : b = Groups(s)[i].entries[k]
    BY <2>1
  <2>3. <<i, k>> \in Places(s) /\ BookAt(s, <<i, k>>) = b
    BY <1>5, <2>2
  <2>. QED
    BY <2>3
<1>8. \A x \in Places(s) : BookAt(s, x) \in InSeries(s)
  BY <1>2, <1>3, <1>4
<1>. QED
  BY <1>2, <1>3, <1>5, <1>6, <1>7, <1>8

Newer(y, x) == y[1] > x[1] \/ (y[1] = x[1] /\ y[2] > x[2])
ReadLastAt(s, b, x) ==
  /\ x \in Places(s) /\ BookAt(s, x) = b /\ HasProgress(b)
  /\ \A y \in Places(s) : HasProgress(BookAt(s, y)) =>
       /\ ~Above(Progress(BookAt(s, y)), Progress(b))
       /\ Newer(y, x) => Above(Progress(b), Progress(BookAt(s, y)))

LEMMA ReadLastIs ==
  ASSUME NEW s, NEW b
  PROVE  ReadLast(s, b) <=> \E x : ReadLastAt(s, b, x)
BY DEF ReadLast, ReadLastAt, Progress, Newer

\* One book is the one read last.
LEMMA OneIsReadLast ==
  ASSUME BooksOK, NEW s \in AllSeries, NEW b, NEW c, ReadLast(s, b), ReadLast(s, c)
  PROVE  b = c /\ b \in InSeries(s) /\ b \in Books /\ HasProgress(b)
<1>1. PICK x : ReadLastAt(s, b, x)
  BY ReadLastIs
<1>2. PICK z : ReadLastAt(s, c, z)
  BY ReadLastIs
<1>3. /\ x \in Places(s) /\ z \in Places(s) /\ BookAt(s, x) = b /\ BookAt(s, z) = c
      /\ HasProgress(b) /\ HasProgress(c)
  BY <1>1, <1>2 DEF ReadLastAt
<1>4. b \in InSeries(s) /\ b \in Books /\ c \in Books
  BY <1>3, PlacesAre
<1>5. ~Newer(z, x) /\ ~Newer(x, z)
  BY <1>1, <1>2, <1>3 DEF ReadLastAt
<1>6. /\ x = <<x[1], x[2]>> /\ z = <<z[1], z[2]>>
      /\ x[1] \in DOMAIN Groups(s) /\ z[1] \in DOMAIN Groups(s)
      /\ x[2] \in DOMAIN Groups(s)[x[1]].entries /\ z[2] \in DOMAIN Groups(s)[z[1]].entries
  BY <1>3, PlacesAre
<1>7. x[1] \in Nat /\ z[1] \in Nat /\ x[2] \in Nat /\ z[2] \in Nat
  <2>1. \A n : n \in Nat => 1..n \subseteq Nat
    OBVIOUS
  <2>. QED
    BY <1>6, <2>1, GroupsAre
<1>8. x[1] = z[1]
  BY <1>5, <1>7 DEF Newer
<1>9. x[2] = z[2]
  BY <1>5, <1>7, <1>8 DEF Newer
<1>. QED
  BY <1>3, <1>4, <1>6, <1>8, <1>9

\* The cursor is the book of the series read last, none if no book was read.
LEMMA CursorIsReadLast ==
  ASSUME BooksOK, NEW s \in AllSeries
  PROVE  \/ Cursor(s) = NoBook /\ \A b : ~ReadLast(s, b)
         \/ Cursor(s) # NoBook /\ ReadLast(s, Cursor(s))
<1>. DEFINE latest == [i \in DOMAIN Groups(s) |-> LatestOf(Groups(s)[i])]
            N == Len(Groups(s))
            E(i) == Groups(s)[i].entries
<1>0. /\ N \in Nat /\ DOMAIN Groups(s) = 1..N
      /\ \A i \in 1..N : /\ E(i) \in Seq(Books) /\ DOMAIN E(i) = 1..Len(E(i)) /\ Len(E(i)) \in Nat
                         /\ \A k \in 1..Len(E(i)) : E(i)[k] \in Books
  BY GroupsAre
<1>1. Cursor(s) = LastRead(latest)
  BY DEF Cursor, Groups
<1>2. ASSUME NEW i \in 1..N
      PROVE  Leads(E(i), Len(E(i)), LatestOf(Groups(s)[i]))
  <2>1. E(i) \in Seq(Books \cup {NoBook})
    BY <1>0
  <2>. QED
    BY <2>1, LastReadLeads DEF LatestOf
<1>3. \A i \in 1..N : LatestOf(Groups(s)[i]) \in Books \cup {NoBook}
  BY <1>0, <1>2 DEF Leads
<1>4. latest \in Seq(Books \cup {NoBook}) /\ Len(latest) = N /\ \A i \in 1..N : latest[i] = LatestOf(Groups(s)[i])
  BY <1>0, <1>3
<1>5. Leads(latest, N, Cursor(s))
  <2>. HIDE DEF latest
  <2>. QED
    BY <1>1, <1>4, LastReadLeads
<1>. HIDE DEF latest
\* A book that was read is no later than the latest of its group.
<1>6. ASSUME NEW i \in 1..N, NEW k \in 1..Len(E(i)), HasProgress(E(i)[k])
      PROVE  HasProgress(latest[i]) /\ ~Above(Progress(E(i)[k]), Progress(latest[i]))
  BY <1>2, <1>4, <1>6 DEF Leads, HasProgress
<1>7. \A y \in Places(s) : /\ y[1] \in 1..N /\ y[2] \in 1..Len(E(y[1]))
                           /\ BookAt(s, y) = E(y[1])[y[2]] /\ BookAt(s, y) \in Books
  BY <1>0, PlacesAre
<1>8. CASE \A i \in 1..N : ~HasProgress(latest[i])
  <2>1. Cursor(s) = NoBook
    BY <1>5, <1>8 DEF Leads
  <2>2. \A y \in Places(s) : ~HasProgress(BookAt(s, y))
    BY <1>6, <1>7, <1>8
  <2>3. \A b : ~ReadLast(s, b)
    BY <2>2 DEF ReadLast
  <2>. QED
    BY <2>1, <2>3
<1>9. CASE \E i \in 1..N : HasProgress(latest[i])
  <2>1. PICK i \in 1..N :
          /\ Cursor(s) = latest[i] /\ HasProgress(Cursor(s))
          /\ \A j \in 1..N : HasProgress(latest[j]) =>
               /\ ~Above(Progress(latest[j]), Progress(Cursor(s)))
               /\ j > i => Above(Progress(Cursor(s)), Progress(latest[j]))
    BY <1>5, <1>9 DEF Leads
  <2>2. Leads(E(i), Len(E(i)), Cursor(s))
    BY <1>2, <1>4, <2>1
  <2>3. PICK k \in 1..Len(E(i)) :
          /\ Cursor(s) = E(i)[k]
          /\ \A l \in 1..Len(E(i)) : HasProgress(E(i)[l]) =>
               /\ ~Above(Progress(E(i)[l]), Progress(Cursor(s)))
               /\ l > k => Above(Progress(Cursor(s)), Progress(E(i)[l]))
    BY <2>1, <2>2 DEF Leads, HasProgress
  <2>4. <<i, k>> \in Places(s) /\ BookAt(s, <<i, k>>) = Cursor(s)
    BY <1>0, <2>3, PlacesAre
  <2>5. ASSUME NEW y \in Places(s), HasProgress(BookAt(s, y))
        PROVE  /\ ~Above(Progress(BookAt(s, y)), Progress(Cursor(s)))
               /\ Newer(y, <<i, k>>) => Above(Progress(Cursor(s)), Progress(BookAt(s, y)))
    <3>. DEFINE c == Cursor(s)  b == BookAt(s, y)  j == y[1]  d == latest[j]
    <3>1. j \in 1..N /\ y[2] \in 1..Len(E(j)) /\ b = E(j)[y[2]] /\ b \in Books
      BY <1>7
    <3>2. HasProgress(d) /\ ~Above(Progress(b), Progress(d))
      BY <1>6, <2>5, <3>1
    <3>3. ~Above(Progress(d), Progress(c)) /\ (j > i => Above(Progress(c), Progress(d)))
      BY <2>1, <3>1, <3>2
    <3>4. /\ Progress(b) \in [meaningful : BOOLEAN, time : Nat, completed : BOOLEAN]
          /\ Progress(c) \in [meaningful : BOOLEAN, time : Nat, completed : BOOLEAN]
          /\ Progress(d) \in [meaningful : BOOLEAN, time : Nat, completed : BOOLEAN]
      <4>1. d \in Books \cup {NoBook} /\ c \in Books \cup {NoBook}
        BY <1>3, <1>4, <2>1, <3>1
      <4>. QED
        BY <2>1, <2>5, <3>1, <3>2, <4>1, ProgressIs
    <3>. HIDE DEF c, b, d, j
    <3>5. ~Above(Progress(b), Progress(c)) /\ (j > i => Above(Progress(c), Progress(b)))
      BY <3>2, <3>3, <3>4, RanksAreOrdered
    <3>6. j = i /\ y[2] > k => Above(Progress(c), Progress(b))
      BY <2>3, <2>5, <3>1 DEF c, b
    <3>7. Newer(y, <<i, k>>) => j > i \/ (j = i /\ y[2] > k)
      BY DEF Newer, j
    <3>. QED
      BY <3>5, <3>6, <3>7 DEF c, b
  <2>6. ReadLastAt(s, Cursor(s), <<i, k>>)
    BY <2>1, <2>4, <2>5 DEF ReadLastAt
  <2>. QED
    BY <2>1, <2>6, ReadLastIs DEF HasProgress
<1>. QED
  BY <1>8, <1>9

-----------------------------------------------------------------------------
(* What is offered of a group and of a series.                              *)

LEMMA GroupTargetIs ==
  ASSUME NEW s \in AllSeries, NEW j \in DOMAIN Groups(s)
  PROVE  LET t == GroupTarget(Groups(s)[j])
         IN  \/ t = NoBook /\ \A b \in InGroup(Groups(s)[j]) : ~Targetable(b)
             \/ t # NoBook /\ t \in InGroup(Groups(s)[j]) /\ Targetable(t)
<1>. DEFINE g == Groups(s)[j]
            open == {i \in DOMAIN g.entries : Targetable(g.entries[i])}
<1>1. /\ \A b : b \in InGroup(g) <=> \E i \in DOMAIN g.entries : b = g.entries[i]
      /\ \A i \in DOMAIN g.entries : g.entries[i] \in Books
  BY GroupsAre DEF InGroup
<1>2. open \in SUBSET Nat
  BY GroupsAre
<1>3. GroupTarget(g) = CASE \E i \in open : g.entries[i] = g.primary -> g.primary
                         [] open = {} -> NoBook
                         [] OTHER -> g.entries[Lowest(open)]
  BY DEF GroupTarget
<1>4. CASE open = {}
  BY <1>1, <1>3, <1>4
<1>5. CASE open # {}
  <2>1. \E i \in open : GroupTarget(g) = g.entries[i]
    <3>1. Lowest(open) \in open
      <4>. HIDE DEF open
      <4>. QED
        BY <1>2, <1>5, LowestIs
    <3>. QED
      BY <1>3, <1>5, <3>1
  <2>. QED
    BY <1>1, <2>1, ContinueTargetAssumption
<1>. QED
  BY <1>4, <1>5

First(s, i, b) ==
  \E j \in OpenAfter(s, i) : b \in InGroup(GroupsOf[s][j]) /\ \A k \in OpenAfter(s, i) : j <= k

LEMMA NextGroupTargetIs ==
  ASSUME NEW s \in AllSeries, NEW i
  PROVE  LET t == NextGroupTarget(s, i)
         IN  \/ t = NoBook /\ OpenAfter(s, i) = {}
             \/ t # NoBook /\ t \in Books /\ Targetable(t) /\ OpenAfter(s, i) # {} /\ First(s, i, t)
<1>. DEFINE found == {j \in DOMAIN Groups(s) : j > i /\ GroupTarget(Groups(s)[j]) # NoBook}
<1>1. found = OpenAfter(s, i)
  BY GroupTargetIs DEF OpenAfter, Groups
<1>2. NextGroupTarget(s, i) = IF found = {} THEN NoBook ELSE GroupTarget(Groups(s)[Lowest(found)])
  BY DEF NextGroupTarget, Groups
<1>3. found \in SUBSET Nat /\ found \subseteq DOMAIN Groups(s)
  BY GroupsAre
<1>4. \A j \in found : GroupTarget(Groups(s)[j]) # NoBook
  OBVIOUS
<1>. HIDE DEF found
<1>5. CASE found = {}
  BY <1>1, <1>2, <1>5
<1>6. CASE found # {}
  <2>. DEFINE j == Lowest(found)  t == GroupTarget(Groups(s)[j])
  <2>1. j \in found /\ \A k \in found : j <= k
    BY <1>3, <1>6, LowestIs
  <2>2. t # NoBook /\ t \in InGroup(Groups(s)[j]) /\ Targetable(t)
    BY <1>3, <1>4, <2>1, GroupTargetIs
  <2>3. t \in Books
    <3>. HIDE DEF t
    <3>. QED
      BY <1>3, <2>1, <2>2, GroupsAre DEF InGroup
  <2>. QED
    BY <1>1, <1>2, <1>6, <2>1, <2>2, <2>3 DEF First, Groups
<1>. QED
  BY <1>5, <1>6

Offers(s) == \E b \in Books : Targetable(b) /\ Continues(s, b)

LEMMA ContinuesIs ==
  ASSUME NEW s, NEW b
  PROVE  Continues(s, b) <=>
           /\ s \notin closed
           /\ \E last \in InSeries(s) :
                /\ ReadLast(s, last)
                /\ \/ b = last /\ Reading(last)
                   \/ ~(Targetable(last) /\ Reading(last)) /\ First(s, GroupIndex(s, last), b)
BY DEF Continues, Reading, First

\* A series gives a book exactly when it offers one, and one it offers.
LEMMA SeriesTargets ==
  ASSUME BooksOK, NEW s \in AllSeries
  PROVE  LET t == TargetForSeries(s)
         IN  \/ t = NoBook /\ ~Offers(s)
             \/ t # NoBook /\ t \in Books /\ Targetable(t) /\ Continues(s, t)
<1>. DEFINE c == Cursor(s)  t == TargetForSeries(s)  next == NextGroupTarget(s, GroupIndex(s, c))
<1>1. t = IF s \in closed \/ c = NoBook THEN NoBook
          ELSE IF Targetable(c) /\ Reading(c) THEN c ELSE next
  BY DEF TargetForSeries, Reading
<1>2. \/ c = NoBook /\ \A b : ~ReadLast(s, b)
      \/ c # NoBook /\ ReadLast(s, c)
  BY CursorIsReadLast
<1>3. \/ next = NoBook /\ OpenAfter(s, GroupIndex(s, c)) = {}
      \/ next # NoBook /\ next \in Books /\ Targetable(next) /\ First(s, GroupIndex(s, c), next)
  BY NextGroupTargetIs
<1>4. ReadLast(s, c) => c \in InSeries(s) /\ c \in Books /\ \A last : ReadLast(s, last) => last = c
  BY OneIsReadLast
<1>. HIDE DEF c, t, next
<1>5. CASE s \in closed \/ c = NoBook
  BY <1>1, <1>2, <1>5, ContinuesIs DEF Offers, t
<1>6. CASE s \notin closed /\ c # NoBook /\ Targetable(c) /\ Reading(c)
  BY <1>1, <1>2, <1>4, <1>6, ContinuesIs DEF t
<1>7. CASE s \notin closed /\ c # NoBook /\ ~(Targetable(c) /\ Reading(c)) /\ next # NoBook
  BY <1>1, <1>2, <1>3, <1>4, <1>7, ContinuesIs DEF t
<1>8. CASE s \notin closed /\ c # NoBook /\ ~(Targetable(c) /\ Reading(c)) /\ next = NoBook
  <2>1. ASSUME NEW b \in Books, Targetable(b), Continues(s, b) PROVE FALSE
    <3>1. (b = c /\ Reading(c)) \/ First(s, GroupIndex(s, c), b)
      BY <1>2, <1>4, <1>8, <2>1, ContinuesIs
    <3>. QED
      BY <1>3, <1>8, <2>1, <3>1 DEF First
  <2>. QED
    BY <1>1, <1>8, <2>1 DEF Offers, t
<1>. QED
  BY <1>5, <1>6, <1>7, <1>8

-----------------------------------------------------------------------------
(* The books that were tried.                                               *)

\* A book that offers nothing any more: alone and not being read, or of series
\* that were tried.
Settled(b) ==
  IF Memberships(b) = {} THEN ~(books[b].open /\ Reading(b)) ELSE Memberships(b) \subseteq seenSeries

Tried ==
  /\ \A b \in Books : HasProgress(b) /\ b \notin anchors =>
       Settled(b) /\ \A c \in anchors : TriedBefore(b, c)
  /\ \A s \in seenSeries : ~Offers(s)

ContinueInv ==
  /\ BooksOK
  /\ closed \subseteq AllSeries
  /\ anchors \subseteq {b \in Books : HasProgress(b)}
  /\ seenSeries \subseteq AllSeries
  /\ phase \in {"ask", "try", "answered"}
  /\ phase = "ask" => seenSeries = {}
  /\ phase # "answered" => target = NoBook /\ nextItem = NoBook
  /\ phase = "try" => Tried

\* What is true of an answer, in the words of the property.
Alone(b) == b \in Books /\ Memberships(b) = {}
AloneOffers(b) == books[b].open /\ HasProgress(b) /\ Reading(b)
Above2(b, c) == Above(Progress(b), Progress(c))
NothingAbove(read) ==
  \A c : HasProgress(c) /\ (\A b \in read : HasProgress(b) => Above2(c, b)) =>
    /\ Alone(c) => ~AloneOffers(c)
    /\ \A s \in AllSeries : c \in InSeries(s) => ~Offers(s)
AnswerIs(t, n) ==
  \/ /\ t = NoBook
     /\ \A b : Alone(b) => ~AloneOffers(b)
     /\ \A s \in AllSeries : ~Offers(s)
  \/ /\ t # NoBook /\ Targetable(t)
     /\ \/ Alone(t) /\ AloneOffers(t) /\ NothingAbove({t}) /\ n = NoBook
        \/ \E s \in AllSeries :
             /\ Offers(s) /\ NothingAbove(InSeries(s)) /\ Continues(s, t)
             /\ IF OpenAfter(s, GroupIndex(s, t)) = {} THEN n = NoBook
                ELSE First(s, GroupIndex(s, t), n)

AnsweredRight == phase = "answered" => \E t, n : t = target /\ n = nextItem /\ AnswerIs(t, n)

LEMMA AnswerIsRight == AnsweredRight => ContinuesWhereTheReaderStopped
<1>. SUFFICES ASSUME phase = "answered", AnswerIs(target, nextItem) PROVE ContinuesWhereTheReaderStopped
  BY DEF ContinuesWhereTheReaderStopped, AnsweredRight
<1>. DEFINE alone == {b \in Books : Memberships(b) = {}}
            offers(o) == IF o[1] = "book" THEN books[o[2]].open /\ HasProgress(o[2]) /\ EffectiveReadState(o[2]) = "reading"
                         ELSE \E b \in Books : Targetable(b) /\ Continues(o[2], b)
            owners == ({"book"} \X alone) \cup ({"series"} \X AllSeries)
            read(o) == {b \in IF o[1] = "book" THEN {o[2]} ELSE InSeries(o[2]) : HasProgress(b)}
            before(o, p) == \E c \in read(p) : \A b \in read(o) : Above(books[c].progress, books[b].progress)
            wanted == \/ target = NoBook /\ \A o \in owners : ~offers(o)
                      \/ /\ target # NoBook /\ Targetable(target)
                         /\ \E o \in owners :
                              /\ offers(o)
                              /\ \A p \in owners : before(o, p) => ~offers(p)
                              /\ IF o[1] = "book" THEN target = o[2] /\ nextItem = NoBook
                                 ELSE /\ Continues(o[2], target)
                                      /\ LET after == OpenAfter(o[2], GroupIndex(o[2], target))
                                         IN  IF after = {} THEN nextItem = NoBook
                                             ELSE \E j \in after : /\ \A k \in after : j <= k
                                                                   /\ nextItem \in InGroup(GroupsOf[o[2]][j])
<1>1. wanted => ContinuesWhereTheReaderStopped
  BY DEF ContinuesWhereTheReaderStopped
<1>2. /\ \A b : Alone(b) => <<"book", b>> \in owners
      /\ \A s \in AllSeries : <<"series", s>> \in owners
      /\ \A o \in owners : (o[1] = "book" /\ Alone(o[2])) \/ (o[1] = "series" /\ o[2] \in AllSeries)
  BY DEF Alone
<1>3. \A o \in owners : offers(o) <=> IF o[1] = "book" THEN AloneOffers(o[2]) ELSE Offers(o[2])
  BY DEF AloneOffers, Offers, Reading
<1>4. \A o : \A b : b \in read(o) <=> HasProgress(b) /\ IF o[1] = "book" THEN b = o[2] ELSE b \in InSeries(o[2])
  OBVIOUS
<1>5. \A o, p : before(o, p) <=> \E c \in read(p) : \A b \in read(o) : Above2(c, b)
  BY DEF Above2, Progress
<1>6. \A b : <<"book", b>>[1] = "book" /\ <<"book", b>>[2] = b
  OBVIOUS
<1>7. \A s : <<"series", s>>[1] = "series" /\ <<"series", s>>[2] = s
  OBVIOUS
<1>. HIDE DEF alone, owners, offers, read, before
<1>8. CASE target = NoBook
  <2>1. ASSUME NEW o \in owners PROVE ~offers(o)
    BY <1>2, <1>3, <1>8, <2>1 DEF AnswerIs
  <2>. QED
    BY <1>1, <1>8, <2>1
<1>9. CASE target # NoBook /\ Alone(target) /\ AloneOffers(target) /\ NothingAbove({target}) /\ nextItem = NoBook
  <2>. DEFINE o == <<"book", target>>
  <2>1. o \in owners /\ offers(o) /\ o[1] = "book" /\ o[2] = target
    BY <1>2, <1>3, <1>6, <1>9
  <2>. HIDE DEF o
  <2>2. ASSUME NEW p \in owners, before(o, p) PROVE ~offers(p)
    <3>1. PICK c \in read(p) : \A b \in read(o) : Above2(c, b)
      BY <1>5, <2>2
    <3>2. HasProgress(c) /\ \A b \in {target} : HasProgress(b) => Above2(c, b)
      BY <1>4, <2>1, <3>1
    <3>. QED
      BY <1>2, <1>3, <1>4, <1>9, <3>1, <3>2 DEF NothingAbove
  <2>3. Targetable(target)
    BY <1>9 DEF AnswerIs
  <2>. QED
    BY <1>1, <1>9, <2>1, <2>2, <2>3
<1>10. ASSUME NEW s \in AllSeries, target # NoBook,
              Offers(s), NothingAbove(InSeries(s)), Continues(s, target),
              IF OpenAfter(s, GroupIndex(s, target)) = {} THEN nextItem = NoBook
              ELSE First(s, GroupIndex(s, target), nextItem)
       PROVE  wanted
  <2>. DEFINE o == <<"series", s>>
  <2>1. o \in owners /\ offers(o) /\ o[1] = "series" /\ o[2] = s /\ o[1] # "book"
    BY <1>2, <1>3, <1>7, <1>10
  <2>. HIDE DEF o
  <2>2. ASSUME NEW p \in owners, before(o, p) PROVE ~offers(p)
    <3>1. PICK c \in read(p) : \A b \in read(o) : Above2(c, b)
      BY <1>5, <2>2
    <3>2. HasProgress(c) /\ \A b \in InSeries(s) : HasProgress(b) => Above2(c, b)
      BY <1>4, <2>1, <3>1
    <3>. QED
      BY <1>2, <1>3, <1>4, <1>10, <3>1, <3>2 DEF NothingAbove
  <2>3. Targetable(target)
    BY <1>10 DEF AnswerIs
  <2>4. IF OpenAfter(s, GroupIndex(s, target)) = {} THEN nextItem = NoBook
        ELSE \E j \in OpenAfter(s, GroupIndex(s, target)) :
               /\ \A k \in OpenAfter(s, GroupIndex(s, target)) : j <= k
               /\ nextItem \in InGroup(GroupsOf[s][j])
    BY <1>10 DEF First
  <2>. QED
    BY <1>10, <2>1, <2>2, <2>3, <2>4
<1>. QED
  BY <1>1, <1>8, <1>9, <1>10 DEF AnswerIs

\* A step that leaves the library alone leaves what it offers alone.
LEMMA LibraryStays ==
  ASSUME books' = books, closed' = closed
  PROVE  /\ \A s : Offers(s)' <=> Offers(s)
         /\ \A t, n : AnswerIs(t, n)' <=> AnswerIs(t, n)
<1>1. /\ \A b : Targetable(b)' <=> Targetable(b)
      /\ \A b : Reading(b)' <=> Reading(b)
      /\ \A b : HasProgress(b)' <=> HasProgress(b)
      /\ \A b : Progress(b)' = Progress(b)
  <2>1. \A b : EffectiveReadState(b)' = EffectiveReadState(b)
    BY DEF EffectiveReadState
  <2>. QED
    BY <2>1 DEF Targetable, Reading, HasProgress, Progress
<1>2. \A s, i : OpenAfter(s, i)' = OpenAfter(s, i)
  <2>1. \A s, i : \A j : j \in OpenAfter(s, i)' <=> j \in OpenAfter(s, i)
    BY <1>1 DEF OpenAfter
  <2>. QED
    BY <2>1 DEF OpenAfter
<1>3. \A s, i, b : First(s, i, b)' <=> First(s, i, b)
  BY <1>2 DEF First
<1>4. \A s, b : ReadLast(s, b)' <=> ReadLast(s, b)
  BY <1>1 DEF ReadLast, Progress
<1>5. \A s, b : Continues(s, b)' <=> Continues(s, b)
  BY <1>1, <1>2, <1>4 DEF Continues, Reading
<1>6. \A s : Offers(s)' <=> Offers(s)
  BY <1>1, <1>5 DEF Offers
<1>7. \A b : AloneOffers(b)' <=> AloneOffers(b)
  BY <1>1 DEF AloneOffers
<1>8. \A b, c : Above2(b, c)' <=> Above2(b, c)
  BY <1>1 DEF Above2
<1>9. \A read : NothingAbove(read)' <=> NothingAbove(read)
  BY <1>1, <1>6, <1>7, <1>8 DEF NothingAbove
<1>10. \A t, n : AnswerIs(t, n)' <=> AnswerIs(t, n)
  BY <1>1, <1>2, <1>3, <1>5, <1>6, <1>7, <1>9 DEF AnswerIs
<1>. QED
  BY <1>6, <1>10

\* What ranks above the book that is tried next offers nothing.
LEMMA NothingAboveTheNext ==
  ASSUME BooksOK, Tried, NEW b \in anchors, IsNext(b), anchors \subseteq {c \in Books : HasProgress(c)},
         NEW read, b \in read
  PROVE  NothingAbove(read)
<1>. SUFFICES ASSUME NEW c, HasProgress(c), \A d \in read : HasProgress(d) => Above2(c, d)
     PROVE  /\ Alone(c) => ~AloneOffers(c)
            /\ \A s \in AllSeries : c \in InSeries(s) => ~Offers(s)
  BY DEF NothingAbove
<1>1. HasProgress(b) /\ b \in Books /\ Above2(c, b)
  OBVIOUS
<1>2. ASSUME c \in Books PROVE c \notin anchors /\ Settled(c)
  <2>1. /\ Progress(b) \in [meaningful : BOOLEAN, time : Nat, completed : BOOLEAN]
        /\ Progress(c) \in [meaningful : BOOLEAN, time : Nat, completed : BOOLEAN]
    BY <1>1, <1>2, ProgressIs
  <2>2. c # b /\ ~Above2(b, c)
    BY <1>1, <2>1, RanksAreOrdered DEF Above2
  <2>3. ~TriedBefore(b, c)
    BY <1>1, <2>2 DEF TriedBefore, Above2, Progress
  <2>4. c \notin anchors
    BY <2>2, <2>3 DEF IsNext
  <2>. QED
    BY <1>2, <2>4 DEF Tried
<1>3. ASSUME Alone(c) PROVE ~AloneOffers(c)
  BY <1>2, <1>3 DEF Alone, Settled, AloneOffers
<1>4. ASSUME NEW s \in AllSeries, c \in InSeries(s) PROVE ~Offers(s)
  <2>1. c \in Books
    BY <1>4, PlacesAre
  <2>2. s \in Memberships(c)
    BY <1>4 DEF Memberships
  <2>3. s \in seenSeries
    BY <1>2, <2>1, <2>2 DEF Settled
  <2>. QED
    BY <2>3 DEF Tried
<1>. QED
  BY <1>3, <1>4

\* What a step that goes on trying must do.
LEMMA GoesOn ==
  ASSUME ContinueInv, phase = "try", books' = books, closed' = closed,
         anchors' \subseteq anchors, seenSeries \subseteq seenSeries', seenSeries' \subseteq AllSeries,
         \A s \in seenSeries' \ seenSeries : ~Offers(s),
         \A b \in anchors \ anchors' :
           /\ IF Memberships(b) = {} THEN ~(books[b].open /\ Reading(b)) ELSE Memberships(b) \subseteq seenSeries'
           /\ \A c \in anchors' : TriedBefore(b, c)
  PROVE  Tried'
<1>1. \A s \in seenSeries' : ~Offers(s)'
  BY LibraryStays DEF ContinueInv, Tried
<1>2. \A b : Reading(b)' <=> Reading(b)
  BY DEF Reading, EffectiveReadState
<1>3. ASSUME NEW b \in Books, HasProgress(b)', b \notin anchors'
      PROVE  Settled(b)' /\ \A c \in anchors' : TriedBefore(b, c)'
  <2>1. HasProgress(b)
    BY <1>3 DEF HasProgress
  <2>2. \A c : TriedBefore(b, c)' <=> TriedBefore(b, c)
    BY DEF TriedBefore
  <2>3. Memberships(b)' = Memberships(b)
    BY DEF Memberships, InSeries, InGroup
  <2>4. CASE b \in anchors
    BY <1>2, <1>3, <2>2, <2>3, <2>4 DEF Settled
  <2>5. CASE b \notin anchors
    BY <1>2, <1>3, <2>1, <2>2, <2>3, <2>5 DEF Settled, ContinueInv, Tried
  <2>. QED
    BY <2>4, <2>5
<1>. QED
  BY <1>1, <1>3 DEF Tried

LEMMA ContinueSteps ==
  ASSUME ContinueInv, AnsweredRight, [ContinueNext]_continueVars
  PROVE  ContinueInv' /\ AnsweredRight'
<1>0. /\ BooksOK /\ closed \subseteq AllSeries /\ anchors \subseteq {b \in Books : HasProgress(b)}
      /\ seenSeries \subseteq AllSeries
  BY DEF ContinueInv
<1>00. ASSUME books' = books, anchors' \subseteq anchors PROVE BooksOK' /\ anchors' \subseteq {b \in Books : HasProgress(b)'}
  BY <1>0, <1>00 DEF BooksOK, HasProgress
<1>000. ASSUME NEW b \in anchors, IsNext(b) PROVE phase = "try" /\ Tried /\ \A c \in anchors \ {b} : TriedBefore(b, c)
  BY <1>000 DEF IsNext, ContinueInv
<1>1. CASE FindAnchors
  <2>1. anchors' \subseteq {b \in Books : HasProgress(b)'} /\ BooksOK'
    BY <1>0, <1>1 DEF FindAnchors, HasProgress, BooksOK
  <2>2. \A b \in Books : HasProgress(b)' => b \in anchors'
    BY <1>1 DEF FindAnchors, HasProgress
  <2>3. seenSeries' = {} /\ phase' = "try" /\ target' = NoBook /\ nextItem' = NoBook /\ closed' = closed
    BY <1>1 DEF FindAnchors, ContinueInv
  <2>. QED
    BY <1>0, <2>1, <2>2, <2>3 DEF ContinueInv, Tried, AnsweredRight
<1>2. ASSUME NEW b \in anchors, TryBook(b) PROVE ContinueInv' /\ AnsweredRight'
  <2>1. /\ Memberships(b) = {} /\ books' = books /\ closed' = closed /\ anchors' = anchors \ {b}
        /\ seenSeries' = seenSeries /\ nextItem' = NoBook
        /\ IsNext(b) /\ phase = "try" /\ Tried /\ \A c \in anchors \ {b} : TriedBefore(b, c)
    BY <1>2, <1>000 DEF TryBook, ContinueInv
  <2>2. CASE books[b].open /\ Reading(b)
    <3>1. phase' = "answered" /\ target' = b
      BY <1>2, <2>2 DEF TryBook, Reading
    <3>2. NothingAbove({b})
      BY <1>0, <2>1, NothingAboveTheNext
    <3>3. b \in Books /\ HasProgress(b) /\ b # NoBook
      BY <1>0 DEF HasProgress
    <3>4. Targetable(b) /\ Alone(b) /\ AloneOffers(b)
      BY <2>1, <2>2, <3>3 DEF Targetable, Alone, AloneOffers, Reading
    <3>5. AnswerIs(b, NoBook)
      BY <3>2, <3>3, <3>4 DEF AnswerIs
    <3>6. AnswerIs(b, NoBook)'
      BY <2>1, <3>5, LibraryStays
    <3>. QED
      BY <1>0, <1>00, <2>1, <3>1, <3>6 DEF ContinueInv, AnsweredRight
  <2>3. CASE ~(books[b].open /\ Reading(b))
    <3>1. phase' = "try" /\ target' = NoBook
      BY <1>2, <2>1, <2>3 DEF TryBook, Reading, ContinueInv
    <3>2. Tried'
      BY <1>0, <2>1, <2>3, GoesOn
    <3>. QED
      BY <1>0, <1>00, <2>1, <3>1, <3>2 DEF ContinueInv, AnsweredRight
  <2>. QED
    BY <2>2, <2>3
<1>3. ASSUME NEW b \in anchors, TrySeries(b) PROVE ContinueInv' /\ AnsweredRight'
  <2>. DEFINE left == Memberships(b) \ seenSeries
              s == Lowest(left)
              t == TargetForSeries(s)
              n == NextGroupTarget(s, GroupIndex(s, t))
  <2>1. /\ left # {} /\ books' = books /\ closed' = closed /\ anchors' = anchors
        /\ seenSeries' = seenSeries \cup {s}
        /\ IF t = NoBook THEN UNCHANGED <<phase, target, nextItem>>
           ELSE phase' = "answered" /\ target' = t /\ nextItem' = n
        /\ IsNext(b) /\ phase = "try" /\ Tried
    BY <1>3, <1>000 DEF TrySeries
  <2>2. s \in AllSeries /\ b \in InSeries(s)
    <3>1. left \in SUBSET Nat
      BY ContinueTargetAssumption DEF Memberships, AllSeries
    <3>2. s \in left
      <4>. HIDE DEF left
      <4>. QED
        BY <2>1, <3>1, LowestIs
    <3>. QED
      BY <3>2 DEF Memberships
  <2>. HIDE DEF s
  <2>3. \/ t = NoBook /\ ~Offers(s)
        \/ t # NoBook /\ t \in Books /\ Targetable(t) /\ Continues(s, t)
    BY <1>0, <2>2, SeriesTargets
  <2>. HIDE DEF t
  <2>4. \/ n = NoBook /\ OpenAfter(s, GroupIndex(s, t)) = {}
        \/ OpenAfter(s, GroupIndex(s, t)) # {} /\ First(s, GroupIndex(s, t), n)
    BY <2>2, NextGroupTargetIs
  <2>. HIDE DEF n
  <2>5. CASE t = NoBook
    <3>1. phase' = "try" /\ target' = NoBook /\ nextItem' = NoBook
      BY <2>1, <2>5 DEF ContinueInv
    <3>2. Tried'
      BY <1>0, <2>1, <2>2, <2>3, <2>5, GoesOn
    <3>. QED
      BY <1>0, <1>00, <2>1, <2>2, <3>1, <3>2 DEF ContinueInv, AnsweredRight
  <2>6. CASE t # NoBook
    <3>1. phase' = "answered" /\ target' = t /\ nextItem' = n
      BY <2>1, <2>6
    <3>2. NothingAbove(InSeries(s))
      BY <1>0, <2>1, <2>2, NothingAboveTheNext
    <3>3. Offers(s)
      BY <2>3, <2>6 DEF Offers
    <3>4. AnswerIs(t, n)
      BY <2>2, <2>3, <2>4, <2>6, <3>2, <3>3 DEF AnswerIs
    <3>5. PICK x, y : x = t /\ y = n
      OBVIOUS
    <3>6. AnswerIs(x, y)'
      BY <2>1, <3>4, <3>5, LibraryStays
    <3>7. target' = x /\ nextItem' = y
      BY <3>1, <3>5
    <3>. QED
      BY <1>0, <1>00, <2>1, <2>2, <3>1, <3>6, <3>7 DEF ContinueInv, AnsweredRight
  <2>. QED
    BY <2>5, <2>6
<1>4. ASSUME NEW b \in anchors, SeriesTried(b) PROVE ContinueInv' /\ AnsweredRight'
  <2>1. /\ Memberships(b) # {} /\ Memberships(b) \subseteq seenSeries
        /\ anchors' = anchors \ {b} /\ UNCHANGED <<books, closed, seenSeries, phase, target, nextItem>>
        /\ phase = "try" /\ Tried /\ \A c \in anchors \ {b} : TriedBefore(b, c)
    BY <1>4, <1>000 DEF SeriesTried
  <2>2. Tried'
    BY <1>0, <2>1, GoesOn
  <2>. QED
    BY <1>0, <1>00, <2>1, <2>2 DEF ContinueInv, AnsweredRight
<1>5. CASE NothingToContinue
  <2>1. /\ phase = "try" /\ anchors = {} /\ Tried /\ phase' = "answered" /\ target' = NoBook /\ nextItem' = NoBook
        /\ UNCHANGED <<books, closed, anchors, seenSeries>>
    BY <1>5 DEF NothingToContinue, ContinueInv
  <2>2. \A b : Alone(b) => ~AloneOffers(b)
    BY <2>1 DEF Tried, Alone, AloneOffers, Settled
  <2>3. ASSUME NEW s \in AllSeries PROVE ~Offers(s)
    <3>1. SUFFICES ASSUME NEW last, ReadLast(s, last) PROVE ~Offers(s)
      BY DEF Offers, Continues
    <3>2. last \in InSeries(s) /\ last \in Books /\ HasProgress(last)
      BY <1>0, <3>1, OneIsReadLast
    <3>3. s \in Memberships(last)
      BY <3>2 DEF Memberships
    <3>4. s \in seenSeries
      BY <2>1, <3>2, <3>3 DEF Tried, Settled
    <3>. QED
      BY <2>1, <3>4 DEF Tried
  <2>4. AnswerIs(NoBook, NoBook)
    BY <2>2, <2>3 DEF AnswerIs
  <2>5. AnswerIs(NoBook, NoBook)'
    BY <2>1, <2>4, LibraryStays
  <2>. QED
    BY <1>0, <1>00, <2>1, <2>5 DEF ContinueInv, AnsweredRight
<1>6. CASE UNCHANGED continueVars
  <2>1. UNCHANGED <<books, closed, anchors, seenSeries, phase, target, nextItem>>
    BY <1>6 DEF continueVars
  <2>2. phase = "try" => Tried'
    BY <1>0, <2>1, GoesOn
  <2>3. \A t, n : AnswerIs(t, n) => AnswerIs(t, n)'
    BY <2>1, LibraryStays
  <2>4. AnsweredRight'
    BY <2>1, <2>3 DEF AnsweredRight
  <2>. QED
    BY <1>0, <1>00, <2>1, <2>2, <2>4 DEF ContinueInv
<1>. QED
  BY <1>1, <1>2, <1>3, <1>4, <1>5, <1>6 DEF ContinueNext

\* What is continued is the book being read, or the next after the one read last:
\* nothing that was read later offers anything (queryContinueTarget).
THEOREM ContinuesFromWhatWasReadLast == ContinueSpec => []ContinuesWhereTheReaderStopped
<1>1. ContinueInit => ContinueInv /\ AnsweredRight
  BY DEF ContinueInit, ContinueInv, AnsweredRight, BooksOK
<1>2. ContinueInv /\ AnsweredRight /\ [ContinueNext]_continueVars => ContinueInv' /\ AnsweredRight'
  BY ContinueSteps
<1>. QED
  BY <1>1, <1>2, AnswerIsRight, PTL DEF ContinueSpec
=============================================================================
