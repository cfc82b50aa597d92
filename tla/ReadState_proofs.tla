--------------------------- MODULE ReadState_proofs ---------------------------
(***************************************************************************)
(* Theorems about ReadState for any number of requests and fields, any     *)
(* clock bound and any skew.                                               *)
(***************************************************************************)
EXTENDS ReadState, TLAPS

-----------------------------------------------------------------------------
(* Helpers of the model and their types.                                   *)

LEMMA TrustedType ==
  ASSUME NEW c \in Nat, NEW s \in Nat
  PROVE  Trusted(c, s) \in Nat /\ Trusted(c, s) <= c
BY ReadStateAssumption DEF Trusted, NoTime

LEMMA NoEventType == NoEvent.kind = "mark" /\ NoEvent.time = 0
BY DEF NoEvent, NoTime

\* What every event a request carries is made of.
LEMMA EventType ==
  ASSUME TypeOK, NEW r \in Requests
  PROVE  /\ event[r].time \in Int /\ event[r].time >= BadTime
         /\ event[r].status \in Statuses \cup {Keep}
         /\ DOMAIN event[r].patch \subseteq Fields
         /\ \A f \in DOMAIN event[r].patch : event[r].patch[f] \in Values
         /\ event[r].kind # "mark" => /\ event[r].status \in {"reading", "completed"}
                                      /\ event[r].patch = NoPatch
<1>1. event[r] \in Events(Stamps) \/ event[r] = NoEvent
  BY DEF TypeOK
<1>2. NoPatch \in Patches
  <2>1. NoPatch \in [{} -> Values]
    BY DEF NoPatch
  <2>. QED
    BY <2>1 DEF Patches
<1>3. ASSUME NEW p \in Patches
      PROVE  DOMAIN p \subseteq Fields /\ \A f \in DOMAIN p : p[f] \in Values
  BY DEF Patches
<1>4. Marks \subseteq Statuses
  BY ReadStateAssumption
<1>5. event[r].time \in Int /\ event[r].time >= BadTime
  <2>1. event[r].time \in Stamps \cup {0}
    BY <1>1 DEF Events, NoEvent, NoTime
  <2>. QED
    BY <2>1 DEF Stamps, Times, BadTime
<1>6. CASE event[r] = NoEvent
  BY <1>5, <1>6, <1>2, <1>3 DEF NoEvent, Keep
<1>7. CASE event[r] \in [kind : Kinds \ {"mark"}, time : Stamps \ {BadTime},
                         status : {"reading", "completed"}, patch : {NoPatch}]
  BY <1>5, <1>7, <1>2, <1>3 DEF Statuses
<1>8. CASE event[r] \in [kind : Kinds \cap {"mark"}, time : Stamps,
                         status : Marks \cup {Keep}, patch : Patches]
  BY <1>5, <1>8, <1>3, <1>4
<1>. QED
  BY <1>1, <1>6, <1>7, <1>8 DEF Events

LEMMA SeededType ==
  ASSUME TypeOK, NEW clocks \in [Fields -> Nat], NEW protected, NEW s \in Nat
  PROVE  Seeded(clocks, protected, s) \in [Fields -> Nat]
<1>1. mark.touched \in Nat
  BY DEF TypeOK, Times
<1>. QED
  BY <1>1, TrustedType DEF Seeded

LEMMA SeedLegacyType ==
  ASSUME TypeOK, NEW clocks \in [Fields -> Nat], NEW s \in Nat
  PROVE  SeedLegacyClocks(clocks, s) \in [Fields -> Nat]
BY SeededType DEF SeedLegacyClocks

LEMMA FieldClocksType ==
  ASSUME TypeOK, NEW e, NEW s \in Nat
  PROVE  FieldClocks(e, s) \in [Fields -> Nat]
<1>1. clock \in [Fields -> Nat]
  BY DEF TypeOK, Times
<1>. QED
  BY <1>1, SeededType, SeedLegacyType DEF FieldClocks

-----------------------------------------------------------------------------
(* Type correctness.                                                       *)

LEMMA InitType == Init => TypeOK
<1>. SUFFICES ASSUME Init PROVE TypeOK
  OBVIOUS
<1>1. value \in [Fields -> Values] /\ clock \in [Fields -> Times]
  BY DEF Init, NoTime, Times
<1>2. mark \in [status : Statuses, clock : Times, touched : Times]
  BY DEF Init, NoTime, Times
<1>3. progress \in [clock : Times, completed : BOOLEAN] /\ reset \in Times
  BY DEF Init, NoTime, Times
<1>4. /\ phase \in [Requests -> {"idle", "waiting", "answered"}]
      /\ event \in [Requests -> Events(Stamps) \cup {NoEvent}]
      /\ arrived \in [Requests -> Times]
      /\ answer \in [Requests -> [stored : BOOLEAN, fields : SUBSET Fields]]
  BY DEF Init, NoTime, Times, NoAnswer
<1>5. now \in 1..MaxTime /\ steady \in BOOLEAN
  BY ReadStateAssumption DEF Init
<1>. QED
  BY <1>1, <1>2, <1>3, <1>4, <1>5 DEF TypeOK

LEMMA StoreProgressType ==
  ASSUME TypeOK, NEW r \in Requests,
         event[r].kind # "mark", StoreProgress(event[r], arrived[r])
  PROVE  /\ progress' \in [clock : Times, completed : BOOLEAN]
         /\ reset' \in Times
         /\ mark' \in [status : Statuses, clock : Times, touched : Times]
         /\ clock' \in [Fields -> Times]
<1>. DEFINE e == event[r]
            s == arrived[r]
<1>1. s \in Nat /\ e.time \in Int /\ e.status \in {"reading", "completed"}
  BY EventType DEF TypeOK, Times
<1>2. EventTime(e, s) \in Nat
  BY <1>1 DEF EventTime, Timed, NoTime
<1>3. ClearedMark(s) \in [status : Statuses, clock : Times, touched : Times]
  BY <1>1, TrustedType DEF ClearedMark, TypeOK, Times
<1>4. mark' \in [status : Statuses, clock : Times, touched : Times]
  BY <1>1, <1>2, <1>3 DEF StoreProgress, MarkFromProgress, Statuses, Times
<1>5. clock' \in [Fields -> Times]
  BY SeedLegacyType DEF StoreProgress, TypeOK, Times
<1>. QED
  BY <1>2, <1>4, <1>5 DEF StoreProgress, Times, NoTime

LEMMA ResolvedMarkType ==
  ASSUME TypeOK, NEW r \in Requests
  PROVE  ResolvedMark(event[r], arrived[r])
           \in [status : Statuses, clock : Times, touched : Times]
<1>. DEFINE e == event[r]
            s == arrived[r]
<1>1. s \in Nat /\ e.time \in Int /\ e.status \in Statuses \cup {Keep}
  BY EventType DEF TypeOK, Times
<1>2. /\ mark \in [status : Statuses, clock : Nat, touched : Nat]
      /\ progress \in [clock : Nat, completed : BOOLEAN] /\ reset \in Nat
  BY DEF TypeOK, Times
<1>3. ResetTime(e, s) \in Nat
  BY <1>1, <1>2, TrustedType DEF ResetTime, NoTime
<1>4. StatusClock(e, s) \in Nat
  BY <1>1, <1>2, TrustedType DEF StatusClock, StatusTime
<1>5. CASE AcceptsStatus(e, s)
  BY <1>1, <1>5 DEF ResolvedMark, AcceptsStatus, Timed, NoTime, Times
<1>6. CASE ~AcceptsStatus(e, s)
  <2>1. InitialMark(e, s) \in [status : Statuses, clock : Nat, touched : Nat]
    BY <1>1, <1>2, <1>3 DEF InitialMark, StatusOf, Statuses
  <2>2. NoMark \in [status : Statuses, clock : Nat, touched : Nat]
    BY DEF NoMark, NoTime, Statuses
  <2>. QED
    BY <1>1, <1>2, <1>4, <1>6, <2>1, <2>2 DEF ResolvedMark, Times
<1>. QED
  BY <1>5, <1>6

LEMMA NextType == TypeOK /\ [Next]_vars => TypeOK'
<1>. SUFFICES ASSUME TypeOK, [Next]_vars PROVE TypeOK'
  OBVIOUS
<1>1. ASSUME NEW r \in Requests, NEW a \in [stored : BOOLEAN, fields : SUBSET Fields],
             Answer(r, a)
      PROVE  /\ now' = now /\ steady' = steady
             /\ event' = event /\ arrived' = arrived
             /\ phase' \in [Requests -> {"idle", "waiting", "answered"}]
             /\ answer' \in [Requests -> [stored : BOOLEAN, fields : SUBSET Fields]]
  BY <1>1 DEF Answer, TypeOK
<1>2. ASSUME NEW r \in Requests, SaveProgress(r) PROVE TypeOK'
  <2>. DEFINE a == [stored |-> AcceptsProgress(event[r], arrived[r]), fields |-> {}]
  <2>1. a \in [stored : BOOLEAN, fields : SUBSET Fields]
    BY DEF AcceptsProgress
  <2>2. Answer(r, a) /\ event[r].kind # "mark"
    BY <1>2 DEF SaveProgress
  <2>3. CASE StoreProgress(event[r], arrived[r])
    BY <1>1, <2>1, <2>2, <2>3, StoreProgressType DEF TypeOK, StoreProgress
  <2>4. CASE /\ mark' = ClearedMark(arrived[r])
             /\ UNCHANGED <<progress, reset, value, clock>>
    <3>1. mark' \in [status : Statuses, clock : Times, touched : Times]
      BY <2>4, TrustedType DEF ClearedMark, TypeOK, Times
    <3>. QED
      BY <1>1, <2>1, <2>2, <2>4, <3>1 DEF TypeOK
  <2>. QED
    BY <1>2, <2>3, <2>4 DEF SaveProgress
<1>3. ASSUME NEW r \in Requests, MigrateProgress(r) PROVE TypeOK'
  <2>. DEFINE a == [stored |-> AcceptsProgress(event[r], arrived[r]), fields |-> {}]
  <2>1. a \in [stored : BOOLEAN, fields : SUBSET Fields]
    BY DEF AcceptsProgress
  <2>2. Answer(r, a) /\ event[r].kind # "mark"
    BY <1>3 DEF MigrateProgress
  <2>3. CASE StoreProgress(event[r], arrived[r])
    BY <1>1, <2>1, <2>2, <2>3, StoreProgressType DEF TypeOK, StoreProgress
  <2>4. CASE UNCHANGED tables
    BY <1>1, <2>1, <2>2, <2>4 DEF TypeOK, tables
  <2>. QED
    BY <1>3, <2>3, <2>4 DEF MigrateProgress
<1>4. ASSUME NEW r \in Requests, SaveUserMark(r) PROVE TypeOK'
  <2>. DEFINE e == event[r]
              s == arrived[r]
              a == [stored |-> AcceptsStatus(e, s), fields |-> AcceptedFields(e, s)]
  <2>0. /\ s \in Nat /\ e.time \in Int /\ DOMAIN e.patch \subseteq Fields
        /\ \A f \in DOMAIN e.patch : e.patch[f] \in Values
    BY EventType DEF TypeOK, Times
  <2>1. AcceptedFields(e, s) \subseteq DOMAIN e.patch
    BY DEF AcceptedFields
  <2>2. a \in [stored : BOOLEAN, fields : SUBSET Fields]
    BY <2>0, <2>1 DEF AcceptsStatus
  <2>3. Answer(r, a)
    BY <1>4 DEF SaveUserMark
  <2>4. mark' \in [status : Statuses, clock : Times, touched : Times]
    BY <1>4, ResolvedMarkType DEF SaveUserMark
  <2>5. value' \in [Fields -> Values]
    BY <1>4, <2>0, <2>1 DEF SaveUserMark, TypeOK
  <2>6. clock' \in [Fields -> Times]
    BY <1>4, <2>0, FieldClocksType DEF SaveUserMark, Timed, NoTime, Times
  <2>7. progress' \in [clock : Times, completed : BOOLEAN]
    BY <1>4 DEF SaveUserMark, TypeOK, NoProgress, NoTime, Times
  <2>8. reset' \in Times
    <3>1. reset \in Nat /\ Trusted(reset, s) \in Nat
      BY <2>0, TrustedType DEF TypeOK, Times
    <3>2. ResetTime(e, s) \in Nat
      BY <3>1 DEF ResetTime, NoTime
    <3>3. Timed(e, s) => e.time \in Nat
      BY <2>0 DEF Timed, NoTime
    <3>. QED
      BY <1>4, <3>1, <3>2, <3>3 DEF SaveUserMark, Times
  <2>. QED
    BY <1>1, <2>2, <2>3, <2>4, <2>5, <2>6, <2>7, <2>8 DEF TypeOK
<1>5. ASSUME NEW r \in Requests, Arrive(r) PROVE TypeOK'
  <2>1. PICK e \in Events({BadTime} \cup 0..(now + ClientLead)) :
          event' = [event EXCEPT ![r] = e]
    BY <1>5 DEF Arrive
  <2>2. e \in Events(Stamps)
    BY <2>1, ReadStateAssumption DEF Events, TypeOK, Stamps, Times, BadTime
  <2>. QED
    BY <1>5, <2>1, <2>2 DEF Arrive, TypeOK, tables, Times
<1>6. ASSUME NEW r \in Requests, Forget(r) PROVE TypeOK'
  BY <1>6 DEF Forget, TypeOK, tables, NoTime, NoAnswer, Times
<1>7. ASSUME Tick PROVE TypeOK'
  BY <1>7, ReadStateAssumption DEF Tick, TypeOK, tables
<1>8. ASSUME SetBack PROVE TypeOK'
  <2>1. PICK t \in 1..(now - 1) : now' = t
    BY <1>8 DEF SetBack
  <2>2. now \in 1..MaxTime
    BY DEF TypeOK
  <2>3. now' \in 1..MaxTime
    BY <2>1, <2>2, ReadStateAssumption
  <2>4. steady' \in BOOLEAN
    BY <1>8 DEF SetBack
  <2>. QED
    BY <1>8, <2>3, <2>4 DEF SetBack, TypeOK, tables
<1>9. CASE UNCHANGED vars
  BY <1>9 DEF vars, TypeOK
<1>. QED
  BY <1>2, <1>3, <1>4, <1>5, <1>6, <1>7, <1>8, <1>9
     DEF Next, Transaction, Fail, Reply

\* Type correctness of the read-state tables and of the requests in flight.
THEOREM ReadStateTypes == Spec => []TypeOK
BY InitType, NextType, PTL DEF Spec

-----------------------------------------------------------------------------
(* Rows: what holds whatever the clocks do.                                *)

\* A waiting request has a positive serverNow, and a tombstone, a clock or a
\* field value only exists beside a mark row.
Rows ==
  /\ \A r \in Requests : phase[r] = "waiting" => arrived[r] > 0
  /\ ~HasMark => /\ reset = NoTime
                 /\ mark.clock = NoTime
                 /\ \A f \in Fields : value[f] = Blank
  /\ TombstoneExcludesProgress

LEMMA InitRows == Init => Rows
BY DEF Init, Rows, LegacyRow, NoMark, NoProgress, NoTime, HasMark, HasReset,
       HasProgress, TombstoneExcludesProgress

LEMMA StoreProgressRows ==
  ASSUME TypeOK, Rows, NEW r \in Requests, phase[r] = "waiting",
         event[r].kind # "mark", StoreProgress(event[r], arrived[r])
  PROVE  /\ mark'.touched # NoTime
         /\ reset' = NoTime
<1>. DEFINE e == event[r]
            s == arrived[r]
<1>1. s > 0
  BY DEF Rows
<1>2. ClearedMark(s).touched = mark.touched
  BY DEF ClearedMark, TypeOK
<1>. QED
  BY <1>1, <1>2 DEF StoreProgress, MarkFromProgress, NoTime

LEMMA NextRows == TypeOK /\ Rows /\ [Next]_vars => Rows'
<1>. SUFFICES ASSUME TypeOK, Rows, [Next]_vars PROVE Rows'
  OBVIOUS
<1>1. ASSUME NEW r \in Requests, NEW a, Answer(r, a)
      PROVE  \A q \in Requests : phase'[q] = "waiting" => arrived'[q] > 0
  BY <1>1 DEF Answer, Rows, TypeOK
<1>2. ASSUME NEW r \in Requests, SaveProgress(r) \/ MigrateProgress(r) PROVE Rows'
  <2>. DEFINE a == [stored |-> AcceptsProgress(event[r], arrived[r]), fields |-> {}]
  <2>1. Answer(r, a) /\ event[r].kind # "mark" /\ phase[r] = "waiting"
    BY <1>2 DEF SaveProgress, MigrateProgress, Answer
  <2>2. CASE StoreProgress(event[r], arrived[r])
    <3>1. mark'.touched # NoTime /\ reset' = NoTime
      BY <2>1, <2>2, StoreProgressRows
    <3>. QED
      BY <1>1, <2>1, <3>1 DEF Rows, HasMark, HasReset, TombstoneExcludesProgress
  <2>3. CASE mark' = ClearedMark(arrived[r]) /\ UNCHANGED <<progress, reset, value, clock>>
    <3>1. mark'.touched = mark.touched /\ (mark.clock = NoTime => mark'.clock = NoTime)
      BY <2>3 DEF ClearedMark, Trusted, TypeOK, NoTime
    <3>. QED
      BY <1>1, <2>1, <2>3, <3>1
         DEF Rows, HasMark, HasReset, HasProgress, TombstoneExcludesProgress
  <2>4. CASE UNCHANGED tables
    BY <1>1, <2>1, <2>4
       DEF Rows, tables, HasMark, HasReset, HasProgress, TombstoneExcludesProgress
  <2>. QED
    BY <1>2, <2>2, <2>3, <2>4 DEF SaveProgress, MigrateProgress
<1>3. ASSUME NEW r \in Requests, SaveUserMark(r) PROVE Rows'
  <2>. DEFINE e == event[r]
              s == arrived[r]
              fields == AcceptedFields(e, s)
              unread == AcceptsStatus(e, s) /\ Timed(e, s) /\ e.status = "unread"
  <2>1. /\ Answer(r, [stored |-> AcceptsStatus(e, s), fields |-> fields])
        /\ phase[r] = "waiting" /\ s > 0
    BY <1>3 DEF SaveUserMark, Answer, Rows
  <2>2. mark' = ResolvedMark(e, s)
    BY <1>3 DEF SaveUserMark
  <2>3. fields = {} => \A f \in Fields : value'[f] = value[f]
    BY <1>3 DEF SaveUserMark
  <2>4. ~unread => reset' = reset \/ reset' = NoTime
    BY <1>3 DEF SaveUserMark, ResetTime, Trusted
  <2>5. unread => progress' = NoProgress
    BY <1>3 DEF SaveUserMark
  <2>6. ~unread => progress' = progress
    BY <1>3 DEF SaveUserMark
  <2>7. fields # {} \/ AcceptsStatus(e, s) => mark'.touched # NoTime
    BY <2>1, <2>2 DEF ResolvedMark, InitialMark, TypeOK, NoTime
  <2>8. HasMark => mark'.touched # NoTime
    BY <2>1, <2>2 DEF ResolvedMark, TypeOK, NoTime, HasMark
  <2>9. ~HasMark /\ fields = {} /\ ~AcceptsStatus(e, s) => mark' = NoMark
    BY <2>2 DEF ResolvedMark
  <2>10. mark'.touched = NoTime => mark'.clock = NoTime /\ ~unread
    BY <2>7, <2>8, <2>9 DEF NoMark
  <2>11. mark'.touched = NoTime => reset' = NoTime /\ \A f \in Fields : value'[f] = Blank
    BY <2>3, <2>4, <2>7, <2>8, <2>10 DEF Rows
  <2>12. reset' # NoTime => progress'.clock = NoTime
    BY <2>4, <2>5, <2>6
       DEF Rows, TombstoneExcludesProgress, HasReset, HasProgress, NoProgress
  <2>. QED
    BY <1>1, <2>1, <2>10, <2>11, <2>12
       DEF Rows, HasMark, TombstoneExcludesProgress, HasReset, HasProgress
<1>4. ASSUME NEW r \in Requests, Arrive(r) PROVE Rows'
  BY <1>4 DEF Arrive, tables, Rows, TypeOK, HasMark, TombstoneExcludesProgress,
              HasReset, HasProgress
<1>5. ASSUME NEW r \in Requests, Forget(r) PROVE Rows'
  BY <1>5 DEF Forget, tables, Rows, TypeOK, HasMark, TombstoneExcludesProgress,
              HasReset, HasProgress
<1>6. ASSUME UNCHANGED <<tables, phase, arrived>> PROVE Rows'
  BY <1>6 DEF tables, Rows, HasMark, TombstoneExcludesProgress, HasReset, HasProgress
<1>. QED
  BY <1>2, <1>3, <1>4, <1>5, <1>6
     DEF Next, Transaction, Fail, Reply, Tick, SetBack, vars, tables

\* A tombstone and a progress row never coexist, also when the server clock is
\* set back and clients stamp as they like.
THEOREM TombstonesExcludeProgress == Spec => []TombstoneExcludesProgress
<1>1. Rows => TombstoneExcludesProgress
  BY DEF Rows
<1>. QED
  BY <1>1, InitType, NextType, InitRows, NextRows, PTL DEF Spec

\* A stored progress gives the row its status, unless the row is at least as new: then it
\* is the "completed" event itself.
LEMMA StoreProgressAgrees ==
  ASSUME TypeOK, Rows, NEW r \in Requests, phase[r] = "waiting", event[r].kind # "mark",
         AcceptsProgress(event[r], arrived[r]), StoreProgress(event[r], arrived[r])
  PROVE  mark'.clock = progress'.clock => mark'.status = StatusOf(progress)'
<1>. DEFINE e == event[r]
            s == arrived[r]
            T == EventTime(e, s)
            m == ClearedMark(s)
<1>1. s \in Nat /\ e.time \in Int /\ e.status \in {"reading", "completed"}
  BY EventType DEF TypeOK, Times
<1>2. mark \in [status : Statuses, clock : Nat, touched : Nat]
  BY DEF TypeOK, Times
<1>3. m.status = mark.status /\ m.clock = Trusted(mark.clock, s) /\ m.clock \in Nat
  <2>1. Trusted(mark.clock, s) \in Nat
    BY <1>1, <1>2, TrustedType
  <2>. QED
    BY <1>2, <2>1 DEF ClearedMark
<1>4. /\ progress' = [clock |-> T, completed |-> e.status = "completed"]
      /\ mark' = MarkFromProgress(m, e.status, T, s)
  BY DEF StoreProgress
<1>5. T \in Nat
  BY <1>1 DEF EventTime, Timed, NoTime
<1>6. CASE mark' = [status |-> e.status, clock |-> T, touched |-> s]
  <2>1. mark'.status = e.status
    BY <1>6
  <2>2. StatusOf(progress)' = IF e.status = "completed" THEN "completed" ELSE "reading"
    <3>1. progress'.completed = (e.status = "completed")
      BY <1>4, Zenon
    <3>. QED
      BY <3>1 DEF StatusOf
  <2>. QED
    BY <1>1, <2>1, <2>2
<1>7. CASE mark' = m /\ m.clock # NoTime /\ ~(T > m.clock)
  <2>1. Timed(e, s) /\ T = e.time
    BY <1>3, <1>7 DEF AcceptsProgress, BlockedByReadStatus, EventTime
  <2>2. e.time <= Trusted(mark.clock, s)
    BY <1>3, <1>5, <1>7, <2>1
  <2>3. e.status = "completed" /\ mark.status = "completed"
    BY <1>3, <1>7, <2>1, <2>2 DEF AcceptsProgress, BlockedByReadStatus
  <2>. QED
    BY <1>3, <1>4, <1>7, <2>3 DEF StatusOf
<1>. QED
  BY <1>4, <1>6, <1>7 DEF MarkFromProgress

\* A mark request dates a row by the progress only when it makes the row from it.
LEMMA MarkAgrees ==
  ASSUME TypeOK, Rows, MarkRowAgrees, NEW r \in Requests, SaveUserMark(r)
  PROVE  MarkRowAgrees'
<1>. DEFINE e == event[r]
            s == arrived[r]
            fields == AcceptedFields(e, s)
            unread == AcceptsStatus(e, s) /\ Timed(e, s) /\ e.status = "unread"
<1>1. s \in Nat /\ e.time \in Int /\ s > 0
  BY EventType DEF TypeOK, Times, SaveUserMark, Answer, Rows
<1>2. /\ mark \in [status : Statuses, clock : Nat, touched : Nat]
      /\ progress \in [clock : Nat, completed : BOOLEAN] /\ reset \in Nat
  BY DEF TypeOK, Times
<1>3. /\ mark' = ResolvedMark(e, s)
      /\ ~unread => progress' = progress
      /\ unread => progress' = NoProgress
  BY DEF SaveUserMark
<1>4. Rows'
  BY NextRows DEF Next, Transaction
<1>5. progress.clock # Trusted(progress.clock, s) => Trusted(progress.clock, s) = NoTime
                                                  /\ progress.clock > s + Skew
  BY <1>1, <1>2, ReadStateAssumption DEF Trusted, Untrusted
<1>6. \A c \in Nat : (Trusted(c, s) = c /\ c <= s + Skew) \/ Trusted(c, s) = NoTime
  BY <1>1, ReadStateAssumption DEF Trusted, Untrusted
<1>7. ASSUME HasProgress', mark'.clock = progress'.clock
      PROVE  mark'.status = StatusOf(progress)'
  <2>1. progress' = progress /\ HasProgress /\ mark'.clock = progress.clock /\ progress.clock # NoTime
    BY <1>3, <1>7 DEF HasProgress, NoProgress
  <2>2. reset = NoTime
    BY <2>1 DEF Rows, TombstoneExcludesProgress, HasReset
  <2>3. ~AcceptsStatus(e, s)
    <3>. SUFFICES ASSUME AcceptsStatus(e, s) PROVE FALSE
      OBVIOUS
    <3>1. mark'.clock = IF Timed(e, s) THEN e.time ELSE NoTime
      BY <1>3 DEF ResolvedMark
    <3>2. Timed(e, s) /\ e.time = progress.clock /\ e.time > Trusted(progress.clock, s)
      BY <2>1, <3>1 DEF AcceptsStatus
    <3>3. ~(e.time > s + Skew)
      BY <3>2 DEF Timed, Future
    <3>. QED
      BY <1>1, <1>2, <1>5, <3>2, <3>3
  <2>4. CASE HasMark
    <3>1. mark'.status = mark.status /\ mark'.clock = StatusClock(e, s)
      BY <1>2, <1>3, <2>3, <2>4 DEF ResolvedMark
    <3>2. LegacyStatus(e, s) => StatusClock(e, s) # progress.clock
      <4>1. LegacyStatus(e, s) => StatusClock(e, s) \in {Trusted(mark.touched, s), Trusted(mark.clock, s)}
        BY DEF StatusClock, StatusTime
      <4>2. LegacyStatus(e, s) => progress.clock > s + Skew
        BY <1>5, <2>1 DEF LegacyStatus
      <4>3. \A c \in Nat : Trusted(c, s) = progress.clock => ~(progress.clock > s + Skew)
        BY <1>1, <1>2, <1>6, <2>1, ReadStateAssumption
      <4>. QED
        BY <1>2, <4>1, <4>2, <4>3
    <3>3. ~LegacyStatus(e, s) => StatusClock(e, s) = Trusted(mark.clock, s)
      BY DEF StatusClock, StatusTime
    <3>4. mark.clock = progress.clock
      BY <1>2, <1>6, <2>1, <3>1, <3>2, <3>3
    <3>. QED
      BY <2>1, <2>4, <3>1, <3>4 DEF MarkRowAgrees, StatusOf
  <2>5. CASE ~HasMark
    <3>1. mark' = NoMark \/ mark' = InitialMark(e, s)
      BY <1>3, <2>3, <2>5 DEF ResolvedMark
    <3>2. mark' = InitialMark(e, s)
      BY <2>1, <3>1 DEF NoMark
    <3>3. ResetTime(e, s) = NoTime
      BY <2>2 DEF ResetTime, Trusted
    <3>. QED
      BY <2>1, <3>2, <3>3 DEF InitialMark, StatusOf
  <2>. QED
    BY <2>4, <2>5
<1>8. ASSUME ~HasMark', NEW f \in Fields PROVE clock'[f] = NoTime
  <2>1. HasMark => mark'.touched # NoTime
    BY <1>1, <1>2, <1>3 DEF ResolvedMark, HasMark, NoTime
  <2>2. fields # {} \/ AcceptsStatus(e, s) => mark'.touched # NoTime
    BY <1>1, <1>2, <1>3 DEF ResolvedMark, InitialMark, NoTime
  <2>3. ~HasMark /\ fields = {} /\ ~AcceptsStatus(e, s)
    BY <1>8, <2>1, <2>2 DEF HasMark
  <2>4. clock[f] = NoTime
    BY <2>3 DEF MarkRowAgrees
  <2>5. clock'[f] = FieldClocks(e, s)[f]
    BY <2>3 DEF SaveUserMark
  <2>6. FieldClocks(e, s) = clock \/ FieldClocks(e, s) = Seeded(clock, {}, s)
    BY <2>3 DEF FieldClocks
  <2>7. Seeded(clock, {}, s)[f] = NoTime
    BY <2>4 DEF Seeded, Trusted
  <2>. QED
    BY <2>4, <2>5, <2>6, <2>7
<1>. QED
  BY <1>4, <1>7, <1>8 DEF Rows, MarkRowAgrees, HasReset, HasMark

LEMMA NextAgrees == TypeOK /\ Rows /\ MarkRowAgrees /\ [Next]_vars => MarkRowAgrees'
<1>. SUFFICES ASSUME TypeOK, Rows, MarkRowAgrees, [Next]_vars PROVE MarkRowAgrees'
  OBVIOUS
<1>1. ASSUME NEW r \in Requests, SaveProgress(r) \/ MigrateProgress(r) PROVE MarkRowAgrees'
  <2>1. event[r].kind # "mark" /\ phase[r] = "waiting"
    BY <1>1 DEF SaveProgress, MigrateProgress, Answer
  <2>2. CASE AcceptsProgress(event[r], arrived[r]) /\ StoreProgress(event[r], arrived[r])
    <3>1. mark'.touched # NoTime /\ (mark'.clock = progress'.clock => mark'.status = StatusOf(progress)')
      BY <2>1, <2>2, StoreProgressRows, StoreProgressAgrees
    <3>. QED
      BY <3>1 DEF MarkRowAgrees, HasMark, StatusOf
  <2>3. CASE mark' = ClearedMark(arrived[r]) /\ UNCHANGED <<progress, reset, value, clock>>
    <3>1. /\ mark'.touched = mark.touched /\ mark'.status = mark.status
          /\ mark'.clock \in {mark.clock, NoTime}
      BY <2>3 DEF ClearedMark, Trusted, TypeOK
    <3>. QED
      BY <2>3, <3>1 DEF MarkRowAgrees, HasMark, HasProgress, HasReset, StatusOf
  <2>4. CASE UNCHANGED tables
    BY <2>4 DEF MarkRowAgrees, tables, HasMark, HasReset, HasProgress, StatusOf
  <2>. QED
    BY <1>1, <2>2, <2>3, <2>4 DEF SaveProgress, MigrateProgress
<1>2. CASE UNCHANGED tables
  BY <1>2 DEF MarkRowAgrees, tables, HasMark, HasReset, HasProgress, StatusOf
<1>. QED
  BY <1>1, <1>2, MarkAgrees
     DEF Next, Transaction, Arrive, Forget, Fail, Reply, Tick, SetBack, vars, tables

\* Tombstones, field values and field clocks only exist beside a mark row, and a row that
\* is dated by the progress has the status the progress implies, whatever the clocks do.
THEOREM MarkRowsAgree == Spec => []MarkRowAgrees
<1>1. Init => MarkRowAgrees
  BY DEF Init, MarkRowAgrees, LegacyRow, NoMark, HasReset, HasMark, HasProgress, NoTime
<1>. QED
  BY <1>1, InitType, NextType, InitRows, NextRows, NextAgrees, PTL DEF Spec

-----------------------------------------------------------------------------
(* Order: what holds under ClockDiscipline.  No clock the tables hold runs *)
(* further ahead than a client may, and no request waits longer than the   *)
(* writer lock allows, so every stored clock is trusted by every request.  *)

Bounds ==
  /\ progress.clock <= now + ClientLead
  /\ reset <= now + ClientLead
  /\ mark.clock <= now + ClientLead
  /\ mark.touched <= now
  /\ \A f \in Fields : clock[f] <= now + ClientLead
  /\ \A r \in Requests :
       /\ arrived[r] <= now
       /\ phase[r] = "waiting" =>
            /\ now - arrived[r] <= LockWait
            /\ event[r].time <= arrived[r] + ClientLead

LEMMA InitBounds == Init => Bounds
<1>. SUFFICES ASSUME Init PROVE Bounds
  OBVIOUS
<1>. USE ReadStateAssumption
<1>1. now = 1 /\ progress.clock \in 0..1 /\ mark.touched \in 0..1 /\ mark.clock = 0 /\ reset = 0
  BY DEF Init, NoTime
<1>2. \A f \in Fields : clock[f] = 0
  BY DEF Init, NoTime
<1>3. \A r \in Requests : arrived[r] = 0 /\ phase[r] = "idle"
  BY DEF Init, NoTime
<1>. QED
  BY <1>1, <1>2, <1>3 DEF Bounds

\* A client's lead and the wait for the writer together stay within the skew.
Patient == ClientLead + LockWait <= Skew

\* Then a waiting request takes every clock at its value.
LEMMA AllTrusted ==
  ASSUME Patient, TypeOK, Bounds, NEW r \in Requests, phase[r] = "waiting"
  PROVE  /\ \A c \in Nat : c <= now + ClientLead =>
                 Trusted(c, arrived[r]) = c /\ ~Untrusted(c, arrived[r])
         /\ ~Future(event[r], arrived[r])
         /\ arrived[r] \in Nat /\ event[r].time \in Int
         /\ Timed(event[r], arrived[r]) <=> event[r].time > 0
<1>1. now \in Nat /\ arrived[r] \in Nat /\ event[r].time \in Int
  BY EventType DEF TypeOK, Times
<1>. QED
  BY <1>1, ReadStateAssumption
     DEF Patient, Bounds, Trusted, Untrusted, Future, Timed, NoTime

\* The rows and what a waiting request makes of them.
LEMMA TrustedRows ==
  ASSUME Patient, TypeOK, Bounds, NEW r \in Requests, phase[r] = "waiting"
  PROVE  /\ Trusted(progress.clock, arrived[r]) = progress.clock
         /\ Trusted(reset, arrived[r]) = reset
         /\ Trusted(mark.clock, arrived[r]) = mark.clock
         /\ Trusted(mark.touched, arrived[r]) = mark.touched
         /\ ~Untrusted(progress.clock, arrived[r]) /\ ~Untrusted(reset, arrived[r])
         /\ ClearedMark(arrived[r]) = mark
<1>1. /\ progress.clock \in Nat /\ reset \in Nat /\ mark.clock \in Nat
      /\ mark.touched \in Nat /\ mark.touched <= now + ClientLead
  BY ReadStateAssumption DEF TypeOK, Times, Bounds
<1>2. Trusted(mark.clock, arrived[r]) = mark.clock
  BY <1>1, AllTrusted DEF Bounds
<1>3. ClearedMark(arrived[r]) = mark
  BY <1>2 DEF ClearedMark, TypeOK
<1>. QED
  BY <1>1, <1>2, <1>3, AllTrusted DEF Bounds

\* Stored progress: the event is newer than everything that could refuse it.
LEMMA AcceptedProgress ==
  ASSUME Patient, TypeOK, Rows, Bounds, NEW r \in Requests,
         phase[r] = "waiting", event[r].kind # "mark",
         AcceptsProgress(event[r], arrived[r]), StoreProgress(event[r], arrived[r])
  PROVE  LET e == event[r]
             s == arrived[r]
         IN  /\ progress' = [clock |-> EventTime(e, s), completed |-> e.status = "completed"]
             /\ reset' = 0
             /\ EventTime(e, s) \in Nat /\ EventTime(e, s) > 0
             /\ EventTime(e, s) <= now + ClientLead
             /\ \/ /\ e.time > 0 /\ e.time > reset /\ e.time > progress.clock
                   /\ EventTime(e, s) = e.time
                   /\ \/ /\ e.time > mark.clock
                         /\ mark' = [status |-> e.status, clock |-> e.time, touched |-> s]
                      \/ /\ e.time = mark.clock /\ mark' = mark
                         /\ e.status = "completed" /\ mark.status = "completed"
                \/ /\ e.time <= 0 /\ reset = 0 /\ progress.clock = 0 /\ mark.clock = 0
                   /\ EventTime(e, s) = s
                   /\ mark' = [status |-> e.status, clock |-> s, touched |-> s]
<1>. DEFINE e == event[r]
            s == arrived[r]
<1>1. /\ progress.clock \in Nat /\ reset \in Nat /\ mark.clock \in Nat
      /\ mark.touched \in Nat /\ now \in Nat /\ s \in Nat /\ s > 0 /\ e.time \in Int
      /\ mark = [status |-> mark.status, clock |-> mark.clock, touched |-> mark.touched]
  BY EventType DEF TypeOK, Times, Rows
<1>2. Timed(e, s) <=> e.time > 0
  BY AllTrusted
<1>3. s <= now + ClientLead /\ e.time <= now + ClientLead
  BY <1>1, ReadStateAssumption DEF Bounds
<1>4. mark' = MarkFromProgress(mark, e.status, EventTime(e, s), s)
  BY TrustedRows DEF StoreProgress
<1>5. mark.touched = 0 => mark.clock = 0
  BY DEF Rows, HasMark, NoTime
<1>6. CASE e.time > 0
  <2>1. EventTime(e, s) = e.time
    BY <1>2, <1>6 DEF EventTime
  <2>2. e.time > reset /\ e.time > progress.clock
    BY <1>1, <1>2, <1>6, TrustedRows
       DEF AcceptsProgress, BlockedByReset, BlockedByProgress, HasReset, HasProgress, NoTime
  <2>3. e.time > mark.clock \/ (e.time = mark.clock /\ e.status = "completed"
                                 /\ mark.status = "completed")
    BY <1>1, <1>2, <1>6, TrustedRows DEF AcceptsProgress, BlockedByReadStatus, NoTime
  <2>4. e.time > mark.clock =>
          mark' = [status |-> e.status, clock |-> e.time, touched |-> s]
    BY <1>1, <1>4, <2>1 DEF MarkFromProgress
  <2>5. ~(e.time > mark.clock) => mark' = mark
    BY <1>1, <1>4, <1>5, <1>6, <2>1, <2>3 DEF MarkFromProgress, NoTime
  <2>. QED
    BY <1>1, <1>3, <1>6, <2>1, <2>2, <2>3, <2>4, <2>5 DEF StoreProgress, NoTime
<1>7. CASE ~(e.time > 0)
  <2>1. EventTime(e, s) = s
    BY <1>2, <1>7 DEF EventTime
  <2>2. reset = 0 /\ progress.clock = 0 /\ mark.clock = 0
    BY <1>1, <1>2, <1>7, TrustedRows
       DEF AcceptsProgress, BlockedByReset, BlockedByReadStatus, BlockedByProgress,
           HasReset, HasProgress, NoTime
  <2>3. mark' = [status |-> e.status, clock |-> s, touched |-> s]
    BY <1>1, <1>4, <2>1, <2>2 DEF MarkFromProgress, NoTime
  <2>. QED
    BY <1>1, <1>3, <1>7, <2>1, <2>2, <2>3 DEF StoreProgress, NoTime
<1>. QED
  BY <1>6, <1>7

\* Refused progress: something the tables hold is at or after the event.
LEMMA RefusedProgress ==
  ASSUME Patient, TypeOK, Rows, Bounds, NEW r \in Requests,
         phase[r] = "waiting", event[r].kind # "mark",
         ~AcceptsProgress(event[r], arrived[r]), event[r].time > 0
  PROVE  \/ event[r].time <= reset
         \/ event[r].time <= progress.clock
         \/ event[r].time <= mark.clock
<1>1. Timed(event[r], arrived[r]) /\ ~Future(event[r], arrived[r])
  BY AllTrusted
<1>. QED
  BY <1>1, TrustedRows
     DEF AcceptsProgress, BlockedByReset, BlockedByReadStatus, BlockedByProgress

\* A mark's status under the discipline: stored with a time, stored without
\* one, or not stored.
LEMMA MarkStep ==
  ASSUME Patient, TypeOK, Rows, Bounds, NEW r \in Requests, SaveUserMark(r)
  PROVE  LET e == event[r]
             s == arrived[r]
         IN  \/ /\ AcceptsStatus(e, s) /\ e.time > 0 /\ e.status \in Statuses
                /\ e.time > mark.clock /\ e.time > progress.clock /\ e.time > reset
                /\ mark' = [status |-> e.status, clock |-> e.time, touched |-> s]
                /\ progress' = IF e.status = "unread" THEN NoProgress ELSE progress
                /\ reset' = IF e.status = "unread" THEN e.time ELSE reset
             \/ /\ AcceptsStatus(e, s) /\ e.time = 0 /\ mark.clock = 0
                /\ e.status \in Statuses
                /\ mark' = [status |-> e.status, clock |-> 0, touched |-> s]
                /\ progress' = progress /\ reset' = reset
             \/ /\ ~AcceptsStatus(e, s)
                /\ progress' = progress /\ reset' = reset
                /\ mark'.touched \in {mark.touched, s}
                /\ \/ /\ HasMark /\ mark'.status = mark.status
                      /\ mark'.clock = mark.clock \/ (mark.clock = 0 /\ mark'.clock = mark.touched
                                                      /\ progress.clock = 0 /\ reset = 0)
                   \/ ~HasMark /\ mark' = NoMark
                   \/ ~HasMark /\ mark' = InitialMark(e, s)
                /\ e.time > 0 /\ e.status # Keep =>
                     \/ e.time <= mark'.clock
                     \/ e.time <= progress.clock
                     \/ e.time <= reset
<1>. DEFINE e == event[r]
            s == arrived[r]
<1>0. phase[r] = "waiting"
  BY DEF SaveUserMark, Answer
<1>1. /\ progress.clock \in Nat /\ reset \in Nat /\ mark.clock \in Nat
      /\ mark.touched \in Nat /\ s \in Nat /\ s > 0
      /\ e.time \in Int /\ e.time >= BadTime /\ e.status \in Statuses \cup {Keep}
      /\ mark = [status |-> mark.status, clock |-> mark.clock, touched |-> mark.touched]
  BY <1>0, EventType DEF TypeOK, Times, Rows
<1>2. (Timed(e, s) <=> e.time > 0) /\ ~Future(e, s)
  BY <1>0, AllTrusted
<1>3. ResetTime(e, s) = IF e.status # Keep /\ e.time > 0 THEN reset ELSE 0
  BY <1>0, <1>2, TrustedRows DEF ResetTime, TimedStatus, NoTime
<1>4. StatusTime(e, s) = IF LegacyStatus(e, s) THEN mark.touched ELSE mark.clock
  BY <1>0, TrustedRows DEF StatusTime
<1>5. StatusClock(e, s) = IF e.status # Keep /\ e.time > 0 THEN StatusTime(e, s) ELSE mark.clock
  BY <1>0, <1>2, TrustedRows DEF StatusClock, TimedStatus
<1>6. LegacyStatus(e, s) => mark.clock = 0 /\ progress.clock = 0 /\ ResetTime(e, s) = 0
  BY <1>0, TrustedRows DEF LegacyStatus, NoTime
<1>7. mark' = ResolvedMark(e, s)
  BY DEF SaveUserMark
<1>8. StatusTime(e, s) \in Nat /\ StatusTime(e, s) >= mark.clock
  BY <1>1, <1>4, <1>6
<1>9. CASE AcceptsStatus(e, s) /\ e.time > 0
  <2>1. /\ e.time > StatusTime(e, s)
        /\ e.time > Trusted(progress.clock, s)
        /\ e.time > ResetTime(e, s)
        /\ e.status # Keep
    BY <1>2, <1>9 DEF AcceptsStatus
  <2>2. e.time > mark.clock /\ e.time > progress.clock /\ e.time > reset
    BY <1>0, <1>1, <1>3, <1>8, <1>9, <2>1, TrustedRows
  <2>3. mark' = [status |-> e.status, clock |-> e.time, touched |-> s]
    BY <1>2, <1>7, <1>9 DEF ResolvedMark
  <2>4. /\ progress' = IF e.status = "unread" THEN NoProgress ELSE progress
        /\ reset' = IF e.status = "unread" THEN e.time ELSE reset
    BY <1>2, <1>3, <1>9, <2>1 DEF SaveUserMark, TimedStatus
  <2>. QED
    BY <1>1, <1>9, <2>1, <2>2, <2>3, <2>4
<1>10. CASE AcceptsStatus(e, s) /\ ~(e.time > 0)
  <2>1. e.time = 0
    BY <1>1, <1>10 DEF AcceptsStatus, RejectedTime, BadTime, Future
  <2>2. StatusClock(e, s) = 0 /\ e.status # Keep
    BY <1>2, <1>10 DEF AcceptsStatus, NoTime
  <2>3. mark.clock = 0
    BY <1>5, <1>10, <2>2
  <2>4. mark' = [status |-> e.status, clock |-> 0, touched |-> s]
    BY <1>2, <1>7, <1>10 DEF ResolvedMark, NoTime
  <2>5. progress' = progress /\ reset' = reset
    BY <1>2, <1>10 DEF SaveUserMark, TimedStatus
  <2>. QED
    BY <1>1, <1>10, <2>1, <2>2, <2>3, <2>4, <2>5
<1>11. CASE ~AcceptsStatus(e, s)
  <2>1. progress' = progress /\ reset' = reset
    BY <1>2, <1>3, <1>11 DEF SaveUserMark, TimedStatus
  <2>2. e.time > 0 /\ e.status # Keep =>
          \/ e.time <= StatusTime(e, s)
          \/ e.time <= progress.clock
          \/ e.time <= reset
    <3>. SUFFICES ASSUME e.time > 0, e.status # Keep
                  PROVE  \/ e.time <= StatusTime(e, s)
                         \/ e.time <= progress.clock
                         \/ e.time <= reset
      OBVIOUS
    <3>1. ~RejectedTime(e, s)
      BY <1>1, <1>2 DEF RejectedTime, BadTime
    <3>2. ~(/\ e.time > StatusTime(e, s)
            /\ e.time > Trusted(progress.clock, s)
            /\ e.time > ResetTime(e, s))
      BY <1>2, <1>11, <3>1 DEF AcceptsStatus
    <3>. QED
      BY <1>0, <1>1, <1>3, <1>8, <3>2, TrustedRows
  <2>3. CASE HasMark
    <3>1. mark' = [mark EXCEPT !.clock = StatusClock(e, s),
                               !.touched = IF AcceptedFields(e, s) = {} THEN @ ELSE s]
      BY <1>7, <1>11, <2>3 DEF ResolvedMark
    <3>2. /\ mark'.status = mark.status /\ mark'.clock = StatusClock(e, s)
          /\ mark'.touched \in {mark.touched, s}
      BY <1>1, <3>1
    <3>3. e.time > 0 /\ e.status # Keep => StatusClock(e, s) = StatusTime(e, s)
      BY <1>5
    <3>4. \/ StatusClock(e, s) = mark.clock
          \/ mark.clock = 0 /\ StatusClock(e, s) = mark.touched /\ progress.clock = 0 /\ reset = 0
      BY <1>3, <1>4, <1>5, <1>6
    <3>. QED
      BY <1>11, <2>1, <2>2, <2>3, <3>2, <3>3, <3>4
  <2>4. CASE ~HasMark
    <3>1. mark' = NoMark \/ mark' = InitialMark(e, s)
      BY <1>7, <1>11, <2>4 DEF ResolvedMark
    <3>2. mark'.touched \in {mark.touched, s}
      BY <2>4, <3>1 DEF NoMark, InitialMark, HasMark
    <3>3. StatusTime(e, s) = 0
      BY <1>4, <2>4 DEF LegacyStatus, Rows, NoTime
    <3>. QED
      BY <1>1, <1>11, <2>1, <2>2, <2>4, <3>1, <3>2, <3>3
  <2>. QED
    BY <2>3, <2>4
<1>. QED
  BY <1>9, <1>10, <1>11

\* Field clocks never outrun the bound either.
LEMMA SeededBound ==
  ASSUME TypeOK, Bounds, NEW clocks \in [Fields -> Nat],
         \A f \in Fields : clocks[f] <= now + ClientLead,
         NEW protected, NEW s \in Nat
  PROVE  \A f \in Fields : Seeded(clocks, protected, s)[f] <= now + ClientLead
<1>. SUFFICES ASSUME NEW f \in Fields
              PROVE  Seeded(clocks, protected, s)[f] <= now + ClientLead
  OBVIOUS
<1>1. clocks[f] \in Nat /\ mark.touched \in Nat /\ mark.touched <= now /\ now \in Nat
  BY DEF TypeOK, Times, Bounds
<1>2. /\ Trusted(clocks[f], s) \in Nat /\ Trusted(clocks[f], s) <= clocks[f]
      /\ Trusted(mark.touched, s) \in Nat /\ Trusted(mark.touched, s) <= mark.touched
  BY <1>1, TrustedType
<1>3. Seeded(clocks, protected, s)[f] \in {Trusted(clocks[f], s), Trusted(mark.touched, s)}
  BY DEF Seeded
<1>. QED
  BY <1>1, <1>2, <1>3, ReadStateAssumption

LEMMA FieldClocksBound ==
  ASSUME TypeOK, Bounds, NEW e, NEW s \in Nat
  PROVE  \A f \in Fields : FieldClocks(e, s)[f] <= now + ClientLead
<1>1. clock \in [Fields -> Nat] /\ \A f \in Fields : clock[f] <= now + ClientLead
  BY DEF TypeOK, Times, Bounds
<1>2. /\ SeedLegacyClocks(clock, s) \in [Fields -> Nat]
      /\ \A f \in Fields : SeedLegacyClocks(clock, s)[f] <= now + ClientLead
  BY <1>1, SeedLegacyType, SeededBound DEF SeedLegacyClocks
<1>. QED
  BY <1>1, <1>2, SeededBound DEF FieldClocks

LEMMA NextBounds ==
  ASSUME Patient, TypeOK, Rows, Bounds, [Next]_vars, ~SetBack
  PROVE  Bounds'
<1>. USE ReadStateAssumption
<1>1. now \in Nat /\ now + ClientLead \in Nat /\ now <= now + ClientLead
  BY DEF TypeOK
<1>2. ASSUME NEW r \in Requests, NEW a, Answer(r, a)
      PROVE  /\ now' = now
             /\ \A q \in Requests :
                  /\ arrived'[q] <= now'
                  /\ phase'[q] = "waiting" => /\ now' - arrived'[q] <= LockWait
                                              /\ event'[q].time <= arrived'[q] + ClientLead
  BY <1>2 DEF Answer, Bounds, TypeOK
<1>3. ASSUME NEW r \in Requests, SaveProgress(r) \/ MigrateProgress(r) PROVE Bounds'
  <2>. DEFINE e == event[r]
              s == arrived[r]
              a == [stored |-> AcceptsProgress(e, s), fields |-> {}]
  <2>1. Answer(r, a) /\ event[r].kind # "mark" /\ phase[r] = "waiting"
    BY <1>3 DEF SaveProgress, MigrateProgress, Answer
  <2>2. s \in Nat /\ s <= now
    BY DEF TypeOK, Times, Bounds
  <2>3. CASE AcceptsProgress(e, s) /\ StoreProgress(e, s)
    <3>1. progress'.clock = EventTime(e, s) /\ reset' = 0
          /\ EventTime(e, s) \in Nat /\ EventTime(e, s) <= now + ClientLead
      BY <2>1, <2>3, AcceptedProgress
    <3>2. mark'.touched \in {mark.touched, s} /\ mark'.clock \in {mark.clock, EventTime(e, s)}
      BY <2>1, <2>3, AcceptedProgress
    <3>3. clock \in [Fields -> Nat] /\ \A f \in Fields : clock[f] <= now + ClientLead
      BY DEF TypeOK, Times, Bounds
    <3>4. \A f \in Fields : clock'[f] <= now + ClientLead
      BY <1>1, <2>3, <3>3, SeededBound DEF StoreProgress, SeedLegacyClocks
    <3>. QED
      BY <1>1, <1>2, <2>1, <2>2, <3>1, <3>2, <3>4 DEF Bounds
  <2>4. CASE UNCHANGED tables
    BY <1>1, <1>2, <2>1, <2>4 DEF Bounds, tables
  <2>5. CASE mark' = ClearedMark(s) /\ UNCHANGED <<progress, reset, value, clock>>
    <3>1. mark' = mark
      BY <2>1, <2>5, TrustedRows
    <3>. QED
      BY <1>1, <1>2, <2>1, <2>5, <3>1 DEF Bounds
  <2>. QED
    BY <1>3, <2>3, <2>4, <2>5 DEF SaveProgress, MigrateProgress
<1>4. ASSUME NEW r \in Requests, SaveUserMark(r) PROVE Bounds'
  <2>. DEFINE e == event[r]
              s == arrived[r]
              a == [stored |-> AcceptsStatus(e, s), fields |-> AcceptedFields(e, s)]
  <2>1. Answer(r, a) /\ phase[r] = "waiting"
    BY <1>4 DEF SaveUserMark, Answer
  <2>2. s \in Nat /\ s <= now /\ e.time <= now + ClientLead /\ e.time \in Int
        /\ mark.touched \in Nat /\ mark.clock \in Nat /\ reset \in Nat /\ progress.clock \in Nat
    BY <1>1, <2>1, EventType DEF TypeOK, Times, Bounds
  <2>3. \A f \in Fields : clock'[f] <= now + ClientLead
    BY <1>4, <2>2, FieldClocksBound DEF SaveUserMark
  <2>4. mark'.touched \in {mark.touched, s}
    BY <1>4, MarkStep
  <2>5. /\ progress'.clock \in {progress.clock, 0}
        /\ reset' \in {reset, e.time}
    BY <1>4, MarkStep DEF NoProgress, NoTime
  <2>6. ResetTime(e, s) \in {0, reset}
    BY DEF ResetTime, Trusted, NoTime
  <2>7. mark'.clock \in {mark.clock, mark.touched, e.time, 0, progress.clock, reset}
    BY <1>4, <2>6, MarkStep DEF InitialMark, NoMark, NoTime
  <2>. QED
    BY <1>1, <1>2, <2>1, <2>2, <2>3, <2>4, <2>5, <2>7 DEF Bounds
<1>5. ASSUME NEW r \in Requests, Arrive(r) PROVE Bounds'
  <2>1. PICK e \in Events({BadTime} \cup 0..(now + ClientLead)) :
          event' = [event EXCEPT ![r] = e]
    BY <1>5 DEF Arrive
  <2>2. e.time <= now + ClientLead
    BY <1>1, <2>1 DEF Events, BadTime
  <2>. QED
    BY <1>1, <1>5, <2>1, <2>2 DEF Arrive, tables, Bounds, TypeOK
<1>6. ASSUME NEW r \in Requests, Forget(r) PROVE Bounds'
  BY <1>1, <1>6 DEF Forget, tables, Bounds, TypeOK, NoTime
<1>7. ASSUME Tick PROVE Bounds'
  <2>1. now' = now + 1 /\ UNCHANGED <<tables, phase, event, arrived>>
    BY <1>7 DEF Tick
  <2>2. \A r \in Requests : phase[r] = "waiting" => now - arrived[r] < LockWait
    BY <1>7 DEF Tick
  <2>3. /\ progress.clock \in Nat /\ reset \in Nat /\ mark.clock \in Nat /\ mark.touched \in Nat
        /\ \A f \in Fields : clock[f] \in Nat
        /\ \A r \in Requests : arrived[r] \in Nat
    BY DEF TypeOK, Times
  <2>. QED
    BY <1>1, <2>1, <2>2, <2>3 DEF tables, Bounds
<1>8. CASE UNCHANGED vars
  BY <1>8 DEF vars, Bounds
<1>. QED
  BY <1>3, <1>4, <1>5, <1>6, <1>7, <1>8 DEF Next, Transaction, Fail, Reply

\* A clock that is never set back only goes forward.
LEMMA DisciplinedStep ==
  ASSUME ClockDiscipline, TypeOK
  PROVE  Patient /\ ~SetBack
BY DEF ClockDiscipline, Patient, SetBack, TypeOK

\* Newest is the largest of the three clocks.
LEMMA NewestIsMax ==
  ASSUME TypeOK
  PROVE  /\ Newest \in {mark.clock, progress.clock, reset} /\ Newest \in Nat
         /\ Newest >= mark.clock /\ Newest >= progress.clock /\ Newest >= reset
BY DEF Newest, TypeOK, Times

LEMMA NewestIsMaxNext ==
  ASSUME TypeOK'
  PROVE  /\ Newest' \in {mark'.clock, progress'.clock, reset'} /\ Newest' \in Nat
         /\ Newest' >= mark'.clock /\ Newest' >= progress'.clock /\ Newest' >= reset'
BY DEF Newest, TypeOK, Times

\* How one transaction orders the rows: nothing known gets older, an equal
\* clock keeps its status, and the event itself is covered.
Ordered(e, stored) ==
  /\ Newest' >= Newest
  /\ mark'.clock >= mark.clock
  /\ mark.clock > 0 /\ mark'.clock = mark.clock => mark'.status = mark.status
  /\ HasProgress /\ progress' # progress
       => progress'.clock > progress.clock \/ reset' > progress.clock
  /\ HasReset /\ reset' # reset => progress'.clock > reset \/ reset' > reset
  /\ e.time > 0 /\ HasStatus(e) => e.time <= Newest'
  /\ e.time > 0 /\ stored => \/ mark'.clock > e.time
                             \/ mark'.clock = e.time /\ mark'.status = e.status

LEMMA UnchangedOrdered ==
  ASSUME TypeOK, NEW e, e.time \in Int, HasStatus(e) /\ e.time > 0 => e.time <= Newest,
         UNCHANGED <<progress, reset, mark>>
  PROVE  Ordered(e, FALSE)
<1>1. Newest' = Newest
  BY DEF Newest
<1>. QED
  BY <1>1, NewestIsMax DEF Ordered, TypeOK, Times

LEMMA ProgressOrdered ==
  ASSUME ClockDiscipline, TypeOK, Rows, Bounds, TypeOK', NEW r \in Requests,
         SaveProgress(r) \/ MigrateProgress(r)
  PROVE  Ordered(event[r], AcceptsProgress(event[r], arrived[r]))
<1>. DEFINE e == event[r]
            s == arrived[r]
<1>1. phase[r] = "waiting" /\ e.kind # "mark" /\ e.time \in Int
  BY EventType DEF SaveProgress, MigrateProgress, Answer
<1>2. mark.clock \in Nat /\ progress.clock \in Nat /\ reset \in Nat
  BY DEF TypeOK, Times
<1>3. CASE AcceptsProgress(e, s) /\ StoreProgress(e, s)
  <2>1. /\ progress'.clock = EventTime(e, s) /\ EventTime(e, s) \in Nat /\ reset' = 0
        /\ \/ /\ e.time > 0 /\ e.time > reset /\ e.time > progress.clock
              /\ EventTime(e, s) = e.time
              /\ \/ /\ e.time > mark.clock
                    /\ mark'.clock = e.time /\ mark'.status = e.status
                 \/ /\ e.time = mark.clock /\ mark' = mark
                    /\ e.status = "completed" /\ mark.status = "completed"
           \/ /\ e.time <= 0 /\ reset = 0 /\ progress.clock = 0 /\ mark.clock = 0
              /\ mark'.clock = EventTime(e, s) /\ EventTime(e, s) > 0
    BY <1>1, <1>3, AcceptedProgress, DisciplinedStep
  <2>2. AcceptsProgress(e, s) = TRUE
    BY <1>3 DEF AcceptsProgress
  <2>. QED
    BY <1>1, <1>2, <2>1, <2>2, NewestIsMax, NewestIsMaxNext
       DEF Ordered, HasProgress, HasReset, NoTime
<1>4. CASE ~AcceptsProgress(e, s) /\ UNCHANGED <<progress, reset>> /\ mark' = mark
  <2>1. e.time > 0 => e.time <= Newest
    BY <1>1, <1>2, <1>4, RefusedProgress, DisciplinedStep, NewestIsMax
  <2>2. AcceptsProgress(e, s) = FALSE
    BY <1>4 DEF AcceptsProgress
  <2>. QED
    BY <1>1, <1>4, <2>1, <2>2, UnchangedOrdered
<1>5. ClearedMark(s) = mark
  BY <1>1, TrustedRows, DisciplinedStep
<1>. QED
  BY <1>3, <1>4, <1>5 DEF SaveProgress, MigrateProgress, tables

LEMMA MarkOrdered ==
  ASSUME ClockDiscipline, TypeOK, Rows, Bounds, TypeOK', NEW r \in Requests, SaveUserMark(r)
  PROVE  Ordered(event[r], AcceptsStatus(event[r], arrived[r]))
<1>. DEFINE e == event[r]
            s == arrived[r]
<1>1. /\ mark.clock \in Nat /\ progress.clock \in Nat /\ reset \in Nat
      /\ mark.touched \in Nat /\ e.time \in Int /\ phase[r] = "waiting"
  BY EventType DEF TypeOK, Times, SaveUserMark, Answer
<1>2. CASE /\ AcceptsStatus(e, s) /\ e.time > 0
           /\ e.time > mark.clock /\ e.time > progress.clock /\ e.time > reset
           /\ mark' = [status |-> e.status, clock |-> e.time, touched |-> s]
           /\ progress' = IF e.status = "unread" THEN NoProgress ELSE progress
           /\ reset' = IF e.status = "unread" THEN e.time ELSE reset
  <2>1. mark'.clock = e.time /\ mark'.status = e.status
    BY <1>2
  <2>2. Newest' >= e.time /\ e.time >= Newest
    BY <1>1, <1>2, <2>1, NewestIsMax, NewestIsMaxNext
  <2>3. HasProgress /\ progress' # progress => reset' > progress.clock
    BY <1>1, <1>2
  <2>4. HasReset /\ reset' # reset => reset' > reset
    BY <1>1, <1>2
  <2>. QED
    BY <1>1, <1>2, <2>1, <2>2, <2>3, <2>4, NewestIsMax, NewestIsMaxNext DEF Ordered
<1>3. CASE /\ AcceptsStatus(e, s) /\ e.time = 0 /\ mark.clock = 0
           /\ mark' = [status |-> e.status, clock |-> 0, touched |-> s]
           /\ progress' = progress /\ reset' = reset
  <2>1. mark'.clock = 0 /\ Newest' = Newest
    BY <1>3 DEF Newest
  <2>. QED
    BY <1>1, <1>3, <2>1, NewestIsMax DEF Ordered
<1>4. CASE /\ ~AcceptsStatus(e, s)
           /\ progress' = progress /\ reset' = reset
           /\ \/ /\ HasMark /\ mark'.status = mark.status
                 /\ mark'.clock = mark.clock \/ (mark.clock = 0 /\ mark'.clock = mark.touched)
              \/ ~HasMark /\ mark' = NoMark
              \/ ~HasMark /\ mark' = InitialMark(e, s)
           /\ e.time > 0 /\ e.status # Keep =>
                \/ e.time <= mark'.clock
                \/ e.time <= progress.clock
                \/ e.time <= reset
  <2>1. ~HasMark => mark.clock = 0
    BY DEF Rows, NoTime
  <2>2. mark'.clock \in Nat
    BY DEF TypeOK, Times
  <2>3. mark'.clock >= mark.clock
    BY <1>1, <1>4, <2>1, <2>2
  <2>4. mark.clock > 0 /\ mark'.clock = mark.clock => mark'.status = mark.status
    BY <1>1, <1>4, <2>1
  <2>5. Newest' >= Newest
    BY <1>1, <1>4, <2>2, <2>3, NewestIsMax, NewestIsMaxNext
  <2>6. e.time > 0 /\ HasStatus(e) => e.time <= Newest'
    BY <1>1, <1>4, <2>2, NewestIsMaxNext DEF HasStatus
  <2>. QED
    BY <1>4, <2>3, <2>4, <2>5, <2>6 DEF Ordered
<1>. QED
  BY <1>2, <1>3, <1>4, MarkStep, DisciplinedStep

LEMMA StutterOrdered ==
  ASSUME TypeOK, UNCHANGED <<progress, reset, mark>>
  PROVE  /\ Newest' = Newest
         /\ HasProgress /\ progress' # progress
              => progress'.clock > progress.clock \/ reset' > progress.clock
         /\ HasReset /\ reset' # reset => progress'.clock > reset \/ reset' > reset
BY DEF Newest

\* What the order theorems need of every step: it is one request's transaction,
\* or it leaves the rows alone.
Quiet == /\ UNCHANGED <<progress, reset, mark>>
         /\ \A q \in Requests : phase'[q] = "answered" =>
               /\ phase[q] = "answered" /\ event'[q] = event[q]
               /\ arrived'[q] = arrived[q] /\ answer'[q] = answer[q]

LEMMA StepKinds ==
  ASSUME TypeOK, [Next]_vars
  PROVE  Quiet \/ \E r \in Requests : Transaction(r)
<1>1. ASSUME NEW r \in Requests, Arrive(r) \/ Forget(r) PROVE Quiet
  BY <1>1 DEF Arrive, Forget, tables, Quiet, TypeOK
<1>2. ASSUME Tick \/ SetBack \/ UNCHANGED vars PROVE Quiet
  BY <1>2 DEF Tick, SetBack, vars, tables, Quiet
<1>. QED
  BY <1>1, <1>2 DEF Next, Fail, Reply

\* A transaction answers its own request and orders the rows.
LEMMA TransactionStep ==
  ASSUME ClockDiscipline, TypeOK, Rows, Bounds, TypeOK', NEW r \in Requests, Transaction(r)
  PROVE  /\ Ordered(event[r], answer'[r].stored)
         /\ phase[r] = "waiting"
         /\ event' = event /\ arrived' = arrived
         /\ \A q \in Requests : q # r => phase'[q] = phase[q] /\ answer'[q] = answer[q]
<1>1. ASSUME NEW a, Answer(r, a)
      PROVE  /\ answer'[r] = a /\ phase[r] = "waiting"
             /\ event' = event /\ arrived' = arrived
             /\ \A q \in Requests : q # r => phase'[q] = phase[q] /\ answer'[q] = answer[q]
  BY <1>1 DEF Answer, TypeOK
<1>2. CASE SaveProgress(r) \/ MigrateProgress(r)
  <2>1. Answer(r, [stored |-> AcceptsProgress(event[r], arrived[r]), fields |-> {}])
    BY <1>2 DEF SaveProgress, MigrateProgress
  <2>2. answer'[r].stored = AcceptsProgress(event[r], arrived[r])
    BY <1>1, <2>1
  <2>3. Ordered(event[r], AcceptsProgress(event[r], arrived[r]))
    BY <1>2, ProgressOrdered
  <2>. QED
    BY <1>1, <2>1, <2>2, <2>3
<1>3. CASE SaveUserMark(r)
  <2>1. Answer(r, [stored |-> AcceptsStatus(event[r], arrived[r]),
                   fields |-> AcceptedFields(event[r], arrived[r])])
    BY <1>3 DEF SaveUserMark
  <2>2. answer'[r].stored = AcceptsStatus(event[r], arrived[r])
    BY <1>1, <2>1
  <2>3. Ordered(event[r], AcceptsStatus(event[r], arrived[r]))
    BY <1>3, MarkOrdered
  <2>. QED
    BY <1>1, <2>1, <2>2, <2>3
<1>. QED
  BY <1>2, <1>3 DEF Transaction

\* The invariant the theorems share: what AnsweredIsCovered and StoredStands
\* say, with the types, rows and bounds that keep them.
Order == TypeOK /\ Rows /\ Bounds /\ AnsweredIsCovered /\ StoredStands

LEMMA InitOrder == Init => Order
<1>1. Init => AnsweredIsCovered /\ StoredStands
  BY DEF Init, AnsweredIsCovered, StoredStands, Answered
<1>. QED
  BY <1>1, InitType, InitRows, InitBounds DEF Order

LEMMA NextOrder ==
  ASSUME ClockDiscipline, Order, [Next]_vars
  PROVE  Order'
<1>. USE DEF Order
<1>1. TypeOK' /\ Rows' /\ Bounds'
  BY NextType, NextRows, NextBounds, DisciplinedStep
<1>2. CASE Quiet
  <2>1. Newest' = Newest
    BY <1>2, StutterOrdered DEF Quiet
  <2>2. AnsweredIsCovered'
    BY <1>2, <2>1 DEF Quiet, AnsweredIsCovered, Answered, HasStatus, Timed, Future
  <2>3. StoredStands'
    BY <1>2 DEF Quiet, StoredStands, Answered, Timed, Future
  <2>. QED
    BY <1>1, <2>2, <2>3
<1>3. ASSUME NEW r \in Requests, Transaction(r)
      PROVE  AnsweredIsCovered' /\ StoredStands'
  <2>1. /\ Ordered(event[r], answer'[r].stored) /\ phase[r] = "waiting"
        /\ event' = event /\ arrived' = arrived
        /\ \A q \in Requests : q # r => phase'[q] = phase[q] /\ answer'[q] = answer[q]
    BY <1>1, <1>3, TransactionStep
  <2>2. Timed(event[r], arrived[r]) <=> event[r].time > 0
    BY <2>1, AllTrusted, DisciplinedStep
  <2>3. /\ Newest \in Nat /\ Newest' \in Nat /\ mark.clock \in Nat /\ mark'.clock \in Nat
        /\ \A q \in Requests : event[q].time \in Int
    BY <1>1, NewestIsMax, NewestIsMaxNext, EventType DEF TypeOK, Times
  <2>4. ASSUME NEW q \in Requests, phase'[q] = "answered", HasStatus(event[q]),
               Timed(event[q], arrived[q])
        PROVE  event[q].time <= Newest'
    <3>1. CASE q = r
      BY <2>1, <2>2, <2>4, <3>1 DEF Ordered
    <3>2. CASE q # r
      BY <2>1, <2>3, <2>4, <3>2 DEF Ordered, AnsweredIsCovered, Answered
    <3>. QED
      BY <3>1, <3>2
  <2>5. ASSUME NEW q \in Requests, phase'[q] = "answered", answer'[q].stored,
               Timed(event[q], arrived[q])
        PROVE  \/ mark'.clock > event[q].time
               \/ mark'.clock = event[q].time /\ mark'.status = event[q].status
    <3>1. CASE q = r
      BY <2>1, <2>2, <2>5, <3>1 DEF Ordered
    <3>2. CASE q # r
      <4>1. /\ event[q].time > 0
            /\ \/ mark.clock > event[q].time
               \/ mark.clock = event[q].time /\ mark.status = event[q].status
        BY <2>1, <2>5, <3>2 DEF StoredStands, Answered, Timed, NoTime
      <4>. QED
        BY <2>1, <2>3, <4>1 DEF Ordered
    <3>. QED
      BY <3>1, <3>2
  <2>6. AnsweredIsCovered'
    BY <2>1, <2>4 DEF AnsweredIsCovered, Answered, HasStatus, Timed, Future
  <2>7. StoredStands'
    BY <2>1, <2>5 DEF StoredStands, Answered, Timed, Future
  <2>. QED
    BY <2>6, <2>7
<1>. QED
  BY <1>1, <1>2, <1>3, StepKinds

\* While clocks keep their discipline, a client that was answered may forget its
\* event: the rows hold it or a newer one.
THEOREM AnsweredEventsAreCovered ==
  ASSUME ClockDiscipline
  PROVE  Spec => []AnsweredIsCovered
<1>1. Order => AnsweredIsCovered
  BY DEF Order
<1>. QED
  BY <1>1, InitOrder, NextOrder, PTL DEF Spec

\* While clocks keep their discipline, a stored event decides the read status
\* until a newer event does.
THEOREM StoredEventsStand ==
  ASSUME ClockDiscipline
  PROVE  Spec => []StoredStands
<1>1. Order => StoredStands
  BY DEF Order
<1>. QED
  BY <1>1, InitOrder, NextOrder, PTL DEF Spec

\* While clocks keep their discipline, no delayed or repeated save brings back
\* progress that a newer "unread" removed, or removes newer progress.
THEOREM NothingIsResurrected ==
  ASSUME ClockDiscipline
  PROVE  Spec => NoResurrection
<1>1. Order /\ [Next]_vars =>
        [/\ HasProgress /\ progress' # progress
              => progress'.clock > progress.clock \/ reset' > progress.clock
         /\ HasReset /\ reset' # reset
              => progress'.clock > reset \/ reset' > reset]_vars
  <2>. SUFFICES ASSUME Order, [Next]_vars
       PROVE  /\ HasProgress /\ progress' # progress
                   => progress'.clock > progress.clock \/ reset' > progress.clock
              /\ HasReset /\ reset' # reset
                   => progress'.clock > reset \/ reset' > reset
    OBVIOUS
  <2>1. CASE Quiet
    BY <2>1, StutterOrdered DEF Quiet, Order
  <2>2. ASSUME NEW r \in Requests, Transaction(r)
        PROVE  Ordered(event[r], answer'[r].stored)
    BY <2>2, NextType, TransactionStep DEF Order
  <2>. QED
    BY <2>1, <2>2, StepKinds DEF Ordered, Order
<1>. QED
  BY <1>1, InitOrder, NextOrder, PTL DEF Spec, NoResurrection

-----------------------------------------------------------------------------
(* The register.  Without rows of an older release the mark row carries the *)
(* newest time there is, so the register's clock is mark.clock, and every  *)
(* transaction is one of the register's steps or changes nothing of it.    *)

Plain ==
  /\ ~HasMark => mark = NoMark
  /\ progress.clock <= mark.clock
  /\ reset <= mark.clock

LEMMA InitPlain ==
  ASSUME ~Legacy, Init
  PROVE  Plain /\ Register!Init
<1>1. progress = NoProgress /\ mark = NoMark /\ reset = NoTime
  BY DEF Init, LegacyRow
<1>2. Newest = 0
  BY <1>1 DEF Newest, NoProgress, NoMark, NoTime
<1>3. Plain
  BY <1>1 DEF Plain, NoProgress, NoMark, NoTime
<1>4. Register!Init
  BY <1>1, <1>2 DEF Register!Init, Register!NoProgress, NoProgress, NoMark, NoTime
<1>. QED
  BY <1>3, <1>4

LEMMA PlainNewest ==
  ASSUME TypeOK, Plain
  PROVE  Newest = mark.clock
BY DEF TypeOK, Times, Plain, Newest

LEMMA PlainNewestNext ==
  ASSUME TypeOK', Plain'
  PROVE  Newest' = mark'.clock
BY DEF TypeOK, Times, Plain, Newest

LEMMA SameRegister ==
  ASSUME TypeOK, Plain, UNCHANGED <<progress, reset, mark>>
  PROVE  Plain' /\ UNCHANGED Register!vars
BY DEF Plain, HasMark, Newest, Register!vars

\* A position that is stored: newer than all there is, the position of a "completed"
\* mark, or the first of a work nobody has dated anything of.
LEMMA ProgressIsRegistered ==
  ASSUME ClockDiscipline, TypeOK, Rows, Bounds, Plain, TypeOK', NEW r \in Requests,
         SaveProgress(r) \/ MigrateProgress(r)
  PROVE  Plain' /\ [Register!Next]_(Register!vars)
<1>. DEFINE e == event[r]
            s == arrived[r]
<1>1. phase[r] = "waiting" /\ e.kind # "mark" /\ e.time \in Int
      /\ e.status \in {"reading", "completed"} /\ s \in Nat /\ s > 0
  BY EventType DEF SaveProgress, MigrateProgress, Answer, TypeOK, Times, Rows
<1>2. /\ mark.clock \in Nat /\ progress.clock \in Nat /\ reset \in Nat /\ mark.touched \in Nat
      /\ Newest = mark.clock /\ progress.clock <= mark.clock /\ reset <= mark.clock
  BY PlainNewest DEF TypeOK, Times, Plain
<1>3. CASE AcceptsProgress(e, s) /\ StoreProgress(e, s)
  <2>1. /\ progress' = [clock |-> EventTime(e, s), completed |-> e.status = "completed"]
        /\ reset' = 0 /\ EventTime(e, s) \in Nat /\ EventTime(e, s) > 0
    BY <1>1, <1>3, AcceptedProgress, DisciplinedStep
  <2>2. CASE /\ EventTime(e, s) > mark.clock
             /\ mark' = [status |-> e.status, clock |-> EventTime(e, s), touched |-> s]
    <3>1. Plain'
      BY <1>1, <1>2, <2>1, <2>2 DEF Plain, HasMark, NoTime
    <3>2. Newest' = EventTime(e, s)
      BY <2>2, <3>1, PlainNewestNext
    <3>3. Register!ProgressEvent
      BY <1>1, <1>2, <2>1, <2>2, <3>2 DEF Register!ProgressEvent
    <3>. QED
      BY <3>1, <3>3 DEF Register!Next
  <2>3. CASE /\ e.time = mark.clock /\ mark' = mark /\ EventTime(e, s) = e.time
             /\ e.time > progress.clock /\ e.status = "completed" /\ mark.status = "completed"
    <3>1. Plain'
      BY <1>1, <1>2, <2>1, <2>3 DEF Plain, HasMark, NoTime, NoMark
    <3>2. Newest' = mark.clock
      BY <2>3, <3>1, PlainNewestNext
    <3>3. progress' = [clock |-> mark.clock, completed |-> TRUE]
      BY <2>1, <2>3
    <3>4. Register!CompletedPosition
      BY <1>2, <2>3, <3>2, <3>3 DEF Register!CompletedPosition
    <3>. QED
      BY <3>1, <3>4 DEF Register!Next
  <2>. QED
    BY <1>1, <1>3, <2>1, <2>2, <2>3, AcceptedProgress, DisciplinedStep
<1>4. CASE UNCHANGED <<progress, reset, mark>>
  BY <1>4, SameRegister
<1>5. ClearedMark(s) = mark
  BY <1>1, TrustedRows, DisciplinedStep
<1>. QED
  BY <1>3, <1>4, <1>5 DEF SaveProgress, MigrateProgress, tables

\* A mark that is stored: a newer status, one without a time while nothing has one,
\* or no status and at most a date for the row that had none.
LEMMA MarkIsRegistered ==
  ASSUME ClockDiscipline, TypeOK, Rows, Bounds, Plain, TypeOK', NEW r \in Requests,
         SaveUserMark(r)
  PROVE  Plain' /\ [Register!Next]_(Register!vars)
<1>. DEFINE e == event[r]
            s == arrived[r]
<1>1. /\ mark.clock \in Nat /\ progress.clock \in Nat /\ reset \in Nat /\ mark.touched \in Nat
      /\ e.time \in Int /\ phase[r] = "waiting" /\ s \in Nat /\ s > 0
      /\ Newest = mark.clock /\ progress.clock <= mark.clock /\ reset <= mark.clock
  BY EventType, PlainNewest DEF TypeOK, Times, Plain, Rows, SaveUserMark, Answer
<1>2. CASE /\ e.time > mark.clock /\ e.status \in Statuses
           /\ mark' = [status |-> e.status, clock |-> e.time, touched |-> s]
           /\ progress' = IF e.status = "unread" THEN NoProgress ELSE progress
           /\ reset' = IF e.status = "unread" THEN e.time ELSE reset
  <2>1. Plain'
    BY <1>1, <1>2 DEF Plain, HasMark, NoTime, NoProgress
  <2>2. Newest' = e.time
    BY <1>2, <2>1, PlainNewestNext
  <2>3. Register!StatusEvent
    BY <1>1, <1>2, <2>2
       DEF Register!StatusEvent, Register!NoProgress, Register!Statuses, Statuses, NoProgress, NoTime
  <2>. QED
    BY <2>1, <2>3 DEF Register!Next
<1>3. CASE /\ mark.clock = 0 /\ e.status \in Statuses
           /\ mark' = [status |-> e.status, clock |-> 0, touched |-> s]
           /\ progress' = progress /\ reset' = reset
  <2>1. Plain'
    BY <1>1, <1>3 DEF Plain, HasMark, NoTime
  <2>2. Newest' = 0
    BY <1>3, <2>1, PlainNewestNext
  <2>3. Register!UntimedStatus
    BY <1>1, <1>3, <2>2 DEF Register!UntimedStatus, Register!Statuses, Statuses
  <2>. QED
    BY <2>1, <2>3 DEF Register!Next
<1>4. CASE /\ progress' = progress /\ reset' = reset
           /\ HasMark /\ mark'.status = mark.status /\ mark'.touched \in {mark.touched, s}
           /\ mark'.clock = mark.clock \/ (mark.clock = 0 /\ mark'.clock = mark.touched)
  <2>1. mark'.clock >= mark.clock
    BY <1>1, <1>4
  <2>2. Plain'
    BY <1>1, <1>4, <2>1 DEF Plain, HasMark, NoTime
  <2>3. Newest' = mark'.clock
    BY <2>2, PlainNewestNext
  <2>4. CASE mark'.clock = mark.clock
    BY <1>1, <1>4, <2>2, <2>3, <2>4 DEF Register!vars
  <2>5. CASE mark.clock = 0 /\ mark'.clock = mark.touched
    <3>1. mark'.clock > 0
      BY <1>1, <1>4, <2>5 DEF HasMark, NoTime
    <3>2. Register!DateStatus
      BY <1>1, <1>4, <2>3, <2>5, <3>1 DEF Register!DateStatus
    <3>. QED
      BY <2>2, <3>2 DEF Register!Next
  <2>. QED
    BY <1>4, <2>4, <2>5
<1>5. CASE /\ progress' = progress /\ reset' = reset
           /\ ~HasMark /\ (mark' = NoMark \/ mark' = InitialMark(e, s))
  <2>1. mark = NoMark /\ mark.clock = 0 /\ progress.clock = 0 /\ reset = 0
    BY <1>1, <1>5 DEF Plain, NoMark, NoTime
  <2>2. Trusted(progress.clock, s) = 0 /\ ResetTime(e, s) = 0
    BY <2>1, <1>1, TrustedRows, DisciplinedStep DEF ResetTime, NoTime
  <2>3. mark'.clock = 0 /\ mark'.status = "unread" /\ (mark'.touched = 0 => mark' = NoMark)
    BY <1>1, <1>5, <2>2 DEF InitialMark, NoMark, NoTime
  <2>4. Plain'
    BY <1>5, <2>1, <2>3 DEF Plain, HasMark, NoTime
  <2>5. Newest' = Newest
    BY <1>1, <2>1, <2>3, <2>4, PlainNewestNext
  <2>6. mark'.status = mark.status
    BY <2>1, <2>3 DEF NoMark
  <2>. QED
    BY <1>5, <2>4, <2>5, <2>6 DEF Register!vars
<1>. QED
  BY <1>2, <1>3, <1>4, <1>5, MarkStep, DisciplinedStep DEF Keep

LEMMA NextPlain ==
  ASSUME ClockDiscipline, TypeOK, Rows, Bounds, Plain, [Next]_vars
  PROVE  Plain' /\ [Register!Next]_(Register!vars)
<1>1. TypeOK'
  BY NextType
<1>2. CASE Quiet
  BY <1>2, SameRegister DEF Quiet
<1>3. ASSUME NEW r \in Requests, Transaction(r)
      PROVE  Plain' /\ [Register!Next]_(Register!vars)
  BY <1>1, <1>3, ProgressIsRegistered, MarkIsRegistered DEF Transaction
<1>. QED
  BY <1>2, <1>3, StepKinds

\* While clocks keep their discipline, the tables of a database without rows of an
\* older release are a register of the newest event: every transaction, delayed,
\* repeated or overtaken as its request may be, is one of its steps or no change.
THEOREM ReadStateIsARegister ==
  ASSUME ClockDiscipline, ~Legacy
  PROVE  Spec => ImplementsRegister
<1>1. Init => Plain /\ Register!Init
  BY InitPlain
<1>2. Order /\ Plain /\ [Next]_vars => Plain' /\ [Register!Next]_(Register!vars)
  BY NextPlain DEF Order
<1>. QED
  BY <1>1, <1>2, InitOrder, NextOrder, PTL DEF Spec, ImplementsRegister, Register!Spec

-----------------------------------------------------------------------------
(* Trust: what holds of a refusal whatever the clocks do.                  *)

\* Somebody's trusted clock is at or after the event.
Justified(e, s) ==
  \E c \in {progress.clock, reset, mark.clock, mark.touched} : e.time <= c /\ ~Untrusted(c, s)

LEMMA TrustedJustifies ==
  ASSUME NEW e, e.time \in Int, NEW s \in Nat, Timed(e, s),
         NEW c \in {progress.clock, reset, mark.clock, mark.touched}, c \in Nat,
         e.time <= Trusted(c, s)
  PROVE  Justified(e, s)
<1>1. e.time > 0
  BY DEF Timed, NoTime
<1>2. e.time <= c /\ ~Untrusted(c, s)
  BY <1>1 DEF Trusted, NoTime
<1>. QED
  BY <1>2 DEF Justified

LEMMA RefusedProgressIsJustified ==
  ASSUME TypeOK, NEW r \in Requests, Timed(event[r], arrived[r]),
         ~AcceptsProgress(event[r], arrived[r])
  PROVE  Justified(event[r], arrived[r])
<1>. DEFINE e == event[r]
            s == arrived[r]
<1>1. /\ s \in Nat /\ e.time \in Int /\ ~Future(e, s)
      /\ mark.clock \in Nat /\ progress.clock \in Nat /\ reset \in Nat
  BY EventType DEF TypeOK, Times, Timed
<1>2. CASE BlockedByReset(e, s)
  BY <1>2 DEF BlockedByReset, Justified
<1>3. CASE BlockedByProgress(e, s)
  BY <1>3 DEF BlockedByProgress, Justified
<1>4. CASE BlockedByReadStatus(e, s)
  <2>1. e.time <= Trusted(mark.clock, s)
    BY <1>4 DEF BlockedByReadStatus
  <2>. QED
    BY <1>1, <2>1, TrustedJustifies
<1>. QED
  BY <1>1, <1>2, <1>3, <1>4 DEF AcceptsProgress

LEMMA RefusedStatusIsJustified ==
  ASSUME TypeOK, NEW r \in Requests, Timed(event[r], arrived[r]), HasStatus(event[r]),
         ~AcceptsStatus(event[r], arrived[r])
  PROVE  Justified(event[r], arrived[r])
<1>. DEFINE e == event[r]
            s == arrived[r]
<1>1. /\ s \in Nat /\ e.time \in Int /\ ~Future(e, s) /\ e.time > 0
      /\ mark.clock \in Nat /\ mark.touched \in Nat /\ progress.clock \in Nat /\ reset \in Nat
  BY EventType DEF TypeOK, Times, Timed, NoTime
<1>2. ~RejectedTime(e, s)
  BY <1>1 DEF RejectedTime, BadTime
<1>3. /\ Trusted(progress.clock, s) \in Nat /\ Trusted(reset, s) \in Nat
      /\ Trusted(mark.clock, s) \in Nat /\ Trusted(mark.touched, s) \in Nat
  BY <1>1, TrustedType
<1>4. ResetTime(e, s) = Trusted(reset, s)
  BY DEF ResetTime, TimedStatus, HasStatus
<1>5. StatusTime(e, s) \in {Trusted(mark.touched, s), Trusted(mark.clock, s)}
  BY DEF StatusTime
<1>6. \/ e.time <= StatusTime(e, s)
      \/ e.time <= Trusted(progress.clock, s)
      \/ e.time <= Trusted(reset, s)
  BY <1>1, <1>2, <1>3, <1>4, <1>5 DEF AcceptsStatus, HasStatus
<1>. QED
  BY <1>1, <1>5, <1>6, TrustedJustifies

\* A clock that is too far ahead refuses nothing: also with clocks that are set back,
\* wrong or left by an older release, what refuses an event with a good time is a
\* clock at or after it that the server trusts.
THEOREM OnlyTrustedClocksRefuse == Spec => UntrustedClockNeverBlocks
<1>1. TypeOK /\ [Next]_vars =>
        [\A r \in Requests :
           LET e == event[r]
               s == arrived[r]
           IN  /\ phase[r] = "waiting" /\ phase'[r] = "answered"
               /\ Timed(e, s) /\ HasStatus(e) /\ ~answer'[r].stored
               => \E c \in {progress.clock, reset, mark.clock, mark.touched} :
                    e.time <= c /\ ~Untrusted(c, s)]_vars
  <2>. SUFFICES ASSUME TypeOK, [Next]_vars, NEW r \in Requests,
                       phase[r] = "waiting", phase'[r] = "answered",
                       Timed(event[r], arrived[r]), HasStatus(event[r]), ~answer'[r].stored
                PROVE  Justified(event[r], arrived[r])
    BY DEF Justified
  <2>1. PICK q \in Requests : Transaction(q)
    BY StepKinds DEF Quiet
  <2>2. ASSUME NEW a, Answer(q, a)
        PROVE  r = q /\ answer'[q] = a
    BY <2>2 DEF Answer, TypeOK
  <2>3. CASE SaveProgress(q) \/ MigrateProgress(q)
    <3>1. Answer(q, [stored |-> AcceptsProgress(event[q], arrived[q]), fields |-> {}])
      BY <2>3 DEF SaveProgress, MigrateProgress
    <3>2. r = q /\ ~AcceptsProgress(event[r], arrived[r])
      BY <2>2, <3>1
    <3>. QED
      BY <3>2, RefusedProgressIsJustified
  <2>4. CASE SaveUserMark(q)
    <3>1. Answer(q, [stored |-> AcceptsStatus(event[q], arrived[q]),
                     fields |-> AcceptedFields(event[q], arrived[q])])
      BY <2>4 DEF SaveUserMark
    <3>2. r = q /\ ~AcceptsStatus(event[r], arrived[r])
      BY <2>2, <3>1
    <3>. QED
      BY <3>2, RefusedStatusIsJustified
  <2>. QED
    BY <2>1, <2>3, <2>4 DEF Transaction
<1>. QED
  BY <1>1, InitType, NextType, PTL DEF Spec, UntrustedClockNeverBlocks

-----------------------------------------------------------------------------
(* Fields: each has its own clock, which only moves forward while every     *)
(* waiting request still trusts it.                                        *)

\* How one step orders a field: its clock does not go back, and its value only
\* changes under a clock that was missing or that moved.
FieldOrdered(f) ==
  /\ clock'[f] >= clock[f]
  /\ clock[f] > 0 /\ clock'[f] = clock[f] => value'[f] = value[f]

LEMMA SeededGrows ==
  ASSUME NEW clocks \in [Fields -> Nat], NEW protected, NEW s \in Nat, NEW f \in Fields,
         mark.touched \in Nat, Trusted(clocks[f], s) = clocks[f]
  PROVE  /\ Seeded(clocks, protected, s)[f] \in Nat
         /\ clocks[f] # 0 => Seeded(clocks, protected, s)[f] = clocks[f]
BY TrustedType DEF Seeded, NoTime

LEMMA FieldClocksGrow ==
  ASSUME Patient, TypeOK, Bounds, NEW r \in Requests, phase[r] = "waiting", NEW f \in Fields
  PROVE  /\ FieldClocks(event[r], arrived[r])[f] \in Nat
         /\ clock[f] # 0 => FieldClocks(event[r], arrived[r])[f] = clock[f]
<1>. DEFINE e == event[r]
            s == arrived[r]
            seeded == IF AcceptsStatus(e, s) THEN SeedLegacyClocks(clock, s) ELSE clock
<1>1. /\ clock \in [Fields -> Nat] /\ s \in Nat /\ mark.touched \in Nat /\ now \in Nat
      /\ clock[f] <= now + ClientLead
  BY DEF TypeOK, Times, Bounds
<1>2. FieldClocks(e, s)[f] \in Nat
  BY <1>1, FieldClocksType
<1>3. ASSUME clock[f] # 0 PROVE FieldClocks(e, s)[f] = clock[f]
  <2>1. Trusted(clock[f], s) = clock[f]
    BY <1>1, AllTrusted
  <2>2. seeded \in [Fields -> Nat] /\ seeded[f] = clock[f]
    BY <1>1, <1>3, <2>1, SeedLegacyType, SeededGrows DEF SeedLegacyClocks
  <2>. QED
    BY <1>1, <1>3, <2>1, <2>2, SeededGrows DEF FieldClocks
<1>. QED
  BY <1>2, <1>3

LEMMA ProgressOrdersFields ==
  ASSUME Patient, TypeOK, Bounds, NEW r \in Requests, SaveProgress(r) \/ MigrateProgress(r),
         NEW f \in Fields
  PROVE  FieldOrdered(f)
<1>1. /\ clock \in [Fields -> Nat] /\ now \in Nat /\ mark.touched \in Nat
      /\ clock[f] <= now + ClientLead
  BY DEF TypeOK, Times, Bounds
<1>2. Trusted(clock[f], now) = clock[f]
  BY <1>1, ReadStateAssumption DEF Trusted, Untrusted, Patient
<1>3. CASE StoreProgress(event[r], arrived[r])
  <2>1. clock'[f] \in Nat /\ (clock[f] # 0 => clock'[f] = clock[f])
    BY <1>1, <1>2, <1>3, SeededGrows DEF StoreProgress, SeedLegacyClocks
  <2>. QED
    BY <1>1, <1>3, <2>1 DEF StoreProgress, FieldOrdered
<1>4. CASE UNCHANGED <<value, clock>>
  BY <1>1, <1>4 DEF FieldOrdered
<1>. QED
  BY <1>3, <1>4 DEF SaveProgress, MigrateProgress, tables

LEMMA MarkOrdersFields ==
  ASSUME Patient, TypeOK, Bounds, NEW r \in Requests, SaveUserMark(r), NEW f \in Fields
  PROVE  /\ FieldOrdered(f)
         /\ Timed(event[r], arrived[r]) /\ f \in DOMAIN event[r].patch =>
              /\ event[r].time <= clock'[f]
              /\ f \in AcceptedFields(event[r], arrived[r]) => value'[f] = event[r].patch[f]
<1>. DEFINE e == event[r]
            s == arrived[r]
            fields == AcceptedFields(e, s)
<1>1. /\ phase[r] = "waiting" /\ e.time \in Int /\ clock[f] \in Nat
  BY EventType DEF SaveUserMark, Answer, TypeOK, Times
<1>2. /\ FieldClocks(e, s)[f] \in Nat
      /\ clock[f] # 0 => FieldClocks(e, s)[f] = clock[f]
  BY <1>1, FieldClocksGrow
<1>3. /\ clock'[f] = IF f \in fields /\ Timed(e, s) THEN e.time ELSE FieldClocks(e, s)[f]
      /\ value'[f] = IF f \in fields THEN e.patch[f] ELSE value[f]
  BY DEF SaveUserMark
<1>4. f \in fields => \/ FieldClocks(e, s)[f] = 0
                      \/ Timed(e, s) /\ e.time > FieldClocks(e, s)[f]
  BY DEF AcceptedFields, NoTime
<1>5. Timed(e, s) => e.time > 0
  BY DEF Timed, NoTime
<1>6. FieldOrdered(f)
  BY <1>1, <1>2, <1>3, <1>4, <1>5 DEF FieldOrdered
<1>7. Timed(e, s) /\ f \in DOMAIN e.patch /\ f \notin fields => e.time <= FieldClocks(e, s)[f]
  BY <1>1, <1>2 DEF AcceptedFields, RejectedTime, Timed, BadTime, NoTime
<1>. QED
  BY <1>1, <1>3, <1>6, <1>7

\* A step that is no transaction changes neither fields nor what was answered.
LEMMA FieldSteps ==
  ASSUME TypeOK, [Next]_vars
  PROVE  \/ Quiet /\ UNCHANGED <<value, clock>>
         \/ \E r \in Requests : Transaction(r)
<1>1. ASSUME NEW r \in Requests, Arrive(r) \/ Forget(r) PROVE Quiet /\ UNCHANGED <<value, clock>>
  BY <1>1 DEF Arrive, Forget, tables, Quiet, TypeOK
<1>2. ASSUME Tick \/ SetBack \/ UNCHANGED vars PROVE Quiet /\ UNCHANGED <<value, clock>>
  BY <1>2 DEF Tick, SetBack, vars, tables, Quiet
<1>. QED
  BY <1>1, <1>2 DEF Next, Fail, Reply

\* What an answered request may rely on.
FieldCovered(r, f) ==
  /\ event[r].time <= clock[f]
  /\ f \in answer[r].fields /\ clock[f] = event[r].time => value[f] = event[r].patch[f]

LEMMA FieldStaysCovered ==
  ASSUME TypeOK, TypeOK', NEW r \in Requests, NEW f \in Fields, FieldOrdered(f), FieldCovered(r, f),
         event[r].time > 0, event'[r] = event[r], answer'[r] = answer[r]
  PROVE  FieldCovered(r, f)'
<1>1. clock[f] \in Nat /\ clock'[f] \in Nat /\ event[r].time \in Int
  BY EventType DEF TypeOK, Times
<1>. QED
  BY <1>1 DEF FieldCovered, FieldOrdered

FieldInv == TypeOK /\ Rows /\ (steady => Bounds) /\ FieldEventsCovered

LEMMA InitFields == Init => FieldInv
<1>1. Init => FieldEventsCovered
  BY DEF Init, FieldEventsCovered, Answered
<1>. QED
  BY <1>1, InitType, InitRows, InitBounds DEF FieldInv

LEMMA NextFields ==
  ASSUME Patient, FieldInv, [Next]_vars
  PROVE  FieldInv'
<1>. USE DEF FieldInv
<1>1. TypeOK' /\ Rows'
  BY NextType, NextRows
<1>2. steady' => steady /\ ~SetBack
  BY DEF Next, Arrive, Transaction, SaveProgress, MigrateProgress, SaveUserMark, Answer,
         Fail, Reply, Forget, Tick, SetBack, vars
<1>3. steady' => Bounds'
  BY <1>2, NextBounds
<1>4. ASSUME steady', NEW r \in Requests, phase'[r] = "answered", Timed(event'[r], arrived'[r]),
             NEW f \in DOMAIN event'[r].patch
      PROVE  FieldCovered(r, f)'
  <2>1. Bounds /\ event'[r].time > 0
    BY <1>2, <1>4 DEF Timed, NoTime
  <2>2. CASE Quiet /\ UNCHANGED <<value, clock>>
    BY <1>2, <1>4, <2>2 DEF Quiet, FieldCovered, FieldEventsCovered, Answered, Timed, Future
  <2>3. ASSUME NEW q \in Requests, Transaction(q)
        PROVE  FieldCovered(r, f)'
    <3>1. event' = event /\ arrived' = arrived /\ phase[q] = "waiting"
          /\ \A p \in Requests : p # q => phase'[p] = phase[p] /\ answer'[p] = answer[p]
      BY <2>3 DEF Transaction, SaveProgress, MigrateProgress, SaveUserMark, Answer, TypeOK
    <3>2. f \in Fields
      BY <1>4, <3>1, EventType
    <3>3. FieldOrdered(f)
      BY <2>1, <2>3, <3>2, ProgressOrdersFields, MarkOrdersFields DEF Transaction
    <3>4. CASE r # q
      <4>1. FieldCovered(r, f)
        BY <1>2, <1>4, <3>1, <3>4 DEF FieldCovered, FieldEventsCovered, Answered
      <4>. QED
        BY <1>1, <2>1, <3>1, <3>2, <3>3, <3>4, <4>1, FieldStaysCovered
    <3>5. CASE r = q /\ SaveUserMark(q)
      <4>1. answer'[r].fields = AcceptedFields(event[r], arrived[r])
        BY <3>5 DEF SaveUserMark, Answer, TypeOK
      <4>. QED
        BY <1>4, <2>1, <3>1, <3>2, <3>5, <4>1, MarkOrdersFields DEF FieldCovered, Timed, Future
    <3>6. CASE r = q /\ (SaveProgress(q) \/ MigrateProgress(q))
      <4>1. event[r].patch = NoPatch
        BY <3>6, EventType DEF SaveProgress, MigrateProgress
      <4>. QED
        BY <1>4, <3>1, <4>1 DEF NoPatch
    <3>. QED
      BY <2>3, <3>4, <3>5, <3>6 DEF Transaction
  <2>. QED
    BY <2>2, <2>3, FieldSteps
<1>5. FieldEventsCovered'
  BY <1>4 DEF FieldEventsCovered, FieldCovered, Answered, Timed, Future
<1>. QED
  BY <1>1, <1>3, <1>5

\* Until the server clock is set back, an answered mark stands for each of its fields:
\* the field has its value or one of a newer event, also when the request overtook
\* others or waited, as long as lead and wait stay within the skew.
THEOREM AnsweredFieldsAreCovered ==
  ASSUME Patient
  PROVE  Spec => []FieldEventsCovered
<1>1. FieldInv => FieldEventsCovered
  BY DEF FieldInv
<1>. QED
  BY <1>1, InitFields, NextFields, PTL DEF Spec
=============================================================================
