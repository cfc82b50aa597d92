------------------------------ MODULE ReadState ------------------------------
(***************************************************************************)
(* The read state of one work, as the server keeps it in SQLite: the       *)
(* reading_progress row, the reading_progress_resets tombstone, the        *)
(* work_user_marks row and its per-field clocks                            *)
(* (internal/prototype/server_progress.go, server_user_marks.go).          *)
(*                                                                         *)
(* Clients stamp every event with their own clock and deliver it late, out *)
(* of order and more than once, so the server orders events by those       *)
(* stamps.  Each request samples the server clock first (Arrive) and runs  *)
(* its transaction later (SaveProgress, MigrateProgress, SaveUserMark):    *)
(* SQLite admits one writer at a time, and the first statement of every    *)
(* transaction is a write, so a transaction is one atomic step, but other  *)
(* transactions and clock ticks fall between the sample and that step.     *)
(*                                                                         *)
(* Rows of different work identities never meet in these transactions, so  *)
(* one work is modelled.  Times are abstract instants: that written_at      *)
(* strings are truncated to seconds and that julianday() compares in        *)
(* milliseconds is left out, and so is that all items of one migration get  *)
(* the time the batch was read.  The page position, display mode and        *)
(* manifest of a progress row are left out: what matters here is whether it *)
(* is there, its clock and whether it is completed.  Requests refused before*)
(* their transaction (no such work, stale manifest) change nothing.         *)
(***************************************************************************)
EXTENDS Integers

CONSTANTS
  Requests,     \* HTTP requests that can be in the server at one time
  Kinds,        \* the requests clients send: "save", "migrate", "mark"
  Marks,        \* the read statuses mark requests set
  Fields,       \* fields of a mark that have a clock each (favorite, notes...)
  MaxTime,      \* bound on the server clock
  Skew,         \* maxClientMutationFutureSkew
  ClientLead,   \* how far client clocks run ahead of the server's
  LockWait,     \* longest time from sampling the clock to the writer lock
  Rollback,     \* how far the server clock may be set back (0: never)
  Legacy        \* TRUE: the database may hold rows of an older release

NoTime == 0      \* an empty or missing timestamp
BadTime == -1    \* a timestamp that does not parse

Statuses == {"unread", "reading", "completed", "abandoned"}
Keep == "keep"   \* the mark request has no read_status

ASSUME ReadStateAssumption ==
  /\ Kinds \subseteq {"save", "migrate", "mark"}
  /\ Marks \subseteq Statuses
  /\ MaxTime \in Nat /\ MaxTime > 0
  /\ Skew \in Nat
  /\ ClientLead \in Nat
  /\ LockWait \in Nat
  /\ Rollback \in Nat
  /\ Legacy \in BOOLEAN

VARIABLES
  now,        \* the server clock
  steady,     \* it has not been set back
  progress,   \* reading_progress: clock NoTime when there is no row
  reset,      \* reading_progress_resets.reset_at, NoTime when there is no row
  mark,       \* work_user_marks: touched NoTime when there is no row
  value,      \* the clocked fields of the mark
  clock,      \* user_mark_field_clocks, NoTime when there is no row
  phase,      \* what a request is doing
  event,      \* the event a request carries
  arrived,    \* serverNow of a request
  answer      \* what the response says was stored

tables == <<progress, reset, mark, value, clock>>
vars == <<now, steady, progress, reset, mark, value, clock, phase, event, arrived, answer>>

-----------------------------------------------------------------------------
Blank == 0       \* NULL, 0 or '' in a field
Values == {Blank, 1}

\* The fields a mark request names and the values it gives them.
Patches == UNION {[F -> Values] : F \in SUBSET Fields}
NoPatch == [f \in {} |-> Blank]

\* A progress event is "reading" or "completed", has no patch, and a time that
\* does not parse counts as none; a mark event may have a status, a patch or both.
Events(times) ==
  [kind : Kinds \ {"mark"}, time : times \ {BadTime},
   status : {"reading", "completed"}, patch : {NoPatch}]
  \cup
  [kind : Kinds \cap {"mark"}, time : times, status : Marks \cup {Keep}, patch : Patches]

NoEvent == [kind |-> "mark", time |-> NoTime, status |-> Keep, patch |-> NoPatch]
NoAnswer == [stored |-> FALSE, fields |-> {}]
NoProgress == [clock |-> NoTime, completed |-> FALSE]
NoMark == [status |-> "unread", clock |-> NoTime, touched |-> NoTime]

HasProgress == progress.clock # NoTime
HasReset == reset # NoTime
HasMark == mark.touched # NoTime

-----------------------------------------------------------------------------
\* A stored clock further ahead of serverNow than the skew is not trusted.
Untrusted(c, s) == c > s + Skew
Trusted(c, s) == IF Untrusted(c, s) THEN NoTime ELSE c

Future(e, s) == e.time > s + Skew
Timed(e, s) == e.time > NoTime /\ ~Future(e, s)

\* Fields an older release may have set without giving them a clock.
LegacyProtected == {f \in Fields : value[f] # Blank}

\* Drop untrusted field clocks and give protected fields without a clock the
\* time the row was last written.
Seeded(clocks, protected, s) ==
  [f \in Fields |->
     IF Trusted(clocks[f], s) = NoTime /\ f \in protected
     THEN Trusted(mark.touched, s)
     ELSE Trusted(clocks[f], s)]

SeedLegacyClocks(clocks, s) ==
  IF LegacyProtected = {} THEN clocks ELSE Seeded(clocks, LegacyProtected, s)

-----------------------------------------------------------------------------
\* Progress: what both progress handlers decide from the rows they read.
\* (Mutant: a tombstone blocks also when its clock is not trusted.)
BlockedByAnyReset(e, s) == HasReset /\ (~Timed(e, s) \/ e.time <= reset)
BlockedByReset(e, s) ==
  /\ HasReset
  /\ \/ ~Timed(e, s)
     \/ ~Untrusted(reset, s) /\ e.time <= reset

\* (Mutant: any progress with the time of a "completed" mark is taken.)
BlockedByOlderReadStatus(e, s) ==
  /\ Trusted(mark.clock, s) # NoTime
  /\ \/ ~Timed(e, s)
     \/ /\ e.time <= Trusted(mark.clock, s)
        /\ ~(mark.status = "completed" /\ e.time = mark.clock)
BlockedByReadStatus(e, s) ==
  /\ Trusted(mark.clock, s) # NoTime
  /\ \/ ~Timed(e, s)
     \/ /\ e.time <= Trusted(mark.clock, s)
        /\ ~ /\ e.status = "completed"
             /\ mark.status = "completed"
             /\ e.time = mark.clock

BlockedByProgress(e, s) ==
  /\ HasProgress
  /\ \/ ~Timed(e, s)
     \/ ~Untrusted(progress.clock, s) /\ e.time <= progress.clock

AcceptsProgress(e, s) ==
  /\ ~Future(e, s)
  /\ ~BlockedByReset(e, s)
  /\ ~BlockedByReadStatus(e, s)
  /\ ~BlockedByProgress(e, s)

\* The clock of an event without a usable stamp is the server's.
\* (Mutant: every row is dated by the server.)
ServerTime(e, s) == s
EventTime(e, s) == IF Timed(e, s) THEN e.time ELSE s

ClearedMark(s) == [mark EXCEPT !.clock = Trusted(@, s)]

MarkFromProgress(m, status, t, s) ==
  IF m.touched = NoTime \/ m.clock = NoTime \/ t > m.clock
  THEN [status |-> status, clock |-> t, touched |-> s]
  ELSE m

\* (Mutant: the tombstone stays beside the progress that is newer than it.)
StoreBesideReset(e, s) ==
  /\ progress' = [clock |-> EventTime(e, s), completed |-> e.status = "completed"]
  /\ mark' = MarkFromProgress(ClearedMark(s), e.status, EventTime(e, s), s)
  /\ UNCHANGED <<reset, value, clock>>
StoreProgress(e, s) ==
  /\ progress' = [clock |-> EventTime(e, s), completed |-> e.status = "completed"]
  /\ reset' = NoTime
  /\ mark' = MarkFromProgress(ClearedMark(s), e.status, EventTime(e, s), s)
  /\ clock' = IF HasMark THEN SeedLegacyClocks(clock, now) ELSE clock
  /\ UNCHANGED value

Answer(r, a) ==
  /\ phase[r] = "waiting"
  /\ phase' = [phase EXCEPT ![r] = "answered"]
  /\ answer' = [answer EXCEPT ![r] = a]
  /\ UNCHANGED <<now, steady, event, arrived>>

\* handleProgressSave: an untrusted status clock is cleared whatever happens.
SaveProgress(r) ==
  LET e == event[r]
      s == arrived[r]
  IN  /\ e.kind = "save"
      /\ Answer(r, [stored |-> AcceptsProgress(e, s), fields |-> {}])
      /\ \/ AcceptsProgress(e, s) /\ StoreProgress(e, s)
         \/ /\ ~AcceptsProgress(e, s)
            /\ mark' = ClearedMark(s)
            /\ UNCHANGED <<progress, reset, value, clock>>

\* storeMigratedProgress: a skipped item rolls everything back.
MigrateProgress(r) ==
  LET e == event[r]
      s == arrived[r]
  IN  /\ e.kind = "migrate"
      /\ Answer(r, [stored |-> AcceptsProgress(e, s), fields |-> {}])
      /\ \/ AcceptsProgress(e, s) /\ StoreProgress(e, s)
         \/ ~AcceptsProgress(e, s) /\ UNCHANGED tables

-----------------------------------------------------------------------------
\* Marks: the clock a read status already has, and the decisions on the event.
\* (Operators of the request's event e and its serverNow s.)
RejectedTime(e, s) == Future(e, s) \/ e.time = BadTime

TimedStatus(e, s) == e.status # Keep /\ Timed(e, s)

ResetTime(e, s) == IF TimedStatus(e, s) THEN Trusted(reset, s) ELSE NoTime

\* A row without any clock is as old as its last write.
LegacyStatus(e, s) ==
  /\ HasMark
  /\ Trusted(mark.clock, s) = NoTime
  /\ Trusted(progress.clock, s) = NoTime
  /\ ResetTime(e, s) = NoTime

StatusTime(e, s) ==
  IF LegacyStatus(e, s) THEN Trusted(mark.touched, s) ELSE Trusted(mark.clock, s)

\* read_status_client_updated_at once the checks are done.
StatusClock(e, s) ==
  IF TimedStatus(e, s) THEN StatusTime(e, s) ELSE Trusted(mark.clock, s)

\* (Mutants: the status clock is not compared, or not strictly.)
AcceptsAnyStatus(e, s) ==
  /\ e.status # Keep
  /\ ~RejectedTime(e, s)
  /\ Timed(e, s) => e.time > Trusted(progress.clock, s) /\ e.time > ResetTime(e, s)
AcceptsEqualStatus(e, s) ==
  /\ e.status # Keep
  /\ ~RejectedTime(e, s)
  /\ Timed(e, s) => /\ e.time >= StatusTime(e, s)
                    /\ e.time >= Trusted(progress.clock, s)
                    /\ e.time >= ResetTime(e, s)
  /\ ~Timed(e, s) => StatusClock(e, s) = NoTime
AcceptsStatus(e, s) ==
  /\ e.status # Keep
  /\ ~RejectedTime(e, s)
  /\ IF Timed(e, s)
     THEN /\ e.time > StatusTime(e, s)
          /\ e.time > Trusted(progress.clock, s)
          /\ e.time > ResetTime(e, s)
     ELSE StatusClock(e, s) = NoTime

\* resolveUserMarkFieldUpdatesTx: the clocks the fields are compared with, the
\* fields the event may set, and the clocks they end with.
FieldClocks(e, s) ==
  LET seeded == IF AcceptsStatus(e, s) THEN SeedLegacyClocks(clock, s) ELSE clock
  IN  IF DOMAIN e.patch = {} THEN seeded
      ELSE Seeded(seeded, IF HasMark /\ Timed(e, s) THEN LegacyProtected ELSE {}, s)

\* (Mutant: an event with the time of the field's clock sets the field.)
AcceptedEqualFields(e, s) ==
  {f \in DOMAIN e.patch :
     /\ ~RejectedTime(e, s)
     /\ \/ FieldClocks(e, s)[f] = NoTime
        \/ Timed(e, s) /\ e.time >= FieldClocks(e, s)[f]}
AcceptedFields(e, s) ==
  {f \in DOMAIN e.patch :
     /\ ~RejectedTime(e, s)
     /\ \/ FieldClocks(e, s)[f] = NoTime
        \/ Timed(e, s) /\ e.time > FieldClocks(e, s)[f]}

StatusOf(p) == IF p.completed THEN "completed" ELSE "reading"

\* The row a mark request starts from when there is none.
\* (Mutant: it has the time of the progress, but the status of a new row.)
InitialUnread(e, s) ==
  [status |-> "unread", touched |-> s,
   clock |-> IF Trusted(progress.clock, s) # NoTime THEN progress.clock ELSE ResetTime(e, s)]
InitialMark(e, s) ==
  IF Trusted(progress.clock, s) # NoTime
  THEN [status |-> StatusOf(progress), clock |-> progress.clock, touched |-> s]
  ELSE [status |-> "unread", clock |-> ResetTime(e, s), touched |-> s]

\* (Mutant: only a status inserts the row, accepted fields alone do not.)
ResolvedStatusOnly(e, s) ==
  IF AcceptsStatus(e, s)
  THEN [status |-> e.status, touched |-> s,
        clock |-> IF Timed(e, s) THEN e.time ELSE NoTime]
  ELSE IF HasMark THEN [mark EXCEPT !.clock = StatusClock(e, s)] ELSE NoMark
ResolvedMark(e, s) ==
  LET fields == AcceptedFields(e, s)
      base == IF HasMark
              THEN [mark EXCEPT !.clock = StatusClock(e, s),
                                !.touched = IF fields = {} THEN @ ELSE s]
              ELSE IF fields = {} THEN NoMark ELSE InitialMark(e, s)
  IN  IF AcceptsStatus(e, s)
      THEN [status |-> e.status, touched |-> s,
            clock |-> IF Timed(e, s) THEN e.time ELSE NoTime]
      ELSE base

\* handleUserMarkSave, the branch for works.  A timed "unread" leaves a
\* tombstone and deletes the progress.
SaveUserMark(r) ==
  LET e == event[r]
      s == arrived[r]
      fields == AcceptedFields(e, s)
      unread == AcceptsStatus(e, s) /\ Timed(e, s) /\ e.status = "unread"
  IN  /\ e.kind = "mark"
      /\ Answer(r, [stored |-> AcceptsStatus(e, s), fields |-> fields])
      /\ mark' = ResolvedMark(e, s)
      /\ value' = [f \in Fields |-> IF f \in fields THEN e.patch[f] ELSE value[f]]
      /\ clock' = [f \in Fields |->
                     IF f \in fields /\ Timed(e, s) THEN e.time ELSE FieldClocks(e, s)[f]]
      /\ progress' = IF unread THEN NoProgress ELSE progress
      /\ reset' = IF unread THEN e.time
                  ELSE IF TimedStatus(e, s) THEN ResetTime(e, s) ELSE reset

-----------------------------------------------------------------------------
\* A request is read, checked against the work and stamped with serverNow.
Arrive(r) ==
  /\ phase[r] = "idle"
  /\ \E e \in Events({BadTime} \cup 0..(now + ClientLead)) :
       event' = [event EXCEPT ![r] = e]
  /\ phase' = [phase EXCEPT ![r] = "waiting"]
  /\ arrived' = [arrived EXCEPT ![r] = now]
  /\ UNCHANGED <<now, steady, tables, answer>>

Forget(r) ==
  /\ phase' = [phase EXCEPT ![r] = "idle"]
  /\ event' = [event EXCEPT ![r] = NoEvent]
  /\ arrived' = [arrived EXCEPT ![r] = NoTime]
  /\ answer' = [answer EXCEPT ![r] = NoAnswer]
  /\ UNCHANGED <<now, steady, tables>>

\* The writer lock was not free in time, a statement failed or the server
\* died: the deferred Rollback leaves the tables as they were.
Fail(r) == phase[r] = "waiting" /\ Forget(r)

\* The response reached the client, or was lost.
Reply(r) == phase[r] = "answered" /\ Forget(r)

\* busy_timeout bounds how long a request waits for the writer lock.
Tick ==
  /\ now < MaxTime
  /\ \A r \in Requests : phase[r] = "waiting" => now - arrived[r] < LockWait
  /\ now' = now + 1
  /\ UNCHANGED <<steady, tables, phase, event, arrived, answer>>

SetBack ==
  /\ \E t \in 1..(now - 1) : now - t <= Rollback /\ now' = t
  /\ steady' = FALSE
  /\ UNCHANGED <<tables, phase, event, arrived, answer>>

\* Rows an older release left: progress without a mark, marks without clocks.
LegacyRow(p, m) ==
  \/ p = NoProgress /\ m = NoMark
  \/ Legacy /\ p.clock <= now /\ m.touched <= now
            /\ m.clock = NoTime
            /\ (p.clock = NoTime => ~p.completed)
            /\ (m.touched = NoTime => m = NoMark)

Init ==
  /\ now = 1
  /\ steady = TRUE
  /\ progress \in [clock : 0..1, completed : BOOLEAN]
  /\ mark \in [status : Statuses, clock : {NoTime}, touched : 0..1]
  /\ LegacyRow(progress, mark)
  /\ value \in [Fields -> Values]
  /\ (~Legacy \/ mark.touched = NoTime) => value = [f \in Fields |-> Blank]
  /\ reset = NoTime
  /\ clock = [f \in Fields |-> NoTime]
  /\ phase = [r \in Requests |-> "idle"]
  /\ event = [r \in Requests |-> NoEvent]
  /\ arrived = [r \in Requests |-> NoTime]
  /\ answer = [r \in Requests |-> NoAnswer]

Transaction(r) == SaveProgress(r) \/ MigrateProgress(r) \/ SaveUserMark(r)

Next ==
  \/ \E r \in Requests : Arrive(r) \/ Transaction(r) \/ Fail(r) \/ Reply(r)
  \/ Tick
  \/ SetBack

Spec == Init /\ [][Next]_vars

-----------------------------------------------------------------------------
Times == Nat
Stamps == Times \cup {BadTime}
TypeOK ==
  /\ now \in 1..MaxTime
  /\ steady \in BOOLEAN
  /\ progress \in [clock : Times, completed : BOOLEAN]
  /\ reset \in Times
  /\ mark \in [status : Statuses, clock : Times, touched : Times]
  /\ value \in [Fields -> Values]
  /\ clock \in [Fields -> Times]
  /\ phase \in [Requests -> {"idle", "waiting", "answered"}]
  /\ event \in [Requests -> Events(Stamps) \cup {NoEvent}]
  /\ arrived \in [Requests -> Times]
  /\ answer \in [Requests -> [stored : BOOLEAN, fields : SUBSET Fields]]

\* A tombstone and a progress row never coexist: "unread" deletes the progress
\* in the transaction that writes the tombstone, and stored progress deletes
\* the tombstone, also when the server clock is set back in between.
TombstoneExcludesProgress == ~(HasReset /\ HasProgress)

\* Nothing hangs off a missing row: a tombstone, a field value and a field clock each
\* belong to a mark row.  And a mark row dated by the progress, also one that was made
\* for a field whose request had its status refused, has the status the progress implies.
MarkRowAgrees ==
  /\ HasReset \/ (\E f \in Fields : value[f] # Blank \/ clock[f] # NoTime) => HasMark
  /\ HasProgress /\ HasMark /\ mark.clock = progress.clock
       => mark.status = StatusOf(progress)

-----------------------------------------------------------------------------
\* What the clients' clocks and the writer lock must keep to for the server's
\* ordering to be trustworthy: no stamp it accepts can look too far in the
\* future to a request that sampled the server clock before it was accepted.
ClockDiscipline == ClientLead + LockWait <= Skew /\ Rollback = 0

\* The newest event any of the rows stands for.
Newest ==
  LET older(a, b) == IF a < b THEN b ELSE a
  IN  older(mark.clock, older(progress.clock, reset))

Answered(r) == phase[r] = "answered"
HasStatus(e) == e.status # Keep

\* A client that was told its event is stored, or that it may discard it,
\* loses nothing: the server holds that event or a newer one for as long as
\* the response travels, whatever else it accepts meanwhile.
AnsweredIsCovered ==
  \A r \in Requests :
    Answered(r) /\ HasStatus(event[r]) /\ Timed(event[r], arrived[r])
      => event[r].time <= Newest

\* A stored event decides the read status until a newer event replaces it.
StoredStands ==
  \A r \in Requests :
    LET e == event[r]
    IN  Answered(r) /\ answer[r].stored /\ Timed(e, arrived[r])
          => \/ mark.clock > e.time
             \/ mark.clock = e.time /\ mark.status = e.status

\* The same for every field of the mark, each by its own clock, while the server
\* clock goes forward and no request waits longer than the skew.
FieldEventsCovered ==
  \A r \in Requests :
    LET e == event[r]
    IN  steady /\ Answered(r) /\ Timed(e, arrived[r])
          => \A f \in DOMAIN e.patch :
               /\ e.time <= clock[f]
               /\ f \in answer[r].fields /\ clock[f] = e.time => value[f] = e.patch[f]

\* Progress only disappears behind a newer tombstone and is only replaced by
\* newer progress; a tombstone only gives way to newer progress or to a newer
\* tombstone.  So a delayed page save never brings back what was marked unread.
NoResurrection ==
  [][/\ HasProgress /\ progress' # progress
           => progress'.clock > progress.clock \/ reset' > progress.clock
     /\ HasReset /\ reset' # reset
           => progress'.clock > reset \/ reset' > reset]_vars

\* A clock the server does not trust never refuses an event with a good one:
\* whatever refuses it is a trusted clock at or after the event.
UntrustedClockNeverBlocks ==
  [][\A r \in Requests :
       LET e == event[r]
           s == arrived[r]
       IN  /\ phase[r] = "waiting" /\ phase'[r] = "answered"
           /\ Timed(e, s) /\ HasStatus(e) /\ ~answer'[r].stored
           => \E c \in {progress.clock, reset, mark.clock, mark.touched} :
                e.time <= c /\ ~Untrusted(c, s)]_vars

-----------------------------------------------------------------------------
(* The abstract register these rows implement under ClockDiscipline.       *)
Register == INSTANCE ReadRegister WITH
  clock <- Newest,
  status <- mark.status,
  progress <- progress

ImplementsRegister == Register!Spec
=============================================================================
