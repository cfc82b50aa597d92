---------------------------- MODULE ReadRegister ----------------------------
(***************************************************************************)
(* What the read state of a work promises: a register that keeps the       *)
(* newest event.  An event is ordered by the time its client gave it, not  *)
(* by when it arrives; there are no tombstones and no trust in clocks here. *)
(* ReadState implements this module while clocks keep their discipline.    *)
(***************************************************************************)
EXTENDS Integers

VARIABLES
  clock,      \* the time of the newest event, 0 before the first timed one
  status,     \* the read status
  progress    \* the reading position: its time (0: none), completed or not

vars == <<clock, status, progress>>

Statuses == {"unread", "reading", "completed", "abandoned"}
NoProgress == [clock |-> 0, completed |-> FALSE]

Init ==
  /\ clock = 0
  /\ status = "unread"
  /\ progress = NoProgress

\* A newer read status; "unread" forgets the position.
StatusEvent ==
  /\ clock' > clock
  /\ status' \in Statuses
  /\ progress' = IF status' = "unread" THEN NoProgress ELSE progress

\* A newer position decides the read status too.
ProgressEvent ==
  /\ clock' > clock
  /\ progress'.clock = clock'
  /\ status' = IF progress'.completed THEN "completed" ELSE "reading"

\* The last page and the "completed" mark may come from one event: the
\* position is taken although the status already has its time.
CompletedPosition ==
  /\ status = "completed"
  /\ clock > progress.clock
  /\ progress' = [clock |-> clock, completed |-> TRUE]
  /\ UNCHANGED <<clock, status>>

\* Clients of an older release send no time: they set the status only while
\* no timed event exists.
UntimedStatus ==
  /\ clock = 0
  /\ status' \in Statuses
  /\ UNCHANGED <<clock, progress>>

\* A status without a time is dated by its row before it is compared.
DateStatus ==
  /\ clock = 0
  /\ clock' > clock
  /\ UNCHANGED <<status, progress>>

Next ==
  \/ StatusEvent
  \/ ProgressEvent
  \/ CompletedPosition
  \/ UntimedStatus
  \/ DateStatus

Spec == Init /\ [][Next]_vars
=============================================================================
