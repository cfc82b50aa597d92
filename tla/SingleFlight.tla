---------------------------- MODULE SingleFlight ----------------------------
(* What the thumbnail cache promises: a file is written by one request at a *)
(* time, and never again once it is there.                                  *)
CONSTANTS Requests, Paths

VARIABLES
  there,    \* the files that can be served
  writers   \* who is writing a file

vars == <<there, writers>>

Init ==
  /\ there = {}
  /\ writers = [p \in Paths |-> {}]

Begin(r, p) ==
  /\ p \notin there
  /\ writers[p] = {}
  /\ writers' = [writers EXCEPT ![p] = {r}]
  /\ UNCHANGED there

Finish(r, p) ==
  /\ writers[p] = {r}
  /\ writers' = [writers EXCEPT ![p] = {}]
  /\ there' = there \cup {p}

Fail(r, p) ==
  /\ writers[p] = {r}
  /\ writers' = [writers EXCEPT ![p] = {}]
  /\ UNCHANGED there

Next == \E r \in Requests, p \in Paths : Begin(r, p) \/ Finish(r, p) \/ Fail(r, p)

Spec == Init /\ [][Next]_vars
=============================================================================
