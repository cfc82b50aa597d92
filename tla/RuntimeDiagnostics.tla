-------------------------- MODULE RuntimeDiagnostics --------------------------
(***************************************************************************)
(* The size of the cache directories in the runtime diagnostics              *)
(* (runtime_diagnostics_lite.go).  Requests share one scan, which runs in a  *)
(* goroutine with a deadline of its own, so that a request that goes away    *)
(* takes nobody's scan with it; its result is kept for a short time.  The    *)
(* coordinator's mutex makes the look and the publication single steps.      *)
(*                                                                         *)
(* The roots are those of the server, so there is one key.  A directory is   *)
(* read in one step, with the files that are in it just then; what may       *)
(* become of it (removed, replaced, unreadable) is an error of its own, but  *)
(* a root that does not exist is none: there is nothing to count in it.      *)
(***************************************************************************)
EXTENDS Integers, FiniteSets, Sequences

CONSTANTS
  Askers,      \* requests under way at one time
  Roots,       \* the cache directories of the server
  Below,       \* the directories in each directory
  Files,       \* how many files a directory may hold
  MaxEntries,  \* runtimeDiagnosticsMaxEntries
  Timeout,     \* of a request, and of a scan
  Lifetime,    \* runtimeDiagnosticsCacheTTL
  MaxTime      \* bound on the clock

Directories == DOMAIN Below

ASSUME RuntimeDiagnosticsAssumption ==
  /\ IsFiniteSet(Directories)
  /\ Roots \subseteq Directories
  \* No cache directory is inside another (newServer).
  /\ \A d \in Directories : Below[d] \subseteq Directories \ Roots
  /\ Files \subseteq Nat
  /\ MaxEntries \in Nat
  /\ Timeout \in Nat \ {0}
  /\ Lifetime \in Nat \ {0}
  /\ MaxTime \in Nat

VARIABLES
  clock,
  kept,      \* cachedResult and cachedUntil
  inFlight,  \* number of the call under way, 0 for none
  calls,     \* how many were made
  results,   \* of the calls that are done
  walk,      \* the scan of the call under way
  asker      \* of a request: what it waits for, or its answer

diagnosticsVars == <<clock, kept, inFlight, calls, results, walk, asker>>

Failed == [complete |-> FALSE, counted |-> {}, missing |-> {}, at |-> 0]
Free == [stage |-> "free"]
NoWalk ==
  [pending |-> {}, counted |-> {}, missing |-> {}, entries |-> 0, complete |-> TRUE, begun |-> 0]

DiagnosticsInit ==
  /\ clock = 1
  /\ kept = [result |-> Failed, until |-> 0]
  /\ inFlight = 0
  /\ calls = 0
  /\ results = <<>>
  /\ walk = NoWalk
  /\ asker = [r \in Askers |-> Free]

-----------------------------------------------------------------------------
\* snapshotWithScanner, up to the wait.  (Mutant: what is kept is never too old.)
AskForEver(r) ==
  /\ asker[r] = Free
  /\ IF kept.until # 0
     THEN /\ asker' = [asker EXCEPT ![r] = [stage |-> "answered", asked |-> clock, result |-> kept.result]]
          /\ UNCHANGED <<inFlight, calls, walk>>
     ELSE /\ calls' = IF inFlight = 0 THEN calls + 1 ELSE calls
          /\ inFlight' = IF inFlight = 0 THEN calls + 1 ELSE inFlight
          /\ walk' = IF inFlight = 0 THEN [NoWalk EXCEPT !.pending = Roots, !.begun = clock] ELSE walk
          /\ asker' = [asker EXCEPT ![r] = [stage |-> "wait", asked |-> clock, call |-> inFlight']]
  /\ UNCHANGED <<clock, kept, results>>
Ask(r) ==
  /\ asker[r] = Free
  /\ IF clock < kept.until
     THEN /\ asker' = [asker EXCEPT ![r] = [stage |-> "answered", asked |-> clock, result |-> kept.result]]
          /\ UNCHANGED <<inFlight, calls, walk>>
     ELSE /\ calls' = IF inFlight = 0 THEN calls + 1 ELSE calls
          /\ inFlight' = IF inFlight = 0 THEN calls + 1 ELSE inFlight
          /\ walk' = IF inFlight = 0 THEN [NoWalk EXCEPT !.pending = Roots, !.begun = clock] ELSE walk
          /\ asker' = [asker EXCEPT ![r] = [stage |-> "wait", asked |-> clock, call |-> inFlight']]
  /\ UNCHANGED <<clock, kept, results>>

\* The call is done, or the request is cancelled or out of time.
Answer(r) ==
  /\ asker[r].stage = "wait" /\ asker[r].call \in DOMAIN results
  /\ asker' = [asker EXCEPT ![r] = [stage |-> "answered", asked |-> @.asked, result |-> results[@.call]]]
  /\ UNCHANGED <<clock, kept, inFlight, calls, results, walk>>

Withdraw(r) ==
  /\ asker[r].stage = "wait"
  /\ asker' = [asker EXCEPT ![r] = [stage |-> "answered", asked |-> @.asked, result |-> Failed]]
  /\ UNCHANGED <<clock, kept, inFlight, calls, results, walk>>

Return(r) ==
  /\ asker[r].stage = "answered"
  /\ asker' = [asker EXCEPT ![r] = Free]
  /\ UNCHANGED <<clock, kept, inFlight, calls, results, walk>>

-----------------------------------------------------------------------------
\* scanRuntimeDiagnosticCacheRoot takes the next directory: it is read, cannot be
\* opened as the one that was listed, or has more entries than are left to count,
\* which stops the scan.  A root may also be missing.
Entries(d, files) == walk.entries + Cardinality(Below[d]) + files
Opened(d, files) ==
  [walk EXCEPT !.pending = (@ \ {d}) \cup Below[d], !.counted = @ \cup {d}, !.entries = Entries(d, files)]
Unreadable(d) == [walk EXCEPT !.pending = @ \ {d}, !.complete = FALSE]
Missing(d) == [walk EXCEPT !.pending = @ \ {d}, !.missing = @ \cup {d}]

\* (Mutant: the directories behind the limit are left out without a word.)
ScanQuietly(d, files) ==
  /\ inFlight # 0 /\ d \in walk.pending
  /\ \/ Entries(d, files) <= MaxEntries /\ walk' = Opened(d, files)
     \/ Entries(d, files) > MaxEntries /\ walk' = [walk EXCEPT !.pending = {}]
     \/ walk' = Unreadable(d)
     \/ d \in Roots /\ walk' = Missing(d)
  /\ UNCHANGED <<clock, kept, inFlight, calls, results, asker>>
Scan(d, files) ==
  /\ inFlight # 0 /\ d \in walk.pending
  /\ \/ Entries(d, files) <= MaxEntries /\ walk' = Opened(d, files)
     \/ Entries(d, files) > MaxEntries /\ walk' = [walk EXCEPT !.pending = {}, !.complete = FALSE]
     \/ walk' = Unreadable(d)
     \/ d \in Roots /\ walk' = Missing(d)
  /\ UNCHANGED <<clock, kept, inFlight, calls, results, asker>>

\* markRuntimeDiagnosticsCacheCancellation: the scan is out of time.  Also a panic
\* of the scanner, which runScan takes for a failure.
GiveUp ==
  /\ inFlight # 0 /\ walk.pending # {}
  /\ walk' = [walk EXCEPT !.pending = {}, !.complete = FALSE]
  /\ UNCHANGED <<clock, kept, inFlight, calls, results, asker>>

\* The end of runScan.
Publish ==
  /\ inFlight # 0 /\ walk.pending = {}
  /\ LET result == [complete |-> walk.complete, counted |-> walk.counted,
                    missing |-> walk.missing, at |-> clock]
     IN  /\ results' = Append(results, result)
         /\ kept' = [result |-> result, until |-> clock + Lifetime]
  /\ inFlight' = 0
  /\ walk' = NoWalk
  /\ UNCHANGED <<clock, calls, asker>>

\* Nobody waits, and no scan runs, for longer than the timeout.
Advance ==
  /\ clock < MaxTime
  /\ inFlight # 0 /\ walk.pending # {} => clock - walk.begun < Timeout
  /\ \A r \in Askers : asker[r].stage = "wait" => clock - asker[r].asked < Timeout
  /\ clock' = clock + 1
  /\ UNCHANGED <<kept, inFlight, calls, results, walk, asker>>

DiagnosticsNext ==
  \/ Advance \/ GiveUp \/ Publish
  \/ \E d \in Directories, files \in Files : Scan(d, files)
  \/ \E r \in Askers : Ask(r) \/ Answer(r) \/ Withdraw(r) \/ Return(r)

DiagnosticsSpec == DiagnosticsInit /\ [][DiagnosticsNext]_diagnosticsVars

-----------------------------------------------------------------------------
\* A size that is reported as complete counts every root that was there when the
\* scan came to it, with all that is below it, and its scan ended no longer than the
\* lifetime before the request was made.
SizesAreWholeAndRecent ==
  \A r \in Askers :
    asker[r].stage = "answered" /\ asker[r].result.complete =>
      /\ Roots \subseteq asker[r].result.counted \cup asker[r].result.missing
      /\ \A d \in asker[r].result.counted : Below[d] \subseteq asker[r].result.counted
      /\ asker[r].asked < asker[r].result.at + Lifetime
=============================================================================
