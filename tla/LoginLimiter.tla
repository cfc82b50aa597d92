---------------------------- MODULE LoginLimiter ----------------------------
(***************************************************************************)
(* Failed logins (cmd/bmanga-go/main.go): the requests of sessionAuth that  *)
(* try a password, and the limiter that counts the failures per address and *)
(* for the account.  Whether an attempt is blocked and what became of it    *)
(* are two sections under the limiter's mutex; the request's body is read   *)
(* and the password compared between them, while other attempts go on.      *)
(*                                                                         *)
(* An address is what loginAttemptKey makes of a request.  Whether a        *)
(* password is right is the request's choice.                               *)
(***************************************************************************)
EXTENDS Integers, FiniteSets

CONSTANTS
  Attempts,       \* requests in the handler at one time
  Addresses,
  NoAddress,
  FailureLimit,   \* loginFailureLimit
  AccountLimit,   \* accountLimit
  Window,         \* loginFailureWindow
  Block,          \* loginFailureBlockDuration
  ReadTime,       \* longest time to read a body (HTTP read timeout)
  MaxClock         \* bound on the clock

ASSUME LoginLimiterAssumption ==
  /\ FailureLimit \in Nat \ {0}
  /\ AccountLimit \in Nat /\ AccountLimit >= FailureLimit
  /\ Window \in Nat \ {0}
  /\ Block \in Nat \ {0}
  /\ ReadTime \in Nat
  /\ MaxClock \in Nat \ {0}
  /\ NoAddress \notin Addresses

VARIABLES
  clock,
  entries,   \* per address
  account,
  stage,     \* of a request: "idle", or what is left to do: "right", "wrong"
  from,      \* its address
  begun,     \* when it was let through
  tries,     \* of an address: the failures since its entry was reset, numbered
  allTries   \* the failures since the account's entry was reset

limiterVars == <<clock, entries, account, stage, from, begun, tries, allTries>>

Never == 0
NoEntry == [first |-> Never, failures |-> 0, until |-> Never, seen |-> Never]
Logged(log) == log \cup {[time |-> clock, number |-> Cardinality(log) + 1]}
Blocked(e) == clock < e.until

LimiterInit ==
  /\ clock = 1
  /\ entries = [a \in Addresses |-> NoEntry]
  /\ account = NoEntry
  /\ stage = [r \in Attempts |-> "idle"]
  /\ from = [r \in Attempts |-> NoAddress]
  /\ begun = [r \in Attempts |-> Never]
  /\ tries = [a \in Addresses |-> {}]
  /\ allTries = {}

-----------------------------------------------------------------------------
\* loginAttemptEntryExpired, and the same test in pruneLocked.
Current(e) ==
  IF e.first # Never /\ IF e.until # Never THEN clock > e.until + Window
                                          ELSE clock - e.seen > Window
  THEN NoEntry ELSE e

\* recordLoginFailure.
\* (Mutant: failures are counted however long ago the first was.)
RecordedForEver(e, max) ==
  LET failures == e.failures + 1
  IN  [first |-> IF e.first = Never THEN clock ELSE e.first, failures |-> failures,
       until |-> IF failures >= max THEN clock + Block ELSE e.until, seen |-> clock]
Recorded(e, max) ==
  LET base == IF e.first = Never \/ clock - e.first > Window
              THEN [NoEntry EXCEPT !.first = clock] ELSE e
      failures == base.failures + 1
  IN  [first |-> base.first, failures |-> failures,
       until |-> IF failures >= max THEN clock + Block ELSE base.until, seen |-> clock]

\* blocked: what is over is pruned, what is not has been seen.
Seen(e) == IF Blocked(e) THEN [e EXCEPT !.seen = clock] ELSE e
Check(r, a, credentials) ==
  LET e == Current(entries[a])
      c == Current(account)
  IN  /\ stage[r] = "idle"
      /\ entries' = [x \in Addresses |-> IF x = a THEN Seen(e) ELSE Current(entries[x])]
      /\ account' = IF c.until > (IF Blocked(e) THEN e.until ELSE Never) THEN Seen(c) ELSE c
      /\ IF Blocked(e) \/ Blocked(c)
         THEN UNCHANGED <<stage, from, begun>>
         ELSE /\ stage' = [stage EXCEPT ![r] = credentials]
              /\ from' = [from EXCEPT ![r] = a]
              /\ begun' = [begun EXCEPT ![r] = clock]
      /\ UNCHANGED <<clock, tries, allTries>>

Leave(r) ==
  /\ stage' = [stage EXCEPT ![r] = "idle"]
  /\ from' = [from EXCEPT ![r] = NoAddress]
  /\ begun' = [begun EXCEPT ![r] = Never]
  /\ UNCHANGED clock

\* recordFailure.
FailLogin(r) ==
  LET a == from[r]
  IN  /\ stage[r] = "wrong"
      /\ entries' = [x \in Addresses |->
                       IF x = a THEN Recorded(Current(entries[x]), FailureLimit) ELSE Current(entries[x])]
      /\ account' = Recorded(Current(account), AccountLimit)
      /\ tries' = [tries EXCEPT ![a] = Logged(@)]
      /\ allTries' = Logged(allTries)
      /\ Leave(r)

\* reset.
Forget(a) ==
  /\ entries' = [entries EXCEPT ![a] = NoEntry]
  /\ account' = NoEntry
  /\ tries' = [tries EXCEPT ![a] = {}]
  /\ allTries' = {}

Succeed(r) == stage[r] = "right" /\ Forget(from[r]) /\ Leave(r)

\* The form cannot be parsed.
Refuse(r) == stage[r] # "idle" /\ Leave(r) /\ UNCHANGED <<entries, account, tries, allTries>>

\* Basic credentials that are right are not checked for a block.
Basic(a) == Forget(a) /\ UNCHANGED <<clock, stage, from, begun>>

Pass ==
  /\ clock < MaxClock
  /\ \A r \in Attempts : stage[r] # "idle" => clock - begun[r] < ReadTime
  /\ clock' = clock + 1
  /\ UNCHANGED <<entries, account, stage, from, begun, tries, allTries>>

LimiterNext ==
  \/ Pass
  \/ \E r \in Attempts :
       \/ \E a \in Addresses, c \in {"right", "wrong"} : Check(r, a, c)
       \/ FailLogin(r) \/ Succeed(r) \/ Refuse(r)
  \/ \E a \in Addresses : Basic(a)

LimiterSpec == LimiterInit /\ [][LimiterNext]_limiterVars

-----------------------------------------------------------------------------
Failures(log, first, last) == Cardinality({f \in log : f.time \in first..last})

\* Nobody is blocked for less than the limit's failures within one window, all
\* since the last right password: not those counted before an earlier block ran
\* out, nor those of an entry that was pruned and made anew.
Earned(e, log, max) ==
  Blocked(e) => Failures(log, e.until - Block - Window, e.until - Block) >= max
BlocksAreEarned ==
  /\ \A a \in Addresses : Earned(entries[a], tries[a], FailureLimit)
  /\ Earned(account, allTries, AccountLimit)
=============================================================================
