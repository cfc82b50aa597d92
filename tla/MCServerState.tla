---------------------------- MODULE MCServerState ----------------------------
(***************************************************************************)
(* Instances of SessionStore, LoginLimiter, Tags, ResponseCaches and         *)
(* DuplicatePair side by side.  They share no state but the corrections of   *)
(* ResponseCaches, which only it writes, so a behaviour of several together  *)
(* has nothing that one alone does not have: only one of them moves.         *)
(***************************************************************************)
EXTENDS SessionStore, LoginLimiter, Tags, ResponseCaches, DuplicatePair, TLC

VARIABLE part

\* What stays at rest starts in one state.
ServerInit ==
  /\ part \in {"sessions", "limiter", "tags", "caches", "pair"}
  /\ SessionInit /\ (part = "sessions" \/ limit = Min(Limits))
  /\ LimiterInit
  /\ TagsInit
  /\ CachesInit /\ (part = "caches" \/ (issues = {} /\ Decided = {}))
  /\ PairInit /\ (part = "pair" \/ hashes = [w \in Works |-> Undecided])

ServerNext ==
  \/ /\ part = "sessions" /\ SessionNext
     /\ UNCHANGED <<part, limiterVars, tagVars, cacheVars, pairVars>>
  \/ /\ part = "limiter" /\ LimiterNext
     /\ UNCHANGED <<part, sessionVars, tagVars, cacheVars, pairVars>>
  \/ /\ part = "tags" /\ TagsNext
     /\ UNCHANGED <<part, sessionVars, limiterVars, cacheVars, pairVars>>
  \/ /\ part = "caches" /\ CachesNext
     /\ UNCHANGED <<part, sessionVars, limiterVars, tagVars, pairVars>>
  \/ /\ part = "pair" /\ PairNext
     /\ UNCHANGED <<part, sessionVars, limiterVars, tagVars, cacheVars>>

ServerSpec ==
  ServerInit
    /\ [][ServerNext]_<<part, sessionVars, limiterVars, tagVars, cacheVars, pairVars>>

SomeCorrections ==
  {("hash1_status" :> "needs_fix"), ("series_kind" :> "normal_manga"),
   ("series_status" :> "needs_fix") @@ ("hash2_status" :> "needs_fix")}
SomeDecisions ==
  {<<"pending", Unsaid>>, <<"version", Unsaid>>, <<"different", Unsaid>>, <<"pending", "">>,
   <<"version", "prefer_left">>, <<"ignored", "prefer_right">>, <<"version", "keep_both">>}

\* Requests, and what they ask about, are the same model values in every part.
ServerSymmetry == Permutations(Handlers) \cup Permutations(Searches)
=============================================================================
