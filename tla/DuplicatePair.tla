---------------------------- MODULE DuplicatePair ----------------------------
(***************************************************************************)
(* The decision on a pair of works that look alike (duplicate_pair.go): its   *)
(* status and which of the two is preferred, in one row under the sorted pair *)
(* of their ids.  A request first collects the evidence and with it the row   *)
(* as it is, then writes the row with a statement of its own.                *)
(*                                                                         *)
(* "left" and "right" of a request are as its caller named them; those of     *)
(* the row are sorted.  First and Second are the ids in their order.         *)
(***************************************************************************)
EXTENDS Integers, FiniteSets

CONSTANTS
  Deciders,   \* requests under way at one time
  Decisions,  \* what they may ask for: a status, and a preference or none
  Bits,       \* of a cover hash
  First, Second,
  Undecided

Works == {First, Second}
PairStatuses == {"pending", "different", "version", "ignored"}
Preferences == {"", "prefer_left", "prefer_right", "keep_both"}
Unsaid == "kept"           \* a request without a preference
NotIndexed == 65
PairRows == [status : PairStatuses, preference : Preferences, score : 0..64]

ASSUME DuplicatePairAssumption ==
  /\ First # Second
  /\ IsFiniteSet(Bits)
  /\ Undecided \notin PairRows
  /\ Decisions \subseteq PairStatuses \X (Preferences \cup {Unsaid})

VARIABLES
  hashes,    \* cover_image_hashes: difference hashes, Undecided without one
  row,       \* duplicate_candidates
  asked,     \* requests that have their evidence
  chosen,    \* the preferred work of the last decision
  mistaken   \* that decision was made on an old row, or on swapped sides

pairVars == <<hashes, row, asked, chosen, mistaken>>

Unasked == [left |-> Undecided]

Other(w) == CHOOSE v \in Works : v # w

PairInit ==
  /\ hashes \in [Works -> SUBSET Bits \cup {Undecided}]
  /\ row = Undecided
  /\ asked = [d \in Deciders |-> Unasked]
  /\ chosen = ""
  /\ mistaken = FALSE

-----------------------------------------------------------------------------
\* hashDistance, and duplicatePairCoverHashEvidence for works that lack one.
Distance(l, r) ==
  IF Undecided \in {hashes[l], hashes[r]} THEN NotIndexed
  ELSE Cardinality((hashes[l] \ hashes[r]) \cup (hashes[r] \ hashes[l]))

\* duplicatePairEvidenceScore, in 64ths.
Score(l, r) == IF Distance(l, r) \in 0..64 THEN 64 - Distance(l, r) ELSE 0

\* Whom a preference names, when left is l.
Named(preference, l) ==
  CASE preference = "prefer_left" -> l
    [] preference = "prefer_right" -> Other(l)
    [] OTHER -> preference

\* duplicatePairCandidateInfo: the preference in the row that is there.
Found == IF row = Undecided THEN "" ELSE row.preference

\* duplicatePairEvidencePayload.
CollectEvidence(d, left, status, preference) ==
  /\ asked[d] = Unasked
  /\ asked' = [asked EXCEPT ![d] =
       [left |-> left, status |-> status, preference |-> preference,
        score |-> Score(left, Other(left)),
        found |-> Found,
        stale |-> FALSE]]
  /\ UNCHANGED <<hashes, row, chosen, mistaken>>

\* handleDuplicatePairStatus: the preference to write, and with it the status.
\* (Mutant: a decision without a preference drops the one there is.)
DecidedPreferenceDropped(a) == IF a.preference # Unsaid THEN a.preference ELSE ""
DecidedPreference(a) ==
  IF a.preference # Unsaid THEN a.preference
  ELSE IF a.status = "version" THEN a.found ELSE ""

Decide(d) ==
  LET a == asked[d]
      preference == DecidedPreference(a)
      asks == a.preference # Unsaid
  IN  /\ a # Unasked
      /\ row' = [status |-> IF preference # "" THEN "version" ELSE a.status,
                 preference |-> preference, score |-> a.score]
      /\ chosen' = IF asks THEN Named(a.preference, a.left)
                   ELSE IF a.status = "version" THEN chosen ELSE ""
      /\ mistaken' = IF asks THEN a.preference \in {"prefer_left", "prefer_right"} /\ a.left # First
                     ELSE a.status = "version" /\ (mistaken \/ a.stale)
      /\ asked' = [e \in Deciders |-> IF e = d THEN Unasked
                                      ELSE IF asked[e] = Unasked THEN Unasked
                                      ELSE [asked[e] EXCEPT !.stale = TRUE]]
      /\ UNCHANGED hashes

\* The row cannot be written.
GiveUp(d) ==
  /\ asked[d] # Unasked
  /\ asked' = [asked EXCEPT ![d] = Unasked]
  /\ UNCHANGED <<hashes, row, chosen, mistaken>>

PairNext ==
  \E d \in Deciders :
    \/ \E left \in Works, a \in Decisions : CollectEvidence(d, left, a[1], a[2])
    \/ Decide(d) \/ GiveUp(d)

PairSpec == PairInit /\ [][PairNext]_pairVars

-----------------------------------------------------------------------------
\* The row prefers the work that the last decision preferred, and its score is
\* that of the pair in either order.  What breaks it: a decision made on an old
\* row, and "prefer left" for a pair that was named in the other order, because
\* the preference is stored as it came and the ids are stored sorted.
DecisionStands ==
  row # Undecided =>
    /\ mistaken \/ Named(row.preference, First) = chosen
    /\ row.preference # "" => row.status = "version"
    /\ row.score = Score(First, Second)
=============================================================================
