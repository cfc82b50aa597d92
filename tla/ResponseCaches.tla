--------------------------- MODULE ResponseCaches ---------------------------
(***************************************************************************)
(* Two caches of computed answers and the corrections that clear them        *)
(* (review.go, cover_duplicates.go, server_corrections.go).                  *)
(*                                                                         *)
(* The review list is cached until a correction or an override clears it.    *)
(* The cover duplicates are cached under a version, the number of decisions  *)
(* and the time of the newest in whole seconds, for a fixed time.  Both are  *)
(* computed outside the locks of their caches, from several queries without  *)
(* a transaction, and the scanner, a process of its own, clears neither.     *)
(* A correction is stamped before it waits for the writer of the database,   *)
(* so corrections may be stored in another order than that of their stamps.  *)
(*                                                                         *)
(* One search of the review list is modelled, one series and two cover       *)
(* hashes that are reviewed: an entry of the list is its issue and status.   *)
(***************************************************************************)
EXTENDS Integers, FiniteSetsExt

CONSTANTS
  Handlers,    \* requests under way at one time
  Searches,    \* queries of cover duplicates
  CacheLimit,  \* searches that are cached before all are dropped (64)
  Lifetime,    \* coverDuplicateResponseCacheTTL
  LastSecond,     \* bound on the clock, in seconds
  MaxSaves,    \* bound on the corrections saved
  Corrections, \* what a request may save: values by slot, of one transaction
  Nothing

VARIABLES
  time,
  corrections,  \* local_corrections: value and updated_at
  issues,       \* what the catalog says is wrong with the series
  review,       \* reviewItemsCache
  duplicates,   \* coverDuplicateCache
  work,         \* of a request: what it has read, and its next step
  saves

cacheVars == <<time, corrections, issues, review, duplicates, work, saves>>

HashSlots == {"hash1_status", "hash2_status"}
Slots == HashSlots \cup {"series_status", "series_kind"}
Values == [hash1_status |-> {"ok", "needs_fix"},
           hash2_status |-> {"ok", "needs_fix"},
           series_status |-> {"open", "ok", "needs_fix"},
           series_kind |-> {"normal_manga"}]
Issues == {"cover", "structure"}
AnyCorrections ==
  {c \in UNION {[S -> UNION {Values[s] : s \in S}] : S \in SUBSET Slots} :
     \A s \in DOMAIN c : c[s] \in Values[s]}
ASSUME ResponseCachesAssumption ==
  /\ CacheLimit \in Nat \ {0}
  /\ Lifetime \in Nat
  /\ LastSecond \in Nat \ {0}
  /\ MaxSaves \in Nat
  /\ Corrections \subseteq AnyCorrections
  /\ Nothing \notin [value : UNION {Values[s] : s \in Slots}, at : Nat]

Resting == [step |-> "none"]

\* One hash may have been decided on already.
CachesInit ==
  /\ time = 1
  /\ \E earlier \in SUBSET {"hash1_status"} :
       corrections = [s \in Slots |-> IF s \in earlier THEN [value |-> "ok", at |-> 1] ELSE Nothing]
  /\ issues \in SUBSET Issues
  /\ review = Nothing
  /\ duplicates = [q \in Searches |-> Nothing]
  /\ work = [h \in Handlers |-> Resting]
  /\ saves = 0

Value(s) == IF corrections[s] = Nothing THEN "" ELSE corrections[s].value

-----------------------------------------------------------------------------
\* readCorrectionMap.
CorrectionMap == [s \in Slots |-> Value(s)]

\* makeReviewItem: a structure issue is settled when the kind of series is given.
ItemStatus(c, issue) ==
  LET status == IF c["series_status"] = "" THEN "open" ELSE c["series_status"]
  IN  IF issue = "structure" /\ status = "open" /\ c["series_kind"] = "normal_manga"
      THEN "ok" ELSE status

\* buildReviewItems, from the corrections and the rows it read.
Items(c, found) == {<<i, ItemStatus(c, i)>> : i \in found}

\* filterReviewItems and reviewSummary.
\* (Mutant: what needs fixing counts as reviewed.)
FilteredReviewed(items, filter) ==
  {i \in items : CASE filter = "open" -> i[2] = "open"
                   [] filter = "reviewed" -> i[2] # "open"
                   [] OTHER -> i[2] = filter}
Filtered(items, filter) ==
  {i \in items : CASE filter = "open" -> i[2] = "open"
                   [] filter = "reviewed" -> i[2] \notin {"open", "needs_fix"}
                   [] OTHER -> i[2] = filter}
Bucket(status) == IF status \in {"open", "needs_fix"} THEN status ELSE "reviewed"
Counted(items, bucket) == Quantify(items, LAMBDA i : Bucket(i[2]) = bucket)

\* coverDuplicateResponseCacheVersion, of the reviews of works and cover hashes.
Decided == {s \in HashSlots : corrections[s] # Nothing}
DecidedAt == {corrections[s].at : s \in Decided}
Version == <<Cardinality(Decided), IF DecidedAt = {} THEN 0 ELSE Max(DecidedAt)>>

-----------------------------------------------------------------------------
\* The groups of covers and what was decided on each.
Groups == [s \in HashSlots |-> Value(s)]

\* handleCorrectionSave, handleCorrectionsBatch: the stamp is taken, then the writer
\* is waited for.
Save(h, chosen) ==
  /\ work[h] = Resting /\ saves < MaxSaves
  /\ work' = [work EXCEPT ![h] = [step |-> "commit", chosen |-> chosen, at |-> time]]
  /\ saves' = saves + 1
  /\ UNCHANGED <<time, corrections, issues, review, duplicates>>

\* A hash that has a decision is decided again, with a stamp that is not newer than
\* the newest stored: the version stays, or is one that has been.
Late(w) ==
  LET hashes == DOMAIN w.chosen \cap HashSlots
  IN  hashes # {} /\ hashes \subseteq Decided /\ w.at <= Version[2]

\* The rows are stored, in one transaction.  Requests that have begun to read are
\* marked; those for duplicates, if the decision is late.
Stored(h) ==
  LET w == work[h]
  IN  /\ w.step = "commit"
      /\ corrections' = [s \in Slots |-> IF s \in DOMAIN w.chosen
                                         THEN [value |-> w.chosen[s], at |-> w.at] ELSE corrections[s]]
      /\ UNCHANGED <<time, issues, review, duplicates, saves>>
Marked(h, next) ==
  [g \in Handlers |->
     IF g = h THEN [step |-> next]
     ELSE IF work[g].step \in {"rows", "store"}
             \/ (work[g].step \in {"look", "query", "keep"} /\ Late(work[h]))
     THEN [work[g] EXCEPT !.overlapped = TRUE] ELSE work[g]]
\* (Mutant: the cache of reviews is not cleared.)
CommitAndKeep(h) == Stored(h) /\ work' = Marked(h, "clear_duplicates")
Commit(h) == Stored(h) /\ work' = Marked(h, "clear_review")

\* The writer was waited for in vain: an error, and nothing is cleared.
Refused(h) ==
  /\ work[h].step = "commit"
  /\ work' = [work EXCEPT ![h] = Resting]
  /\ UNCHANGED <<time, corrections, issues, review, duplicates, saves>>

\* clearReviewItemsCache and clearCoverDuplicateResponseCache: after a correction,
\* and after an override (metadata_overrides.go), which changes neither answer.
ClearReview(h) ==
  /\ work[h].step \in {"none", "clear_review"}
  /\ review' = Nothing
  /\ work' = [work EXCEPT ![h] = [step |-> "clear_duplicates"]]
  /\ UNCHANGED <<time, corrections, issues, duplicates, saves>>

ClearDuplicates(h) ==
  /\ work[h].step = "clear_duplicates"
  /\ duplicates' = [q \in Searches |-> Nothing]
  /\ work' = [work EXCEPT ![h] = Resting]
  /\ UNCHANGED <<time, corrections, issues, review, saves>>

-----------------------------------------------------------------------------
\* buildReviewItemsCached that misses; a hit changes nothing.  The cache is unlocked
\* before the corrections are read, and those before the rows.
ReviewMiss(h) ==
  /\ work[h] = Resting /\ review = Nothing
  /\ work' = [work EXCEPT ![h] = [step |-> "map"]]
  /\ UNCHANGED <<time, corrections, issues, review, duplicates, saves>>

ReviewCorrections(h) ==
  /\ work[h].step = "map"
  /\ work' = [work EXCEPT ![h] = [step |-> "rows", map |-> CorrectionMap, overlapped |-> FALSE]]
  /\ UNCHANGED <<time, corrections, issues, review, duplicates, saves>>

ReviewRows(h) ==
  /\ work[h].step = "rows"
  /\ work' = [work EXCEPT ![h] = [step |-> "store", items |-> Items(@.map, issues),
                                  overlapped |-> @.overlapped]]
  /\ UNCHANGED <<time, corrections, issues, review, duplicates, saves>>

ReviewStore(h) ==
  /\ work[h].step = "store"
  /\ review' = [items |-> work[h].items, overlapped |-> work[h].overlapped]
  /\ work' = [work EXCEPT ![h] = Resting]
  /\ UNCHANGED <<time, corrections, issues, duplicates, saves>>

-----------------------------------------------------------------------------
\* handleCoverDuplicates: the version is read before the cache is looked up.
AskDuplicates(h, q) ==
  /\ work[h] = Resting
  /\ work' = [work EXCEPT ![h] = [step |-> "look", search |-> q, version |-> Version, overlapped |-> FALSE]]
  /\ UNCHANGED <<time, corrections, issues, review, duplicates, saves>>

\* getCoverDuplicateResponseCache: what is out of date is deleted.
\* (Mutant: the version is not compared.)
UsableWhileYoung(d, version) == time <= d.until
Usable(d, version) == d.version = version /\ time <= d.until
LookUp(h) ==
  LET q == work[h].search
  IN  /\ work[h].step = "look"
      /\ IF duplicates[q] # Nothing /\ Usable(duplicates[q], work[h].version)
         THEN work' = [work EXCEPT ![h] = Resting] /\ UNCHANGED duplicates
         ELSE /\ work' = [work EXCEPT ![h].step = "query"]
              /\ duplicates' = [duplicates EXCEPT ![q] = Nothing]
      /\ UNCHANGED <<time, corrections, issues, review, saves>>

Query(h) ==
  /\ work[h].step = "query"
  /\ work' = [work EXCEPT ![h] = [step |-> "keep", search |-> @.search, version |-> @.version,
                                  body |-> Groups, overlapped |-> @.overlapped]]
  /\ UNCHANGED <<time, corrections, issues, review, duplicates, saves>>

\* writeCoverDuplicateResponse: a full cache is emptied first.
Keep(h) ==
  LET kept == {q \in Searches : duplicates[q] # Nothing}
      entry == [version |-> work[h].version, body |-> work[h].body, until |-> time + Lifetime,
                overlapped |-> work[h].overlapped]
  IN  /\ work[h].step = "keep"
      /\ duplicates' = [q \in Searches |->
                          IF q = work[h].search THEN entry
                          ELSE IF Cardinality(kept) >= CacheLimit THEN Nothing ELSE duplicates[q]]
      /\ work' = [work EXCEPT ![h] = Resting]
      /\ UNCHANGED <<time, corrections, issues, review, saves>>

\* The scanner replaces the catalog.
Rescan ==
  /\ issues' \in SUBSET Issues
  /\ issues' # issues
  /\ review' = IF review = Nothing THEN Nothing ELSE [review EXCEPT !.overlapped = TRUE]
  /\ work' = [h \in Handlers |-> IF work[h].step = "store"
                                 THEN [work[h] EXCEPT !.overlapped = TRUE] ELSE work[h]]
  /\ UNCHANGED <<time, corrections, duplicates, saves>>

NextSecond ==
  /\ time < LastSecond
  /\ time' = time + 1
  /\ UNCHANGED <<corrections, issues, review, duplicates, work, saves>>

CachesNext ==
  \/ NextSecond \/ Rescan
  \/ \E h \in Handlers :
       \/ \E c \in Corrections : Save(h, c)
       \/ Commit(h) \/ Refused(h)
       \/ ClearReview(h) \/ ClearDuplicates(h)
       \/ ReviewMiss(h) \/ ReviewCorrections(h) \/ ReviewRows(h) \/ ReviewStore(h)
       \/ \E q \in Searches : AskDuplicates(h, q)
       \/ LookUp(h) \/ Query(h) \/ Keep(h)

CachesSpec == CachesInit /\ [][CachesNext]_cacheVars

-----------------------------------------------------------------------------
Clearing(steps) == \E h \in Handlers : work[h].step \in steps

\* What the review page shows under a filter, and the number the summary gives for
\* it, follow every correction that was answered: they are out of date only when
\* the list was built while a correction was saved, or after a rescan.
StaleReviewNeedsOverlap ==
  (review # Nothing /\ ~review.overlapped /\ ~Clearing({"clear_review"}))
    => \A b \in {"open", "needs_fix", "reviewed"} :
         LET due == {i \in Items(CorrectionMap, issues) : Bucket(i[2]) = b}
         IN  Filtered(review.items, b) = due /\ Counted(review.items, b) = Cardinality(due)

\* Cached duplicates that a request may be answered with show every decision that
\* was answered: to be stale they must have been computed while a hash was decided
\* again by a request that was stamped no later than the newest decision, in its
\* second or before it and kept waiting by it.
StaleDuplicatesNeedLateDecision ==
  \A q \in Searches :
    LET d == duplicates[q]
    IN  (d # Nothing /\ Usable(d, Version) /\ ~d.overlapped /\ ~Clearing({"clear_review", "clear_duplicates"}))
          => d.body = Groups
=============================================================================
