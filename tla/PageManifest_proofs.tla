------------------------- MODULE PageManifest_proofs -------------------------
(***************************************************************************)
(* Theorems about PageManifest for any number of requests and versions.    *)
(***************************************************************************)
EXTENDS PageManifest, TLAPS

-----------------------------------------------------------------------------
(* The inductive invariant, request by request.                            *)

\* Who discovers holds the lock, and no lock is held by who does not.
HoldingOf(r) ==
  /\ pc[r] \in {"list", "stat", "store", "items"} => lock = r
  /\ pc[r] \in {"idle", "page", "markPage", "lock", "answered", "served", "sent"} => lock # r

\* The holder of the lock has seen all there is, and what it found unfit is not
\* ready when it lists.
AloneOf(r) ==
  ~unmarked /\ lock = r =>
    /\ pc[r] \in {"validate", "mark"} => Ready \subseteq {seen[r]}
    /\ pc[r] \in {"list", "stat", "store"} => Ready = {}

\* While the file stays, what carries a stamp carries the file's.
FreshOf(r) ==
  calm[r] =>
    /\ pc[r] = "store" => stamp[r] = file
    /\ pc[r] = "items" => seen[r].stamp = file
    /\ pc[r] = "answered" => answer[r].stamp = file

NamedOf(r) == pc[r] \in {"answered", "served"} => asked[r] \in {NoManifest, answer[r]}

ManifestInv ==
  /\ ManifestTypeOK
  /\ OneReady
  /\ \A r \in Requests : HoldingOf(r) /\ NamedOf(r) /\ AloneOf(r)
  /\ ~Mapped => \A r \in Requests : FreshOf(r)

LEMMA ManifestInit == Init => ManifestInv
<1>. SUFFICES ASSUME Init PROVE ManifestInv
  OBVIOUS
<1>1. ManifestTypeOK
  BY DEF Init, ManifestTypeOK
<1>2. \A r \in Requests : HoldingOf(r) /\ NamedOf(r) /\ AloneOf(r) /\ FreshOf(r)
  BY PageManifestAssumption DEF Init, HoldingOf, NamedOf, AloneOf, FreshOf
<1>3. OneReady
  BY DEF Init, OneReady, Ready
<1>. QED
  BY <1>1, <1>2, <1>3 DEF ManifestInv

-----------------------------------------------------------------------------
\* A step of r leaves the other requests what they were.
Same(q) ==
  /\ pc'[q] = pc[q]
  /\ asked'[q] = asked[q]
  /\ seen'[q] = seen[q]
  /\ pages'[q] = pages[q]
  /\ stamp'[q] = stamp[q]
  /\ answer'[q] = answer[q]
  /\ calm'[q] = calm[q]
  /\ q \in relies' <=> q \in relies
  /\ lock' = q <=> lock = q

\* So a step is right if it is right for r, and leaves at most one manifest
\* ready and no more than there were for a holder of the lock.
LEMMA StepIsLocal ==
  ASSUME ManifestInv, ManifestTypeOK', NEW r \in Requests,
         file' = file,
         \A q \in Requests \ {r} : Same(q),
         OneReady', HoldingOf(r)', NamedOf(r)', AloneOf(r)',
         ~unmarked' => ~unmarked /\ (lock # r => Ready' \subseteq Ready),
         ~Mapped => FreshOf(r)'
  PROVE  ManifestInv'
<1>1. ASSUME NEW q \in Requests PROVE HoldingOf(q)' /\ NamedOf(q)'
  BY <1>1 DEF ManifestInv, Same, HoldingOf, NamedOf
<1>2. ASSUME NEW q \in Requests PROVE AloneOf(q)'
  <2>1. CASE q = r
    BY <1>2, <2>1
  <2>2. CASE q # r
    BY <1>2, <2>2 DEF ManifestInv, Same, AloneOf
  <2>. QED
    BY <2>1, <2>2
<1>3. ASSUME ~Mapped, NEW q \in Requests PROVE FreshOf(q)'
  <2>1. CASE q = r
    BY <1>3, <2>1
  <2>2. CASE q # r
    BY <1>3, <2>2 DEF ManifestInv, Same, FreshOf
  <2>. QED
    BY <2>1, <2>2
<1>. QED
  BY <1>1, <1>2, <1>3 DEF ManifestInv

\* What a step may do to the tables.
Tables(r) ==
  /\ status' \in [Manifests -> {"none", "ready", "stale"}]
  /\ old' \subseteq Manifests /\ partial' \subseteq Manifests
  /\ unmarked' \in BOOLEAN
  /\ OneReady'
  /\ ~unmarked' => ~unmarked /\ (lock # r => Ready' \subseteq Ready)

LEMMA SameTables ==
  ASSUME ManifestInv, NEW r \in Requests, UNCHANGED tables
  PROVE  Tables(r) /\ Ready' = Ready
BY DEF ManifestInv, ManifestTypeOK, Tables, tables, Ready, OneReady

LEMMA EndInv ==
  ASSUME ManifestInv, NEW r \in Requests, End(r), Tables(r)
  PROVE  ManifestInv'
<1>. USE DEF ManifestInv
<1>1. ManifestTypeOK'
  BY PageManifestAssumption DEF End, Clear, Goto, Release, ManifestTypeOK, Tables
<1>2. pc'[r] = "idle" /\ lock' = IF lock = r THEN NoRequest ELSE lock
  BY DEF End, Clear, Goto, Release, ManifestTypeOK
<1>3. \A q \in Requests \ {r} : Same(q)
  BY <1>2, PageManifestAssumption DEF End, Clear, Goto, ManifestTypeOK, Tables, Same
<1>4. HoldingOf(r)' /\ NamedOf(r)' /\ AloneOf(r)' /\ FreshOf(r)'
  BY <1>2, PageManifestAssumption DEF HoldingOf, NamedOf, AloneOf, FreshOf
<1>. QED
  BY <1>1, <1>3, <1>4, StepIsLocal DEF End, Clear, Tables

LEMMA RespondInv ==
  ASSUME ManifestInv, NEW r \in Requests, NEW m \in Manifests,
         NEW stage \in {"answered", "served"}, Respond(r, m, stage), Tables(r),
         ~Mapped /\ calm[r] /\ stage = "answered" => m.stamp = file
  PROVE  ManifestInv'
<1>1. CASE asked[r] \in {NoManifest, m}
  <2>. USE DEF ManifestInv
  <2>1. /\ file' = file /\ UNCHANGED <<asked, calm, relies>>
        /\ seen' = [seen EXCEPT ![r] = NoManifest]
        /\ pages' = [pages EXCEPT ![r] = NoFile] /\ stamp' = [stamp EXCEPT ![r] = NoFile]
        /\ pc' = [pc EXCEPT ![r] = stage] /\ answer' = [answer EXCEPT ![r] = m]
        /\ lock' = IF lock = r THEN NoRequest ELSE lock
    BY <1>1 DEF Respond, AnswerWith, Clear, Goto, Release
  <2>2. ManifestTypeOK'
    BY <2>1, PageManifestAssumption DEF ManifestTypeOK, Tables
  <2>3. pc'[r] = stage /\ answer'[r] = m
    BY <2>1 DEF ManifestTypeOK
  <2>4. \A q \in Requests \ {r} : Same(q)
    BY <2>1, PageManifestAssumption DEF ManifestTypeOK, Tables, Same
  <2>5. HoldingOf(r)' /\ NamedOf(r)' /\ AloneOf(r)' /\ (~Mapped => FreshOf(r)')
    BY <1>1, <2>1, <2>3, PageManifestAssumption DEF HoldingOf, NamedOf, AloneOf, FreshOf
  <2>. QED
    BY <2>1, <2>2, <2>4, <2>5, StepIsLocal DEF Tables
<1>2. CASE asked[r] \notin {NoManifest, m}
  BY <1>2, EndInv DEF Respond
<1>. QED
  BY <1>1, <1>2

LEMMA LookInv ==
  ASSUME ManifestInv, NEW r \in Requests, NEW m \in Manifests \cup {NoManifest},
         NEW stage \in {"read", "validate", "mark", "markPage", "lock", "list", "items"},
         Look(r, m, stage), Tables(r),
         stage \in {"validate", "mark", "markPage", "items"} => m \in Manifests,
         stage \in {"list", "items"} => lock = r,
         stage \in {"markPage", "lock"} => lock # r,
         ~unmarked' /\ lock = r /\ stage \in {"validate", "mark"} => Ready' \subseteq {m},
         ~unmarked' /\ lock = r /\ stage = "list" => Ready' = {},
         ~Mapped /\ calm[r] /\ stage = "items" => m.stamp = file
  PROVE  ManifestInv'
<1>. USE DEF ManifestInv
<1>1. /\ file' = file /\ UNCHANGED <<lock, asked, pages, stamp, answer, calm, relies>>
      /\ pc' = [pc EXCEPT ![r] = stage] /\ seen' = [seen EXCEPT ![r] = m]
  BY DEF Look, Goto
<1>2. ManifestTypeOK'
  BY <1>1 DEF ManifestTypeOK, Tables
<1>3. pc'[r] = stage /\ seen'[r] = m
  BY <1>1 DEF ManifestTypeOK
<1>4. \A q \in Requests \ {r} : Same(q)
  BY <1>1 DEF ManifestTypeOK, Tables, Same
<1>5. HoldingOf(r)' /\ NamedOf(r)' /\ AloneOf(r)' /\ (~Mapped => FreshOf(r)')
  BY <1>1, <1>3 DEF HoldingOf, NamedOf, AloneOf, FreshOf
<1>. QED
  BY <1>1, <1>2, <1>4, <1>5, StepIsLocal DEF Tables

-----------------------------------------------------------------------------
(* The steps.                                                              *)
LEMMA CurrentType ==
  ASSUME ManifestTypeOK, NEW m \in Current
  PROVE  /\ m \in Manifests \cup {NoManifest}
         /\ m = NoManifest => Ready = {}
         /\ m # NoManifest => m \in Ready /\ m \in Manifests
BY PageManifestAssumption DEF Current, Ready

LEMMA StartInv ==
  ASSUME ManifestInv, NEW r \in Requests, Start(r)
  PROVE  ManifestInv'
<1>. USE DEF ManifestInv
<1>1. /\ pc[r] = "idle"
      /\ pc' = [pc EXCEPT ![r] = "read"] \/ pc' = [pc EXCEPT ![r] = "page"]
      /\ asked' = asked \/ \E m \in Manifests \cup {NoManifest} : asked' = [asked EXCEPT ![r] = m]
      /\ relies' = relies \/ relies' = relies \cup {r}
      /\ UNCHANGED <<file, status, old, partial, unmarked, lock, seen, pages, stamp, answer, calm>>
  BY DEF Start, Goto, tables
<1>2. ManifestTypeOK'
  BY <1>1 DEF ManifestTypeOK
<1>3. pc'[r] \in {"read", "page"} /\ \A q \in Requests \ {r} : Same(q)
  BY <1>1 DEF ManifestTypeOK, Same
<1>4. HoldingOf(r)' /\ NamedOf(r)' /\ AloneOf(r)' /\ FreshOf(r)'
  BY <1>1, <1>3 DEF HoldingOf, NamedOf, AloneOf, FreshOf
<1>5. Ready' = Ready /\ (OneReady => OneReady')
  BY <1>1 DEF Ready, OneReady
<1>. QED
  BY <1>1, <1>2, <1>3, <1>4, <1>5, StepIsLocal

LEMMA ReadPageInv ==
  ASSUME ManifestInv, NEW r \in Requests, ReadPage(r)
  PROVE  ManifestInv'
<1>1. ManifestTypeOK /\ pc[r] = "page" /\ lock # r
  BY DEF ReadPage, ManifestInv, HoldingOf
<1>2. Tables(r)
  BY <1>1, SameTables DEF ReadPage, ManifestTypeOK
<1>3. PICK m \in Current :
        \/ Look(r, m, "read")
        \/ m \in old /\ Look(r, m, "markPage")
        \/ m \in Manifests /\ Respond(r, m, "served")
  BY DEF ReadPage
<1>4. m \in Manifests \cup {NoManifest}
  BY <1>1, CurrentType
<1>5. CASE Look(r, m, "read")
  BY <1>2, <1>4, <1>5, LookInv
<1>6. CASE m \in old /\ Look(r, m, "markPage")
  <2>1. m \in Manifests
    BY <1>1, <1>6 DEF ManifestTypeOK
  <2>. QED
    BY <1>1, <1>2, <1>6, <2>1, LookInv
<1>7. CASE m \in Manifests /\ Respond(r, m, "served")
  BY <1>2, <1>7, RespondInv
<1>. QED
  BY <1>3, <1>5, <1>6, <1>7

LEMMA ReadInv ==
  ASSUME ManifestInv, NEW r \in Requests, Read(r)
  PROVE  ManifestInv'
<1>1. ManifestTypeOK
  BY DEF ManifestInv
<1>2. Tables(r) /\ Ready' = Ready
  BY <1>1, SameTables DEF Read, ManifestTypeOK
<1>3. PICK m \in Current : Look(r, m, IF m = NoManifest THEN Missing(r) ELSE "validate")
  BY DEF Read
<1>4. /\ m \in Manifests \cup {NoManifest}
      /\ m = NoManifest => Ready = {}
      /\ m # NoManifest => m \in Ready /\ m \in Manifests
  BY <1>1, CurrentType
<1>5. CASE m = NoManifest
  BY <1>2, <1>3, <1>4, <1>5, LookInv DEF Missing
<1>6. CASE m # NoManifest
  <2>1. ~unmarked' => Ready' \subseteq {m}
    BY <1>2, <1>4, <1>6 DEF ManifestInv, Tables, OneReady
  <2>. QED
    BY <1>2, <1>3, <1>4, <1>6, <2>1, LookInv
<1>. QED
  BY <1>5, <1>6

LEMMA ValidateInv ==
  ASSUME ManifestInv, NEW r \in Requests, Validate(r)
  PROVE  ManifestInv'
<1>1. ManifestTypeOK /\ pc[r] = "validate" /\ seen[r] \in Manifests
  BY DEF Validate, ManifestInv, ManifestTypeOK
<1>2. Tables(r) /\ Ready' = Ready
  BY SameTables DEF Validate
<1>3. CASE Matches(seen[r], Stamp)
  BY <1>1, <1>2, <1>3, RespondInv DEF Validate, Matches, Stamp
<1>4. CASE ~Matches(seen[r], Stamp)
  <2>1. ~unmarked' /\ lock = r => Ready' \subseteq {seen[r]}
    BY <1>1, <1>2 DEF ManifestInv, Tables, AloneOf
  <2>2. Look(r, seen[r], "mark")
    BY <1>4 DEF Validate
  <2>. QED
    BY <1>1, <1>2, <2>1, <2>2, LookInv
<1>. QED
  BY <1>3, <1>4

LEMMA MarkInv ==
  ASSUME ManifestInv, NEW r \in Requests, Mark(r)
  PROVE  ManifestInv'
<1>1. ManifestTypeOK /\ seen[r] \in Manifests
  BY DEF Mark, ManifestInv, ManifestTypeOK
<1>2. /\ \/ /\ status' = [status EXCEPT ![seen[r]] = IF @ = "ready" THEN "stale" ELSE @]
            /\ unmarked' = unmarked
         \/ status' = status /\ unmarked' = TRUE
      /\ UNCHANGED <<old, partial>>
  BY DEF Mark, MarkStale
<1>3. /\ status' \in [Manifests -> {"none", "ready", "stale"}]
      /\ Ready' \subseteq Ready
      /\ ~unmarked' => ~unmarked /\ seen[r] \notin Ready'
  BY <1>1, <1>2 DEF ManifestTypeOK, Ready
<1>4. Tables(r)
  BY <1>1, <1>2, <1>3 DEF ManifestTypeOK, Tables, ManifestInv, OneReady
<1>5. CASE pc[r] = "mark" /\ Look(r, NoManifest, Missing(r))
  <2>1. ~unmarked' /\ lock = r => Ready' = {}
    BY <1>3, <1>5 DEF ManifestInv, AloneOf
  <2>. QED
    BY <1>4, <1>5, <2>1, LookInv DEF Missing
<1>6. CASE pc[r] = "markPage" /\ Look(r, NoManifest, "read")
  BY <1>4, <1>6, LookInv
<1>. QED
  BY <1>5, <1>6 DEF Mark

LEMMA LockInv ==
  ASSUME ManifestInv, NEW r \in Requests, Lock(r)
  PROVE  ManifestInv'
<1>. USE DEF ManifestInv
<1>1. /\ pc[r] = "lock" /\ pc' = [pc EXCEPT ![r] = "read"]
      /\ lock = NoRequest /\ lock' = r
      /\ UNCHANGED <<file, status, old, partial, unmarked, asked, seen, pages, stamp, answer, calm, relies>>
  BY DEF Lock, Goto, tables, local
<1>2. ManifestTypeOK'
  BY <1>1 DEF ManifestTypeOK
<1>3. pc'[r] = "read" /\ \A q \in Requests \ {r} : Same(q)
  BY <1>1, PageManifestAssumption DEF ManifestTypeOK, Same
<1>4. HoldingOf(r)' /\ NamedOf(r)' /\ AloneOf(r)' /\ FreshOf(r)'
  BY <1>1, <1>3 DEF HoldingOf, NamedOf, AloneOf, FreshOf
<1>5. Ready' = Ready /\ (OneReady => OneReady')
  BY <1>1 DEF Ready, OneReady
<1>. QED
  BY <1>1, <1>2, <1>3, <1>4, <1>5, StepIsLocal

LEMMA ListInv ==
  ASSUME ManifestInv, NEW r \in Requests, List(r)
  PROVE  ManifestInv'
<1>. USE DEF ManifestInv
<1>1. /\ pc[r] = "list" /\ pc' = [pc EXCEPT ![r] = "stat"]
      /\ pages' = [pages EXCEPT ![r] = file]
      /\ UNCHANGED <<file, status, old, partial, unmarked, lock, asked, seen, stamp, answer, calm, relies>>
  BY DEF List, Goto, tables
<1>2. ManifestTypeOK'
  BY <1>1 DEF ManifestTypeOK
<1>3. pc'[r] = "stat" /\ \A q \in Requests \ {r} : Same(q)
  BY <1>1 DEF ManifestTypeOK, Same
<1>4. Ready' = Ready /\ (OneReady => OneReady')
  BY <1>1 DEF Ready, OneReady
<1>5. HoldingOf(r)' /\ NamedOf(r)' /\ AloneOf(r)' /\ FreshOf(r)'
  BY <1>1, <1>3, <1>4 DEF HoldingOf, NamedOf, AloneOf, FreshOf
<1>. QED
  BY <1>1, <1>2, <1>3, <1>4, <1>5, StepIsLocal

LEMMA StatInv ==
  ASSUME ManifestInv, NEW r \in Requests, Stat(r)
  PROVE  ManifestInv'
<1>. USE DEF ManifestInv
<1>1. /\ pc[r] = "stat" /\ pc' = [pc EXCEPT ![r] = "store"]
      /\ stamp' = [stamp EXCEPT ![r] = Stamp]
      /\ UNCHANGED <<file, status, old, partial, unmarked, lock, asked, seen, pages, answer, calm, relies>>
  BY DEF Stat, Goto, tables
<1>2. Stamp \in Files \cup {NoFile}
  BY DEF Stamp, ManifestTypeOK
<1>3. ManifestTypeOK'
  BY <1>1, <1>2 DEF ManifestTypeOK
<1>4. pc'[r] = "store" /\ stamp'[r] = Stamp /\ \A q \in Requests \ {r} : Same(q)
  BY <1>1 DEF ManifestTypeOK, Same
<1>5. Ready' = Ready /\ (OneReady => OneReady')
  BY <1>1 DEF Ready, OneReady
<1>6. HoldingOf(r)' /\ NamedOf(r)' /\ AloneOf(r)' /\ (~Mapped => FreshOf(r)')
  BY <1>1, <1>4, <1>5 DEF HoldingOf, NamedOf, AloneOf, FreshOf, Stamp
<1>. QED
  BY <1>1, <1>3, <1>4, <1>5, <1>6, StepIsLocal

LEMMA StoreInv ==
  ASSUME ManifestInv, NEW r \in Requests, Store(r)
  PROVE  ManifestInv'
<1>. DEFINE m == Discovered(r)
<1>1. /\ ManifestTypeOK /\ pc[r] = "store" /\ lock = r
      /\ ~unmarked => Ready = {}
      /\ ~Mapped /\ calm[r] => stamp[r] = file
  BY DEF Store, ManifestInv, HoldingOf, AloneOf, FreshOf
<1>2. m \in Manifests
  BY <1>1 DEF Discovered, Manifests, ManifestTypeOK
<1>3. /\ status' = [status EXCEPT ![m] = "ready"] /\ old' = old \ {m}
      /\ UNCHANGED <<partial, unmarked>>
      /\ IF status[m] = "none" THEN Respond(r, m, "answered") ELSE Look(r, m, "items")
  BY DEF Store
<1>4. status' \in [Manifests -> {"none", "ready", "stale"}] /\ Ready' = Ready \cup {m}
  BY <1>1, <1>2, <1>3 DEF ManifestTypeOK, Ready
<1>5. Tables(r)
  BY <1>1, <1>3, <1>4 DEF ManifestTypeOK, Tables, OneReady
<1>6. ~Mapped /\ calm[r] => m.stamp = file
  BY <1>1, <1>3 DEF Discovered
<1>7. CASE status[m] = "none"
  BY <1>2, <1>3, <1>5, <1>6, <1>7, RespondInv
<1>8. CASE status[m] # "none"
  <2>1. Look(r, m, "items")
    BY <1>3, <1>8
  <2>. HIDE DEF m
  <2>. QED
    BY <1>1, <1>2, <1>5, <1>6, <2>1, LookInv
<1>. QED
  BY <1>7, <1>8

LEMMA ItemsInv ==
  ASSUME ManifestInv, NEW r \in Requests, Items(r)
  PROVE  ManifestInv'
<1>1. ManifestTypeOK /\ pc[r] = "items" /\ seen[r] \in Manifests
  BY DEF Items, ManifestInv, ManifestTypeOK
<1>2. Tables(r)
  BY <1>1 DEF Items, ManifestInv, ManifestTypeOK, Tables, OneReady, Ready
<1>3. ~Mapped /\ calm[r] => seen[r].stamp = file
  BY <1>1 DEF Items, ManifestInv, FreshOf
<1>. QED
  BY <1>1, <1>2, <1>3, RespondInv DEF Items

LEMMA OpenInv ==
  ASSUME ManifestInv, NEW r \in Requests, Open(r)
  PROVE  ManifestInv'
<1>. USE DEF ManifestInv
<1>1. /\ pc[r] \in {"answered", "served"} /\ pc' = [pc EXCEPT ![r] = "sent"]
      /\ pages' = [pages EXCEPT ![r] = file]
      /\ answer' = [answer EXCEPT ![r] = NoManifest] /\ calm' = [calm EXCEPT ![r] = TRUE]
      /\ UNCHANGED <<file, status, old, partial, unmarked, lock, asked, seen, stamp, relies>>
  BY DEF Open, Goto, tables
<1>2. ManifestTypeOK'
  BY <1>1 DEF ManifestTypeOK
<1>3. pc'[r] = "sent" /\ \A q \in Requests \ {r} : Same(q)
  BY <1>1 DEF ManifestTypeOK, Same
<1>4. Ready' = Ready /\ (OneReady => OneReady')
  BY <1>1 DEF Ready, OneReady
<1>5. HoldingOf(r)' /\ NamedOf(r)' /\ AloneOf(r)' /\ FreshOf(r)'
  BY <1>1, <1>3, <1>4 DEF HoldingOf, NamedOf, AloneOf, FreshOf
<1>. QED
  BY <1>1, <1>2, <1>3, <1>4, <1>5, StepIsLocal

LEMMA ReplaceInv == ManifestInv /\ Replace => ManifestInv'
<1>. SUFFICES ASSUME ManifestInv, Replace PROVE ManifestInv'
  OBVIOUS
<1>1. /\ file' \in Files /\ calm' = [r \in Requests |-> pc[r] \in {"idle", "sent"}]
      /\ relies' \subseteq relies
      /\ UNCHANGED <<status, old, partial, unmarked, lock, pc, asked, seen, pages, stamp, answer>>
  BY DEF Replace, tables, local
<1>2. ManifestTypeOK'
  BY <1>1 DEF ManifestInv, ManifestTypeOK
<1>3. \A r \in Requests :
        /\ HoldingOf(r)' = HoldingOf(r)
        /\ NamedOf(r)' = NamedOf(r)
        /\ AloneOf(r)' = AloneOf(r)
        /\ FreshOf(r)'
  BY <1>1 DEF HoldingOf, NamedOf, AloneOf, FreshOf, Ready
<1>4. OneReady' = OneReady
  BY <1>1 DEF OneReady, Ready
<1>. QED
  BY <1>2, <1>3, <1>4 DEF ManifestInv

LEMMA ManifestNext == ManifestInv /\ [Next]_vars => ManifestInv'
<1>. SUFFICES ASSUME ManifestInv, [Next]_vars PROVE ManifestInv'
  OBVIOUS
<1>1. CASE UNCHANGED vars
  <2>1. UNCHANGED <<file, status, old, partial, unmarked, lock, pc, asked, seen, pages, stamp,
                    answer, calm, relies>>
    BY <1>1 DEF vars, tables
  <2>. QED
    BY <2>1 DEF ManifestInv, ManifestTypeOK, HoldingOf, NamedOf, AloneOf, FreshOf, OneReady, Ready
<1>2. ASSUME NEW r \in Requests, Leave(r) PROVE ManifestInv'
  <2>1. Tables(r)
    BY <1>2, SameTables DEF Leave, ManifestInv, ManifestTypeOK
  <2>. QED
    BY <1>2, <2>1, EndInv DEF Leave
<1>. QED
  BY <1>1, <1>2, StartInv, ReadPageInv, ReadInv, ValidateInv, MarkInv, LockInv, ListInv,
     StatInv, StoreInv, ItemsInv, OpenInv, ReplaceInv DEF Next, Step

-----------------------------------------------------------------------------
(***************************************************************************)
(* What a request relies on that began when the ready manifest was the     *)
(* file's: as long as the file stays, no other manifest gets ready.        *)
(***************************************************************************)
Kept ==
  /\ \A m \in Ready : m.stamp = file
  /\ \A q \in Requests : pc[q] = "store" => stamp[q] = file

RelyOf(r) ==
  r \in relies /\ ~unmarked =>
    /\ asked[r] \in Manifests /\ pc[r] # "idle"
    /\ pc[r] = "sent" => asked[r].stamp = pages[r]
    /\ pc[r] # "sent" => calm[r] /\ Kept
    /\ pc[r] \in {"answered", "served"} => answer[r].stamp = file

CalmOf(r) == pc[r] = "idle" => calm[r]

RelyInv == ManifestInv /\ \A r \in Requests : RelyOf(r) /\ CalmOf(r)

\* Where a look at a manifest leads.
Stages == {"read", "validate", "mark", "markPage", "lock", "list", "items"}

LEMMA RelyInit == Init => RelyInv
BY ManifestInit DEF Init, RelyInv, RelyOf, CalmOf

\* Steps of one request.
LEMMA OthersStay ==
  ASSUME ManifestInv, NEW r \in Requests, Step(r)
  PROVE  file' = file /\ \A q \in Requests \ {r} : Same(q)
<1>. USE PageManifestAssumption DEF ManifestInv, ManifestTypeOK, Same
<1>1. ASSUME End(r) PROVE file' = file /\ \A q \in Requests \ {r} : Same(q)
  BY <1>1 DEF End, Clear, Goto, Release
<1>2. ASSUME NEW m, NEW stage, Respond(r, m, stage)
      PROVE  file' = file /\ \A q \in Requests \ {r} : Same(q)
  BY <1>1, <1>2 DEF Respond, AnswerWith, Clear, Goto, Release
<1>3. ASSUME NEW m, NEW stage, Look(r, m, stage)
      PROVE  file' = file /\ \A q \in Requests \ {r} : Same(q)
  BY <1>3 DEF Look, Goto
<1>4. CASE ReadPage(r) \/ Read(r) \/ Validate(r) \/ Mark(r) \/ Store(r) \/ Items(r) \/ Leave(r)
  BY <1>1, <1>2, <1>3, <1>4 DEF ReadPage, Read, Validate, Mark, Store, Items, Leave
<1>5. CASE Start(r)
  BY <1>5 DEF Start, Goto
<1>6. CASE Lock(r) \/ List(r) \/ Stat(r) \/ Open(r)
  BY <1>6 DEF Lock, List, Stat, Open, Goto, local
<1>. QED
  BY <1>4, <1>5, <1>6 DEF Step

\* A step of r is right if it is right for r and keeps what others rely on.
LEMMA RelyLocal ==
  ASSUME RelyInv, ManifestInv', NEW r \in Requests, Step(r),
         ~unmarked' => ~unmarked,
         ~unmarked' /\ Kept => Kept',
         RelyOf(r)', CalmOf(r)'
  PROVE  RelyInv'
<1>1. file' = file /\ \A q \in Requests \ {r} : Same(q)
  BY OthersStay DEF RelyInv
<1>2. ASSUME NEW q \in Requests PROVE RelyOf(q)' /\ CalmOf(q)'
  <2>1. CASE q = r
    BY <2>1
  <2>2. CASE q # r
    BY <1>1, <2>2 DEF Same, RelyInv, RelyOf, CalmOf
  <2>. QED
    BY <2>1, <2>2
<1>. QED
  BY <1>2 DEF RelyInv

LEMMA KeptStays ==
  ASSUME ManifestInv, NEW r \in Requests, Step(r), Ready' \subseteq Ready, pc'[r] # "store", Kept
  PROVE  Kept'
<1>1. file' = file /\ \A q \in Requests \ {r} : pc'[q] = pc[q] /\ stamp'[q] = stamp[q]
  BY OthersStay DEF Same
<1>2. \A q \in Requests : pc'[q] = "store" => pc[q] = "store" /\ stamp'[q] = stamp[q]
  BY <1>1
<1>. QED
  BY <1>1, <1>2 DEF Kept

\* What r relies on after it looks, is answered or ends.
LEMMA RelyLook ==
  ASSUME RelyInv, NEW r \in Requests, NEW m, NEW stage \in Stages, Look(r, m, stage),
         pc[r] \notin {"idle", "sent"}, ~unmarked' => ~unmarked, ~unmarked' /\ Kept => Kept'
  PROVE  RelyOf(r)' /\ CalmOf(r)' /\ pc'[r] # "store"
<1>1. /\ pc'[r] = stage /\ UNCHANGED <<asked, calm, relies>>
  BY DEF Look, Goto, RelyInv, ManifestInv, ManifestTypeOK
<1>. QED
  BY <1>1 DEF RelyInv, RelyOf, CalmOf, Stages

LEMMA RelyEnd ==
  ASSUME ManifestInv, NEW r \in Requests, End(r)
  PROVE  RelyOf(r)' /\ CalmOf(r)' /\ pc'[r] # "store"
<1>1. pc'[r] = "idle" /\ r \notin relies' /\ calm'[r]
  BY DEF End, Goto, ManifestInv, ManifestTypeOK
<1>. QED
  BY <1>1 DEF RelyOf, CalmOf

LEMMA RelyRespond ==
  ASSUME RelyInv, NEW r \in Requests, NEW m \in Manifests,
         NEW stage \in {"answered", "served"}, Respond(r, m, stage),
         pc[r] \notin {"idle", "sent"}, ~unmarked' => ~unmarked, ~unmarked' /\ Kept => Kept',
         ~unmarked' /\ calm[r] /\ Kept => m.stamp = file
  PROVE  RelyOf(r)' /\ CalmOf(r)' /\ pc'[r] # "store"
<1>1. CASE AnswerWith(r, m, stage)
  <2>1. /\ pc'[r] = stage /\ answer'[r] = m /\ UNCHANGED <<file, asked, calm, relies>>
    BY <1>1 DEF AnswerWith, Clear, Goto, RelyInv, ManifestInv, ManifestTypeOK
  <2>. QED
    BY <2>1 DEF RelyInv, RelyOf, CalmOf
<1>2. CASE End(r)
  BY <1>2, RelyEnd DEF RelyInv
<1>. QED
  BY <1>1, <1>2 DEF Respond

LEMMA RelyStart ==
  ASSUME RelyInv, ManifestInv', NEW r \in Requests, Start(r)
  PROVE  RelyInv'
<1>1. /\ pc[r] = "idle" /\ pc'[r] \in {"read", "page"}
      /\ UNCHANGED <<file, status, unmarked, stamp, calm>> /\ Ready' = Ready
      /\ r \in relies' => r \in relies \/ (Described /\ asked'[r] \in Manifests)
  BY DEF Start, Goto, tables, Ready, RelyInv, ManifestInv, ManifestTypeOK
<1>2. ~unmarked /\ Described => Kept
  <2>1. \A q \in Requests : ~unmarked /\ pc[q] = "store" => Ready = {}
    BY DEF RelyInv, ManifestInv, HoldingOf, AloneOf
  <2>. QED
    BY <2>1 DEF Described, Kept
<1>3. Kept => Kept'
  BY <1>1, KeptStays DEF Step, RelyInv
<1>4. RelyOf(r)' /\ CalmOf(r)'
  BY <1>1, <1>2, <1>3 DEF RelyInv, RelyOf, CalmOf
<1>. QED
  BY <1>1, <1>3, <1>4, RelyLocal DEF Step

LEMMA RelyReads ==
  ASSUME RelyInv, ManifestInv', NEW r \in Requests, ReadPage(r) \/ Read(r)
  PROVE  RelyInv'
<1>1. /\ Step(r) /\ pc[r] \in {"page", "read"} /\ UNCHANGED unmarked /\ Ready' = Ready
      /\ ManifestTypeOK
  BY DEF ReadPage, Read, tables, Ready, Step, RelyInv, ManifestInv
<1>2. PICK m \in Current :
        \/ \E stage \in Stages : Look(r, m, stage)
        \/ m \in Manifests /\ Respond(r, m, "served")
  BY DEF ReadPage, Read, Missing, Stages
<1>3. m # NoManifest => m \in Ready
  BY <1>1, CurrentType
<1>4. pc'[r] # "store"
  <2>1. ASSUME NEW stage \in Stages, Look(r, m, stage) PROVE pc'[r] # "store"
    BY <1>1, <2>1 DEF Look, Goto, ManifestTypeOK, Stages
  <2>2. CASE Respond(r, m, "served")
    BY <1>1, <2>2 DEF Respond, AnswerWith, End, Goto, ManifestTypeOK
  <2>. QED
    BY <1>2, <2>1, <2>2
<1>5. Kept => Kept'
  BY <1>1, <1>4, KeptStays DEF RelyInv
<1>6. RelyOf(r)' /\ CalmOf(r)'
  <2>1. ASSUME NEW stage \in Stages, Look(r, m, stage) PROVE RelyOf(r)' /\ CalmOf(r)'
    BY <1>1, <1>5, <2>1, RelyLook
  <2>2. CASE m \in Manifests /\ Respond(r, m, "served")
    <3>1. Kept => m.stamp = file
      BY <1>3, <2>2, PageManifestAssumption DEF Kept
    <3>. QED
      BY <1>1, <1>5, <2>2, <3>1, RelyRespond
  <2>. QED
    BY <1>2, <2>1, <2>2
<1>. QED
  BY <1>1, <1>5, <1>6, RelyLocal

LEMMA RelyValidate ==
  ASSUME ~Mapped, RelyInv, ManifestInv', NEW r \in Requests, Validate(r)
  PROVE  RelyInv'
<1>1. /\ Step(r) /\ pc[r] = "validate" /\ UNCHANGED unmarked /\ Ready' = Ready
      /\ ManifestTypeOK /\ seen[r] \in Manifests
  BY DEF Validate, tables, Ready, Step, RelyInv, ManifestInv, ManifestTypeOK
<1>2. \/ Look(r, seen[r], "mark")
      \/ seen[r].stamp = file /\ Respond(r, seen[r], "answered")
  BY DEF Validate, Matches, Stamp
<1>3. pc'[r] # "store"
  BY <1>1, <1>2 DEF Look, Respond, AnswerWith, End, Goto, ManifestTypeOK
<1>4. Kept => Kept'
  BY <1>1, <1>3, KeptStays DEF RelyInv
<1>5. RelyOf(r)' /\ CalmOf(r)'
  BY <1>1, <1>2, <1>4, RelyLook, RelyRespond DEF Stages
<1>. QED
  BY <1>1, <1>4, <1>5, RelyLocal

LEMMA RelyMark ==
  ASSUME RelyInv, ManifestInv', NEW r \in Requests, Mark(r)
  PROVE  RelyInv'
<1>1. Step(r) /\ pc[r] \in {"mark", "markPage"} /\ ManifestTypeOK
  BY DEF Mark, Step, RelyInv, ManifestInv
<1>2. Ready' \subseteq Ready /\ (~unmarked' => ~unmarked)
  <2>1. \/ /\ status' = [status EXCEPT ![seen[r]] = IF @ = "ready" THEN "stale" ELSE @]
           /\ unmarked' = unmarked
        \/ status' = status /\ unmarked' = TRUE
    BY DEF Mark, MarkStale
  <2>. QED
    BY <1>1, <2>1 DEF Ready, ManifestTypeOK
<1>3. PICK stage \in Stages : Look(r, NoManifest, stage)
  BY DEF Mark, Missing, Stages
<1>4. pc'[r] # "store"
  BY <1>1, <1>3 DEF Look, Goto, ManifestTypeOK, Stages
<1>5. Kept => Kept'
  BY <1>1, <1>2, <1>4, KeptStays DEF RelyInv
<1>. QED
  BY <1>1, <1>2, <1>3, <1>5, RelyLook, RelyLocal

LEMMA RelyLocked ==
  ASSUME ~Mapped, RelyInv, ManifestInv', NEW r \in Requests, Lock(r) \/ List(r) \/ Stat(r)
  PROVE  RelyInv'
<1>1. /\ Step(r) /\ pc[r] \in {"lock", "list", "stat"} /\ ManifestTypeOK
      /\ UNCHANGED <<file, status, unmarked, asked, calm, relies, answer>> /\ Ready' = Ready
      /\ pc'[r] \in {"list", "read", "stat", "store"}
      /\ pc'[r] = "store" => stamp'[r] = file
  BY DEF Lock, List, Stat, Stamp, Goto, tables, local, Ready, Step, RelyInv, ManifestInv, ManifestTypeOK
<1>2. Kept => Kept'
  <2>1. \A q \in Requests \ {r} : pc'[q] = pc[q] /\ stamp'[q] = stamp[q]
    BY <1>1, OthersStay DEF Same, RelyInv
  <2>. QED
    BY <1>1, <2>1 DEF Kept
<1>3. RelyOf(r)' /\ CalmOf(r)'
  BY <1>1, <1>2 DEF RelyInv, RelyOf, CalmOf
<1>. QED
  BY <1>1, <1>2, <1>3, RelyLocal

LEMMA RelyStore ==
  ASSUME ~Mapped, RelyInv, ManifestInv', NEW r \in Requests, Store(r) \/ Items(r)
  PROVE  RelyInv'
<1>. DEFINE m == IF pc[r] = "store" THEN Discovered(r) ELSE seen[r]
<1>1. /\ Step(r) /\ pc[r] \in {"store", "items"} /\ ManifestTypeOK /\ UNCHANGED unmarked
  BY DEF Store, Items, Step, RelyInv, ManifestInv
<1>2. m \in Manifests /\ (calm[r] => m.stamp = file)
  <2>1. calm[r] => /\ pc[r] = "store" => stamp[r] = file
                   /\ pc[r] = "items" => seen[r].stamp = file
    BY DEF RelyInv, ManifestInv, FreshOf
  <2>. QED
    BY <1>1, <2>1 DEF Discovered, Manifests, ManifestTypeOK
<1>3. Respond(r, m, "answered") \/ Look(r, m, "items")
  BY DEF Store, Items
<1>4. Ready' \subseteq Ready \cup {m} /\ (pc[r] = "items" => Ready' \subseteq Ready)
  BY <1>1, <1>2 DEF Store, Items, Ready, ManifestTypeOK
<1>5. pc[r] = "store" /\ Kept => m.stamp = file
  BY DEF Kept, Discovered
<1>. HIDE DEF m
<1>6. pc'[r] # "store"
  BY <1>1, <1>3 DEF Look, Respond, AnswerWith, End, Goto, ManifestTypeOK
<1>7. Kept => Kept'
  <2>1. file' = file /\ \A q \in Requests \ {r} : pc'[q] = pc[q] /\ stamp'[q] = stamp[q]
    BY <1>1, OthersStay DEF Same, RelyInv
  <2>. QED
    BY <1>1, <1>4, <1>5, <1>6, <2>1 DEF Kept
<1>8. RelyOf(r)' /\ CalmOf(r)'
  BY <1>1, <1>2, <1>3, <1>7, RelyLook, RelyRespond DEF Stages
<1>. QED
  BY <1>1, <1>7, <1>8, RelyLocal

\* The manifest is that of the file, and so is what is read from the file.
LEMMA RelyOpen ==
  ASSUME RelyInv, ManifestInv', NEW r \in Requests, Open(r)
  PROVE  RelyInv'
<1>1. /\ Step(r) /\ pc[r] \in {"answered", "served"} /\ UNCHANGED <<unmarked, asked, relies>>
      /\ Ready' = Ready /\ pc'[r] = "sent" /\ pages'[r] = file
      /\ asked[r] \in {NoManifest, answer[r]}
  BY DEF Open, Step, Goto, tables, Ready, RelyInv, ManifestInv, ManifestTypeOK, NamedOf
<1>2. Kept => Kept'
  BY <1>1, KeptStays DEF RelyInv
<1>3. RelyOf(r)' /\ CalmOf(r)'
  BY <1>1, PageManifestAssumption DEF RelyInv, RelyOf, CalmOf
<1>. QED
  BY <1>1, <1>2, <1>3, RelyLocal

LEMMA RelyLeave ==
  ASSUME RelyInv, ManifestInv', NEW r \in Requests, Leave(r)
  PROVE  RelyInv'
<1>1. Step(r) /\ End(r) /\ UNCHANGED unmarked /\ Ready' = Ready
  BY DEF Leave, Step, tables, Ready
<1>2. RelyOf(r)' /\ CalmOf(r)' /\ pc'[r] # "store"
  BY <1>1, RelyEnd DEF RelyInv
<1>. QED
  BY <1>1, <1>2, KeptStays, RelyLocal DEF RelyInv

LEMMA RelyReplace ==
  ASSUME RelyInv, ManifestInv', Replace
  PROVE  RelyInv'
<1>1. /\ calm' = [r \in Requests |-> pc[r] \in {"idle", "sent"}]
      /\ relies' = {r \in relies : pc[r] = "sent"}
      /\ UNCHANGED <<unmarked, pc, asked, pages>>
  BY DEF Replace, tables, local
<1>. QED
  BY <1>1 DEF RelyInv, RelyOf, CalmOf

LEMMA RelyNext == ~Mapped /\ RelyInv /\ [Next]_vars => RelyInv'
<1>. SUFFICES ASSUME ~Mapped, RelyInv, [Next]_vars PROVE RelyInv'
  OBVIOUS
<1>1. ManifestInv'
  BY ManifestNext DEF RelyInv
<1>2. CASE UNCHANGED vars
  BY <1>1, <1>2 DEF vars, RelyInv, RelyOf, CalmOf, Kept, Ready
<1>. QED
  BY <1>1, <1>2, RelyStart, RelyReads, RelyValidate, RelyMark, RelyLocked, RelyStore, RelyOpen,
     RelyLeave, RelyReplace DEF Next, Step

-----------------------------------------------------------------------------
\* Types, and what a request has at each stage.
THEOREM ManifestTypes == Spec => []ManifestTypeOK
<1>1. ManifestInv => ManifestTypeOK
  BY DEF ManifestInv
<1>. QED
  BY <1>1, ManifestInit, ManifestNext, PTL DEF Spec

\* While no stale mark is lost, the discovery lock keeps at most one ready.
THEOREM AtMostOneReady == Spec => []OneReady
<1>1. ManifestInv => OneReady
  BY DEF ManifestInv
<1>. QED
  BY <1>1, ManifestInit, ManifestNext, PTL DEF Spec

\* and an archive is listed only when no manifest describes it.
THEOREM ListingsAreNeeded == Spec => []ListingIsNeeded
<1>1. ManifestInv => ListingIsNeeded
  BY DEF ManifestInv, HoldingOf, AloneOf, ListingIsNeeded
<1>. QED
  BY <1>1, ManifestInit, ManifestNext, PTL DEF Spec

\* Where the paths of the database are those of this host, an answer given while
\* the file stayed carries its stamp, even if stale manifests stay ready.
THEOREM AnswersCarryTheStamp == ASSUME ~Mapped PROVE Spec => []AnswersAreFresh
<1>1. ManifestInv => AnswersAreFresh
  BY DEF ManifestInv, FreshOf, AnswersAreFresh
<1>. QED
  BY <1>1, ManifestInit, ManifestNext, PTL DEF Spec

\* The bytes of a page are of the version that the manifest its reader names was
\* stamped for, if that was the ready one's when the reader asked.
THEOREM PagesAreOfTheirManifest == ASSUME ~Mapped PROVE Spec => []PageIsOfManifest
<1>1. RelyInv => PageIsOfManifest
  BY DEF RelyInv, ManifestInv, ManifestTypeOK, RelyOf, PageIsOfManifest
<1>. QED
  BY <1>1, RelyInit, RelyNext, PTL DEF Spec

\* So nothing but the path mapping makes an answer neither the file's nor stamped as the
\* file's.
THEOREM OnlyMappedPathsMislead == ASSUME ~Mapped PROVE Spec => []WrongOnlyByRace
<1>1. AnswersAreFresh => WrongOnlyByRace
  BY DEF AnswersAreFresh, WrongOnlyByRace
<1>. QED
  BY <1>1, AnswersCarryTheStamp, PTL
=============================================================================
