---------------------------- MODULE PageManifest ----------------------------
(***************************************************************************)
(* The page manifest of one archive or e-book                              *)
(* (internal/prototype/server_page_manifest.go): the list of its pages,    *)
(* stored once and believed for as long as the file is what it was.        *)
(*                                                                         *)
(* A manifest is named by a hash over the page list and the stamp (size    *)
(* and modification time) of the file, so it is the pair of the version    *)
(* that was listed and the version whose stamp was taken: opening the      *)
(* archive and os.Stat are two steps and the file may be replaced between. *)
(* A stored manifest is validated by taking the stamp again.  Requests     *)
(* that find none discover the pages under a lock of their own.            *)
(*                                                                         *)
(* The manifest lock inside the discovery lock adds nothing for one        *)
(* candidate and is left out, as are archives without pages and a file that *)
(* vanishes between being listed and being stat'ed.                        *)
(***************************************************************************)

CONSTANTS
  Requests,
  Kinds,        \* "list" and "page" requests
  Files,        \* versions of the file, each with its own pages and stamp
  Mapped,       \* TRUE: the path in the database is another one on this host
  Legacy,       \* TRUE: there may be a manifest from before
  NoFile,       \* no stamp: os.Stat does not find the path
  NoRequest, NoManifest

Manifests == [pages : Files, stamp : Files \cup {NoFile}]

ASSUME PageManifestAssumption ==
  /\ Mapped \in BOOLEAN
  /\ Legacy \in BOOLEAN
  /\ Kinds \subseteq {"list", "page"}
  /\ NoFile \notin Files
  /\ NoRequest \notin Requests
  /\ NoManifest \notin Manifests

VARIABLES
  file,      \* the version at the path
  status,    \* manifest_status, "none" when there is no row
  old,       \* manifests of an older builder version
  partial,   \* manifests whose items are not all there
  unmarked,  \* an update that marks a manifest stale has failed
  lock,      \* who holds page-manifest-discovery
  pc,        \* where a request is
  asked,     \* the manifest a page request names, NoManifest for none
  seen,      \* the stored manifest a request looks at
  pages,     \* the version whose pages it listed, or took the page from
  stamp,     \* the stamp it took
  answer,    \* the manifest it answers with
  calm,      \* since it began, the file was not replaced
  relies     \* requests that began when the ready manifest was the file's, which stayed

tables == <<status, old, partial, unmarked>>
local == <<asked, seen, pages, stamp, answer>>
vars == <<file, status, old, partial, unmarked, lock, pc, asked, seen, pages, stamp, answer, calm,
          relies>>

Ready == {m \in Manifests : status[m] = "ready"}
Goto(r, stage) == pc' = [pc EXCEPT ![r] = stage]

\* What is ready describes the file that is there.
Described == Ready # {} /\ \A m \in Ready : m.stamp = file

\* What os.Stat of the path in the database says; without it a hash has no stamp.
Stamp == IF Mapped THEN NoFile ELSE file

\* storedManifestMatches, with the checks before it.
\* (Mutant: the stamp is not compared.)
MatchesPages(m, s) == m \notin old \cup partial
Matches(m, s) == m \notin old \cup partial /\ m.stamp = s

-----------------------------------------------------------------------------
\* Some handler asks for the manifest (pageRowsAndManifestForWork), or
\* handlePageImage for one page of it, with or without its manifest's id.
Start(r) ==
  /\ pc[r] = "idle"
  /\ \/ "list" \in Kinds /\ Goto(r, "read") /\ UNCHANGED <<asked, relies>>
     \/ /\ "page" \in Kinds
        /\ Goto(r, "page")
        /\ \E m \in {n \in Manifests : status[n] # "none"} \cup {NoManifest} :
             /\ asked' = [asked EXCEPT ![r] = m]
             /\ relies' = IF Described /\ m # NoManifest THEN relies \cup {r} ELSE relies
  /\ UNCHANGED <<file, tables, lock, seen, pages, stamp, answer, calm>>

\* The deferred release of the discovery lock.
Release(r) == lock' = IF lock = r THEN NoRequest ELSE lock

\* A request that has its answer needs only that.
Clear(r) ==
  /\ Release(r)
  /\ seen' = [seen EXCEPT ![r] = NoManifest]
  /\ pages' = [pages EXCEPT ![r] = NoFile]
  /\ stamp' = [stamp EXCEPT ![r] = NoFile]
  /\ UNCHANGED file

End(r) ==
  /\ Goto(r, "idle")
  /\ Clear(r)
  /\ asked' = [asked EXCEPT ![r] = NoManifest]
  /\ answer' = [answer EXCEPT ![r] = NoManifest]
  /\ calm' = [calm EXCEPT ![r] = TRUE]
  /\ relies' = relies \ {r}

\* A page of another manifest than the one asked for is refused
\* (errPageManifestStale).
\* (Mutant: AnswerWith in place of Respond, nothing is refused.)
AnswerWith(r, m, stage) ==
  /\ Goto(r, stage)
  /\ answer' = [answer EXCEPT ![r] = m]
  /\ Clear(r)
  /\ UNCHANGED <<asked, calm, relies>>
Respond(r, m, stage) ==
  IF asked[r] \in {NoManifest, m} THEN AnswerWith(r, m, stage) ELSE End(r)

\* The next step, with the stored manifest it is about.
Look(r, m, stage) ==
  /\ Goto(r, stage)
  /\ seen' = [seen EXCEPT ![r] = m]
  /\ UNCHANGED <<file, lock, asked, pages, stamp, answer, calm, relies>>

\* getCurrentManifest: the latest of the ready manifests; which one that is
\* matters only if there are several.
Current == IF Ready = {} THEN {NoManifest} ELSE Ready

\* getPageRow: a stored manifest answers without a look at the file, unless the
\* item of the page is not there.
ReadPage(r) ==
  /\ pc[r] = "page"
  /\ \E m \in Current :
       \/ m = NoManifest /\ Look(r, m, "read")
       \/ m \in old /\ Look(r, m, "markPage")
       \/ m \in Manifests \ old /\ Respond(r, m, "served")
       \/ m \in partial \ old /\ asked[r] \in {NoManifest, m} /\ Look(r, m, "read")
  /\ UNCHANGED tables

\* storedPageRowsAndManifestForWork, first without the lock and then with it.
Missing(r) == IF lock = r THEN "list" ELSE "lock"
Read(r) ==
  /\ pc[r] = "read"
  /\ \E m \in Current : Look(r, m, IF m = NoManifest THEN Missing(r) ELSE "validate")
  /\ UNCHANGED tables

Validate(r) ==
  /\ pc[r] = "validate"
  /\ IF Matches(seen[r], Stamp) THEN Respond(r, seen[r], "answered")
     ELSE Look(r, seen[r], "mark")
  /\ UNCHANGED tables

\* markManifestStale; an error is ignored.
\* (Mutant: nothing is marked.)
MarkNothing(m) == UNCHANGED tables
MarkStale(m) ==
  /\ \/ /\ status' = [status EXCEPT ![m] = IF @ = "ready" THEN "stale" ELSE @]
        /\ UNCHANGED unmarked
     \/ /\ unmarked' = TRUE
        /\ UNCHANGED status
  /\ UNCHANGED <<old, partial>>
Mark(r) ==
  /\ \/ pc[r] = "mark" /\ Look(r, NoManifest, Missing(r))
     \/ pc[r] = "markPage" /\ Look(r, NoManifest, "read")
  /\ MarkStale(seen[r])

\* (Mutant: no second look at the database with the lock.)
LockAndList(r) ==
  /\ pc[r] = "lock"
  /\ lock = NoRequest
  /\ lock' = r
  /\ Goto(r, "list")
  /\ UNCHANGED <<file, tables, local, calm, relies>>
Lock(r) ==
  /\ pc[r] = "lock"
  /\ lock = NoRequest
  /\ lock' = r
  /\ Goto(r, "read")
  /\ UNCHANGED <<file, tables, local, calm, relies>>

\* archivePageRows and ebookPageRows read the archive that is opened.
List(r) ==
  /\ pc[r] = "list"
  /\ pages' = [pages EXCEPT ![r] = file]
  /\ Goto(r, "stat")
  /\ UNCHANGED <<file, tables, lock, asked, seen, stamp, answer, calm, relies>>

\* virtualPageManifest.
Stat(r) ==
  /\ pc[r] = "stat"
  /\ stamp' = [stamp EXCEPT ![r] = Stamp]
  /\ Goto(r, "store")
  /\ UNCHANGED <<file, tables, lock, asked, seen, pages, answer, calm, relies>>

Discovered(r) == [pages |-> pages[r], stamp |-> stamp[r]]

\* ensurePageManifest: a new manifest is inserted with its items in one
\* transaction; one that is known becomes ready again and gets its items next.
Store(r) ==
  LET m == Discovered(r)
  IN  /\ pc[r] = "store"
      /\ status' = [status EXCEPT ![m] = "ready"]
      /\ old' = old \ {m}
      /\ UNCHANGED <<partial, unmarked>>
      /\ IF status[m] = "none" THEN Respond(r, m, "answered") ELSE Look(r, m, "items")

\* ensurePageManifestItems.
Items(r) ==
  /\ pc[r] = "items"
  /\ partial' = partial \ {seen[r]}
  /\ Respond(r, seen[r], "answered")
  /\ UNCHANGED <<status, old, unmarked>>

\* sendArchivePageWithSource: the entry of the page is read from the archive that is
\* there now; if it has none of that name, the request ends (Leave).  What happens
\* to the file afterwards is nothing to it.  A page that is asked for without a
\* manifest may be of any, and is not followed further.
Open(r) ==
  /\ pc[r] \in {"answered", "served"} /\ asked[r] # NoManifest
  /\ Goto(r, "sent")
  /\ pages' = [pages EXCEPT ![r] = file]
  /\ answer' = [answer EXCEPT ![r] = NoManifest]
  /\ calm' = [calm EXCEPT ![r] = TRUE]
  /\ UNCHANGED <<file, tables, lock, asked, seen, stamp, relies>>

\* The context is done while waiting, the archive cannot be read or a statement
\* fails; or the answer is sent.
Leave(r) == pc[r] # "idle" /\ End(r) /\ UNCHANGED tables

\* Somebody replaces the file.
Replace ==
  /\ file' \in Files \ {file}
  /\ calm' = [r \in Requests |-> pc[r] \in {"idle", "sent"}]
  /\ relies' = {r \in relies : pc[r] = "sent"}
  /\ UNCHANGED <<tables, lock, pc, local>>

Step(r) ==
  \/ Start(r) \/ ReadPage(r) \/ Read(r) \/ Validate(r) \/ Mark(r) \/ Lock(r)
  \/ List(r) \/ Stat(r) \/ Store(r) \/ Items(r) \/ Open(r) \/ Leave(r)

Next == Replace \/ \E r \in Requests : Step(r)

\* With Legacy, one manifest is there, perhaps of an older builder version or
\* with items missing, made on the host the paths are of.
Init ==
  /\ file \in Files
  /\ \E stored \in SUBSET Manifests :
       /\ \A m, n \in stored : m = n
       /\ \A m \in stored : Legacy /\ m.stamp = m.pages
       /\ status \in [Manifests -> {"none", "ready", "stale"}]
       /\ stored = {m \in Manifests : status[m] # "none"}
       /\ old \in SUBSET stored
       /\ partial \in SUBSET stored
  /\ unmarked = FALSE
  /\ lock = NoRequest
  /\ pc = [r \in Requests |-> "idle"]
  /\ asked = [r \in Requests |-> NoManifest]
  /\ seen = [r \in Requests |-> NoManifest]
  /\ pages = [r \in Requests |-> NoFile]
  /\ stamp = [r \in Requests |-> NoFile]
  /\ answer = [r \in Requests |-> NoManifest]
  /\ calm = [r \in Requests |-> TRUE]
  /\ relies = {}

Spec == Init /\ [][Next]_vars

-----------------------------------------------------------------------------
ManifestTypeOK ==
  /\ file \in Files
  /\ status \in [Manifests -> {"none", "ready", "stale"}]
  /\ old \subseteq Manifests
  /\ partial \subseteq Manifests
  /\ unmarked \in BOOLEAN
  /\ lock \in Requests \cup {NoRequest}
  /\ pc \in [Requests -> {"idle", "page", "read", "validate", "mark", "markPage", "lock",
                          "list", "stat", "store", "items", "answered", "served", "sent"}]
  /\ asked \in [Requests -> Manifests \cup {NoManifest}]
  /\ seen \in [Requests -> Manifests \cup {NoManifest}]
  /\ pages \in [Requests -> Files \cup {NoFile}]
  /\ stamp \in [Requests -> Files \cup {NoFile}]
  /\ answer \in [Requests -> Manifests \cup {NoManifest}]
  /\ calm \in [Requests -> BOOLEAN]
  /\ relies \subseteq Requests
  /\ \A r \in Requests :
       /\ pc[r] \in {"validate", "mark", "markPage", "items"} => seen[r] \in Manifests
       /\ pc[r] \in {"stat", "store", "sent"} => pages[r] \in Files
       /\ pc[r] \in {"answered", "served"} => answer[r] \in Manifests

\* Unless a stale mark was lost, at most one manifest of a work is ready: requests
\* that miss it together do not leave two page lists to be chosen from by the
\* second they were built in.
OneReady == ~unmarked => \A m, n \in Ready : m = n

\* An archive is listed only when no manifest describes it: the requests that
\* queued for the lock behind the first one find what it stored.
ListingIsNeeded ==
  \A r \in Requests :
    ~unmarked /\ pc[r] = "list" /\ calm[r] => \A m \in Ready : ~Matches(m, file)

\* A manifest that was validated or built while the file stayed in its place
\* carries the stamp of the file, whatever else failed.
AnswersAreFresh ==
  \A r \in Requests : pc[r] = "answered" /\ calm[r] => answer[r].stamp = file

\* The bytes of a page are of the version that the manifest its reader names was
\* stamped for, although they are read from whatever file is there: once a request
\* has looked at a file and its manifest is ready, who begins then is refused for a
\* manifest of an earlier file, unless a stale mark was lost.  For what is read after
\* the file is replaced and before anybody looks at it, the code promises nothing.
PageIsOfManifest ==
  \A r \in relies : ~unmarked /\ pc[r] = "sent" => asked[r].stamp = pages[r]

\* "The ordinary progress/reader endpoints still validate the actual page
\* manifest" (docs/features/reader-and-detail.md): pages of another version than
\* the file's are answered with at most when the file was replaced between
\* listing and stat, so that they carry its stamp.  Does not hold where the path
\* in the database is not the one on this host.
WrongOnlyByRace ==
  \A r \in Requests :
    pc[r] = "answered" /\ calm[r]
      => answer[r].pages = file \/ answer[r].stamp = file
=============================================================================
