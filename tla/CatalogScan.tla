----------------------------- MODULE CatalogScan -----------------------------
(***************************************************************************)
(* The scanner (cmd/bmanga-scan, internal/catalog) and the metadata          *)
(* overrides of the server (metadata_overrides.go), two processes on one     *)
(* database.  A scan walks the libraries of its configuration one after the  *)
(* other and replaces their rows, all in one transaction; files come and go  *)
(* while it walks.  What a user wrote hangs on the identity of a work, which *)
(* a rescan orphans and matches again by library and relative path.          *)
(*                                                                         *)
(* The transaction is deferred: it reads the schema, and with it a snapshot, *)
(* before the walk, and takes the writer lock with its first write, which    *)
(* fails if the server has written since.  The first scan of a database has  *)
(* indexes to create and takes the lock at once.                             *)
(*                                                                         *)
(* A name is an archive or image folder below a library; two names may have  *)
(* the same path once slashes and outer blanks are normalised (slashPath).   *)
(* The walk visits them in any order.                                        *)
(***************************************************************************)
EXTENDS Integers, FiniteSets

CONSTANTS
  Libraries,
  Names,
  Paths,
  PathOf,     \* slashPath: by library, the relative path of a name
  Edited,     \* paths that users edit
  Titles,     \* what an override may say
  NoTitle,
  MaxChanges  \* bound on changes of the disk

ASSUME CatalogScanAssumption ==
  /\ IsFiniteSet(Names)
  /\ PathOf \in [Libraries -> [Names -> Paths]]
  /\ Edited \subseteq Paths
  /\ NoTitle \notin Titles \cup Libraries
  /\ MaxChanges \in Nat

VARIABLES
  disk,       \* by library: the names that are there and have pages that can be read
  roots,      \* libraries whose root can be read
  changes,
  db,         \* what is committed
  overrides,  \* metadata_field_overrides of one field: active values by library and path
  scan,       \* the scanner
  save,       \* an override being saved
  wanted      \* the overrides that were answered

catalogVars == <<disk, roots, changes, db, overrides, scan, save, wanted>>

NoScan == [stage |-> "off"]
NoSave == [stage |-> "none"]

CatalogInit ==
  /\ disk \in [Libraries -> SUBSET Names]
  /\ roots = Libraries
  /\ changes = 0
  /\ db = [rows |-> [l \in Libraries |-> {}],
           identities |-> [l \in Libraries |-> [p \in Paths |-> "none"]],
           active |-> [l \in Libraries |-> {}],
           indexed |-> FALSE]
  /\ overrides = [l \in Libraries |-> [p \in Paths |-> NoTitle]]
  /\ scan = NoScan
  /\ save = NoSave
  /\ wanted = overrides

Catalogued(l) == db.rows[l]
Scanning == scan.stage # "off"
Locked == Scanning /\ scan.locked

-----------------------------------------------------------------------------
\* A work comes, or goes or is damaged.
Change(l, n) ==
  /\ changes < MaxChanges
  /\ disk' = [disk EXCEPT ![l] = IF n \in @ THEN @ \ {n} ELSE @ \cup {n}]
  /\ changes' = changes + 1
  /\ scan' = IF Scanning THEN [scan EXCEPT !.touched = @ \cup {<<l, n>>}] ELSE scan
  /\ UNCHANGED <<roots, db, overrides, save, wanted>>

LoseRoot(l) ==
  /\ changes < MaxChanges
  /\ roots' = IF l \in roots THEN roots \ {l} ELSE roots \cup {l}
  /\ changes' = changes + 1
  /\ UNCHANGED <<disk, db, overrides, scan, save, wanted>>

-----------------------------------------------------------------------------
\* LoadConfig, which needs every root, and the transaction up to ensureSchema.
Begin(libraries) ==
  /\ ~Scanning
  /\ libraries # {} /\ libraries \subseteq roots
  /\ scan' = [stage |-> "walk", left |-> libraries, library |-> NoTitle, visited |-> {}, found |-> {},
              tx |-> [db EXCEPT !.indexed = TRUE], locked |-> ~db.indexed, stale |-> FALSE,
              touched |-> {}, unread |-> {}, libraries |-> libraries]
  /\ UNCHANGED <<disk, roots, changes, db, overrides, save, wanted>>

\* The walk of a library starts; a root that cannot be read is skipped.
\* (Mutant: what was found in the library before is kept.)
EnterKeeping(l) ==
  /\ scan.stage = "walk" /\ scan.library = NoTitle /\ l \in scan.left
  /\ scan' = [scan EXCEPT !.library = l, !.left = @ \ {l},
                          !.visited = IF l \in roots THEN {} ELSE Names,
                          !.unread = IF l \in roots THEN @ ELSE @ \cup {l}]
  /\ UNCHANGED <<disk, roots, changes, db, overrides, save, wanted>>
Enter(l) ==
  /\ scan.stage = "walk" /\ scan.library = NoTitle /\ l \in scan.left
  /\ scan' = [scan EXCEPT !.library = l, !.left = @ \ {l}, !.found = {},
                          !.visited = IF l \in roots THEN {} ELSE Names,
                          !.unread = IF l \in roots THEN @ ELSE @ \cup {l}]
  /\ UNCHANGED <<disk, roots, changes, db, overrides, save, wanted>>

\* scanLibrary at one name: what cannot be opened or has no pages is skipped.
Visit(n) ==
  /\ scan.stage = "walk" /\ scan.library # NoTitle /\ n \notin scan.visited
  /\ scan' = [scan EXCEPT !.visited = @ \cup {n},
                          !.found = IF n \in disk[scan.library] THEN @ \cup {n} ELSE @]
  /\ UNCHANGED <<disk, roots, changes, db, overrides, save, wanted>>

\* insertCandidate for all paths found: their rows in the tables of the catalog,
\* their identities, new or matched again, and their history.
Inserted(t, l, paths) ==
  [t EXCEPT !.rows[l] = @ \cup paths,
            !.identities[l] = [p \in Paths |-> IF p \in paths THEN "matched" ELSE @[p]],
            !.active[l] = @ \cup paths]

\* What replaceLibraryCatalog does first: identities are orphaned, their history
\* is no longer active, and the rows are deleted.
\* (Mutant: the identities stay matched.)
ResetKept(t, l) == [t EXCEPT !.rows[l] = {}, !.active[l] = {}]
Reset(t, l) ==
  [t EXCEPT !.rows[l] = {},
            !.identities[l] = [p \in Paths |-> IF @[p] = "matched" THEN "orphaned" ELSE @[p]],
            !.active[l] = {}]

\* replaceLibraryCatalog, with the writer lock from its first statement on.
Replace ==
  LET l == scan.library
  IN  /\ scan.stage = "walk" /\ l # NoTitle /\ scan.visited = Names /\ ~scan.stale
      /\ \A n, m \in scan.found : PathOf[l][n] = PathOf[l][m] => n = m
      /\ scan' = [scan EXCEPT !.locked = TRUE, !.library = NoTitle,
                              !.tx = Inserted(Reset(@, l), l, {PathOf[l][n] : n \in scan.found})]
      /\ UNCHANGED <<disk, roots, changes, db, overrides, save, wanted>>

Commit ==
  /\ scan.stage = "walk" /\ scan.library = NoTitle /\ scan.left = {}
  /\ db' = scan.tx
  /\ scan' = [scan EXCEPT !.stage = "done", !.locked = FALSE]
  /\ UNCHANGED <<disk, roots, changes, overrides, save, wanted>>

\* The scanner ends: done, killed, or failed (paths that collide, a snapshot
\* that is out of date); what it has not committed is rolled back.
End ==
  /\ Scanning
  /\ scan' = NoScan
  /\ UNCHANGED <<disk, roots, changes, db, overrides, save, wanted>>

-----------------------------------------------------------------------------
\* resolveMetadataOverrideWork.
Resolve(l, p, title) ==
  /\ save = NoSave
  /\ p \in Catalogued(l) /\ db.identities[l][p] = "matched"
  /\ save' = [stage |-> "write", library |-> l, path |-> p, title |-> title]
  /\ UNCHANGED <<disk, roots, changes, db, overrides, scan, wanted>>

\* handleMetadataOverrideSave, with no title for one that is reverted.
WriteOverride ==
  /\ save # NoSave /\ ~Locked
  /\ overrides' = [overrides EXCEPT ![save.library][save.path] = save.title]
  /\ wanted' = [wanted EXCEPT ![save.library][save.path] = save.title]
  /\ scan' = IF Scanning THEN [scan EXCEPT !.stale = scan.stage = "walk"] ELSE scan
  /\ save' = NoSave
  /\ UNCHANGED <<disk, roots, changes, db>>

\* The scanner holds the lock for longer than the server waits.
Busy ==
  /\ save # NoSave /\ Locked
  /\ save' = NoSave
  /\ UNCHANGED <<disk, roots, changes, db, overrides, scan, wanted>>

CatalogNext ==
  \/ \E l \in Libraries, n \in Names : Change(l, n)
  \/ \E l \in Libraries : LoseRoot(l) \/ Enter(l)
  \/ \E libraries \in SUBSET Libraries : Begin(libraries)
  \/ \E n \in Names : Visit(n)
  \/ Replace \/ Commit \/ End
  \/ \E l \in Libraries, p \in Edited, title \in Titles \cup {NoTitle} : Resolve(l, p, title)
  \/ WriteOverride \/ Busy

CatalogSpec == CatalogInit /\ [][CatalogNext]_catalogVars

-----------------------------------------------------------------------------
\* What the view shows of a work: the override of the identity that is matched.
Shown(l, p) == IF db.identities[l][p] = "matched" THEN overrides[l][p] ELSE NoTitle

\* Whatever is scanned, fails or is killed: every work of the catalog has its
\* identity and shows the override that was last answered for it, also one that was
\* away for some scans; what is gone is matched by nothing.
WorksKeepTheirOverrides ==
  \A l \in Libraries, p \in Paths :
    /\ p \in Catalogued(l) => Shown(l, p) = wanted[l][p]
    /\ db.identities[l][p] = "matched" <=> p \in Catalogued(l)
    /\ p \in db.active[l] <=> p \in Catalogued(l)

\* A scan that succeeds catalogs, of every library it could walk, the works that
\* were there all the time, and nothing that was not.
ScansFindWhatStays ==
  Scanning /\ scan.stage = "done" =>
    \A l \in scan.libraries \ scan.unread, p \in Paths :
      LET named == {n \in Names : PathOf[l][n] = p}
      IN  (\A n \in named : <<l, n>> \notin scan.touched)
            => (named \cap disk[l] # {} <=> p \in Catalogued(l))
=============================================================================
