# A verification development of bmanga-core

bmanga is a self-hosted manga library: a Go server over SQLite
(`src/cmd/bmanga-go`, `src/internal/prototype`), command-line tools that fill the
database (`src/cmd/bmanga-scan`, `src/internal/catalog`,
`src/cmd/bmanga-import-plan`, `src/internal/importplan`) and a web client
(`src/web-v2`) that keeps reading positions and marks in local storage and sends
them when it can. What makes the program hard is not the catalogue, it is that
several devices write the same small pieces of user state, each with its own
clock, late, twice and out of order, while the server serves requests
concurrently and keeps a cache of rendered files beside them.

This directory holds TLA+ modules that model those parts, TLC configurations
that check small instances, and proofs that TLAPS checks for every value of the
constants. `PROJECT.json` lists components, runs, mutants, hazards, findings and
theorems, and maps each definition to the lines it models.

    tlasany M.tla                        # parse
    tlc -workers 2 -config X.cfg M       # a run
    tlapm M_proofs.tla                   # the proofs of a module

## 1. Inventory

State that outlives a request is in SQLite, in files (rendered thumbnails, the
session store), in maps of the server process, or in the local storage of a
browser. The table has one row per component; "hazards" of `PROJECT.json` has
one entry per place where something is hard to test.

| component | state | operations | interacts with | hard because | correct when |
|---|---|---|---|---|---|
| Read state of a work: progress, tombstone, status, personal marks (`server_progress.go`, `server_user_marks.go`) | rows `reading_progress`, `reading_progress_resets`, `work_user_marks`, `user_mark_field_clocks` | save progress, migrate a batch of old progress, save a mark | client progress queue and mark queue; SQLite writer lock; page manifests (a stale one refuses a save) | client clocks, server clock steps, delivery out of order and repeated, rows of older releases without clocks | the newest event decides; what was answered is not lost; "unread" is not undone by late progress |
| Keyed render lock (`server.go` 227-274) | map of key to channel and reference count | acquire, cancel, release | thumbnail cache, archive pages, covers | interleavings between the map's mutex and the channel, cancellation | one holder per key, no entry lost or left behind, nobody waits for ever |
| Thumbnail cache and permits (`server.go` 276-310, `server_images.go`, `server_covers.go`, `server_page_serving.go`) | files of the cache, a semaphore channel | look, load from an archive, build, serve | keyed lock twice (source, build), permits | nested waiting, files that appear while a request waits, error paths | one build per file, archives not read for nothing, permits not leaked, no deadlock |
| Library page state (`server_library_page_state.go`) | one row of `browse_states` | batch of mutations, read | client library page sync | compare-and-swap without a transaction, batches failing half-way, retries, a sort order that resets the lists | what is acknowledged is kept, the newest event decides, clocks only grow |
| Browse state (`server_browse_state.go`) | one row of `browse_states` | save, read | client | read and write are two statements | the newest state is kept |
| Page manifests (`server_page_manifest.go`, `server_archive_entries.go`) | manifests and pages with a file stamp | ensure, validate, mark stale, rebuild | page serving, progress | the file may be replaced between listing and stamping; requests race | a ready manifest describes the file its stamp names |
| Archive and page serving (`server_page_serving.go`, `archive_security.go`, `server_reader_http.go`) | none | open, range, limits | manifests, cache | limits on sizes and ratios | nothing outside the limits is served |
| Covers and images (`server_covers.go`, `server_images.go`) | none besides the cache | choose, decode, resize | cache | sharing an expensive decode | see the cache |
| Tags (`server_user_marks.go` 219-470) | `local_tags`, link tables of works and series | add, remove, rename, merge, recolour, delete | works, series | adding and removing are statements committed alone, renaming and deleting one transaction; foreign keys are not switched on | every link has its tag, every tag is on something |
| Corrections and review (`server_corrections.go`, `review.go`) | corrections, a cache of review items in memory | correct one or many, list, count | works, shelf, scan | the cache is computed and filled outside its lock, from several queries without a transaction | an answered correction is visible afterwards |
| Metadata overrides (`metadata_overrides.go`) | override rows | set, revert | works, scan | the work is resolved before the transaction that writes; the scanner may hold the writer | an override survives scans, also while its work is away |
| Cover duplicates (`cover_duplicates.go`, `duplicate_pair.go`) | a response cache with version, age and cap; `duplicate_candidates` | list, decide a pair | corrections | a version in whole seconds, computed before a change and cached after it; a pair decided from evidence read before | no stale response, the last decision stands |
| Catalogue scan (`internal/catalog`, `cmd/bmanga-scan`) | catalogue tables, `work_identities` | walk the libraries of a configuration, replace their rows | everything that refers to works | one deferred transaction over all libraries while files come and go and the server writes; identities are orphaned and matched again | one transaction, nothing orphaned that is there |
| Schema migration and legacy guard (`server_schema.go`, `catalog_schema.go`, `legacy_maintenance_guard.go`) | schema, registry of migrations | guard that only reads, then two migrations at every start | all tables, a server that is up and reads | interrupted or repeated starts, views dropped and made again under readers | readers always find the schema; a database with decisions of an older build is left as it is |
| Import plan (`internal/importplan`) | none | hash two trees, classify, print a plan | file system | files change while they are hashed; samples of matches are prepared per group | each file is compared with all others; no hash of a half-written file |
| Sessions and login (`cmd/bmanga-go/session_store.go`, `main.go`) | sessions in memory and in a file, failures per address and for the account | create, check, revoke, persist, limit | every request | crash between two renames, failed writes, limits, a body read between the check for a block and the failure | a revoked session stays revoked, a live one survives a restart, nobody is blocked who did not earn it |
| Continue target (`continue_target.go`, `series_resume.go`) | none | choose the book to go on with | progress, marks, series | editions of one number, finished and hidden books, equal times | the book the reader stopped in, or the next |
| Shelf, works, series, discover and related works | none | queries and ranking | all rows | - | - |
| Login page (`login_page_v2.go`) | none | one page | sessions | - | - |
| Runtime diagnostics (`runtime_diagnostics_lite.go`) | one shared scan, a short-lived result | ask, wait, give up | cache directories | a scan shared by requests that come and go, a deadline, a limit | a size called complete is of every directory of the roots that are there, and recent |
| HTTP plumbing | none | routing, compression, paths | - | - | - |
| Client progress queue (`lib/progressQueue.ts`, `App.tsx`) | local storage, shared by tabs | queue, fold, send, acknowledge, discard | read state, page manifests | tabs without a lock, a full queue, a clock that ran ahead, answers that come late or not at all | what was read is delivered, superseded or pending |
| Client mark queue (`lib/userMarkQueue.ts`, `App.tsx`) | one storage item, shared by tabs | queue, send, flush, reconcile | read state | a flush writes a list it read long before | as above |
| Client library page sync (`lib/libraryPageState.ts`) | pending mutations | add, compact, send, reconcile | library page state | compaction must not change what the server ends with; overtaken answers | the devices converge |
| Client reader and caches | memory | - | pages, manifests | - | - |

## 2. Modules

    ReadRegister      abstract: a register the newest event decides
      ^ implemented by
    ReadState         progress, tombstone, status and marks of a work
    ReadState_proofs  MCReadState

    KeyedMutex        abstract: a mutex per key
      ^ implemented by
    KeyedLock         acquireRenderLock
    KeyedLock_proofs  MCKeyedLock

    SingleFlight      abstract: who writes which file, and which are there
      ^ implemented by
    RenderCache       ensureCacheFile and its callers, over KeyedMutex
    RenderCache_proofs  MCRenderCache

    PageManifest      discovery and validation of one archive's pages
    PageManifest_proofs  MCPageManifest

    LibraryPageState  batches, merge, compare-and-swap     )
    BrowseState       the save handler of the library view )  SavedViews_proofs
    MarkQueue         marks a browser has not delivered    )
      MCSavedViews: the three side by side; MCBrowseState: BrowseState alone

    SessionStore      sessions, their file, crashes        )
    Tags              tags and links                       )
    ResponseCaches    review list, cover duplicates        )  ServerState_proofs
    DuplicatePair     the decision on a pair               )
    LoginLimiter      failed logins                        )
      MCServerState: the five side by side

    CatalogScan       scanner and overrides                )
    SchemaMigration   guard and migrations                 )  Catalog_proofs
    RuntimeDiagnostics  the shared scan of caches          )
    ImportPlan        hashing and classification           )
    ContinueTarget    the book offered next                )  Reading_proofs
    ProgressQueue     positions a browser has not delivered )
      MCCatalog: the six side by side

Composition: `RenderCache` uses `KeyedMutex` for its locks, and `KeyedLock` is
proved to implement `KeyedMutex`, so what holds of the cache over the abstract
locks holds of the cache over the code's. `BrowseState`, `LibraryPageState` and the
queues of the client are the two ends of the same requests, each with the other end
reduced to what it can do to this one: `MarkQueue` has a server that keeps the newest
value, `ProgressQueue` one that is its clocks and the manifest of a work;
`ReadState` and `LibraryPageState` have clients that send anything at any time.
`ResponseCaches` has the corrections and the scanner as the two writers that must, or
cannot, clear its caches; `CatalogScan` has the server and the scanner on one database.

A definition marked "(Mutant: ...)" is a wrong version of the one after it, kept
so that one can see which property notices the mistake; `PROJECT.json` says which
mutant belongs to which property. No specification uses them.

### ReadState

State: `progress`, `reset`, `mark`, `value`, `clock` are the four kinds of rows
(a row that is not there has clock `NoTime`); `phase`, `event`, `arrived`,
`answer` are the requests in the server; `now` is its clock, and `steady` says
that it has not been set back.

| action | code |
|---|---|
| `Arrive` | a handler reads its body, checks it against the work and samples `serverNow` (`handleProgressSave` 80-167, `storeMigratedProgress` 768, `handleUserMarkSave` 720-784) |
| `SaveProgress` | the transaction of `handleProgressSave` |
| `MigrateProgress` | the transaction of `storeMigratedProgress`, per item |
| `SaveUserMark` | the transaction of `handleUserMarkSave`, branch for works, with `resolveUserMarkFieldUpdatesTx` and the tombstone |
| `Fail` | the writer lock is not free in time, a statement fails, or the process dies: rollback |
| `Reply` | the response arrives or is lost; the client may send the event again (`Arrive` picks any event) |
| `Tick`, `SetBack` | the server clock |

A transaction is one step because SQLite has one writer and every transaction
begins with a write (`server_progress.go` 176 and 775 say so); everything between
sampling the clock and the transaction is not atomic, and that matters.

Left out: one work only, because no transaction joins rows of two works; the page
number, display mode and manifest key; that `written_at` is cut to seconds and
that `julianday` compares milliseconds. A migration looks at two clock samples
(697 for the future check, 768 for the comparison); the model has one. `marked_at`
and `updated_at` of a mark are one `touched`. The branch of the mark handler for
series is not in the model.

`MarkRowAgrees` is about the row of a mark that other rows need: a tombstone, a value
or a field clock never stands without one, and a row that takes its time from the
progress has the status the progress implies (`StatusOf`).

`ClockDiscipline == ClientLead + LockWait <= Skew /\ Rollback = 0` is the
condition under which ordering by client stamps is trustworthy: no stamp may look
too far ahead to a request that sampled its clock earlier. Theorems and run
`read_order` need it; run `read_skew` shows what happens without it, while each
client clock still stays within the tolerated skew.

### KeyedLock, KeyedMutex

A client is one call of `acquireRenderLock` with the release function it returns.
A step is a section under `renderLockMu` or one channel operation. `renderLocks`
is the map, `refs` and `full` belong to a lock. `Enter` 241-252, `Lock` the send,
`GiveUp` the `ctx.Done` branch with its decrement, `Unlock` the receive, `Leave`
the decrement after it. A lock nobody refers to is garbage and may come back as a
new one, so a lock used after it left the map would be noticed.

### RenderCache, SingleFlight

One action per stage of a request: look (`Hit`, `Arrive`), source lock and second
look for archives (`LockSource`, `Look`, `Load`), three stats of `ensureCacheFile`
with the build lock and the permit between them, `Build`, and the deferred
releases in their order. Every stat, load and build may fail. `GiveUp` is a
cancelled context at each of the three waits. A rendered file appears whole (it is
renamed into place) and nothing in the process removes it.

### LibraryPageState

A mutation's place in the total order of (`updated_at`, `event_id`) is its
`event`. `Send` is a request with a batch (new events and repeats), `Load` and
`Swap` the two halves of one attempt in `storeLibraryPageMutation`, `Retry` a swap
that found another row, `Reply` the answer that acknowledges the whole batch,
`Break` any error or lost connection with what was stored staying stored. There is
no transaction. Batches refused before the first write are left out.

### BrowseState

`ReadRow` and `WriteRow` are the two statements of `handleBrowseStateSave`,
`SaveState` the request before them and `BreakSave` an error; the content is abstracted
to its clock, which is all the handler decides by.

### PageManifest

The pages of one archive or e-book. A manifest's hash covers the listed pages and
the stamp of the file, so a manifest is the pair `[pages, stamp]` of the versions
of the file that were listed and stat'ed. `status`, `old` (builder version) and
`partial` (items missing) are the stored rows, `file` is the version at the path,
`calm` remembers of a request that the file was not replaced since it began.

| action | code |
|---|---|
| `Start` | a handler calls `pageRowsAndManifestForWork`, or `handlePageImage` calls `getPageRow` for a page, with or without a manifest's id |
| `ReadPage` | the stored manifest and item in `getPageRow` 230-270, believed without looking at the file |
| `Read`, `Validate`, `Mark` | `storedPageRowsAndManifestForWork`: the row, the stamp taken again and compared, `markManifestStale` (whose error is ignored) |
| `Lock` | `page-manifest-discovery`, after which `Read` is done again |
| `List`, `Stat`, `Store`, `Items` | `archivePageRows`, `virtualPageManifest`, the two halves of `ensurePageManifest` |
| `Respond` | the manifest that was named is compared with the one found (239, 276, `errPageManifestStale`) |
| `Open` | `sendArchivePageWithSource` 253-333: the bytes are read from the archive that is there now |
| `Leave` | the answer is sent, an error, or a context that is done |
| `Replace` | the owner replaces the file (outside the program) |

`Init` with `Legacy` has any leftover of an older release: a manifest that is ready
or stale, of an old builder version or not, with or without its items. `unmarked`
says that the update of `markManifestStale` failed once, which the code ignores.
With `Mapped` the path in the database is not the one on this host, so `os.Stat`
never finds it. Left out: manifests without pages, image folders (whose manifests
are only read), a file that vanishes between being listed and being stat'ed, and the
manifest lock inside the discovery lock, which adds nothing for one candidate.

A limitation of the code that the model shows and no property forbids: the pages are
listed (97) before the file is stat'ed (178), so a file replaced in between is
stored as the old pages under the new stamp, and validates from then on.
`AnswersAreFresh` therefore speaks of the stamp only, and `WrongOnlyByRace`
excuses this case.

The bytes of a page are read after its manifest was compared, from whatever file is
there, and a stored manifest is believed without a look at the file. So bytes of a
new file under the old manifest are possible until somebody looks at the new file;
`PageIsOfManifest` says that they are not from then on: `relies` are the requests that
began when the ready manifest was the one of the file, which stayed, and the bytes
such a request sends are of the version its manifest was stamped for.

### SessionStore

`live` is the map of the process, `file` what is under the name of the store, `held`
the cookies in browsers, `out` the sessions whose logout was answered. One mutex is
held from the look at the map to the end of the write, so an operation is one step,
and `Dies` is a crash inside it: before the rename, after it, or, where a rename
cannot replace a file, between the two renames of
`replaceSessionStoreFile` (`stranded`: the store is only under `.previous`, which
nothing reads).

| action | code |
|---|---|
| `Start`, `Stop` | `newPersistentSessionStore` (read, prune, evict, write), the end of the process |
| `Add` | `add`: prune, make room, write; not written, nothing is handed out |
| `Valid` | `valid`, which prunes too and ignores that this cannot be written |
| `Revoke` | `revokeRequest`: answered when the file no longer has the session |

Signatures, cookies and permissions of the file are left out. That a stranded store
loses its sessions is a limitation of the code that `SessionsSurvive` excuses by name.

### LoginLimiter

`Check` is `blocked` (with its pruning), `FailLogin` `recordFailure`, `Succeed` and
`Basic` `reset`, `Refuse` a form that cannot be parsed, `Pass` the clock. Between
`Check` and the other section the body is read, for up to `ReadTime`, and
other attempts go on, so failures are counted that began before a block. `tries` and
`allTries` are history: every failure with its time, and a number so that failures of
one moment are counted one by one.

### Tags

`Accept` is `handleTagSave` up to its first statement; `AddTag` and `AddLink`,
`RemoveLink` and `Collect` are its statements, each committed alone, and `Abort` is
an error between them, after which what was written stays. `DeleteTag`, `Recolor` and
`Rename` (onto a new name or an existing one) are the transactions of
`handleTagManage`. Works and series have link tables of their own with the same
statements; one stands for both.

A limitation that the invariant excuses by name: a tag deleted between `AddTag` and
`AddLink` leaves a link without its tag (`orphans`), as foreign keys are declared but
not switched on; and an add that fails between the two leaves a tag on nothing
(`left`).

### ResponseCaches

`Save` takes the stamp of a single or batch correction (`nowISO`, `server_corrections.go`
99 and 164), `Commit` is its transaction, when the writer is free, and `Refused` a
wait in vain; so stamps are committed out of order. `ClearReview` and
`ClearDuplicates` are what the handler does after the commit, one after the other, and
an override does too. `ReviewMiss`, `ReviewCorrections`, `ReviewRows`, `ReviewStore` are
`buildReviewItemsCached` without the lock: the miss, corrections, rows, store. `AskDuplicates`, `LookUp`, `Query`, `Keep`
are `handleCoverDuplicates`: the version first, then the cache, then the rows, then
the store, which empties a full cache. `Rescan` is the scanner, a process that clears
neither. `overlapped` is history: of a review list, that something was saved while it
was computed; of duplicates, that a late decision was (`Late`).

The limitation it shows: a list that was computed across a correction is stored after
the cache was cleared and stays until the next one (`review.go` 394). A version is the
number of decisions and their newest stamp, in seconds. A hash that is decided again
with a stamp that is not newer than the newest one, because it is of the same second
or was taken before a wait for the writer, leaves the version as it was or brings one
back that has been: duplicates that were computed meanwhile are taken for current. Two
cover hashes are modelled, as the maximum over several is what hides a late stamp. Both
are excused only where they can happen.

### DuplicatePair

`CollectEvidence` is `duplicatePairEvidencePayload` with the row as it is,
`Decide` the statement that writes the row, `GiveUp` an error. The limitation it
shows (`mistaken`): ids are stored sorted and a preference is stored as it came, so
"prefer left" for a pair named in the other order prefers the other work.

### CatalogScan

The scanner's one deferred transaction is `scan.tx`; `db` is what is committed.

| action | code |
|---|---|
| `Begin` | `LoadConfig`, which needs every root, and `Scan` up to `ensureSchema` |
| `Enter`, `Visit` | `scanLibrary`: the walk, name by name, while `Change` and `LoseRoot` go on |
| `Replace` | `replaceLibraryCatalog` with `insertCandidate` for all that was found; it fails if the server has written since the snapshot |
| `Commit`, `End` | the commit; the end of the process, in any way |
| `Resolve`, `WriteOverride`, `Busy` | the server: `resolveMetadataOverrideWork`, the transaction of `handleMetadataOverrideSave`, a writer lock that is not had in time |

A work is its path; titles and pages are abstracted to its being there. Rows and
identities of a library are read together, so `wanted`, the overrides that were
answered, is compared with what the view would show. A limitation: a root that
cannot be read when the walk comes to it is an empty library
(`catalog.go` 272), and `ScansFindWhatStays` excuses it (`unread`).

### SchemaMigration

`Inspect` is the guard (`rejectUnsupportedLegacyMaintenanceState`),
`BeginMigration`, `Statement` and `CommitMigration` are `runSQLiteMigration` for
`local-schema-v1` and `catalog-schema-v1`; a step is a group of statements, and what
one makes is a part. `Break` is an error or a crash at any point, `Close` the scanner,
which opens the database for its schema only, `Retry` a refused process started
again, `Decide` an older build that hides a work meanwhile.

### RuntimeDiagnostics

`Ask` is `snapshotWithScanner` up to the wait (the kept result, the call under way, or
a new one), `Answer`, `Withdraw`, `Return` its ends; `Scan` takes the next directory
of the cache roots, `GiveUp` and `Publish` end the goroutine, `Advance` is the clock. A
directory that cannot be opened makes the result incomplete, a root that does not
exist does not (`runtime_diagnostics_lite.go` 255): it is among the `missing`, and a
complete size is of all that is below the others.

### ImportPlan

`List`, `OpenNext`, `HashFile`, `EndOfTree` walk the intake and then the library while
`Write` changes files; `Classify` is the rest of `Build`. The module checks the
grouped and sampled computation of the code (`buildConflictGroups`,
`differentContentSummary`, `exactMatchSummary`) against its plain meaning: compare a
file with all the others. The code sorts the indexes of a group by path and takes the
first few; here a group is the set of its paths, `Rank` says how many of them come
before a path, and the first few are those of small rank.

### ContinueTarget

`FindAnchors`, `TryBook`, `TrySeries`, `SeriesTried`, `NothingToContinue` are the loop
of `queryContinueTarget`; the operators between them are the functions of
`continue_target.go` and `series_resume.go` by name. The sorted rows are the set
`anchors` with their order `TriedBefore`; the next one is the one tried before all
others (`IsNext`). The property is a definition that does not loop: who read what
last, and what comes after it.

### MarkQueue

| action | code |
|---|---|
| `Give`, `SaveArrives`, `SaveAnswered`, `SaveLost` | a mark is queued and sent at once (`App.tsx` 2615-2870) |
| `ReadBack`, `Reconcile` | after a lost answer the server's value is read, and settles the mark when it is the same |
| `FlushStart` .. `FlushEnd` | `flushPendingUserMarks`: the list as it was at the start, item by item, then the list is written |
| `CloseTab`, `OtherDevice` | a tab goes with all it has under way; another device marks |

A limitation shown and excused (`matched`): a mark is settled when the server has
its value, even if another device gave that value at an older time, so something
older than the mark may still win later.

### ProgressQueue

| action | code |
|---|---|
| `Take`, `Arrive`, `Answered`, `Lost` | `persistReader`: queue first, send, acknowledge (`App.tsx` 3157-3223) |
| `TakeTogether` | two tabs queue at the same moment, neither sees the other's position, and the stamps may be equal (`progressQueue.ts` 224) |
| `FlushStart`, `FlushNext` | `flushPendingProgress`, oldest first; another manifest's positions wait (3111-3153) |
| `OpenFetch`, `Open` | a reader opens: the pending position against the stored one (2915-2973) |
| `MarkUnread`, `UnreadArrives`, `UnreadAnswered` | an "unread" is sent, by the reader or a flush, and its answer discards what is pending (2753-2778, 2889-2908, 2708-2722) |
| `UnreadLost`, `UnreadChecked` | no answer came, or not that it was reset: status and progress are fetched, and what is pending is discarded if they are "unread" and none (2779-2790, 2897-2903) |
| `Reload`, `CorrectClock`, `NewManifest`, `NewerElsewhere` | a tab goes, the device's clock is set right, the pages change, another device reads |

Of positions with equal stamps neither is older, so both stay; `Folds` and `Compactions`
are the choices that their random names make.

Limitations shown and excused by reason (`givenUp`): an "unread" that was stored
discards also what was read after it was sent (`App.tsx` 2722). An "unread" that was
not stored, because it was lost or refused for its clock, discards what is pending for a
work without a position on the server, since the status of a work that has no mark
row reads "unread" too (`server_user_marks.go` 1440). The oldest position over the limit
goes (`progressQueue.ts` 266), and stamps of a clock that was ahead are refused by the
server and acknowledged; no stamp of a clock that was always right is.

## 3. Runs

| run | asks | bounds | shows |
|---|---|---|---|
| `read_order` | do saves, migrations and status marks behave like a register? | 2 requests, all kinds and statuses, time 1..2, skew 2, lead 1, wait 1 | `AnsweredIsCovered`, `StoredStands`, `NoResurrection`, and that `ReadState` implements `ReadRegister` |
| `read_fields` | fields with clocks of their own, rows of older releases | 2 requests, saves and marks, "unread", one field, time 1..2, skew 1, wait 1, legacy rows | `FieldEventsCovered`, `MarkRowAgrees` |
| `read_rollback` | the server clock is set back | 2 requests, all kinds, two statuses, time 1..2, wait 1, rollback 1, legacy rows | `TombstoneExcludesProgress`, `UntrustedClockNeverBlocks` |
| `read_skew` | clients ahead by the tolerated skew, a wait for the writer | migrations, skew 1, lead 1, wait 1, time 1..3 | **violated**: `NoResurrection` (finding 1) |
| `lock` | every interleaving of the keyed lock; does every wait end? | 4 clients, 2 keys, 4 locks | `EntriesAreInUse`, refinement of `KeyedMutex`, `EveryWaitEnds` |
| `render` | the cache; can nested locks and permits deadlock? | 3 requests, one page of an archive and two files, 2 permits | single flight, no useless loads, permits accounted, `EveryRequestEnds` |
| `views` | two devices interleave batches; overlapping saves of the browse state; two tabs share a list of marks | 2 requests, 2 sorts, 2 lists, 3 events, batches of 2, 2 attempts; 3 devices, time 1..3; 2 tabs, 2 marks with 2 values, a list of 1, 2 marks given | `NewestDecides`, `AckedIsKept`, `ClocksOnlyGrow`; `LossNeedsOverlap`; `MarksAreKept` |
| `browse_race` | overlapping saves | 2 requests | **violated**: `KeepsNewest` (finding 2) |
| `manifest` | requests race, the file is replaced, stale marks fail | 2 requests, 2 versions, list and page requests, leftovers | `OneReady`, `ListingIsNeeded`, `PageIsOfManifest`, `AnswersAreFresh` |
| `manifest_mapped` | the same with a path mapping | 1 request, 2 versions | **violated**: `WrongOnlyByRace` (finding 3) |
| `server_state` | sessions over crashes, blocks, tags, caches, pairs | see below | `LoggedOutStaysOut`, `SessionsSurvive`, `BlocksAreEarned`, `TagRowsMatchLinks`, `StaleReviewNeedsOverlap`, `StaleDuplicatesNeedLateDecision`, `DecisionStands` |
| `catalog` | scans beside edits, migrations, diagnostics, import plans, what to continue, queued positions | see below | `WorksKeepTheirOverrides`, `ScansFindWhatStays`, `ReadersFindTheSchema`, `RefusedStaysUntouched`, `SizesAreWholeAndRecent`, `PlanComparesAllFiles`, `PlanIsOfWholeFiles`, `ContinuesWhereTheReaderStopped`, `PositionsAreKept` |

`views`, `server_state` and `catalog` hold several modules side by side that share no
state, and a behaviour moves only one of them (variable `part`; the others stay in one
initial state): what they check is what one run per module would check, as a run of
independent modules together only interleaves their steps.

Why the bounds are enough to be interesting. Two requests at a time in
`ReadState` give every pair of transactions with every amount of waiting, and as
requests are reused, sequences of any length; times 1..2 with lead 1 and `BadTime`
give stamps that are missing, unreadable, older, equal, newer, and (with a small
skew) in the future. Four clients on two keys make a lock be shared, abandoned and
re-created at once. Three requests for three paths and two permits make one request
wait for a permit with its locks held, and two permits let a lock that is not shared
show (with one, the permit would exclude builders by itself). Three events are the
fewest with a move, a new sort order and a late one. Two versions of a file that
change back and forth give every mixture of listing, stamping and validating.

Bounds of `server_state`. Three sessions with limits 1 and 2 evict at a login and at
a start with a lower limit, and a life of 2 in 4 units of time lets sessions expire in
memory and in the file. Two attempts from two addresses, limits 2 and 3, a window of 1
and a block of 2 make blocks of an address and of the account begin, run out and be
prolonged by attempts that began before them. Two requests, targets and tags are
every pair of statements of two adds and removals, with any number of renames between.
Two handlers, two searches with room for one, two hashes, two saves in two seconds put a
correction at every point of a computation, a second one in the same second, and one
that was stamped in the second before. Two
deciders of one pair with a hash of one bit give every order of reading and writing.

Bounds of `catalog`. Two libraries, in one of which two names have one path, and two
changes of the disk: a work moves while it is scanned, or a root is lost and comes
back. Two servers and a scanner start on each of five databases and break off
anywhere. Two askers, two roots, one with a directory below it, and two entries at most: the
limit is met in every directory, and either root may be missing. Three paths in each of two trees, two contents and
samples of two: a file has more matches than are named, and one write changes a file
while it is hashed. Four books in two series, with two editions of one number and a
book that both series have. Two tabs and two positions, taken one after the other or at once, of one work with two
manifests and a queue of one or two; and, with one manifest and a queue of two, a clock
that is two ahead where one is tolerated.

The proofs then remove the bounds for the properties they cover.

Fairness. `KeyedLock`: sections under the mutex end and every caller defers the
release function (weak fairness of each client's own steps); the Go runtime serves
blocked senders of a channel in order, so a client that waits is not passed over
for ever (strong fairness of `Lock`). `RenderCache`: weak fairness of a request's
own work, strong fairness of its waits for the same reason. No client is ever
assumed to give up, so cancellation is not what makes requests end. The other
modules state safety only: their requests may be lost at any point, and nothing in
the code promises that a browser comes back to deliver what it queued.

Deadlock is checked in all runs but `views`, `server_state` and `catalog`, where a
behaviour may rightly stop: a plan or a search for the next book ends, the marks that
may be given are used up, and a bounded clock stands still.

## 4. Proofs

All theorems are for every value of the constants that the named assumptions allow: any
number of requests and keys, any skew, lead and wait, any number of fields, sorts,
lists, attempts, sessions, libraries, names, processes and directories, tabs, positions
and marks, files of a plan, books and series. Every safety property that a run expects
to hold is proved; the runs find mistakes early, on small instances.

* `ReadState_proofs`: `ReadStateTypes`, `TombstonesExcludeProgress` and `MarkRowsAgree`
  need no clock discipline. The last two rest on `Rows` (what rows imply about each
  other). `AnsweredEventsAreCovered`, `StoredEventsStand` and `NothingIsResurrected`
  assume `ClockDiscipline`. Their inductive invariant is `Order`: types, `Rows`,
  `Bounds` (every stored clock is at most `now + ClientLead`, every waiting request
  sampled at most `LockWait` ago, so no stored clock is ever untrusted: lemma
  `AllTrusted`), and the two properties. `Bounds` is the strengthening: without it an
  invariant about order is not preserved by a transaction that distrusts a clock, which
  is finding 1. `ReadStateIsARegister` is the refinement of `ReadRegister`, step by
  step: `Plain` says that the mark row carries the newest time there is, so that clock
  is the register's, and each of the transactions is a step of the register or changes
  nothing of it. It assumes `~Legacy` besides: rows of an older release have a status
  without a clock. `AnsweredFieldsAreCovered` assumes less, `Patient` (lead and wait
  together stay within the skew): it needs no order between requests, only that a
  field's clock never goes back while the server clock does not (`FieldInv`).
  `OnlyTrustedClocksRefuse` assumes nothing; it is read off each branch that refuses.
* `KeyedLock_proofs`: the invariant `LockInv` adds that a client's lock is the one in
  the map for its key, that locks of different keys differ, that the count is the number
  of users, and that a held lock's channel is full. From it: types, `LocksExclude`
  (mutual exclusion), `EntriesMatchUse` and the refinement `ImplementsKeyedMutex`.
* `RenderCache_proofs`: `RenderInv` says which locks and permits a request has at each
  stage, that locks are exclusive and that a request that builds builds a missing file.
  From it `LoadsAreForMissingFiles`, `PermitsBoundRendering`, and the refinement
  `BuildsFlySingle`.
* `SavedViews_proofs` has an invariant per module. `LibraryInv` says what is known of
  the row (every clock names a made mutation, the list of the sort event), of the row a
  request read, and that everything a request has dealt with is covered. From it
  `AcknowledgedIsKept`, `NewestEventDecides`, `RowClocksGrow`. For the browse state,
  `OverlapIsNeeded` for any number of devices, and `SavesInTurnKeepNewest`: with one
  handler at a time the property of finding 2 holds, so overlap is all that breaks it.
  `MarkQueueInv`: of each key one mark is pending, what a flush is through with is on
  the server or among what failed, and what a tab is about to take off the list is on
  the server or was found there (`MarksAreNeverLost`). One step changes the list for all
  tabs, so each action is shown to keep what every other tab has in hand.
* `PageManifest_proofs`: `ManifestInv` says that who discovers holds the lock, that the
  holder has seen every ready manifest (so that none is ready when it lists), and that
  while the file stays a stamp is the file's. `AtMostOneReady` and `ListingsAreNeeded`
  are about what happens until a stale mark is lost (an ignored error leaves a second
  manifest ready), `AnswersCarryTheStamp` assumes `~Mapped`, `ManifestTypes` nothing.
  `PagesAreOfTheirManifest` assumes `~Mapped` and needs more than `ManifestInv`: while
  the file stays, whatever becomes ready has its stamp, through the steps of every
  other request (`Kept`), so a request that began then is answered with a manifest of
  that stamp or refused. `OnlyMappedPathsMislead` is the other side of
  finding 3: without a mapping its property holds.
* `ServerState_proofs` has an invariant per module. `SessionInv`: what the file has
  besides the map has expired, so a start cannot bring back what was logged out, and a
  session that is handed out is in both (`LogoutsStand`, `SessionsOutliveCrashes`).
  `TagInv`: a request between the statements of an add relies on a row that is there
  unless it was overtaken (`TagsMatch`). `PairInv`: evidence that is not stale is the
  row's, and the score does not depend on the order of the pair (`DecisionsStand`).
  `CacheInv`: unless a late decision came, a version that has passed never comes back,
  and what a request has read under the present one is what it would read now (`ReviewsFollowCorrections`,
  `DuplicatesFollowDecisions`). `LimiterInv`: what an entry counts was logged in the
  window that began with its first failure, and a block that stands was earned in the
  window before it began (`BlocksAreAlwaysEarned`).
* `Catalog_proofs` has one per module too. `CatalogInv`: rows, identities and history
  agree in what is committed and in the transaction, what the walk of a library has
  found so far is what was on disk at every visited name that nobody touched, and so are
  the rows of the libraries it is through with (`WorksKeepWhatUsersWrote`,
  `ScansAreFaithful`). `SchemaInv`: after k statements a migration's transaction has
  what `Through` says, so none ends without a part that was there when it began, and the
  second finds the parts of the first (`ReadersAlwaysFind`, `RefusedIsUntouched`).
  `DiagnosticsInv`: what is below a counted directory is counted or pending, so a
  complete scan leaves out nothing but missing roots, and who waits for a call
  asked before it ended (`SizesAreSound`). `ImportInv`: while nobody writes, what is
  neither listed nor open has its hash (`PlansAreOfWholeFiles`), and a finished plan is
  what `Classification` says of each file. That this is what comparing each file with
  each other one says is a theorem about operators (`PlansCompareAllFiles`): ranks order
  a set of paths, the first few of a sorted union are the first few of what is first of
  each part, and leaving one content out of the first few of a group takes the first few
  of the rest.
* `Reading_proofs`: `ProgressQueueInv` says of what a tab has in hand that it was taken,
  and, once it is answered, that the server has it or something newer or refused it for
  a clock that was not always right (`PositionsAreNeverLost`). `ContinueInv` says of the
  books that were tried that they come before all that are left and that nothing is
  offered by them or by the series that were tried. The lemmas below it say what the
  loops of the code find: `LastReadLeads` the last of the highest in a sequence,
  `CursorIsReadLast` the book of a series read last, and `SeriesTargets` that a series
  gives a book exactly when it offers one (`ContinuesFromWhatWasReadLast`).

Induction. A recursive function on `0..n` (`LastRead`, `Without`) is reasoned about with
`UpTo`, which is induction for a set of numbers: it follows from the smallest element of
its complement, which the library states for sets. That the function exists is shown
first, by extending it one number at a time.

Assumptions on constants are the named `ASSUME`s of each module; they say that bounds
are numbers, sets that are counted are finite, model values for "nothing" are not
members, for `RuntimeDiagnostics` that no root is below another, and for
`ContinueTarget` that a series has a book at one place only.

Only model-checked. `EveryWaitEnds` and `EveryRequestEnds` are liveness under fairness,
which is out of the prover's reach. The three properties of section 5 do not hold as
they stand; the theorems named above say when two of them do, and `NothingIsResurrected`
when the third does.

## 5. Findings

1. `read_skew`: `storeMigratedProgress` (and `handleProgressSave`) sample the
   server clock before they wait for the writer lock. A stamp another request was
   right to accept during that wait can look further ahead than the skew, is
   treated as untrusted, and an older event replaces a newer one. The comment at
   `server_progress.go` 775 says the lock is taken before the clocks are read: the
   stored clocks are, the server clock is not.
2. `browse_race`: `handleBrowseStateSave` compares with a row it read earlier and
   then overwrites unconditionally; of two overlapping saves the older can stay.
3. `manifest_mapped`: archives are opened through the path mapping, the stamp is
   taken of the path without it. Where the two differ there is no stamp, the stored
   rows are compared with themselves, and a replaced file goes unnoticed.

## 6. Plan

Done, in this order, most important first: read state; keyed lock; thumbnail
cache; library page state; browse state; page manifests; sessions and login; tags;
response caches and pair decisions; catalogue scan with overrides; schema migration;
runtime diagnostics; import plan; continue target; the two queues of the client.

Next:

1. The branch of the mark handler for series, as a second instance of `ReadState`'s
   marks without progress and tombstone.
2. Proofs: that `ProgressQueue`'s server is what `ReadState` implements, which needs
   the composition below.
3. Composition of `ProgressQueue` with `ReadState`: its server as an abstraction that
   `ReadState` implements.

New modules join the runs that exist where their questions are alike, side by side as
in `MCSavedViews`, so that the list of runs stays short enough to read.

Shown by a model and excused by name in its property, because nothing in the
repository promises otherwise: besides the limitations described with their modules
in section 2, that `BrowseState` stores any readable stamp however far in the future,
so one device with a wrong clock freezes the state for the others
(`server_browse_state.go` 151; the hazard has no property).

Not modelled:

* The shelf, works, series, discovery and related works: read-only queries, text
  matching and weights. They keep nothing, and a model would copy the SQL.
* Decoding, choosing and resizing images; ZIP files, limits on archives and HTTP
  ranges: I/O without state of its own. The locks and the cache around them are in
  `RenderCache`, the manifests in `PageManifest`.
* Routing, compression, path mapping (but for its effect on stamps), the login page.
* The client's library page sync: what it shows at once is the server's merge done
  again in the browser, and the cut of its queue to two sort epochs is arithmetic on
  lists; the server's half, which decides, is `LibraryPageState`.
* The client's reader, caches and views: one tab's presentation.
