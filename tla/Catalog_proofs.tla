---------------------------- MODULE Catalog_proofs ----------------------------
(***************************************************************************)
(* What holds of the catalog, the schema of the database, the diagnostics    *)
(* and the import plan, for all libraries, names, processes, directories and *)
(* files.                                                                    *)
(***************************************************************************)
EXTENDS CatalogScan, SchemaMigration, RuntimeDiagnostics, ImportPlan,
        FiniteSetTheorems, SequenceTheorems, TLAPS

(***************************************************************************)
(* The catalog.  What is committed and what the transaction of a scan has   *)
(* agree on which works are there: their rows, their identities and their   *)
(* history.  Of a library that was walked, the transaction has what was     *)
(* found, and that is what was on the disk at every name nobody touched.    *)
(***************************************************************************)
Catalogs ==
  [rows : [Libraries -> SUBSET Paths],
   identities : [Libraries -> [Paths -> {"none", "matched", "orphaned"}]],
   active : [Libraries -> SUBSET Paths],
   indexed : BOOLEAN]

Agree(t) ==
  \A l \in Libraries, p \in Paths :
    /\ t.identities[l][p] = "matched" <=> p \in t.rows[l]
    /\ p \in t.active[l] <=> p \in t.rows[l]

Scans ==
  [stage : {"walk", "done"}, left : SUBSET Libraries, library : Libraries \cup {NoTitle},
   visited : SUBSET Names, found : SUBSET Names, tx : Catalogs, locked : BOOLEAN, stale : BOOLEAN,
   touched : SUBSET (Libraries \X Names), unread : SUBSET Libraries, libraries : SUBSET Libraries]

CatalogTypeOK ==
  /\ disk \in [Libraries -> SUBSET Names]
  /\ db \in Catalogs
  /\ scan \in Scans \cup {NoScan}

WorksAgree == Agree(db) /\ (Scanning => Agree(scan.tx)) /\ wanted = overrides

\* What the rows of library l say of the names nobody touched is what the disk has.
Found(rows, l) ==
  \A p \in Paths :
    LET named == {n \in Names : PathOf[l][n] = p}
    IN  (\A n \in named : <<l, n>> \notin scan.touched)
          => (named \cap disk[l] # {} <=> p \in rows[l])

WalkStands ==
  scan.stage = "walk" =>
    /\ scan.library \notin scan.left
    /\ scan.unread \cap scan.left = {}
    /\ \A l \in scan.libraries \ (scan.left \cup scan.unread \cup {scan.library}) : Found(scan.tx.rows, l)
    /\ scan.library # NoTitle =>
         /\ scan.found \subseteq scan.visited
         /\ scan.library \notin scan.unread =>
              \A n \in scan.visited : <<scan.library, n>> \notin scan.touched =>
                (n \in scan.found <=> n \in disk[scan.library])

DoneStands ==
  scan.stage = "done" => \A l \in scan.libraries \ scan.unread : Found(db.rows, l)

CatalogInv == CatalogTypeOK /\ WorksAgree /\ WalkStands /\ DoneStands

\* A library that is replaced has what was found, and the others what they had.
LEMMA ReplacedAgree ==
  ASSUME NEW t \in Catalogs, Agree(t), NEW l \in Libraries, NEW paths \in SUBSET Paths
  PROVE  LET u == Inserted(Reset(t, l), l, paths)
         IN  u \in Catalogs /\ Agree(u) /\ u.rows = [t.rows EXCEPT ![l] = paths]
<1>. DEFINE identities == [t.identities EXCEPT
                             ![l] = [p \in Paths |-> IF @[p] = "matched" THEN "orphaned" ELSE @[p]]]
            again == [identities EXCEPT ![l] = [p \in Paths |-> IF p \in paths THEN "matched" ELSE @[p]]]
            r == [t EXCEPT !.rows = [t.rows EXCEPT ![l] = {}], !.identities = identities,
                           !.active = [t.active EXCEPT ![l] = {}]]
            u == [r EXCEPT !.rows = [r.rows EXCEPT ![l] = @ \cup paths], !.identities = again,
                           !.active = [r.active EXCEPT ![l] = @ \cup paths]]
<1>1. /\ t.rows \in [Libraries -> SUBSET Paths] /\ t.active \in [Libraries -> SUBSET Paths]
      /\ t.identities \in [Libraries -> [Paths -> {"none", "matched", "orphaned"}]]
  BY DEF Catalogs
<1>2. /\ identities \in [Libraries -> [Paths -> {"none", "matched", "orphaned"}]]
      /\ \A p \in Paths : identities[l][p] # "matched"
      /\ \A m \in Libraries \ {l} : identities[m] = t.identities[m]
  BY <1>1
<1>3. Reset(t, l) = r
  BY DEF Reset
<1>. HIDE DEF identities
<1>4. /\ r \in Catalogs /\ r.identities = identities
      /\ r.rows = [t.rows EXCEPT ![l] = {}] /\ r.active = [t.active EXCEPT ![l] = {}]
  <2>. DEFINE rows == [t.rows EXCEPT ![l] = {}]
              active == [t.active EXCEPT ![l] = {}]
  <2>1. rows \in [Libraries -> SUBSET Paths] /\ active \in [Libraries -> SUBSET Paths]
    BY <1>1
  <2>. HIDE DEF rows, active
  <2>2. [t EXCEPT !.rows = rows, !.identities = identities, !.active = active] \in Catalogs
    BY <1>2, <2>1 DEF Catalogs
  <2>. QED
    BY <2>2 DEF Catalogs, rows, active
<1>. HIDE DEF r
<1>5. Inserted(r, l, paths) = u
  BY <1>4 DEF Inserted
<1>6. /\ again \in [Libraries -> [Paths -> {"none", "matched", "orphaned"}]]
      /\ \A p \in Paths : again[l][p] = "matched" <=> p \in paths
      /\ \A m \in Libraries \ {l} : again[m] = t.identities[m]
  BY <1>2
<1>. HIDE DEF again
<1>7. /\ u \in Catalogs /\ u.identities = again
      /\ u.rows = [t.rows EXCEPT ![l] = paths] /\ u.active = [t.active EXCEPT ![l] = paths]
  <2>. DEFINE rows == [t.rows EXCEPT ![l] = paths]
              active == [t.active EXCEPT ![l] = paths]
  <2>1. rows \in [Libraries -> SUBSET Paths] /\ active \in [Libraries -> SUBSET Paths]
    BY <1>1
  <2>2. rows = [r.rows EXCEPT ![l] = @ \cup paths] /\ active = [r.active EXCEPT ![l] = @ \cup paths]
    BY <1>1, <1>4
  <2>. HIDE DEF rows, active
  <2>3. [r EXCEPT !.rows = rows, !.identities = again, !.active = active] \in Catalogs
    BY <1>4, <1>6, <2>1 DEF Catalogs
  <2>. QED
    BY <1>4, <2>2, <2>3 DEF Catalogs, rows, active
<1>. HIDE DEF u
<1>8. Agree(u)
  BY <1>1, <1>6, <1>7 DEF Agree
<1>. QED
  BY <1>3, <1>5, <1>7, <1>8

LEMMA CatalogInvInit == CatalogInit => CatalogInv
<1>. SUFFICES ASSUME CatalogInit PROVE CatalogInv
  OBVIOUS
<1>1. scan.stage = "off" /\ scan = NoScan /\ ~Scanning
  BY DEF CatalogInit, NoScan, Scanning
<1>2. db \in Catalogs /\ Agree(db)
  BY DEF CatalogInit, Catalogs, Agree
<1>. QED
  BY <1>1, <1>2 DEF CatalogInit, CatalogInv, CatalogTypeOK, WorksAgree, WalkStands, DoneStands

\* What scans have in common.
LEMMA ScanFields ==
  ASSUME CatalogTypeOK
  PROVE  /\ Scanning <=> scan \in Scans
         /\ Scanning <=> scan.stage \in {"walk", "done"}
BY DEF CatalogTypeOK, Scanning, NoScan, Scans

\* A change of the disk: what is said is said of the names that nobody touched.
LEMMA ChangeKeeps ==
  ASSUME CatalogInv, NEW l \in Libraries, NEW n \in Names, Change(l, n)
  PROVE  CatalogInv'
<1>. USE DEF CatalogInv
<1>1. /\ UNCHANGED <<roots, db, overrides, save, wanted>>
      /\ disk' = [disk EXCEPT ![l] = IF n \in @ THEN @ \ {n} ELSE @ \cup {n}]
      /\ scan' = IF Scanning THEN [scan EXCEPT !.touched = @ \cup {<<l, n>>}] ELSE scan
  BY DEF Change
<1>2. /\ disk' \in [Libraries -> SUBSET Names]
      /\ \A k \in Libraries, m \in Names : <<k, m>> # <<l, n>> => (m \in disk'[k] <=> m \in disk[k])
  BY <1>1 DEF CatalogTypeOK
<1>3. CASE ~Scanning
  BY <1>1, <1>2, <1>3, ScanFields
     DEF CatalogTypeOK, WorksAgree, WalkStands, DoneStands, Scanning, NoScan, Agree
<1>4. CASE Scanning
  <2>1. scan \in Scans
    BY <1>4, ScanFields
  <2>2. /\ scan' \in Scans /\ scan'.stage = scan.stage /\ scan'.left = scan.left
        /\ scan'.library = scan.library /\ scan'.visited = scan.visited /\ scan'.found = scan.found
        /\ scan'.tx = scan.tx /\ scan'.unread = scan.unread /\ scan'.libraries = scan.libraries
        /\ scan'.touched = scan.touched \cup {<<l, n>>}
    BY <1>1, <1>4, <2>1 DEF Scans
  <2>3. ASSUME NEW rows, NEW k \in Libraries, Found(rows, k)
        PROVE  \A p \in Paths :
                 LET named == {m \in Names : PathOf[k][m] = p}
                 IN  (\A m \in named : <<k, m>> \notin scan'.touched)
                       => (named \cap disk'[k] # {} <=> p \in rows[k])
    BY <1>2, <2>2, <2>3 DEF Found
  <2>4. CatalogTypeOK' /\ WorksAgree'
    BY <1>1, <1>2, <1>4, <2>2 DEF CatalogTypeOK, WorksAgree, Agree, Scanning
  <2>5. WalkStands'
    BY <1>2, <2>1, <2>2, <2>3 DEF WalkStands, Found, Scans
  <2>6. DoneStands'
    <3>. SUFFICES ASSUME scan.stage = "done", NEW k \in scan.libraries \ scan.unread
                  PROVE  Found(db.rows, k)'
      BY <1>1, <2>2 DEF DoneStands
    <3>1. k \in Libraries /\ Found(db.rows, k)
      BY <2>1 DEF DoneStands, Scans
    <3>. QED
      BY <1>1, <2>3, <3>1 DEF Found
  <2>. QED
    BY <2>4, <2>5, <2>6
<1>. QED
  BY <1>3, <1>4

\* Steps of the scanner that leave the disk and what is committed alone.
LEMMA WalkKeeps ==
  ASSUME CatalogInv,
         \/ \E l \in Libraries : Enter(l)
         \/ \E libraries \in SUBSET Libraries : Begin(libraries)
         \/ \E n \in Names : Visit(n)
         \/ Replace
  PROVE  CatalogInv'
<1>. USE DEF CatalogInv
<1>1. UNCHANGED <<disk, db, overrides, wanted>>
  BY DEF Enter, Begin, Visit, Replace
<1>2. ASSUME NEW libraries \in SUBSET Libraries, Begin(libraries) PROVE CatalogInv'
  <2>1. scan' = [stage |-> "walk", left |-> libraries, library |-> NoTitle, visited |-> {}, found |-> {},
                 tx |-> [db EXCEPT !.indexed = TRUE], locked |-> ~db.indexed, stale |-> FALSE,
                 touched |-> {}, unread |-> {}, libraries |-> libraries]
    BY <1>2 DEF Begin
  <2>2. [db EXCEPT !.indexed = TRUE] \in Catalogs /\ Agree([db EXCEPT !.indexed = TRUE])
    BY DEF CatalogTypeOK, WorksAgree, Catalogs, Agree
  <2>3. (~db.indexed) \in BOOLEAN
    BY Zenon
  <2>4. scan' \in Scans
    BY <2>1, <2>2, <2>3, Zenon DEF Scans
  <2>5. CatalogTypeOK'
    BY <1>1, <2>4 DEF CatalogTypeOK
  <2>6. WorksAgree'
    BY <1>1, <2>1, <2>2 DEF WorksAgree, Agree
  <2>7. WalkStands' /\ DoneStands'
    BY <2>1, CatalogScanAssumption DEF WalkStands, DoneStands
  <2>. QED
    BY <2>5, <2>6, <2>7
<1>3. ASSUME NEW l \in Libraries, Enter(l) PROVE CatalogInv'
  <2>1. /\ scan.stage = "walk" /\ scan.library = NoTitle /\ l \in scan.left
        /\ scan' = [scan EXCEPT !.library = l, !.left = @ \ {l}, !.found = {},
                                !.visited = IF l \in roots THEN {} ELSE Names,
                                !.unread = IF l \in roots THEN @ ELSE @ \cup {l}]
    BY <1>3 DEF Enter
  <2>2. scan \in Scans /\ Scanning
    BY <2>1, ScanFields
  <2>3. /\ scan' \in Scans /\ scan'.stage = "walk" /\ scan'.library = l /\ scan'.left = scan.left \ {l}
        /\ scan'.found = {} /\ scan'.visited = (IF l \in roots THEN {} ELSE Names)
        /\ scan'.unread = (IF l \in roots THEN scan.unread ELSE scan.unread \cup {l})
        /\ scan'.tx = scan.tx /\ scan'.touched = scan.touched /\ scan'.libraries = scan.libraries
    BY <2>1, <2>2 DEF Scans
  <2>4. CatalogTypeOK' /\ WorksAgree' /\ DoneStands'
    BY <1>1, <2>2, <2>3 DEF CatalogTypeOK, WorksAgree, Agree, Scanning, DoneStands
  <2>5. \A k \in scan'.libraries \ (scan'.left \cup scan'.unread \cup {scan'.library}) :
          k \in scan.libraries \ (scan.left \cup scan.unread \cup {scan.library})
    BY <2>1, <2>2, <2>3, CatalogScanAssumption DEF Scans
  <2>6. WalkStands'
    BY <1>1, <2>1, <2>3, <2>5 DEF WalkStands, Found
  <2>. QED
    BY <2>4, <2>6
<1>4. ASSUME NEW n \in Names, Visit(n) PROVE CatalogInv'
  <2>1. /\ scan.stage = "walk" /\ scan.library # NoTitle /\ n \notin scan.visited
        /\ scan' = [scan EXCEPT !.visited = @ \cup {n},
                                !.found = IF n \in disk[scan.library] THEN @ \cup {n} ELSE @]
    BY <1>4 DEF Visit
  <2>2. scan \in Scans /\ Scanning
    BY <2>1, ScanFields
  <2>3. /\ scan' \in Scans /\ scan'.stage = "walk" /\ scan'.library = scan.library
        /\ scan'.left = scan.left /\ scan'.unread = scan.unread /\ scan'.tx = scan.tx
        /\ scan'.visited = scan.visited \cup {n}
        /\ scan'.found = (IF n \in disk[scan.library] THEN scan.found \cup {n} ELSE scan.found)
        /\ scan'.touched = scan.touched /\ scan'.libraries = scan.libraries
    BY <2>1, <2>2 DEF Scans
  <2>4. CatalogTypeOK' /\ WorksAgree' /\ DoneStands'
    BY <1>1, <2>2, <2>3 DEF CatalogTypeOK, WorksAgree, Agree, Scanning, DoneStands
  <2>5. WalkStands'
    BY <1>1, <2>1, <2>3 DEF WalkStands, Found
  <2>. QED
    BY <2>4, <2>5
<1>5. CASE Replace
  <2>. DEFINE l == scan.library
              paths == {PathOf[l][n] : n \in scan.found}
              after == Inserted(Reset(scan.tx, l), l, paths)
  <2>1. /\ scan.stage = "walk" /\ l # NoTitle /\ scan.visited = Names
        /\ scan' = [scan EXCEPT !.locked = TRUE, !.library = NoTitle, !.tx = after]
    BY <1>5 DEF Replace
  <2>2. scan \in Scans /\ Scanning /\ l \in Libraries
    BY <2>1, ScanFields DEF Scans
  <2>3. paths \subseteq Paths
    BY <2>2, CatalogScanAssumption DEF Scans
  <2>4. after \in Catalogs /\ Agree(after) /\ after.rows = [scan.tx.rows EXCEPT ![l] = paths]
    <3>1. scan.tx \in Catalogs /\ Agree(scan.tx)
      BY <2>2 DEF Scans, WorksAgree
    <3>. HIDE DEF paths, l
    <3>. QED
      BY <2>2, <2>3, <3>1, ReplacedAgree
  <2>. HIDE DEF after
  <2>5. /\ scan' \in Scans /\ scan'.stage = "walk" /\ scan'.library = NoTitle /\ scan'.tx = after
        /\ scan'.left = scan.left /\ scan'.unread = scan.unread /\ scan'.libraries = scan.libraries
        /\ scan'.touched = scan.touched
    BY <2>1, <2>2, <2>4 DEF Scans
  <2>6. CatalogTypeOK' /\ WorksAgree' /\ DoneStands'
    BY <1>1, <2>2, <2>4, <2>5 DEF CatalogTypeOK, WorksAgree, Agree, Scanning, DoneStands
  <2>7. l \notin scan.unread => \A p \in Paths :
          LET named == {n \in Names : PathOf[l][n] = p}
          IN  (\A n \in named : <<l, n>> \notin scan.touched)
                => (named \cap disk[l] # {} <=> p \in paths)
    <3>1. /\ scan.found \subseteq Names
          /\ l \notin scan.unread => \A n \in Names : <<l, n>> \notin scan.touched =>
               (n \in scan.found <=> n \in disk[l])
      BY <2>1, <2>2 DEF WalkStands, Scans
    <3>. QED
      BY <3>1
  <2>8. ASSUME NEW k \in scan.libraries \ (scan.left \cup scan.unread) PROVE Found(after.rows, k)
    <3>1. k \in Libraries /\ scan.tx.rows \in [Libraries -> SUBSET Paths]
      BY <2>2 DEF Scans, Catalogs
    <3>2. CASE k = l
      BY <2>4, <2>7, <3>1, <3>2 DEF Found
    <3>3. CASE k # l
      <4>1. Found(scan.tx.rows, k)
        BY <2>1, <3>3 DEF WalkStands
      <4>2. after.rows[k] = scan.tx.rows[k]
        BY <2>4, <3>1, <3>3
      <4>. QED
        BY <4>1, <4>2 DEF Found
    <3>. QED
      BY <3>2, <3>3
  <2>9. scan'.library \notin scan'.left
    BY <2>2, <2>5, CatalogScanAssumption DEF Scans
  <2>10. WalkStands'
    BY <1>1, <2>1, <2>5, <2>8, <2>9 DEF WalkStands, Found
  <2>. QED
    BY <2>6, <2>10
<1>. QED
  BY <1>2, <1>3, <1>4, <1>5

LEMMA CommitKeeps ==
  ASSUME CatalogInv, Commit
  PROVE  CatalogInv'
<1>. USE DEF CatalogInv
<1>1. /\ scan.stage = "walk" /\ scan.library = NoTitle /\ scan.left = {} /\ db' = scan.tx
      /\ scan' = [scan EXCEPT !.stage = "done", !.locked = FALSE]
      /\ UNCHANGED <<disk, overrides, wanted>>
  BY DEF Commit
<1>2. scan \in Scans /\ Scanning
  BY <1>1, ScanFields
<1>3. /\ scan' \in Scans /\ scan'.stage = "done" /\ scan'.tx = scan.tx /\ scan'.touched = scan.touched
      /\ scan'.unread = scan.unread /\ scan'.libraries = scan.libraries
  BY <1>1, <1>2 DEF Scans
<1>4. CatalogTypeOK' /\ WorksAgree'
  BY <1>1, <1>2, <1>3 DEF CatalogTypeOK, WorksAgree, Agree, Scanning, Scans
<1>5. \A l \in scan.libraries \ scan.unread : Found(scan.tx.rows, l)
  BY <1>1, <1>2, CatalogScanAssumption DEF WalkStands, Scans
<1>6. WalkStands' /\ DoneStands'
  BY <1>1, <1>3, <1>5 DEF WalkStands, DoneStands, Found
<1>. QED
  BY <1>4, <1>6

\* The server's steps, the end of a scan, and a root that goes or comes back.
LEMMA OtherStepsKeep ==
  ASSUME CatalogInv,
         \/ End \/ WriteOverride \/ Busy
         \/ \E l \in Libraries : LoseRoot(l)
         \/ \E l \in Libraries, p \in Edited, title \in Titles \cup {NoTitle} : Resolve(l, p, title)
         \/ UNCHANGED catalogVars
  PROVE  CatalogInv'
<1>. USE DEF CatalogInv
<1>1. /\ UNCHANGED <<disk, db>> /\ wanted' = overrides'
  BY DEF End, WriteOverride, Busy, LoseRoot, Resolve, catalogVars, WorksAgree
<1>2. \/ scan' = scan \/ scan' = NoScan
      \/ Scanning /\ scan' = [scan EXCEPT !.stale = scan.stage = "walk"]
  BY DEF End, WriteOverride, Busy, LoseRoot, Resolve, catalogVars
<1>3. CASE scan' = scan
  BY <1>1, <1>3 DEF CatalogTypeOK, WorksAgree, Agree, Scanning, WalkStands, DoneStands, Found
<1>4. CASE scan' = NoScan
  BY <1>1, <1>4 DEF CatalogTypeOK, WorksAgree, Agree, Scanning, WalkStands, DoneStands, NoScan
<1>5. CASE Scanning /\ scan' = [scan EXCEPT !.stale = scan.stage = "walk"]
  <2>1. scan \in Scans
    BY <1>5, ScanFields
  <2>2. /\ scan' \in Scans /\ scan'.stage = scan.stage /\ scan'.left = scan.left
        /\ scan'.library = scan.library /\ scan'.visited = scan.visited /\ scan'.found = scan.found
        /\ scan'.tx = scan.tx /\ scan'.unread = scan.unread /\ scan'.libraries = scan.libraries
        /\ scan'.touched = scan.touched
    BY <1>5, <2>1 DEF Scans
  <2>3. CatalogTypeOK' /\ WorksAgree'
    BY <1>1, <1>5, <2>2 DEF CatalogTypeOK, WorksAgree, Agree, Scanning
  <2>4. WalkStands' /\ DoneStands'
    BY <1>1, <2>2 DEF WalkStands, DoneStands, Found
  <2>. QED
    BY <2>3, <2>4
<1>. QED
  BY <1>2, <1>3, <1>4, <1>5

LEMMA CatalogInvariant == CatalogSpec => []CatalogInv
<1>1. CatalogInv /\ [CatalogNext]_catalogVars => CatalogInv'
  BY ChangeKeeps, WalkKeeps, CommitKeeps, OtherStepsKeep DEF CatalogNext
<1>. QED
  BY <1>1, CatalogInvInit, PTL DEF CatalogSpec

\* Every work of the catalog shows the override last answered for it, whatever is
\* scanned, fails or is killed.
THEOREM WorksKeepWhatUsersWrote == CatalogSpec => []WorksKeepTheirOverrides
<1>1. CatalogInv => WorksKeepTheirOverrides
  BY DEF CatalogInv, WorksAgree, Agree, WorksKeepTheirOverrides, Catalogued, Shown
<1>. QED
  BY <1>1, CatalogInvariant, PTL

\* A scan that succeeds catalogs exactly what was there, of the names that nobody
\* touched below the roots it could read.
THEOREM ScansAreFaithful == CatalogSpec => []ScansFindWhatStays
<1>1. CatalogInv => ScansFindWhatStays
  <2>. SUFFICES ASSUME CatalogInv, scan.stage = "done" PROVE ScansFindWhatStays
    BY DEF ScansFindWhatStays
  <2>. QED
    BY DEF CatalogInv, DoneStands, Found, ScansFindWhatStays, Catalogued
<1>. QED
  BY <1>1, CatalogInvariant, PTL

-----------------------------------------------------------------------------
(***************************************************************************)
(* The schema.  Of a migration that has done k of its statements the         *)
(* transaction has what they made, and what the database has but the view    *)
(* that is just dropped.  A process in its second migration has the parts of *)
(* the first, because no migration loses a part.                            *)
(***************************************************************************)
Local == "local-schema-v1"
Catalog == "catalog-schema-v1"
Groups ==
  {"local_tables", "indexes", "columns", "work_browse", "profile", "catalog_tables", "library_dashboard",
   "drop work_browse", "drop library_dashboard"}
LocalParts == {"local_tables", "columns", "profile"}

SchemaTypeOK ==
  /\ stage \in [Starters -> {"off", "refused", Local, Catalog, "up"}]
  /\ writer \in Starters \cup {Nobody}
  /\ writer # Nobody => stage[writer] \in {Local, Catalog}

\* After k statements on what was p, the transaction has q.
Through(migration, k, p, q) ==
  IF migration = Local
  THEN /\ p \ {"work_browse"} \subseteq q
       /\ "work_browse" \in p => "work_browse" \in q \/ (k = 4 /\ "catalog_tables" \in q)
       /\ k >= 1 => "local_tables" \in q
       /\ k >= 3 => "columns" \in q
       /\ k >= 6 => "profile" \in q
  ELSE /\ p \ {"work_browse", "library_dashboard"} \subseteq q
       /\ k # 5 => ("work_browse" \in p => "work_browse" \in q)
       /\ k # 2 => ("library_dashboard" \in p => "library_dashboard" \in q)
       /\ k >= 1 => "catalog_tables" \in q
       /\ k >= 3 => "library_dashboard" \in q
       /\ k >= 6 => "work_browse" \in q

TxStands ==
  writer # Nobody =>
    \E k \in 0..6 :
      /\ tx.left \in Seq(Groups) /\ Len(tx.left) = 6 - k
      /\ \A i \in 1..(6 - k) : tx.left[i] = Statements(stage[writer])[k + i]
      /\ Through(stage[writer], k, parts, tx.parts)

MigratedStand ==
  \A p \in Starters : stage[p] \in {Catalog, "up"} => LocalParts \subseteq parts

RefusedStand ==
  always => /\ decisions /\ parts = original /\ registered = {}
            /\ \A p \in Starters : stage[p] \in {"off", "refused"}

SchemaInv == SchemaTypeOK /\ TxStands /\ MigratedStand /\ ReadersFindTheSchema /\ RefusedStand

LEMMA StatementsAre ==
  /\ \A m \in {Local, Catalog} : Statements(m) \in Seq(Groups) /\ Len(Statements(m)) = 6
  /\ Migrations[1] = Local /\ Migrations[2] = Catalog
<1>1. Statements(Local) = LocalStatements /\ Statements(Catalog) = CatalogStatements
  BY DEF Statements, Local, Catalog
<1>2. LocalStatements \in Seq(Groups) /\ Len(LocalStatements) = 6
  BY DEF LocalStatements, Groups
<1>3. CatalogStatements \in Seq(Groups) /\ Len(CatalogStatements) = 6
  BY DEF CatalogStatements, Groups
<1>4. Migrations[1] = Local /\ Migrations[2] = Catalog
  BY DEF Migrations, Local, Catalog
<1>. QED
  BY <1>1, <1>2, <1>3, <1>4

\* One more statement.
LEMMA OneMore ==
  ASSUME NEW m \in {Local, Catalog}, NEW k \in 0..5, NEW p, NEW q, Through(m, k, p, q)
  PROVE  Through(m, k + 1, p, Made(q, Statements(m)[k + 1]))
<1>1. /\ \A s \in {"local_tables", "columns", "profile", "catalog_tables", "library_dashboard"} :
           Made(q, s) = q \cup {s}
      /\ Made(q, "drop library_dashboard") = q \ {"library_dashboard"}
      /\ "catalog_tables" \in q =>
           /\ Made(q, "indexes") = q \cup {"indexes"} /\ Made(q, "work_browse") = q \cup {"work_browse"}
           /\ Made(q, "drop work_browse") = q \ {"work_browse"}
      /\ "catalog_tables" \notin q =>
           /\ Made(q, "indexes") = q /\ Made(q, "work_browse") = q
           /\ Made(q, "drop work_browse") = q
  BY DEF Made
<1>2. k = 0 \/ k = 1 \/ k = 2 \/ k = 3 \/ k = 4 \/ k = 5
  OBVIOUS
<1>3. CASE m = Local
  <2>1. /\ Statements(m)[1] = "local_tables" /\ Statements(m)[2] = "indexes"
        /\ Statements(m)[3] = "columns" /\ Statements(m)[4] = "drop work_browse"
        /\ Statements(m)[5] = "work_browse" /\ Statements(m)[6] = "profile"
    BY <1>3 DEF Statements, LocalStatements, Local
  <2>3. CASE k = 0
    <3>. DEFINE r == q \cup {"local_tables"}
    <3>1. Made(q, Statements(m)[1]) = r
      BY <1>1, <2>1
    <3>2. Through(m, 1, p, r)
      BY <1>3, <2>3 DEF Through
    <3>. QED
      BY <2>3, <3>1, <3>2
  <2>4. CASE k = 1
    <3>. DEFINE r == IF "catalog_tables" \in q THEN q \cup {"indexes"} ELSE q
    <3>1. Made(q, Statements(m)[2]) = r
      BY <1>1, <2>1
    <3>2. Through(m, 2, p, r)
      BY <1>3, <2>4 DEF Through
    <3>. QED
      BY <2>4, <3>1, <3>2
  <2>5. CASE k = 2
    <3>. DEFINE r == q \cup {"columns"}
    <3>1. Made(q, Statements(m)[3]) = r
      BY <1>1, <2>1
    <3>2. Through(m, 3, p, r)
      BY <1>3, <2>5 DEF Through
    <3>. QED
      BY <2>5, <3>1, <3>2
  <2>6. CASE k = 3
    <3>. DEFINE r == IF "catalog_tables" \in q THEN q \ {"work_browse"} ELSE q
    <3>1. Made(q, Statements(m)[4]) = r
      BY <1>1, <2>1
    <3>2. Through(m, 4, p, r)
      BY <1>3, <2>6 DEF Through
    <3>. QED
      BY <2>6, <3>1, <3>2
  <2>7. CASE k = 4
    <3>. DEFINE r == IF "catalog_tables" \in q THEN q \cup {"work_browse"} ELSE q
    <3>1. Made(q, Statements(m)[5]) = r
      BY <1>1, <2>1
    <3>2. Through(m, 5, p, r)
      BY <1>3, <2>7 DEF Through
    <3>. QED
      BY <2>7, <3>1, <3>2
  <2>8. CASE k = 5
    <3>. DEFINE r == q \cup {"profile"}
    <3>1. Made(q, Statements(m)[6]) = r
      BY <1>1, <2>1
    <3>2. Through(m, 6, p, r)
      BY <1>3, <2>8 DEF Through
    <3>. QED
      BY <2>8, <3>1, <3>2
  <2>. QED
    BY <1>2, <2>3, <2>4, <2>5, <2>6, <2>7, <2>8
<1>4. CASE m = Catalog
  <2>1. /\ Statements(m)[1] = "catalog_tables" /\ Statements(m)[2] = "drop library_dashboard"
        /\ Statements(m)[3] = "library_dashboard" /\ Statements(m)[4] = "indexes"
        /\ Statements(m)[5] = "drop work_browse" /\ Statements(m)[6] = "work_browse"
    BY <1>4 DEF Statements, CatalogStatements, Catalog
  <2>2. m # Local
    BY <1>4 DEF Catalog, Local
  <2>3. CASE k = 0
    <3>. DEFINE r == q \cup {"catalog_tables"}
    <3>1. Made(q, Statements(m)[1]) = r
      BY <1>1, <2>1
    <3>2. Through(m, 1, p, r)
      BY <2>2, <2>3 DEF Through
    <3>. QED
      BY <2>3, <3>1, <3>2
  <2>4. CASE k = 1
    <3>. DEFINE r == q \ {"library_dashboard"}
    <3>1. Made(q, Statements(m)[2]) = r
      BY <1>1, <2>1
    <3>2. Through(m, 2, p, r)
      BY <2>2, <2>4 DEF Through
    <3>. QED
      BY <2>4, <3>1, <3>2
  <2>5. CASE k = 2
    <3>. DEFINE r == q \cup {"library_dashboard"}
    <3>1. Made(q, Statements(m)[3]) = r
      BY <1>1, <2>1
    <3>2. Through(m, 3, p, r)
      BY <2>2, <2>5 DEF Through
    <3>. QED
      BY <2>5, <3>1, <3>2
  <2>6. CASE k = 3
    <3>. DEFINE r == IF "catalog_tables" \in q THEN q \cup {"indexes"} ELSE q
    <3>1. Made(q, Statements(m)[4]) = r
      BY <1>1, <2>1
    <3>2. Through(m, 4, p, r)
      BY <2>2, <2>6 DEF Through
    <3>. QED
      BY <2>6, <3>1, <3>2
  <2>7. CASE k = 4
    <3>. DEFINE r == IF "catalog_tables" \in q THEN q \ {"work_browse"} ELSE q
    <3>1. Made(q, Statements(m)[5]) = r
      BY <1>1, <2>1
    <3>2. Through(m, 5, p, r)
      BY <2>2, <2>7 DEF Through
    <3>. QED
      BY <2>7, <3>1, <3>2
  <2>8. CASE k = 5
    <3>. DEFINE r == IF "catalog_tables" \in q THEN q \cup {"work_browse"} ELSE q
    <3>1. Made(q, Statements(m)[6]) = r
      BY <1>1, <2>1
    <3>2. Through(m, 6, p, r)
      BY <2>2, <2>8 DEF Through
    <3>. QED
      BY <2>8, <3>1, <3>2
  <2>. QED
    BY <1>2, <2>3, <2>4, <2>5, <2>6, <2>7, <2>8
<1>. QED
  BY <1>3, <1>4

LEMMA SchemaInvInit == SchemaInit => SchemaInv
<1>. SUFFICES ASSUME SchemaInit PROVE SchemaInv
  OBVIOUS
<1>1. always => decisions
  BY Zenon DEF SchemaInit
<1>2. writer = Nobody /\ \A p \in Starters : stage[p] = "off"
  BY DEF SchemaInit
<1>3. SchemaTypeOK /\ TxStands /\ MigratedStand /\ ReadersFindTheSchema
  BY <1>2 DEF SchemaInit, SchemaTypeOK, TxStands, MigratedStand, ReadersFindTheSchema, Catalog
<1>4. parts = original /\ registered = {}
  BY DEF SchemaInit
<1>. QED
  BY <1>1, <1>2, <1>3, <1>4 DEF SchemaInv, RefusedStand

\* A migration begins with all its statements to do.
LEMMA BeginKeeps ==
  ASSUME SchemaInv, NEW p \in Starters, BeginMigration(p)
  PROVE  SchemaInv'
<1>. USE DEF SchemaInv
<1>1. /\ stage[p] \in {Local, Catalog} /\ writer' = p
      /\ tx' = [parts |-> parts, left |-> Statements(stage[p])]
      /\ UNCHANGED <<parts, registered, original, stage>>
  BY StatementsAre DEF BeginMigration
<1>2. UNCHANGED <<decisions, always>>
  BY Zenon DEF BeginMigration
<1>3. SchemaTypeOK'
  BY <1>1 DEF SchemaTypeOK
<1>4. TxStands'
  <2>1. Through(stage[p], 0, parts, parts)
    BY DEF Through
  <2>. QED
    BY <1>1, <2>1, StatementsAre DEF TxStands
<1>5. MigratedStand' /\ ReadersFindTheSchema'
  BY <1>1 DEF MigratedStand, ReadersFindTheSchema
<1>6. RefusedStand'
  BY <1>1, <1>2 DEF RefusedStand
<1>. QED
  BY <1>3, <1>4, <1>5, <1>6

LEMMA StatementKeeps ==
  ASSUME SchemaInv, NEW p \in Starters, Statement(p)
  PROVE  SchemaInv'
<1>. USE DEF SchemaInv
<1>1. /\ writer = p /\ tx.left # <<>>
      /\ tx' = [parts |-> Made(tx.parts, Head(tx.left)), left |-> Tail(tx.left)]
      /\ UNCHANGED <<parts, registered, original, stage, writer>>
  BY DEF Statement
<1>2. UNCHANGED <<decisions, always>>
  BY Zenon DEF Statement
<1>3. SchemaTypeOK' /\ MigratedStand' /\ ReadersFindTheSchema'
  BY <1>1 DEF SchemaTypeOK, MigratedStand, ReadersFindTheSchema
<1>4. TxStands'
  <2>1. writer # Nobody /\ stage[writer] \in {Local, Catalog}
    BY <1>1, SchemaMigrationAssumption DEF SchemaTypeOK
  <2>2. PICK k \in 0..6 :
          /\ tx.left \in Seq(Groups) /\ Len(tx.left) = 6 - k
          /\ \A i \in 1..(6 - k) : tx.left[i] = Statements(stage[writer])[k + i]
          /\ Through(stage[writer], k, parts, tx.parts)
    BY <2>1 DEF TxStands
  <2>3. k \in 0..5 /\ Head(tx.left) = Statements(stage[writer])[k + 1]
    BY <1>1, <2>2, EmptySeq
  <2>4. /\ tx'.left \in Seq(Groups) /\ Len(tx'.left) = 6 - (k + 1)
        /\ \A i \in 1..(6 - (k + 1)) : tx'.left[i] = Statements(stage[writer])[(k + 1) + i]
    BY <1>1, <2>2, <2>3, HeadTailProperties
  <2>5. Through(stage[writer], k + 1, parts, tx'.parts)
    BY <1>1, <2>1, <2>2, <2>3, OneMore
  <2>. DEFINE j == k + 1
  <2>6. /\ j \in 0..6
        /\ tx'.left \in Seq(Groups) /\ Len(tx'.left) = 6 - j
        /\ \A i \in 1..(6 - j) : tx'.left[i] = Statements(stage'[writer'])[j + i]
        /\ Through(stage'[writer'], j, parts', tx'.parts)
    BY <1>1, <2>3, <2>4, <2>5
  <2>. HIDE DEF j
  <2>. QED
    BY <2>6 DEF TxStands
<1>5. RefusedStand'
  BY <1>1, <1>2 DEF RefusedStand
<1>. QED
  BY <1>3, <1>4, <1>5

\* A migration that commits has lost nothing and made its parts.
LEMMA CommitMigrationKeeps ==
  ASSUME SchemaInv, NEW p \in Starters, CommitMigration(p)
  PROVE  SchemaInv'
<1>. USE DEF SchemaInv
<1>1. /\ writer = p /\ tx.left = <<>> /\ parts' = tx.parts /\ writer' = Nobody
      /\ stage' = [stage EXCEPT ![p] = IF @ = Local THEN Catalog ELSE "up"]
  BY StatementsAre DEF CommitMigration
<1>2. p # Nobody /\ stage[p] \in {Local, Catalog}
  BY <1>1, SchemaMigrationAssumption DEF SchemaTypeOK
<1>3. Through(stage[p], 6, parts, tx.parts)
  <2>1. PICK k \in 0..6 : Len(tx.left) = 6 - k /\ Through(stage[p], k, parts, tx.parts)
    BY <1>1, <1>2 DEF TxStands
  <2>2. k = 6
    BY <1>1, <2>1
  <2>. QED
    BY <2>1, <2>2
<1>4. /\ parts \subseteq parts'
      /\ stage[p] = Local => LocalParts \subseteq parts'
      /\ stage[p] = Catalog => CatalogParts \cup {"work_browse"} \subseteq parts'
  BY <1>1, <1>2, <1>3 DEF Through, LocalParts, CatalogParts, Catalog, Local
<1>5. SchemaTypeOK' /\ TxStands'
  BY <1>1, <1>2 DEF SchemaTypeOK, TxStands
<1>6. \A q \in Starters \ {p} : stage'[q] = stage[q]
  BY <1>1 DEF SchemaTypeOK
<1>7. MigratedStand'
  BY <1>1, <1>2, <1>4, <1>6 DEF MigratedStand, SchemaTypeOK
<1>8. ReadersFindTheSchema'
  <2>1. ASSUME NEW q \in Starters, stage'[q] = "up" PROVE ReadParts \subseteq parts'
    <3>1. CASE q = p
      <4>1. stage[p] = Catalog
        BY <1>1, <1>2, <2>1, <3>1 DEF SchemaTypeOK, Catalog, Local
      <4>2. LocalParts \subseteq parts
        BY <4>1 DEF MigratedStand
      <4>. QED
        BY <1>4, <4>1, <4>2 DEF ReadParts, LocalParts, CatalogParts
    <3>2. CASE q # p
      BY <1>4, <1>6, <2>1, <3>2 DEF ReadersFindTheSchema
    <3>. QED
      BY <3>1, <3>2
  <2>. QED
    BY <2>1 DEF ReadersFindTheSchema
<1>9. ~always
  BY <1>2 DEF RefusedStand, Local, Catalog
<1>10. RefusedStand'
  <2>1. always' = always
    BY Zenon DEF CommitMigration
  <2>. QED
    BY <1>9, <2>1 DEF RefusedStand
<1>. QED
  BY <1>5, <1>7, <1>8, <1>10

\* The other steps leave the database as it is, but for an older build's decisions.
LEMMA StageKeeps ==
  ASSUME SchemaInv, NEW p \in Starters, Inspect(p) \/ Break(p) \/ Close(p) \/ Retry(p)
  PROVE  SchemaInv'
<1>. USE DEF SchemaInv
<1>1. /\ UNCHANGED <<parts, registered, original>>
      /\ stage' = [stage EXCEPT ![p] = "off"] \/ Inspect(p)
      /\ (writer' = writer /\ tx' = tx /\ stage[p] \notin {Local, Catalog})
           \/ (writer' = writer /\ tx' = tx /\ writer # p) \/ writer' = Nobody
  BY DEF Inspect, Break, Close, Retry, Local, Catalog
<1>2. UNCHANGED <<decisions, always>>
  BY Zenon DEF Inspect, Break, Close, Retry
<1>3. /\ stage' = [stage EXCEPT ![p] = stage'[p]] /\ stage'[p] \in {"off", "refused", Local}
      /\ decisions => stage'[p] \in {"off", "refused"}
  BY <1>1 DEF Inspect, SchemaTypeOK, Local
<1>4. SchemaTypeOK'
  BY <1>1, <1>3 DEF SchemaTypeOK
<1>5. TxStands'
  <2>1. CASE writer' = Nobody
    BY <2>1 DEF TxStands
  <2>2. CASE writer # Nobody /\ writer # p /\ writer' = writer /\ tx' = tx
    <3>1. stage'[writer] = stage[writer]
      BY <1>3, <2>2 DEF SchemaTypeOK
    <3>. QED
      BY <1>1, <2>2, <3>1 DEF TxStands
  <2>. QED
    BY <1>1, <2>1, <2>2, SchemaMigrationAssumption DEF SchemaTypeOK
<1>6. MigratedStand' /\ ReadersFindTheSchema'
  BY <1>1, <1>3 DEF MigratedStand, ReadersFindTheSchema, SchemaTypeOK, Local, Catalog
<1>7. RefusedStand'
  BY <1>1, <1>2, <1>3 DEF RefusedStand, SchemaTypeOK
<1>. QED
  BY <1>4, <1>5, <1>6, <1>7

LEMMA SchemaInvariant == SchemaSpec => []SchemaInv
<1>1. ASSUME SchemaInv, Decide \/ UNCHANGED schemaVars PROVE SchemaInv'
  <2>1. UNCHANGED <<parts, registered, original, stage, writer, tx>>
    BY <1>1 DEF Decide, schemaVars
  <2>2. ~always' \/ UNCHANGED <<decisions, always>>
    BY <1>1, Zenon DEF Decide, schemaVars
  <2>3. SchemaTypeOK' /\ TxStands' /\ MigratedStand' /\ ReadersFindTheSchema'
    BY <1>1, <2>1 DEF SchemaInv, SchemaTypeOK, TxStands, MigratedStand, ReadersFindTheSchema
  <2>4. RefusedStand'
    BY <1>1, <2>1, <2>2 DEF SchemaInv, RefusedStand
  <2>. QED
    BY <2>3, <2>4 DEF SchemaInv
<1>2. SchemaInv /\ [SchemaNext]_schemaVars => SchemaInv'
  BY <1>1, BeginKeeps, StatementKeeps, CommitMigrationKeeps, StageKeeps DEF SchemaNext
<1>. QED
  BY <1>2, SchemaInvInit, PTL DEF SchemaSpec

\* Whoever is up finds all it reads, whatever migration runs or breaks off.
THEOREM ReadersAlwaysFind == SchemaSpec => []ReadersFindTheSchema
BY SchemaInvariant, PTL DEF SchemaInv

\* A database with an older build's decisions is never touched.
THEOREM RefusedIsUntouched == SchemaSpec => []RefusedStaysUntouched
<1>1. SchemaInv => RefusedStaysUntouched
  BY DEF SchemaInv, RefusedStand, RefusedStaysUntouched
<1>. QED
  BY <1>1, SchemaInvariant, PTL

-----------------------------------------------------------------------------
(***************************************************************************)
(* The size of the caches.  A scan that nothing has made incomplete has the  *)
(* roots and, below each directory it read, those it read or has still to    *)
(* read, but for roots that are missing: when none is left it has read all.  *)
(* Who waits for a call asked no later than the call ends.                   *)
(***************************************************************************)
Results ==
  [complete : BOOLEAN, counted : SUBSET Directories, missing : SUBSET Directories, at : Nat]
Walks ==
  [pending : SUBSET Directories, counted : SUBSET Directories, missing : SUBSET Directories,
   entries : Int, complete : BOOLEAN, begun : Nat]
Whole(result) ==
  result.complete =>
    /\ Roots \subseteq result.counted \cup result.missing
    /\ \A d \in result.counted : Below[d] \subseteq result.counted
Asked ==
  [stage : {"free"}]
    \cup [stage : {"wait"}, asked : Nat, call : Nat \ {0}]
    \cup [stage : {"answered"}, asked : Nat, result : Results]

DiagnosticsTypeOK ==
  /\ clock \in Nat
  /\ kept \in [result : Results, until : Nat]
  /\ results \in Seq(Results)
  /\ calls \in Nat
  /\ inFlight \in {0, calls}
  /\ calls = Len(results) + IF inFlight = 0 THEN 0 ELSE 1
  /\ walk \in Walks
  /\ asker \in [Askers -> Asked]

ResultsStand ==
  /\ \A c \in DOMAIN results : Whole(results[c]) /\ results[c].at <= clock
  /\ Whole(kept.result) /\ kept.result.at <= clock
  /\ kept.until \in {0, kept.result.at + Lifetime}

WalkGoesDown ==
  inFlight # 0 /\ walk.complete =>
    /\ Roots \subseteq walk.counted \cup walk.missing \cup walk.pending
    /\ \A d \in walk.counted : Below[d] \subseteq walk.counted \cup walk.pending

AskersStand ==
  \A r \in Askers :
    /\ asker[r].stage # "free" => asker[r].asked <= clock
    /\ asker[r].stage = "wait" =>
         /\ asker[r].call \in 1..calls
         /\ asker[r].call \in DOMAIN results => asker[r].asked <= results[asker[r].call].at
    /\ asker[r].stage = "answered" =>
         /\ Whole(asker[r].result)
         /\ asker[r].result.complete => asker[r].asked < asker[r].result.at + Lifetime

DiagnosticsInv == DiagnosticsTypeOK /\ ResultsStand /\ WalkGoesDown /\ AskersStand

LEMMA DiagnosticsInvInit == DiagnosticsInit => DiagnosticsInv
<1>. SUFFICES ASSUME DiagnosticsInit PROVE DiagnosticsInv
  OBVIOUS
<1>1. Failed \in Results /\ ~Failed.complete /\ Failed.at = 0
  BY DEF Failed, Results
<1>2. DiagnosticsTypeOK
  BY <1>1, EmptySeq DEF DiagnosticsInit, DiagnosticsTypeOK, NoWalk, Walks, Free, Asked
<1>. QED
  BY <1>1, <1>2
     DEF DiagnosticsInit, DiagnosticsInv, ResultsStand, WalkGoesDown, AskersStand, Whole, Free

\* A request is answered with what is kept, waits for the call under way, or makes one.
LEMMA AskKeepsSizes ==
  ASSUME DiagnosticsInv, NEW r \in Askers, Ask(r)
  PROVE  DiagnosticsInv'
<1>. USE DEF DiagnosticsInv
<1>1. UNCHANGED <<clock, kept, results>>
  BY DEF Ask
<1>2. DOMAIN results = 1..Len(results) /\ Len(results) \in Nat
  BY DEF DiagnosticsTypeOK
<1>3. CASE clock < kept.until
  <2>. DEFINE new == [stage |-> "answered", asked |-> clock, result |-> kept.result]
  <2>1. asker' = [asker EXCEPT ![r] = new] /\ UNCHANGED <<inFlight, calls, walk>>
    BY <1>3 DEF Ask
  <2>2. new \in Asked
    BY DEF DiagnosticsTypeOK, Asked
  <2>3. Whole(kept.result) /\ clock < kept.result.at + Lifetime
    BY <1>3 DEF ResultsStand, DiagnosticsTypeOK
  <2>4. DiagnosticsTypeOK'
    <3>. HIDE DEF new
    <3>. QED
      BY <1>1, <2>1, <2>2 DEF DiagnosticsTypeOK
  <2>5. ResultsStand' /\ WalkGoesDown'
    BY <1>1, <2>1 DEF ResultsStand, WalkGoesDown
  <2>6. AskersStand'
    BY <1>1, <2>1, <2>3 DEF AskersStand, DiagnosticsTypeOK
  <2>. QED
    BY <2>4, <2>5, <2>6
<1>4. CASE ~(clock < kept.until)
  <2>. DEFINE new == [stage |-> "wait", asked |-> clock, call |-> inFlight']
  <2>1. /\ calls' = (IF inFlight = 0 THEN calls + 1 ELSE calls)
        /\ inFlight' = (IF inFlight = 0 THEN calls + 1 ELSE inFlight)
        /\ walk' = (IF inFlight = 0 THEN [NoWalk EXCEPT !.pending = Roots, !.begun = clock] ELSE walk)
        /\ asker' = [asker EXCEPT ![r] = new]
    BY <1>4 DEF Ask
  <2>2. calls' \in Nat /\ inFlight' = calls' /\ calls' = Len(results) + 1 /\ calls <= calls'
    BY <1>2, <2>1 DEF DiagnosticsTypeOK
  <2>3. walk' \in Walks
    <3>1. NoWalk \in Walks
      BY DEF NoWalk, Walks
    <3>2. CASE inFlight = 0
      <4>1. Roots \subseteq Directories /\ clock \in Nat
        BY RuntimeDiagnosticsAssumption DEF DiagnosticsTypeOK
      <4>2. [NoWalk EXCEPT !.pending = Roots, !.begun = clock] \in Walks
        BY <3>1, <4>1 DEF Walks
      <4>. QED
        BY <2>1, <3>2, <4>2
    <3>3. CASE inFlight # 0
      BY <2>1, <3>3 DEF DiagnosticsTypeOK
    <3>. QED
      BY <3>2, <3>3
  <2>4. new \in Asked
    <3>1. inFlight' \in Nat \ {0}
      BY <1>2, <2>2
    <3>2. clock \in Nat
      BY DEF DiagnosticsTypeOK
    <3>. QED
      BY <3>1, <3>2 DEF Asked
  <2>5. DiagnosticsTypeOK'
    <3>. HIDE DEF new
    <3>. QED
      BY <1>1, <1>2, <2>1, <2>2, <2>3, <2>4 DEF DiagnosticsTypeOK
  <2>6. ResultsStand'
    BY <1>1 DEF ResultsStand
  <2>7. WalkGoesDown'
    BY <2>1 DEF WalkGoesDown, NoWalk
  <2>8. AskersStand'
    BY <1>1, <1>2, <2>1, <2>2 DEF AskersStand, DiagnosticsTypeOK
  <2>. QED
    BY <2>5, <2>6, <2>7, <2>8
<1>. QED
  BY <1>3, <1>4

LEMMA ReplyKeepsSizes ==
  ASSUME DiagnosticsInv, NEW r \in Askers, Answer(r) \/ Withdraw(r) \/ Return(r)
  PROVE  DiagnosticsInv'
<1>. USE DEF DiagnosticsInv
<1>1. UNCHANGED <<clock, kept, inFlight, calls, results, walk>>
  BY DEF Answer, Withdraw, Return
<1>2. CASE Return(r)
  <2>1. asker' = [asker EXCEPT ![r] = [stage |-> "free"]]
    BY <1>2 DEF Return, Free
  <2>. QED
    BY <1>1, <2>1 DEF DiagnosticsTypeOK, ResultsStand, WalkGoesDown, AskersStand, Asked
<1>3. ASSUME NEW result \in Results, asker[r].stage = "wait",
             asker' = [asker EXCEPT ![r] = [stage |-> "answered", asked |-> asker[r].asked,
                                            result |-> result]],
             Whole(result), result.complete => asker[r].asked <= result.at
      PROVE  DiagnosticsInv'
  <2>. DEFINE new == [stage |-> "answered", asked |-> asker[r].asked, result |-> result]
  <2>1. asker[r].asked \in Nat /\ asker[r].asked <= clock /\ result.at \in Nat
    BY <1>3 DEF DiagnosticsTypeOK, Asked, AskersStand, Results
  <2>2. new \in Asked
    BY <2>1 DEF Asked
  <2>3. result.complete => asker[r].asked < result.at + Lifetime
    BY <1>3, <2>1, RuntimeDiagnosticsAssumption
  <2>4. DiagnosticsTypeOK'
    <3>1. asker' = [asker EXCEPT ![r] = new]
      BY <1>3
    <3>. HIDE DEF new
    <3>. QED
      BY <1>1, <2>2, <3>1 DEF DiagnosticsTypeOK
  <2>5. ResultsStand' /\ WalkGoesDown'
    BY <1>1 DEF ResultsStand, WalkGoesDown
  <2>6. AskersStand'
    BY <1>1, <1>3, <2>1, <2>3 DEF AskersStand, DiagnosticsTypeOK
  <2>. QED
    BY <2>4, <2>5, <2>6
<1>4. CASE Withdraw(r)
  <2>1. Failed \in Results /\ ~Failed.complete
    BY DEF Failed, Results
  <2>. QED
    BY <1>3, <1>4, <2>1 DEF Withdraw, Whole
<1>5. CASE Answer(r)
  <2>1. asker[r].stage = "wait" /\ asker[r].call \in DOMAIN results
    BY <1>5 DEF Answer
  <2>2. results[asker[r].call] \in Results
    BY <2>1 DEF DiagnosticsTypeOK
  <2>. QED
    BY <1>3, <1>5, <2>1, <2>2 DEF Answer, ResultsStand, AskersStand
<1>. QED
  BY <1>2, <1>4, <1>5

\* The walk takes a directory or breaks off.
LEMMA ScanKeepsSizes ==
  ASSUME DiagnosticsInv,
         GiveUp \/ \E d \in Directories, files \in Files : Scan(d, files)
  PROVE  DiagnosticsInv'
<1>. USE DEF DiagnosticsInv
<1>1. UNCHANGED <<clock, kept, inFlight, calls, results, asker>>
  BY DEF GiveUp, Scan
<1>2. walk \in Walks
  BY DEF DiagnosticsTypeOK
<1>3. \/ \E pending \in SUBSET Directories :
            walk' = [walk EXCEPT !.pending = pending, !.complete = FALSE]
      \/ \E d \in walk.pending, files \in Files : walk' = Opened(d, files)
      \/ \E d \in walk.pending \cap Roots : walk' = Missing(d)
  <2>1. CASE GiveUp
    BY <2>1 DEF GiveUp
  <2>2. ASSUME NEW d \in Directories, NEW files \in Files, Scan(d, files) PROVE <1>3!:
    <3>1. walk.pending \ {d} \in SUBSET Directories
      BY <1>2 DEF Walks
    <3>. QED
      BY <2>2, <3>1 DEF Scan, Unreadable
  <2>. QED
    BY <2>1, <2>2
<1>4. walk' \in Walks /\ WalkGoesDown'
  <2>1. ASSUME NEW pending \in SUBSET Directories,
               walk' = [walk EXCEPT !.pending = pending, !.complete = FALSE]
        PROVE  walk' \in Walks /\ ~walk'.complete
    BY <1>2, <2>1 DEF Walks
  <2>2. ASSUME NEW d \in walk.pending, NEW files \in Files, walk' = Opened(d, files)
        PROVE  walk' \in Walks /\ WalkGoesDown'
    <3>1. Entries(d, files) \in Int
      <4>1. IsFiniteSet(Below[d])
        BY <1>2, RuntimeDiagnosticsAssumption, FS_Subset DEF Walks
      <4>. QED
        BY <1>2, <4>1, FS_CardinalityType, RuntimeDiagnosticsAssumption DEF Entries, Walks
    <3>2. Below[d] \subseteq Directories
      BY <1>2, RuntimeDiagnosticsAssumption DEF Walks
    <3>3. walk' \in Walks
      BY <1>2, <2>2, <3>1, <3>2 DEF Opened, Walks
    <3>4. WalkGoesDown'
      BY <1>1, <1>2, <2>2 DEF Opened, WalkGoesDown, Walks
    <3>. QED
      BY <3>3, <3>4
  <2>3. ASSUME NEW d \in walk.pending \cap Roots, walk' = Missing(d)
        PROVE  walk' \in Walks /\ WalkGoesDown'
    <3>1. walk' = [walk EXCEPT !.pending = walk.pending \ {d}, !.missing = walk.missing \cup {d}]
      BY <2>3 DEF Missing
    <3>2. walk' \in Walks
      BY <1>2, <3>1 DEF Walks
    <3>3. WalkGoesDown'
      <4>1. \A e \in walk.counted : d \notin Below[e]
        BY <1>2, <2>3, RuntimeDiagnosticsAssumption DEF Walks
      <4>. QED
        BY <1>1, <1>2, <3>1, <4>1 DEF WalkGoesDown, Walks
    <3>. QED
      BY <3>2, <3>3
  <2>. QED
    BY <1>3, <2>1, <2>2, <2>3 DEF WalkGoesDown
<1>5. DiagnosticsTypeOK'
  BY <1>1, <1>4 DEF DiagnosticsTypeOK
<1>6. ResultsStand' /\ AskersStand'
  BY <1>1 DEF ResultsStand, AskersStand
<1>. QED
  BY <1>4, <1>5, <1>6

\* A scan that has no directory left to read and is complete has read all.
LEMMA PublishKeepsSizes ==
  ASSUME DiagnosticsInv, Publish
  PROVE  DiagnosticsInv'
<1>. USE DEF DiagnosticsInv
<1>. DEFINE result == [complete |-> walk.complete, counted |-> walk.counted,
                       missing |-> walk.missing, at |-> clock]
<1>1. /\ inFlight # 0 /\ walk.pending = {} /\ inFlight' = 0 /\ walk' = NoWalk
      /\ results' = Append(results, result) /\ kept' = [result |-> result, until |-> clock + Lifetime]
      /\ UNCHANGED <<clock, calls, asker>>
  BY DEF Publish
<1>2. result \in Results
  BY DEF DiagnosticsTypeOK, Results, Walks
<1>3. Whole(result)
  BY <1>1 DEF WalkGoesDown, Whole, DiagnosticsTypeOK, Walks
<1>4. result.at = clock
  OBVIOUS
<1>. HIDE DEF result
<1>5. /\ results' \in Seq(Results) /\ Len(results') = Len(results) + 1
      /\ DOMAIN results' = 1..(Len(results) + 1) /\ DOMAIN results = 1..Len(results)
      /\ \A c \in 1..Len(results) : results'[c] = results[c]
      /\ results'[Len(results) + 1] = result /\ Len(results) \in Nat
  BY <1>1, <1>2 DEF DiagnosticsTypeOK
<1>6. DiagnosticsTypeOK'
  <2>1. NoWalk \in Walks
    BY DEF NoWalk, Walks
  <2>2. clock + Lifetime \in Nat
    BY RuntimeDiagnosticsAssumption DEF DiagnosticsTypeOK
  <2>. QED
    BY <1>1, <1>2, <1>5, <2>1, <2>2 DEF DiagnosticsTypeOK
<1>7. ResultsStand' /\ WalkGoesDown'
  BY <1>1, <1>3, <1>4, <1>5 DEF ResultsStand, WalkGoesDown, DiagnosticsTypeOK
<1>8. AskersStand'
  BY <1>1, <1>4, <1>5 DEF AskersStand, DiagnosticsTypeOK
<1>. QED
  BY <1>6, <1>7, <1>8

LEMMA AdvanceKeepsSizes ==
  ASSUME DiagnosticsInv, Advance \/ UNCHANGED diagnosticsVars
  PROVE  DiagnosticsInv'
<1>. USE DEF DiagnosticsInv
<1>1. UNCHANGED <<kept, inFlight, calls, results, walk, asker>> /\ clock' \in {clock, clock + 1}
  BY DEF Advance, diagnosticsVars
<1>2. \A result \in Results : result.at <= clock => result.at <= clock'
  BY <1>1 DEF Results, DiagnosticsTypeOK
<1>3. DiagnosticsTypeOK' /\ WalkGoesDown'
  BY <1>1 DEF DiagnosticsTypeOK, WalkGoesDown
<1>4. ResultsStand'
  BY <1>1, <1>2 DEF ResultsStand, DiagnosticsTypeOK
<1>5. AskersStand'
  BY <1>1 DEF AskersStand, DiagnosticsTypeOK, Asked
<1>. QED
  BY <1>3, <1>4, <1>5

\* A size that is reported as complete leaves out nothing but missing roots and is not
\* too old.
THEOREM SizesAreSound == DiagnosticsSpec => []SizesAreWholeAndRecent
<1>1. DiagnosticsInv /\ [DiagnosticsNext]_diagnosticsVars => DiagnosticsInv'
  BY AskKeepsSizes, ReplyKeepsSizes, ScanKeepsSizes, PublishKeepsSizes, AdvanceKeepsSizes
     DEF DiagnosticsNext
<1>2. DiagnosticsInv => SizesAreWholeAndRecent
  BY DEF DiagnosticsInv, AskersStand, Whole, SizesAreWholeAndRecent
<1>. QED
  BY <1>1, <1>2, DiagnosticsInvInit, PTL DEF DiagnosticsSpec

-----------------------------------------------------------------------------
(***************************************************************************)
(* The import plan.  While nobody writes, what is not yet hashed is what is *)
(* listed and the open file, the rest of the tree is as it is on disk.      *)
(***************************************************************************)

ImportTypeOK ==
  /\ tree \in [Scopes -> [PathNumbers -> Contents \cup {Absent}]]
  /\ writes \in Nat
  /\ scope \in Scopes
  /\ step \in {"list", "hash", "classify", "done", "failed"}
  /\ listed \subseteq PathNumbers
  /\ open = NoFile \/ (open.path \in PathNumbers /\ open.hash \in Contents \cup {Mixed})
  /\ DOMAIN open = {"path", "hash"}
  /\ items \in [Scopes -> [PathNumbers -> Contents \cup {Absent}]]

LeftToHash(p) == p \in listed \/ (open # NoFile /\ p = open.path)
UnwrittenIsHashed ==
  writes = 0 =>
    /\ scope = "intake" => items["library"] = NoItems
    /\ scope = "library" => items["intake"] = tree["intake"]
    /\ step = "list" => items[scope] = NoItems
    /\ step = "hash" =>
         /\ open # NoFile => open.path \notin listed /\ open.hash = tree[scope][open.path]
         /\ \A p \in PathNumbers : ~LeftToHash(p) => items[scope][p] = tree[scope][p]
    /\ step \in {"classify", "done"} => items = tree

ImportInv ==
  /\ ImportTypeOK
  /\ step = "list" => open = NoFile
  /\ UnwrittenIsHashed
  /\ step = "done" => plan = [p \in Counted("intake") |-> Classification(p)]

LEMMA ImportInvInit == ImportInit => ImportInv
BY DEF ImportInit, ImportInv, ImportTypeOK, UnwrittenIsHashed, Scopes, NoItems, NoFile

LEMMA ScopeIs == Scopes = {"intake", "library"} /\ "intake" \in Scopes /\ "library" \in Scopes
BY DEF Scopes

LEMMA WriteKeeps ==
  ASSUME ImportInv, NEW s \in Scopes, NEW p \in PathNumbers, NEW c \in Contents \cup {Absent},
         Write(s, p, c)
  PROVE  ImportInv'
<1>. USE ImportPlanAssumption
<1>1. writes' # 0 /\ writes' \in Nat
  BY DEF Write, ImportInv, ImportTypeOK
<1>2. tree' \in [Scopes -> [PathNumbers -> Contents \cup {Absent}]]
  BY DEF Write, ImportInv, ImportTypeOK
<1>3. open' = open \/ (open' = [open EXCEPT !.hash = Mixed] /\ open.path = p)
  BY DEF Write
<1>4. /\ open' = NoFile \/ (open'.path \in PathNumbers /\ open'.hash \in Contents \cup {Mixed})
      /\ DOMAIN open' = {"path", "hash"}
  BY <1>3 DEF ImportInv, ImportTypeOK, NoFile
<1>5. ImportTypeOK' /\ step' # "done"
  BY <1>1, <1>2, <1>4 DEF Write, ImportInv, ImportTypeOK
<1>6. step = "list" => open' = NoFile
  BY <1>3 DEF ImportInv, NoFile
<1>. QED
  BY <1>1, <1>5, <1>6 DEF ImportInv, UnwrittenIsHashed, Write

LEMMA StopKeeps == ImportInv /\ Stop => ImportInv'
BY DEF ImportInv, ImportTypeOK, UnwrittenIsHashed, Stop

LEMMA ListKeeps == ImportInv /\ List => ImportInv'
<1>. SUFFICES ASSUME ImportInv, List PROVE ImportInv'
  OBVIOUS
<1>1. /\ step = "list" /\ step' = "hash" /\ open = NoFile
      /\ listed' = {p \in PathNumbers : tree[scope][p] # Absent}
      /\ UNCHANGED <<tree, key, writes, scope, open, items, plan>>
  BY DEF List, ImportInv
<1>2. ImportTypeOK'
  BY <1>1 DEF ImportInv, ImportTypeOK
<1>3. ASSUME writes = 0, NEW p \in PathNumbers, ~LeftToHash(p)'
      PROVE  items[scope][p] = tree[scope][p]
  BY <1>1, <1>3 DEF ImportInv, UnwrittenIsHashed, LeftToHash, NoItems
<1>4. UnwrittenIsHashed'
  BY <1>1, <1>3 DEF ImportInv, UnwrittenIsHashed
<1>. QED
  BY <1>1, <1>2, <1>4 DEF ImportInv

LEMMA OpenNextKeeps == ImportInv /\ OpenNext => ImportInv'
<1>. SUFFICES ASSUME ImportInv, OpenNext, ~Stop PROVE ImportInv'
  BY StopKeeps
<1>. USE ImportPlanAssumption
<1>1. PICK p \in listed :
        /\ tree[scope][p] # Absent /\ open' = [path |-> p, hash |-> tree[scope][p]]
        /\ listed' = listed \ {p} /\ step = "hash" /\ open = NoFile
        /\ UNCHANGED <<tree, key, writes, step, scope, items, plan>>
  BY DEF OpenNext
<1>2. p \in PathNumbers /\ tree[scope][p] \in Contents
  BY <1>1 DEF ImportInv, ImportTypeOK
<1>3. ImportTypeOK'
  BY <1>1, <1>2 DEF ImportInv, ImportTypeOK
<1>4. /\ open' # NoFile /\ open'.path = p /\ open'.hash = tree[scope][p]
      /\ \A q : LeftToHash(q)' <=> LeftToHash(q)
  BY <1>1, <1>2 DEF NoFile, LeftToHash
<1>5. UnwrittenIsHashed'
  BY <1>1, <1>4 DEF ImportInv, UnwrittenIsHashed
<1>. QED
  BY <1>1, <1>3, <1>5 DEF ImportInv

LEMMA HashFileKeeps == ImportInv /\ HashFile => ImportInv'
<1>. SUFFICES ASSUME ImportInv, HashFile, ~Stop PROVE ImportInv'
  BY StopKeeps
<1>. USE ImportPlanAssumption
<1>1. /\ step = "hash" /\ open # NoFile /\ open' = NoFile
      /\ open.hash # Mixed /\ tree[scope][open.path] = open.hash
      /\ items' = [items EXCEPT ![scope][open.path] = open.hash]
      /\ UNCHANGED <<tree, key, writes, step, scope, listed, plan>>
  BY DEF HashFile
<1>2. open.path \in PathNumbers /\ open.hash \in Contents
  BY <1>1 DEF ImportInv, ImportTypeOK
<1>3. ImportTypeOK'
  BY <1>1, <1>2 DEF ImportInv, ImportTypeOK, NoFile
<1>4. /\ \A s \in Scopes : s # scope => items'[s] = items[s]
      /\ \A p \in PathNumbers : items'[scope][p] = IF p = open.path THEN open.hash ELSE items[scope][p]
  BY <1>1, <1>2 DEF ImportInv, ImportTypeOK
<1>5. ASSUME writes = 0, NEW p \in PathNumbers, ~LeftToHash(p)'
      PROVE  items'[scope][p] = tree[scope][p]
  BY <1>1, <1>4, <1>5 DEF ImportInv, UnwrittenIsHashed, LeftToHash
<1>6. UnwrittenIsHashed'
  BY <1>1, <1>4, <1>5, ScopeIs DEF ImportInv, UnwrittenIsHashed
<1>. QED
  BY <1>1, <1>3, <1>6 DEF ImportInv

LEMMA EndOfTreeKeeps == ImportInv /\ EndOfTree => ImportInv'
<1>. SUFFICES ASSUME ImportInv, EndOfTree PROVE ImportInv'
  OBVIOUS
<1>1. /\ step = "hash" /\ open = NoFile /\ listed = {} /\ scope' = "library"
      /\ step' = IF scope = "intake" THEN "list" ELSE "classify"
      /\ UNCHANGED <<tree, key, writes, listed, open, items, plan>>
  BY DEF EndOfTree
<1>2. ImportTypeOK'
  BY <1>1 DEF ImportInv, ImportTypeOK, Scopes
<1>3. writes = 0 => items[scope] = tree[scope]
  BY <1>1 DEF ImportInv, ImportTypeOK, UnwrittenIsHashed, LeftToHash
<1>4. ASSUME writes = 0
      PROVE  /\ items["intake"] = tree["intake"]
             /\ scope = "intake" => items["library"] = NoItems
             /\ scope # "intake" => items = tree
  <2>1. CASE scope = "intake"
    BY <1>3, <1>4, <2>1 DEF ImportInv, UnwrittenIsHashed
  <2>2. CASE scope = "library"
    BY <1>3, <1>4, <2>2 DEF ImportInv, ImportTypeOK, UnwrittenIsHashed, Scopes
  <2>. QED
    BY <2>1, <2>2 DEF ImportInv, ImportTypeOK, Scopes
<1>5. scope \in {"intake", "library"} /\ scope' = "library"
      /\ step' = (IF scope = "intake" THEN "list" ELSE "classify")
  BY <1>1 DEF ImportInv, ImportTypeOK, Scopes
<1>6. UnwrittenIsHashed'
  <2>1. CASE scope = "intake"
    BY <1>1, <1>4, <2>1 DEF UnwrittenIsHashed
  <2>2. CASE scope = "library"
    BY <1>1, <1>4, <2>2 DEF UnwrittenIsHashed
  <2>. QED
    BY <1>5, <2>1, <2>2
<1>7. step' # "done"
  BY <1>1
<1>. QED
  BY <1>1, <1>2, <1>6, <1>7 DEF ImportInv

LEMMA ClassesStay ==
  ASSUME items' = items, key' = key
  PROVE  [p \in Counted("intake") |-> Classification(p)]' = [p \in Counted("intake") |-> Classification(p)]
<1>1. \A s : Counted(s)' = Counted(s)
  BY DEF Counted
<1>2. Unsupported' = Unsupported
  BY DEF Unsupported
<1>3. \A s : Supported(s)' = Supported(s)
  BY <1>1, <1>2 DEF Supported
<1>4. \A s, k : Group(s, k)' = Group(s, k)
  BY <1>3 DEF Group
<1>5. \A s, paths, c : Without(s, paths, c)' = Without(s, paths, c)
  BY DEF Without
<1>6. \A s, paths, c : ContentCount(s, paths, c)' = ContentCount(s, paths, c)
  BY DEF ContentCount
<1>7. \A s, paths : SamplesWithout(s, paths)' = SamplesWithout(s, paths)
  BY <1>5, <1>6 DEF SamplesWithout
<1>8. \A s, c, k : Different(s, c, k)' = Different(s, c, k)
  BY <1>4, <1>5, <1>6, <1>7 DEF Different
<1>9. \A s, c, without : Exact(s, c, without)' = Exact(s, c, without)
  BY <1>3 DEF Exact
<1>10. \A p : Classification(p)' = Classification(p)
  BY <1>2, <1>8, <1>9 DEF Classification
<1>. QED
  BY <1>1, <1>10

LEMMA ClassifyKeeps == ImportInv /\ Classify => ImportInv'
<1>. SUFFICES ASSUME ImportInv, Classify PROVE ImportInv'
  OBVIOUS
<1>1. /\ step = "classify" /\ step' = "done"
      /\ plan' = [p \in Counted("intake") |-> Classification(p)]
      /\ UNCHANGED <<tree, key, writes, scope, listed, open, items>>
  BY DEF Classify
<1>2. plan' = [p \in Counted("intake") |-> Classification(p)]'
  BY <1>1, ClassesStay
<1>3. ImportTypeOK'
  BY <1>1 DEF ImportInv, ImportTypeOK
<1>4. UnwrittenIsHashed'
  BY <1>1 DEF ImportInv, UnwrittenIsHashed
<1>. QED
  BY <1>1, <1>2, <1>3, <1>4 DEF ImportInv

LEMMA ImportInvariant == ImportSpec => []ImportInv
<1>1. ASSUME ImportInv, [ImportNext]_importVars
      PROVE  ImportInv'
  <2>1. ASSUME NEW s \in Scopes, NEW p \in PathNumbers, NEW c \in Contents \cup {Absent}, Write(s, p, c)
        PROVE  ImportInv'
    BY <1>1, <2>1, WriteKeeps
  <2>2. CASE UNCHANGED importVars
    <3>1. UNCHANGED <<tree, key, writes, step, scope, listed, open, items, plan>>
      BY <2>2 DEF importVars
    <3>2. ImportTypeOK' /\ UnwrittenIsHashed'
      BY <1>1, <3>1 DEF ImportInv, ImportTypeOK, UnwrittenIsHashed, LeftToHash
    <3>3. UNCHANGED [p \in Counted("intake") |-> Classification(p)]
      BY <3>1, ClassesStay
    <3>. QED
      BY <1>1, <3>1, <3>2, <3>3 DEF ImportInv
  <2>. QED
    BY <1>1, <2>1, <2>2, ListKeeps, OpenNextKeeps, HashFileKeeps, EndOfTreeKeeps, ClassifyKeeps
       DEF ImportNext
<1>. QED
  BY <1>1, ImportInvInit, PTL DEF ImportSpec

\* A plan is of what was on disk: of no file that changed while it was hashed, and
\* of the trees as they are when they did not change (hashPinnedFile of plan.go).
THEOREM PlansAreOfWholeFiles == ImportSpec => []PlanIsOfWholeFiles
<1>1. ImportInv => PlanIsOfWholeFiles
  <2>. SUFFICES ASSUME ImportInv, step = "done" PROVE PlanIsOfWholeFiles
    BY DEF PlanIsOfWholeFiles
  <2>1. \A s \in Scopes, p \in PathNumbers : items[s][p] # Mixed
    BY ImportPlanAssumption DEF ImportInv, ImportTypeOK
  <2>2. writes = 0 => items = tree
    BY DEF ImportInv, UnwrittenIsHashed
  <2>. QED
    BY <2>1, <2>2 DEF PlanIsOfWholeFiles
<1>. QED
  BY <1>1, ImportInvariant, PTL

(***************************************************************************)
(* What the plan says of a file: a path's rank in a set is its place when   *)
(* the set is sorted, and the first few of a set are those of small rank.   *)
(***************************************************************************)

LEMMA Ranks ==
  ASSUME NEW S \in SUBSET PathNumbers
  PROVE  /\ IsFiniteSet(S) /\ Cardinality(S) \in Nat
         /\ \A p \in PathNumbers : Rank(S, p) \in Nat
         /\ \A p \in S : Rank(S, p) < Cardinality(S)
         /\ \A p \in S, q \in PathNumbers : p < q => Rank(S, p) < Rank(S, q)
<1>. USE ImportPlanAssumption
<1>. DEFINE Before(p) == {q \in S : q < p}
<1>1. IsFiniteSet(S) /\ Cardinality(S) \in Nat
  BY FS_Subset, FS_CardinalityType
<1>2. \A p : IsFiniteSet(Before(p)) /\ Cardinality(Before(p)) \in Nat
  BY <1>1, FS_Subset, FS_CardinalityType
<1>3. ASSUME NEW p \in S, NEW T \in SUBSET S, p \in T, Before(p) \subseteq T
      PROVE  Cardinality(Before(p)) < Cardinality(T)
  <2>1. IsFiniteSet(T) /\ Cardinality(T) \in Nat
    BY <1>1, FS_Subset, FS_CardinalityType
  <2>2. p \notin Before(p) /\ p \in T
    BY <1>3
  <2>3. IsFiniteSet(Before(p)) /\ Cardinality(Before(p)) \in Nat
    BY <1>2
  <2>. HIDE DEF Before
  <2>4. Before(p) \in SUBSET T /\ Before(p) # T
    BY <1>3, <2>2
  <2>5. Cardinality(Before(p)) <= Cardinality(T) /\ Cardinality(Before(p)) # Cardinality(T)
    BY <2>1, <2>4, FS_Subset
  <2>. QED
    BY <2>1, <2>3, <2>5
<1>4. \A p \in S : Cardinality(Before(p)) < Cardinality(S)
  BY <1>3
<1>5. ASSUME NEW p \in S, NEW q \in PathNumbers, p < q
      PROVE  Cardinality(Before(p)) < Cardinality(Before(q))
  <2>1. \A r \in S : r < p => r < q
    BY <1>5
  <2>2. p \in Before(q) /\ Before(p) \subseteq Before(q) /\ Before(q) \in SUBSET S
    BY <1>5, <2>1
  <2>. HIDE DEF Before
  <2>. QED
    BY <1>3, <2>2
<1>. QED
  BY <1>1, <1>2, <1>4, <1>5 DEF Rank

LEMMA RanksDiffer ==
  ASSUME NEW S \in SUBSET PathNumbers, NEW p \in S, NEW q \in S, Rank(S, p) = Rank(S, q)
  PROVE  p = q
<1>1. p \in Nat /\ q \in Nat /\ Rank(S, p) \in Nat /\ Rank(S, q) \in Nat
  BY Ranks, ImportPlanAssumption
<1>2. ~(p < q) /\ ~(q < p)
  BY <1>1, Ranks
<1>. QED
  BY <1>1, <1>2

LEMMA EveryRank ==
  ASSUME NEW S \in SUBSET PathNumbers, NEW i \in 0..(Cardinality(S) - 1)
  PROVE  \E p \in S : Rank(S, p) = i
<1>. DEFINE T == 0..(Cardinality(S) - 1)
            f == [p \in S |-> Rank(S, p)]
<1>1. IsFiniteSet(S) /\ Cardinality(S) \in Nat /\ \A p \in S : Rank(S, p) \in T
  BY Ranks
<1>2. f \in Injection(S, T)
  BY <1>1, RanksDiffer DEF Injection, IsInjective
<1>3. IsFiniteSet(T) /\ Cardinality(T) = Cardinality(S)
  BY <1>1, FS_Interval
<1>4. f \in Surjection(S, T)
  BY <1>2, <1>3, FS_Injection
<1>. QED
  BY <1>4 DEF Surjection

LEMMA Sorted ==
  ASSUME NEW S \in SUBSET PathNumbers
  PROVE  /\ InOrder(S) \in [1..Cardinality(S) -> S]
         /\ \A i \in 1..Cardinality(S) : Rank(S, InOrder(S)[i]) = i - 1
<1>1. ASSUME NEW i \in 1..Cardinality(S)
      PROVE  InOrder(S)[i] \in S /\ Rank(S, InOrder(S)[i]) = i - 1
  <2>1. i - 1 \in 0..(Cardinality(S) - 1)
    BY Ranks
  <2>2. \E p \in S : Rank(S, p) = i - 1
    BY <2>1, EveryRank
  <2>3. InOrder(S)[i] = CHOOSE p \in S : Rank(S, p) = i - 1
    BY DEF InOrder
  <2>. QED
    BY <2>2, <2>3
<1>2. InOrder(S) = [i \in 1..Cardinality(S) |-> InOrder(S)[i]]
  BY DEF InOrder
<1>. QED
  BY <1>1, <1>2

\* The first few are as many as there are, up to the bound, and keep their ranks.
LEMMA Firsts ==
  ASSUME NEW S \in SUBSET PathNumbers
  PROVE  /\ FirstOf(S) \subseteq S /\ FirstOf(S) \in SUBSET PathNumbers
         /\ \A p \in S : p \in FirstOf(S) <=> Rank(S, p) < MaxSamples
         /\ \A p \in FirstOf(S) : Rank(FirstOf(S), p) = Rank(S, p)
         /\ Cardinality(FirstOf(S)) = IF Cardinality(S) < MaxSamples THEN Cardinality(S) ELSE MaxSamples
<1>. USE ImportPlanAssumption
<1>. DEFINE F == FirstOf(S)
            m == IF Cardinality(S) < MaxSamples THEN Cardinality(S) ELSE MaxSamples
            f == [p \in F |-> Rank(S, p)]
<1>1. F \subseteq S /\ \A p \in S : p \in F <=> Rank(S, p) < MaxSamples
  BY DEF FirstOf
<1>2. ASSUME NEW p \in F PROVE Rank(F, p) = Rank(S, p)
  <2>1. ASSUME NEW q \in S, q < p PROVE q \in F
    <3>1. Rank(S, q) < Rank(S, p) /\ Rank(S, q) \in Nat /\ Rank(S, p) \in Nat
      BY <1>1, <1>2, <2>1, Ranks
    <3>2. Rank(S, p) < MaxSamples /\ MaxSamples \in Nat
      BY <1>1
    <3>3. Rank(S, q) < MaxSamples
      BY ONLY <3>1, <3>2
    <3>. QED
      BY <1>1, <2>1, <3>3
  <2>2. {q \in F : q < p} = {q \in S : q < p}
    BY <1>1, <2>1
  <2>. QED
    BY <2>2 DEF Rank
<1>3. m \in Nat /\ m <= Cardinality(S)
  BY Ranks
<1>4. f \in Injection(F, 0..(m - 1))
  <2>. HIDE DEF F
  <2>1. \A p \in F : Rank(S, p) \in 0..(m - 1)
    BY <1>1, Ranks
  <2>2. \A p, q \in F : Rank(S, p) = Rank(S, q) => p = q
    BY <1>1, RanksDiffer
  <2>. QED
    BY <2>1, <2>2 DEF Injection, IsInjective
<1>5. f \in Surjection(F, 0..(m - 1))
  <2>. HIDE DEF F
  <2>1. ASSUME NEW i \in 0..(m - 1) PROVE \E p \in F : Rank(S, p) = i
    <3>1. i \in 0..(Cardinality(S) - 1) /\ i < MaxSamples
      BY <1>3, Ranks
    <3>. QED
      BY <1>1, <3>1, EveryRank
  <2>. QED
    BY <1>4, <2>1 DEF Injection, Surjection
<1>6. Cardinality(F) = m
  <2>. HIDE DEF F, m, f
  <2>1. IsFiniteSet(0..(m - 1)) /\ Cardinality(0..(m - 1)) = m
    BY <1>3, FS_Interval
  <2>. QED
    BY <1>4, <1>5, <2>1, FS_Injection
<1>. QED
  BY <1>1, <1>2, <1>6

LEMMA NamedIs ==
  ASSUME NEW s, NEW S \in SUBSET PathNumbers
  PROVE  /\ Named(s, S) \in Seq({s} \X S) /\ Len(Named(s, S)) = Cardinality(S)
         /\ \A i \in 1..Cardinality(S) : Named(s, S)[i] = <<s, InOrder(S)[i]>>
<1>1. Cardinality(S) \in Nat /\ \A i \in 1..Cardinality(S) : InOrder(S)[i] \in S
  BY Ranks, Sorted
<1>. QED
  BY <1>1 DEF Named

LEMMA NamedFirst ==
  ASSUME NEW s, NEW S \in SUBSET PathNumbers
  PROVE  First(Named(s, S)) = Named(s, FirstOf(S))
<1>. USE ImportPlanAssumption
<1>1. PICK m : m = IF Cardinality(S) < MaxSamples THEN Cardinality(S) ELSE MaxSamples
  OBVIOUS
<1>2. m \in Nat /\ m <= Cardinality(S) /\ m <= MaxSamples /\ Cardinality(S) \in Nat
  BY <1>1, Ranks
<1>3. FirstOf(S) \in SUBSET PathNumbers /\ FirstOf(S) \subseteq S /\ Cardinality(FirstOf(S)) = m
  BY <1>1, Firsts
<1>4. ASSUME NEW i \in 1..m PROVE InOrder(FirstOf(S))[i] = InOrder(S)[i]
  <2>1. PICK x : x = InOrder(S)[i]
    OBVIOUS
  <2>2. i \in 1..Cardinality(S) /\ i - 1 < MaxSamples
    BY <1>2
  <2>3. x \in S /\ Rank(S, x) = i - 1
    BY <2>1, <2>2, Sorted
  <2>4. x \in FirstOf(S) /\ Rank(FirstOf(S), x) = i - 1
    BY <2>2, <2>3, Firsts
  <2>5. InOrder(FirstOf(S))[i] \in FirstOf(S) /\ Rank(FirstOf(S), InOrder(FirstOf(S))[i]) = i - 1
    BY <1>3, Sorted
  <2>. QED
    BY ONLY <1>3, <2>1, <2>4, <2>5, RanksDiffer
<1>5. /\ Named(s, S) \in Seq({s} \X S) /\ Len(Named(s, S)) = Cardinality(S)
      /\ \A i \in 1..Cardinality(S) : Named(s, S)[i] = <<s, InOrder(S)[i]>>
  BY NamedIs
<1>6. /\ Named(s, FirstOf(S)) \in Seq({s} \X FirstOf(S)) /\ Len(Named(s, FirstOf(S))) = m
      /\ \A i \in 1..m : Named(s, FirstOf(S))[i] = <<s, InOrder(FirstOf(S))[i]>>
  BY <1>3, NamedIs
<1>7. First(Named(s, S)) = SubSeq(Named(s, S), 1, m)
  BY <1>1, <1>5 DEF First
<1>8. /\ First(Named(s, S)) \in Seq({s} \X S) /\ Len(First(Named(s, S))) = m
      /\ \A i \in 1..m : First(Named(s, S))[i] = Named(s, S)[i]
  BY <1>2, <1>5, <1>7, SubSeqProperties
<1>9. \A i \in 1..m : i \in 1..Cardinality(S)
  BY <1>2
<1>10. \A i \in 1..m : First(Named(s, S))[i] = Named(s, FirstOf(S))[i]
  BY <1>4, <1>5, <1>6, <1>8, <1>9
<1>. QED
  BY <1>2, <1>6, <1>8, <1>10, SeqEqual

LEMMA FirstIs ==
  ASSUME NEW T, NEW seq \in Seq(T)
  PROVE  /\ First(seq) \in Seq(T)
         /\ Len(First(seq)) = IF Len(seq) < MaxSamples THEN Len(seq) ELSE MaxSamples
         /\ \A i \in 1..Len(First(seq)) : i \in 1..Len(seq) /\ First(seq)[i] = seq[i]
<1>. USE ImportPlanAssumption
<1>1. PICK m : m = IF Len(seq) < MaxSamples THEN Len(seq) ELSE MaxSamples
  OBVIOUS
<1>2. Len(seq) \in Nat /\ m \in Nat /\ m <= Len(seq) /\ \A i \in 1..m : i \in 1..Len(seq) /\ seq[i] \in T
  BY <1>1, LenProperties
<1>3. First(seq) = SubSeq(seq, 1, m)
  BY <1>1 DEF First
<1>. QED
  BY <1>1, <1>2, <1>3, SubSeqProperties

\* Cutting two lists before they are joined and cut changes nothing.
LEMMA FirstOfJoined ==
  ASSUME NEW T, NEW a \in Seq(T), NEW b \in Seq(T)
  PROVE  First(First(a) \o First(b)) = First(a \o b)
<1>. USE ImportPlanAssumption
<1>1. PICK fa, fb : fa = First(a) /\ fb = First(b)
  OBVIOUS
<1>2. /\ fa \in Seq(T) /\ fb \in Seq(T)
      /\ Len(a) \in Nat /\ Len(b) \in Nat /\ Len(fa) \in Nat /\ Len(fb) \in Nat
      /\ Len(fa) = IF Len(a) < MaxSamples THEN Len(a) ELSE MaxSamples
      /\ Len(fb) = IF Len(b) < MaxSamples THEN Len(b) ELSE MaxSamples
      /\ \A i \in 1..Len(fa) : fa[i] = a[i]
      /\ \A i \in 1..Len(fb) : fb[i] = b[i]
  BY <1>1, FirstIs, LenProperties
<1>3. PICK c : c = fa \o fb
  OBVIOUS
<1>4. PICK d : d = a \o b
  OBVIOUS
<1>0. /\ fa \in Seq(T) /\ fb \in Seq(T) /\ Len(fa) \in Nat /\ Len(fb) \in Nat
  BY <1>2
<1>00. /\ fa \o fb \in Seq(T) /\ Len(fa \o fb) = Len(fa) + Len(fb)
       /\ \A i \in 1..Len(fa) + Len(fb) : (fa \o fb)[i] = IF i <= Len(fa) THEN fa[i] ELSE fb[i - Len(fa)]
  BY ONLY <1>0, ConcatProperties
<1>5. /\ c \in Seq(T) /\ Len(c) = Len(fa) + Len(fb) /\ Len(c) \in Nat
      /\ \A i \in 1..Len(c) : c[i] = IF i <= Len(fa) THEN fa[i] ELSE fb[i - Len(fa)]
  BY ONLY <1>0, <1>00, <1>3
<1>6. /\ d \in Seq(T) /\ Len(d) = Len(a) + Len(b) /\ Len(d) \in Nat
      /\ \A i \in 1..Len(d) : d[i] = IF i <= Len(a) THEN a[i] ELSE b[i - Len(a)]
  BY <1>2, <1>4, ConcatProperties
<1>7. /\ First(c) \in Seq(T) /\ First(d) \in Seq(T)
      /\ Len(First(c)) = (IF Len(c) < MaxSamples THEN Len(c) ELSE MaxSamples)
      /\ Len(First(d)) = (IF Len(d) < MaxSamples THEN Len(d) ELSE MaxSamples)
      /\ \A i \in 1..Len(First(c)) : i \in 1..Len(c) /\ First(c)[i] = c[i]
      /\ \A i \in 1..Len(First(d)) : i \in 1..Len(d) /\ First(d)[i] = d[i]
  BY <1>5, <1>6, FirstIs
<1>8. /\ Len(First(c)) = Len(First(d))
      /\ \A i \in Nat : i <= MaxSamples /\ ~(i <= Len(fa)) => Len(fa) = Len(a)
  <2>1. /\ (IF Len(fa) + Len(fb) < MaxSamples THEN Len(fa) + Len(fb) ELSE MaxSamples) =
             IF Len(a) + Len(b) < MaxSamples THEN Len(a) + Len(b) ELSE MaxSamples
        /\ \A i \in Nat : i <= MaxSamples /\ ~(i <= Len(fa)) => Len(fa) = Len(a)
    <3>1. MaxSamples \in Nat
      OBVIOUS
    <3>2. /\ Len(a) \in Nat /\ Len(b) \in Nat /\ Len(fa) \in Nat /\ Len(fb) \in Nat
          /\ Len(fa) = (IF Len(a) < MaxSamples THEN Len(a) ELSE MaxSamples)
          /\ Len(fb) = (IF Len(b) < MaxSamples THEN Len(b) ELSE MaxSamples)
      BY <1>2
    <3>3. PICK x, y, fx, fy : x = Len(a) /\ y = Len(b) /\ fx = Len(fa) /\ fy = Len(fb)
      OBVIOUS
    <3>4. /\ x \in Nat /\ y \in Nat /\ fx \in Nat /\ fy \in Nat
          /\ fx = (IF x < MaxSamples THEN x ELSE MaxSamples)
          /\ fy = (IF y < MaxSamples THEN y ELSE MaxSamples)
      BY ONLY <3>2, <3>3
    <3>5. CASE x < MaxSamples /\ y < MaxSamples
      BY ONLY <3>1, <3>3, <3>4, <3>5
    <3>6. CASE x < MaxSamples /\ ~(y < MaxSamples)
      BY ONLY <3>1, <3>3, <3>4, <3>6
    <3>7. CASE ~(x < MaxSamples)
      BY ONLY <3>1, <3>3, <3>4, <3>7
    <3>. QED
      BY ONLY <3>5, <3>6, <3>7
  <2>. QED
    BY ONLY <1>5, <1>6, <1>7, <2>1
<1>9. ASSUME NEW i \in 1..Len(First(c)) PROVE First(c)[i] = First(d)[i]
  <2>1. /\ i \in 1..Len(c) /\ i \in 1..Len(d) /\ i \in Nat /\ i <= MaxSamples
        /\ First(c)[i] = c[i] /\ First(d)[i] = d[i]
    BY <1>5, <1>7, <1>8
  <2>2. CASE i <= Len(fa)
    <3>1. i \in 1..Len(fa) /\ i <= Len(a)
      BY <1>2, <2>1, <2>2
    <3>. QED
      BY <1>2, <1>5, <1>6, <2>1, <2>2, <3>1
  <2>3. CASE ~(i <= Len(fa))
    <3>1. Len(fa) = Len(a) /\ ~(i <= Len(a)) /\ i - Len(fa) \in 1..Len(fb)
      <4>1. Len(fa) = Len(a)
        BY ONLY <1>8, <2>1, <2>3
      <4>2. i <= Len(fa) + Len(fb) /\ Len(fa) \in Nat /\ Len(fb) \in Nat /\ i \in Nat
        BY ONLY <1>0, <1>5, <2>1
      <4>. QED
        BY ONLY <2>3, <4>1, <4>2
    <3>2. c[i] = fb[i - Len(fa)] /\ d[i] = b[i - Len(a)]
      BY <1>5, <1>6, <2>1, <2>3, <3>1
    <3>. QED
      BY <1>2, <2>1, <3>1, <3>2
  <2>. QED
    BY <2>2, <2>3
<1>10. First(c) = First(d)
  BY ONLY <1>7, <1>8, <1>9, SeqEqual
<1>. QED
  BY <1>1, <1>3, <1>4, <1>10

\* Taking away from a set what is not among its first few leaves them the same.
LEMMA SameFirsts ==
  ASSUME NEW S \in SUBSET PathNumbers, NEW U \in SUBSET S, FirstOf(S) \subseteq U
  PROVE  FirstOf(U) = FirstOf(S)
<1>. USE ImportPlanAssumption
<1>1. U \in SUBSET PathNumbers
  OBVIOUS
<1>0. IsFiniteSet(S) /\ IsFiniteSet(U)
  BY <1>1, Ranks
<1>2. \A p \in U : p \in PathNumbers /\ p \in S /\ Rank(S, p) \in Nat /\ Rank(U, p) \in Nat
  <2>1. \A p \in PathNumbers : Rank(S, p) \in Nat
    BY Ranks
  <2>2. \A p \in PathNumbers : Rank(U, p) \in Nat
    BY <1>1, Ranks
  <2>. QED
    BY <1>1, <2>1, <2>2
<1>3. ASSUME NEW p \in U PROVE Rank(U, p) <= Rank(S, p)
  <2>1. {q \in U : q < p} \in SUBSET {q \in S : q < p} /\ IsFiniteSet({q \in S : q < p})
    BY <1>0, FS_Subset
  <2>. QED
    BY <2>1, FS_Subset DEF Rank
<1>4. ASSUME NEW p \in U, Rank(S, p) >= MaxSamples PROVE Rank(U, p) >= MaxSamples
  <2>1. p \in S /\ Rank(S, p) < Cardinality(S) /\ Cardinality(S) \in Nat
    BY Ranks
  <2>2. Cardinality(FirstOf(S)) = MaxSamples
    BY <1>2, <1>4, <2>1, Firsts
  <2>3. ASSUME NEW q \in FirstOf(S) PROVE q < p
    <3>1. q \in S /\ Rank(S, q) < MaxSamples /\ Rank(S, q) \in Nat /\ Rank(S, p) \in Nat
      BY <1>1, <1>2, Ranks, Firsts
    <3>2. q \in Nat /\ p \in Nat /\ q # p
      BY <1>1, <1>4, <3>1
    <3>3. ~(p < q)
      <4>. SUFFICES ASSUME p < q PROVE FALSE
        OBVIOUS
      <4>1. Rank(S, p) < Rank(S, q)
        BY <1>1, <2>1, <3>1, Ranks
      <4>. QED
        BY <1>4, <3>1, <4>1
    <3>. QED
      BY <3>2, <3>3
  <2>4. FirstOf(S) \in SUBSET {q \in U : q < p}
    BY <2>3
  <2>5. IsFiniteSet({q \in U : q < p})
    BY <1>0, FS_Subset
  <2>. QED
    BY <2>2, <2>4, <2>5, FS_Subset DEF Rank
<1>5. \A p \in U : Rank(U, p) < MaxSamples <=> Rank(S, p) < MaxSamples
  BY <1>2, <1>3, <1>4
<1>6. \A p \in U : p \in FirstOf(U) <=> p \in FirstOf(S)
  BY <1>1, <1>5, Firsts
<1>. QED
  BY <1>1, <1>6, Firsts

\* What a set of paths that match comes to in the plan.
Summary(s, paths) == [count |-> Cardinality(paths), matches |-> Named(s, FirstOf(paths))]

LEMMA NoPaths == FirstOf({}) = {} /\ (\A s : Named(s, {}) = <<>>) /\ (\A s : Summary(s, {}) = NoMatches)
<1>1. FirstOf({}) = {}
  BY DEF FirstOf
<1>2. ASSUME NEW s PROVE Named(s, {}) = <<>>
  <2>1. Named(s, {}) \in Seq({s} \X {}) /\ Len(Named(s, {})) = 0
    BY NamedIs, FS_EmptySet
  <2>. QED
    BY <2>1
<1>. QED
  BY <1>1, <1>2, FS_EmptySet DEF Summary, NoMatches

\* The samples prepared for a group are as good as the whole group.
LEMMA SamplesSuffice ==
  ASSUME NEW s, NEW content, NEW k, Group(s, k) \in SUBSET PathNumbers
  PROVE  Different(s, content, k) = Summary(s, Without(s, Group(s, k), content))
<1>1. PICK group : group = Group(s, k)
  OBVIOUS
<1>. DEFINE W == Without(s, group, content)
            Same(c) == {p \in group : items[s][p] = c}
            prepared == SamplesWithout(s, group)
            samples == IF content \in DOMAIN prepared THEN prepared[content] ELSE FirstOf(group)
            count == Cardinality(group) - ContentCount(s, group, content)
<1>2. group \in SUBSET PathNumbers /\ W \in SUBSET group /\ W \in SUBSET PathNumbers
  BY <1>1 DEF Without
<1>3. /\ IsFiniteSet(group) /\ Cardinality(group) \in Nat
      /\ IsFiniteSet(W) /\ Cardinality(W) \in Nat
  <2>. HIDE DEF W
  <2>. QED
    BY <1>2, Ranks
<1>4. count = Cardinality(W)
  <2>1. /\ Same(content) \cup W = group /\ Same(content) \cap W = {}
        /\ Same(content) \in SUBSET group
    BY DEF Without
  <2>2. IsFiniteSet(Same(content)) /\ Cardinality(Same(content)) \in Nat
    BY <1>3, <2>1, FS_Subset, FS_CardinalityType
  <2>3. ContentCount(s, group, content) = Cardinality(Same(content))
    BY DEF ContentCount
  <2>. HIDE DEF W, Same
  <2>4. Cardinality(Same(content) \cap W) = 0
    BY <2>1, FS_EmptySet
  <2>5. Cardinality(group) = Cardinality(Same(content)) + Cardinality(W) - Cardinality(Same(content) \cap W)
    BY <1>3, <2>1, <2>2, FS_Union
  <2>. QED
    BY <1>3, <2>2, <2>3, <2>4, <2>5
<1>5. Different(s, content, k) =
        IF count = 0 THEN NoMatches
        ELSE [count |-> count, matches |-> Named(s, FirstOf(Without(s, samples, content)))]
  BY <1>1 DEF Different
<1>6. CASE count = 0
  <2>1. W = {}
    BY <1>3, <1>4, <1>6, FS_EmptySet
  <2>. QED
    BY <1>1, <1>5, <1>6, <2>1, NoPaths
<1>7. CASE count # 0
  <2>1. FirstOf(Without(s, samples, content)) = FirstOf(W)
    <3>1. CASE content \in DOMAIN prepared
      <4>1. samples = FirstOf(W)
        BY <3>1 DEF SamplesWithout
      <4>2. FirstOf(W) \in SUBSET W
        BY <1>2, Firsts
      <4>3. Without(s, FirstOf(W), content) = FirstOf(W)
        BY <4>2 DEF Without
      <4>4. FirstOf(FirstOf(W)) = FirstOf(W)
        BY <1>2, <4>2, SameFirsts
      <4>. QED
        BY <4>1, <4>3, <4>4
    <3>2. CASE content \notin DOMAIN prepared
      <4>1. samples = FirstOf(group)
        BY <3>2
      <4>2. FirstOf(group) \in SUBSET group
        BY <1>2, Firsts
      <4>3. ContentCount(s, group, content) # Cardinality(group)
        BY <1>3, <1>7
      <4>4. \A p \in FirstOf(group) : items[s][p] # content
        BY <3>2, <4>3 DEF SamplesWithout
      <4>5. Without(s, FirstOf(group), content) = FirstOf(group) /\ FirstOf(group) \subseteq W
        BY <4>2, <4>4 DEF Without
      <4>6. FirstOf(W) = FirstOf(group)
        BY <1>2, <4>5, SameFirsts
      <4>7. FirstOf(FirstOf(group)) = FirstOf(group)
        BY <1>2, <4>2, SameFirsts
      <4>. QED
        BY <4>1, <4>5, <4>6, <4>7
    <3>. QED
      BY <3>1, <3>2
  <2>. QED
    BY <1>1, <1>4, <1>5, <1>7, <2>1 DEF Summary
<1>. QED
  BY <1>6, <1>7

\* Two sets, one of each tree, as one.
Pairs(A, B) == ({"intake"} \X A) \cup ({"library"} \X B)

LEMMA PairsAre ==
  ASSUME NEW A \in SUBSET PathNumbers, NEW B \in SUBSET PathNumbers
  PROVE  /\ Cardinality(Pairs(A, B)) = Cardinality(A) + Cardinality(B)
         /\ Cardinality(A) \in Nat /\ Cardinality(B) \in Nat
         /\ Pairs(A, B) = {} <=> Cardinality(A) + Cardinality(B) = 0
         /\ InPlanOrder(Pairs(A, B)) = Named("intake", A) \o Named("library", B)
<1>1. /\ IsFiniteSet(A) /\ IsFiniteSet(B) /\ Cardinality(A) \in Nat /\ Cardinality(B) \in Nat
  BY Ranks
<1>2. ASSUME NEW s, NEW S, IsFiniteSet(S), Cardinality(S) \in Nat
      PROVE  IsFiniteSet({s} \X S) /\ Cardinality({s} \X S) = Cardinality(S)
  <2>1. IsFiniteSet({s}) /\ Cardinality({s}) = 1
    BY FS_Singleton
  <2>2. IsFiniteSet({s} \X S) /\ Cardinality({s} \X S) = Cardinality({s}) * Cardinality(S)
    BY <1>2, <2>1, FS_Product
  <2>. QED
    BY <1>2, <2>1, <2>2
<1>3. ({"intake"} \X A) \cap ({"library"} \X B) = {}
  OBVIOUS
<1>4. /\ IsFiniteSet({"intake"} \X A) /\ Cardinality({"intake"} \X A) = Cardinality(A)
      /\ IsFiniteSet({"library"} \X B) /\ Cardinality({"library"} \X B) = Cardinality(B)
  BY <1>1, <1>2
<1>5. Cardinality(Pairs(A, B)) = Cardinality(A) + Cardinality(B) /\ IsFiniteSet(Pairs(A, B))
  <2>. DEFINE X == {"intake"} \X A
              Y == {"library"} \X B
  <2>1. X \cap Y = {} /\ Cardinality({}) = 0 /\ Pairs(A, B) = X \cup Y
    BY <1>3, FS_EmptySet DEF Pairs
  <2>2. IsFiniteSet(X) /\ IsFiniteSet(Y) /\ Cardinality(X) = Cardinality(A) /\ Cardinality(Y) = Cardinality(B)
    BY <1>4
  <2>. HIDE DEF X, Y
  <2>3. IsFiniteSet(X \cup Y) /\ Cardinality(X \cup Y) = Cardinality(X) + Cardinality(Y) - Cardinality(X \cap Y)
    BY <2>2, FS_Union
  <2>4. Cardinality(X \cup Y) = Cardinality(A) + Cardinality(B) - 0
    BY <2>1, <2>2, <2>3
  <2>. QED
    BY <1>1, <2>1, <2>3, <2>4
<1>6. Pairs(A, B) = {} <=> Cardinality(A) + Cardinality(B) = 0
  BY <1>5, FS_EmptySet
<1>7. /\ {q \in PathNumbers : <<"intake", q>> \in Pairs(A, B)} = A
      /\ {q \in PathNumbers : <<"library", q>> \in Pairs(A, B)} = B
  BY DEF Pairs
<1>. QED
  BY <1>1, <1>5, <1>6, <1>7 DEF InPlanOrder

LEMMA SummariesAre ==
  ASSUME NEW A \in SUBSET PathNumbers, NEW B \in SUBSET PathNumbers
  PROVE  Combined(Summary("intake", A), Summary("library", B)) =
           [count |-> Cardinality(Pairs(A, B)), matches |-> First(InPlanOrder(Pairs(A, B)))]
<1>. DEFINE T == {"intake", "library"} \X PathNumbers
            a == Named("intake", A)
            b == Named("library", B)
<1>1. a \in Seq(T) /\ b \in Seq(T)
  <2>1. a \in Seq({"intake"} \X A) /\ b \in Seq({"library"} \X B)
    BY NamedIs
  <2>2. {"intake"} \X A \subseteq T /\ {"library"} \X B \subseteq T
    OBVIOUS
  <2>. HIDE DEF T, a, b
  <2>. QED
    BY <2>1, <2>2
<1>2. First(First(a) \o First(b)) = First(a \o b)
  <2>. HIDE DEF T, a, b
  <2>. QED
    BY <1>1, FirstOfJoined
<1>3. First(a) = Named("intake", FirstOf(A)) /\ First(b) = Named("library", FirstOf(B))
  BY NamedFirst
<1>4. /\ Cardinality(Pairs(A, B)) = Cardinality(A) + Cardinality(B)
      /\ InPlanOrder(Pairs(A, B)) = a \o b
  BY PairsAre
<1>5. Combined(Summary("intake", A), Summary("library", B)) =
        [count |-> Cardinality(A) + Cardinality(B),
         matches |-> First(Named("intake", FirstOf(A)) \o Named("library", FirstOf(B)))]
  BY DEF Combined, Summary
<1>. HIDE DEF a, b
<1>. QED
  BY <1>2, <1>3, <1>4, <1>5

LEMMA NothingToName == InPlanOrder({}) = <<>> /\ First(InPlanOrder({})) = <<>>
<1>1. InPlanOrder({}) = <<>> \o <<>>
  BY NoPaths DEF InPlanOrder
<1>2. <<>> \o <<>> = <<>>
  OBVIOUS
<1>3. First(<<>>) = <<>>
  <2>1. <<>> \in Seq({}) /\ Len(<<>>) = 0
    OBVIOUS
  <2>2. Len(First(<<>>)) = (IF 0 < MaxSamples THEN 0 ELSE MaxSamples) /\ First(<<>>) \in Seq({})
    BY <2>1, FirstIs
  <2>3. 0 < MaxSamples
    BY ImportPlanAssumption
  <2>4. First(<<>>) \in Seq({}) /\ Len(First(<<>>)) = 0
    BY <2>2, <2>3
  <2>. QED
    BY ONLY <2>4
<1>. QED
  BY <1>1, <1>2, <1>3

\* What comparing the file at p with each other file says is what the plan says.
Conflicting(p) == {o \in Others(p) : key[o[2]] = key[p] /\ items[o[1]][o[2]] # items["intake"][p]}
Agreeing(p) == {o \in Others(p) : items[o[1]][o[2]] = items["intake"][p]}
Matching(p) == IF Conflicting(p) # {} THEN Conflicting(p) ELSE Agreeing(p)

LEMMA ClassesCompareAll ==
  ASSUME ImportTypeOK, NEW p \in Counted("intake") \ Unsupported
  PROVE  /\ Classification(p).class = IF Conflicting(p) # {} THEN "name-conflict"
                                      ELSE IF Agreeing(p) # {} THEN "exact-match" ELSE "new"
         /\ Classification(p).summary.count = Cardinality(Matching(p))
         /\ Classification(p).summary.matches = First(InPlanOrder(Matching(p)))
<1>0. PICK content, conflicts, same, found :
        /\ content = items["intake"][p]
        /\ conflicts = Conflicting(p) /\ same = Agreeing(p) /\ found = Matching(p)
  OBVIOUS
<1>00. /\ conflicts = {o \in Others(p) : key[o[2]] = key[p] /\ items[o[1]][o[2]] # content}
       /\ same = {o \in Others(p) : items[o[1]][o[2]] = content}
       /\ found = IF conflicts # {} THEN conflicts ELSE same
  BY <1>0 DEF Conflicting, Agreeing, Matching
<1>. SUFFICES /\ Classification(p).class = IF conflicts # {} THEN "name-conflict"
                                           ELSE IF same # {} THEN "exact-match" ELSE "new"
              /\ Classification(p).summary.count = Cardinality(found)
              /\ Classification(p).summary.matches = First(InPlanOrder(found))
  BY <1>0
<1>. DEFINE A == Without("intake", Group("intake", key[p]), content)
            B == Without("library", Group("library", key[p]), content)
            C == {q \in Supported("intake") \ {p} : items["intake"][q] = content}
            D == {q \in Supported("library") \ {} : items["library"][q] = content}
<1>1. /\ A \in SUBSET PathNumbers /\ B \in SUBSET PathNumbers
      /\ C \in SUBSET PathNumbers /\ D \in SUBSET PathNumbers
      /\ Group("intake", key[p]) \in SUBSET PathNumbers
      /\ Group("library", key[p]) \in SUBSET PathNumbers
  BY DEF Without, Group, Supported, Counted
<1>2. conflicts = Pairs(A, B)
  <2>1. ASSUME NEW o \in conflicts PROVE o \in Pairs(A, B)
    BY <1>00 DEF Pairs, Others, Scopes, Without, Group, Supported, Counted
  <2>2. ASSUME NEW q \in A PROVE <<"intake", q>> \in conflicts
    BY <1>0, <1>00 DEF Others, Scopes, Without, Group, Supported, Counted
  <2>3. ASSUME NEW q \in B PROVE <<"library", q>> \in conflicts
    BY <1>0, <1>00 DEF Others, Scopes, Without, Group, Supported, Counted
  <2>4. ASSUME NEW o \in Pairs(A, B) PROVE o \in conflicts
    <3>. HIDE DEF A, B
    <3>. QED
      BY <2>2, <2>3, <2>4 DEF Pairs
  <2>. HIDE DEF A, B
  <2>. QED
    BY <2>1, <2>4
<1>3. same = Pairs(C, D)
  <2>1. ASSUME NEW o \in same PROVE o \in Pairs(C, D)
    BY <1>00 DEF Pairs, Others, Scopes, Supported, Counted
  <2>2. ASSUME NEW q \in C PROVE <<"intake", q>> \in same
    BY <1>0, <1>00 DEF Others, Scopes, Supported, Counted
  <2>3. ASSUME NEW q \in D PROVE <<"library", q>> \in same
    BY <1>0, <1>00 DEF Others, Scopes, Supported, Counted
  <2>4. ASSUME NEW o \in Pairs(C, D) PROVE o \in same
    <3>. HIDE DEF C, D
    <3>. QED
      BY <2>2, <2>3, <2>4 DEF Pairs
  <2>. HIDE DEF C, D
  <2>. QED
    BY <2>1, <2>4
<1>4. /\ Different("intake", content, key[p]) = Summary("intake", A)
      /\ Different("library", content, key[p]) = Summary("library", B)
  BY <1>1, SamplesSuffice
<1>5. /\ Exact("intake", content, {p}) = Summary("intake", C)
      /\ Exact("library", content, {}) = Summary("library", D)
  BY DEF Exact, Summary
<1>. HIDE DEF A, B, C, D
<1>6. PICK first, second :
        /\ first = Combined(Summary("intake", A), Summary("library", B))
        /\ second = Combined(Summary("intake", C), Summary("library", D))
  OBVIOUS
<1>7. /\ first = [count |-> Cardinality(conflicts), matches |-> First(InPlanOrder(conflicts))]
      /\ Cardinality(conflicts) \in Nat /\ (conflicts = {} <=> Cardinality(conflicts) = 0)
  <2>1. /\ Combined(Summary("intake", A), Summary("library", B)) =
             [count |-> Cardinality(Pairs(A, B)), matches |-> First(InPlanOrder(Pairs(A, B)))]
        /\ Cardinality(A) \in Nat /\ Cardinality(B) \in Nat
        /\ Cardinality(Pairs(A, B)) = Cardinality(A) + Cardinality(B)
        /\ Pairs(A, B) = {} <=> Cardinality(A) + Cardinality(B) = 0
    BY ONLY <1>1, SummariesAre, PairsAre
  <2>. QED
    BY ONLY <1>2, <1>6, <2>1
<1>8. /\ second = [count |-> Cardinality(same), matches |-> First(InPlanOrder(same))]
      /\ Cardinality(same) \in Nat /\ (same = {} <=> Cardinality(same) = 0)
  <2>1. /\ Combined(Summary("intake", C), Summary("library", D)) =
             [count |-> Cardinality(Pairs(C, D)), matches |-> First(InPlanOrder(Pairs(C, D)))]
        /\ Cardinality(C) \in Nat /\ Cardinality(D) \in Nat
        /\ Cardinality(Pairs(C, D)) = Cardinality(C) + Cardinality(D)
        /\ Pairs(C, D) = {} <=> Cardinality(C) + Cardinality(D) = 0
    BY ONLY <1>1, SummariesAre, PairsAre
  <2>. QED
    BY ONLY <1>3, <1>6, <2>1
<1>9. Classification(p) =
        CASE p \in Unsupported -> [class |-> "unsupported", summary |-> NoMatches]
          [] p \notin Unsupported /\ first.count > 0 -> [class |-> "name-conflict", summary |-> first]
          [] p \notin Unsupported /\ first.count = 0 /\ second.count > 0 ->
               [class |-> "exact-match", summary |-> second]
          [] OTHER -> [class |-> "new", summary |-> NoMatches]
  BY <1>0, <1>4, <1>5, <1>6 DEF Classification
<1>10. CASE conflicts # {}
  <2>1. Classification(p) = [class |-> "name-conflict", summary |-> first]
    BY <1>7, <1>9, <1>10
  <2>. QED
    BY <1>00, <1>7, <1>10, <2>1
<1>11. CASE conflicts = {} /\ same # {}
  <2>1. Classification(p) = [class |-> "exact-match", summary |-> second]
    BY <1>7, <1>8, <1>9, <1>11
  <2>. QED
    BY <1>00, <1>8, <1>11, <2>1
<1>12. CASE conflicts = {} /\ same = {}
  <2>1. Classification(p) = [class |-> "new", summary |-> NoMatches]
    BY <1>7, <1>8, <1>9, <1>12
  <2>2. found = {} /\ Cardinality(found) = 0
    BY <1>00, <1>8, <1>12
  <2>3. Classification(p).summary.count = 0 /\ Classification(p).summary.matches = <<>>
        /\ Classification(p).class = "new"
    BY <2>1 DEF NoMatches
  <2>. QED
    BY <1>12, <2>2, <2>3, NothingToName
<1>. QED
  BY <1>10, <1>11, <1>12

\* The plan compares every file with every other one: the samples prepared for a
\* group and the cut lists leave out nothing that would be shown (classify,
\* buildConflictGroups and differentContentSummary of plan.go).
THEOREM PlansCompareAllFiles == ImportSpec => []PlanComparesAllFiles
<1>1. ImportInv => PlanComparesAllFiles
  <2>. SUFFICES ASSUME ImportInv, step = "done", NEW p \in DOMAIN plan \ Unsupported
                PROVE  LET conflicts == {o \in Others(p) : key[o[2]] = key[p]
                                                       /\ items[o[1]][o[2]] # items["intake"][p]}
                           same == {o \in Others(p) : items[o[1]][o[2]] = items["intake"][p]}
                           found == IF conflicts # {} THEN conflicts ELSE same
                       IN  /\ plan[p].class = IF conflicts # {} THEN "name-conflict"
                                              ELSE IF same # {} THEN "exact-match" ELSE "new"
                           /\ plan[p].summary.count = Cardinality(found)
                           /\ plan[p].summary.matches = First(InPlanOrder(found))
    BY DEF PlanComparesAllFiles
  <2>1. p \in Counted("intake") \ Unsupported /\ plan[p] = Classification(p) /\ ImportTypeOK
    BY DEF ImportInv
  <2>2. /\ Classification(p).class = IF Conflicting(p) # {} THEN "name-conflict"
                                     ELSE IF Agreeing(p) # {} THEN "exact-match" ELSE "new"
        /\ Classification(p).summary.count = Cardinality(Matching(p))
        /\ Classification(p).summary.matches = First(InPlanOrder(Matching(p)))
    BY <2>1, ClassesCompareAll
  <2>. QED
    BY <2>1, <2>2 DEF Conflicting, Agreeing, Matching
<1>. QED
  BY <1>1, ImportInvariant, PTL
=============================================================================
