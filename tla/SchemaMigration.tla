--------------------------- MODULE SchemaMigration ---------------------------
(***************************************************************************)
(* How the server and the scanner open the database (newServer): a guard     *)
(* that only reads, then two migrations, each in a transaction of its own    *)
(* that takes the writer lock at once.  They run at every start, also while  *)
(* another process is up and reads, and drop and make again the views it     *)
(* reads.                                                                  *)
(*                                                                         *)
(* A part stands for the tables, columns, indexes or rows that a group of    *)
(* statements makes; a group is one step.  Dropping a view is a step.        *)
(* An older build may run beside, and hide works (legacy decisions).         *)
(***************************************************************************)
EXTENDS Naturals, Sequences

CONSTANTS
  Starters,   \* processes that open the database
  Scanners,   \* those that close it when they are through
  Nobody

ASSUME SchemaMigrationAssumption == Scanners \subseteq Starters /\ Nobody \notin Starters

VARIABLES
  parts,      \* what the database has
  registered, \* bmanga_schema_migrations
  decisions,  \* an older build has hidden works, or made work_browse a table
  original,   \* the parts that were there before this build
  always,     \* there were decisions all the time
  stage,      \* of a starter
  writer,     \* who has the writer lock
  tx          \* its transaction: the parts as it sees them, and the statements left

schemaVars == <<parts, registered, decisions, original, always, stage, writer, tx>>

Migrations == <<"local-schema-v1", "catalog-schema-v1">>
CatalogParts == {"catalog_tables", "library_dashboard"}
ReadParts == {"local_tables", "columns", "profile", "work_browse"} \cup CatalogParts

\* The databases this build may find: none, those of older builds, or of a scan.
Databases ==
  {{}, {"local_tables"}, {"catalog_tables"}, {"local_tables", "catalog_tables", "work_browse"},
   {"local_tables", "columns"} \cup CatalogParts}

NoTx == [parts |-> {}, left |-> <<>>]

SchemaInit ==
  /\ parts \in Databases
  /\ registered = {}
  /\ decisions \in BOOLEAN
  /\ original = parts
  /\ always = decisions
  /\ stage = [p \in Starters |-> "off"]
  /\ writer = Nobody
  /\ tx = NoTx

-----------------------------------------------------------------------------
\* ensureLocalSQLiteTablesInTransaction and ensureCatalogTablesInTransaction: the
\* groups of their statements.
LocalStatements == <<"local_tables", "indexes", "columns", "drop work_browse", "work_browse", "profile">>
CatalogStatements ==
  <<"catalog_tables", "drop library_dashboard", "library_dashboard", "indexes",
    "drop work_browse", "work_browse">>
Statements(migration) ==
  IF migration = "local-schema-v1" THEN LocalStatements ELSE CatalogStatements

\* What a group makes: indexes and the view of works only with the catalog's tables.
Made(p, statement) ==
  CASE statement = "drop work_browse" ->
         IF "catalog_tables" \in p THEN p \ {"work_browse"} ELSE p
    [] statement = "drop library_dashboard" -> p \ {"library_dashboard"}
    [] statement \in {"work_browse", "indexes"} /\ "catalog_tables" \notin p -> p
    [] OTHER -> p \cup {statement}

-----------------------------------------------------------------------------
\* rejectUnsupportedLegacyMaintenanceState.
\* (Mutant: only after the first migration.)
InspectLate(p) ==
  /\ stage[p] = "off"
  /\ stage' = [stage EXCEPT ![p] = "local-schema-v1"]
  /\ UNCHANGED <<parts, registered, decisions, original, always, writer, tx>>
Inspect(p) ==
  /\ stage[p] = "off"
  /\ stage' = [stage EXCEPT ![p] = IF decisions THEN "refused" ELSE "local-schema-v1"]
  /\ UNCHANGED <<parts, registered, decisions, original, always, writer, tx>>

\* runSQLiteMigration: BEGIN IMMEDIATE.
BeginMigration(p) ==
  /\ \E m \in {1, 2} : stage[p] = Migrations[m]
  /\ writer = Nobody
  /\ writer' = p
  /\ tx' = [parts |-> parts, left |-> Statements(stage[p])]
  /\ UNCHANGED <<parts, registered, decisions, original, always, stage>>

Statement(p) ==
  /\ writer = p /\ tx.left # <<>>
  /\ tx' = [parts |-> Made(tx.parts, Head(tx.left)), left |-> Tail(tx.left)]
  /\ UNCHANGED <<parts, registered, decisions, original, always, stage, writer>>

\* The row of the registry, and COMMIT.
\* (Mutant: where a scan has made the catalog's tables, their migration is skipped.)
CommitSkipping(p) ==
  /\ writer = p /\ tx.left = <<>>
  /\ parts' = tx.parts
  /\ registered' = registered \cup {stage[p]}
  /\ stage' = [stage EXCEPT ![p] =
       IF @ = Migrations[1] /\ "catalog_tables" \notin parts THEN Migrations[2] ELSE "up"]
  /\ writer' = Nobody
  /\ tx' = NoTx
  /\ UNCHANGED <<decisions, original, always>>
CommitMigration(p) ==
  /\ writer = p /\ tx.left = <<>>
  /\ parts' = tx.parts
  /\ registered' = registered \cup {stage[p]}
  /\ stage' = [stage EXCEPT ![p] = IF @ = Migrations[1] THEN Migrations[2] ELSE "up"]
  /\ writer' = Nobody
  /\ tx' = NoTx
  /\ UNCHANGED <<decisions, original, always>>

\* A statement fails, the writer lock is not had in time, or the process is
\* stopped or killed: a transaction is rolled back.
Break(p) ==
  /\ stage[p] \notin {"off", "refused"}
  /\ stage' = [stage EXCEPT ![p] = "off"]
  /\ IF writer = p THEN writer' = Nobody /\ tx' = NoTx ELSE UNCHANGED <<writer, tx>>
  /\ UNCHANGED <<parts, registered, decisions, original, always>>

\* The scanner closes the database it had opened for its schema only.
Close(p) ==
  /\ p \in Scanners /\ stage[p] = "up"
  /\ stage' = [stage EXCEPT ![p] = "off"]
  /\ UNCHANGED <<parts, registered, decisions, original, always, writer, tx>>

\* A refused process is started again.
Retry(p) ==
  /\ stage[p] = "refused"
  /\ stage' = [stage EXCEPT ![p] = "off"]
  /\ UNCHANGED <<parts, registered, decisions, original, always, writer, tx>>

\* The older build hides a work, or shows the last of them again.
Decide ==
  /\ writer = Nobody
  /\ decisions' = ~decisions
  /\ always' = FALSE
  /\ UNCHANGED <<parts, registered, original, stage, writer, tx>>

SchemaNext ==
  \/ Decide
  \/ \E p \in Starters :
       \/ Inspect(p) \/ BeginMigration(p) \/ Statement(p) \/ CommitMigration(p)
       \/ Break(p) \/ Close(p) \/ Retry(p)

SchemaSpec == SchemaInit /\ [][SchemaNext]_schemaVars

-----------------------------------------------------------------------------
\* A process that is up finds all it reads, at every moment of the migrations that
\* another one runs over the same database and wherever that one breaks off.
ReadersFindTheSchema ==
  \A p \in Starters : stage[p] = "up" => ReadParts \subseteq parts

\* While an older build's decisions are there, this one does not start and leaves the
\* database as it is ("no database rows were changed"), whoever tries how often.
RefusedStaysUntouched ==
  always => /\ parts = original /\ registered = {}
            /\ \A p \in Starters : stage[p] # "up"
=============================================================================
