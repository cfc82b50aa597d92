------------------------------ MODULE MCCatalog ------------------------------
(***************************************************************************)
(* Instances of CatalogScan, SchemaMigration, RuntimeDiagnostics, ImportPlan, *)
(* ContinueTarget and ProgressQueue side by side.  SchemaMigration is about   *)
(* the tables of the database, CatalogScan about the rows in them,            *)
(* ContinueTarget reads rows that neither writes, ProgressQueue is of the     *)
(* browser, and the other two touch no database: only one of them moves in a  *)
(* behaviour.                                                               *)
(***************************************************************************)
EXTENDS CatalogScan, SchemaMigration, RuntimeDiagnostics, ImportPlan,
        ContinueTarget, ProgressQueue, TLC

CONSTANTS l1, l2, n1, n2, p1, p2, root, covers, sub, k1, k2, w1

VARIABLE part

Unread == [open |-> TRUE, status |-> "", progress |-> NoProgress]

\* What stays at rest starts in one state.
ToolsInit ==
  /\ part \in {"scan", "schema", "diagnostics", "import", "continue", "progress"}
  /\ CatalogInit /\ (part = "scan" \/ \A l \in Libraries : disk[l] = {})
  /\ SchemaInit /\ (part = "schema" \/ (parts = {} /\ ~decisions))
  /\ DiagnosticsInit
  /\ ImportInit
  /\ \/ part = "import"
     \/ /\ \A s \in Scopes, p \in PathNumbers : tree[s][p] = Absent
        /\ \A p \in PathNumbers : key[p] = k1
  /\ part = "continue" \/ (closed = {} /\ books = [b \in Books |-> Unread])
  /\ ContinueInit
  /\ capacity \in Capacities /\ (part = "progress" \/ capacity = 2)
  /\ ProgressQueueInit
  \* A queue that holds one position, and a manifest that changes, are looked at with a
  \* right clock only.
  /\ device = "right" \/ (capacity = 2 /\ part = "progress")
  /\ manifest = [w \in Works |-> IF device = "ahead" THEN 2 ELSE 1]

ToolsNext ==
  \/ /\ part = "scan" /\ CatalogNext
     /\ UNCHANGED <<part, schemaVars, diagnosticsVars, importVars, continueVars, progressQueueVars>>
  \/ /\ part = "schema" /\ SchemaNext
     /\ UNCHANGED <<part, catalogVars, diagnosticsVars, importVars, continueVars, progressQueueVars>>
  \/ /\ part = "diagnostics" /\ DiagnosticsNext
     /\ UNCHANGED <<part, catalogVars, schemaVars, importVars, continueVars, progressQueueVars>>
  \/ /\ part = "import" /\ ImportNext
     /\ UNCHANGED <<part, catalogVars, schemaVars, diagnosticsVars, continueVars, progressQueueVars>>
  \/ /\ part = "continue" /\ ContinueNext
     /\ UNCHANGED <<part, catalogVars, schemaVars, diagnosticsVars, importVars, progressQueueVars>>
  \/ /\ part = "progress" /\ ProgressQueueNext
     /\ UNCHANGED <<part, catalogVars, schemaVars, diagnosticsVars, importVars, continueVars>>

ToolsSpec ==
  ToolsInit
    /\ [][ToolsNext]_<<part, catalogVars, schemaVars, diagnosticsVars, importVars, continueVars,
                       progressQueueVars>>

\* In one library two names share a path.
SomePaths == (l1 :> ((n1 :> p1) @@ (n2 :> p2))) @@ (l2 :> ((n1 :> p1) @@ (n2 :> p1)))
SomeDirectories == (root :> {sub}) @@ (covers :> {}) @@ (sub :> {})
SomeKeys == {<<k1, k1, k1>>, <<k1, k1, k2>>, <<k1, k1, OtherKind>>}

\* Opened at 2, read into at 1 and finished at 2; open or not.
SomeProgress ==
  {NoProgress, [meaningful |-> FALSE, time |-> 2, completed |-> FALSE],
   [meaningful |-> TRUE, time |-> 1, completed |-> FALSE],
   [meaningful |-> TRUE, time |-> 2, completed |-> TRUE]}
SomeBookStates ==
  [open : {TRUE}, status : {"", "completed"}, progress : SomeProgress] \cup
  {[open |-> FALSE, status |-> "", progress |-> [meaningful |-> TRUE, time |-> 1, completed |-> FALSE]]}
\* Two editions of one number and the next one, which another series shares; book 4
\* is in none.
SomeGroups ==
  << <<[primary |-> 2, entries |-> <<1, 2>>], [primary |-> 3, entries |-> <<3>>]>>,
     <<[primary |-> 3, entries |-> <<3>>]>> >>

\* Two manifests of one work.
OneWork == <<w1, w1>>

\* Askers, Starters, Contents and Tabs are the same model values.
ToolsSymmetry == Permutations(Askers)
=============================================================================
