----------------------------- MODULE ImportPlan -----------------------------
(***************************************************************************)
(* The import planner (internal/importplan/plan.go): it hashes the files of  *)
(* the intake and of the library, while they may change, and then says of    *)
(* each file of the intake whether it is new, there already, or in conflict  *)
(* with a file whose name is the same but for case and Unicode form.  For a  *)
(* file with many matches only the first few are named; the samples for a    *)
(* group of files with one name are prepared once for all its members.       *)
(*                                                                         *)
(* A tree is one directory.  Paths are numbers in their order.  A content    *)
(* stands for size and hash; a file that is written to while it is hashed    *)
(* gives a mixed hash.  Such a write shows in size, time or identity of the  *)
(* file (one that leaves all three as they were is not modelled).            *)
(***************************************************************************)
EXTENDS Naturals, Sequences, FiniteSets

CONSTANTS
  PathNumbers,
  Contents,
  Mixed,           \* the hash of a file that changed meanwhile
  Absent,
  CollisionKeys,   \* what collisionKey may make of the paths
  OtherKind,       \* the key of a path of a kind that is not supported
  MaxSamples,      \* maxMatchSamples
  MaxFiles,        \* Limits.MaxFiles
  MaxWrites        \* bound on changes of the trees

ASSUME ImportPlanAssumption ==
  /\ PathNumbers \subseteq Nat \ {0} /\ IsFiniteSet(PathNumbers)
  /\ Mixed \notin Contents /\ Absent \notin Contents /\ Mixed # Absent
  /\ \A key \in CollisionKeys : PathNumbers \subseteq DOMAIN key
  /\ MaxSamples \in Nat \ {0} /\ MaxFiles \in Nat /\ MaxWrites \in Nat

VARIABLES
  tree,     \* what is on disk, by scope and path
  key,      \* the collision key of a path
  writes,
  step,     \* of the planner: "list", "hash", "classify", "done", "failed"
  scope,    \* the tree it is in
  listed,   \* entries of the directory that are left
  open,     \* the file being hashed, with the hash so far
  items,    \* what it has hashed, by scope
  plan      \* classification, count and matches by path

importVars == <<tree, key, writes, step, scope, listed, open, items, plan>>

Scopes == {"intake", "library"}
NoFile == [path |-> 0, hash |-> Absent]
NoItems == [p \in PathNumbers |-> Absent]

\* Sorting by path, and the first few of the sorted.
Rank(paths, p) == Cardinality({q \in paths : q < p})
InOrder(paths) == [i \in 1..Cardinality(paths) |-> CHOOSE p \in paths : Rank(paths, p) = i - 1]
FirstOf(paths) == {p \in paths : Rank(paths, p) < MaxSamples}

ImportInit ==
  /\ tree \in [Scopes -> [PathNumbers -> Contents \cup {Absent}]]
  /\ key \in CollisionKeys
  /\ writes = 0
  /\ step = "list"
  /\ scope = "intake"
  /\ listed = {}
  /\ open = NoFile
  /\ items = [s \in Scopes |-> NoItems]
  /\ plan = <<>>

-----------------------------------------------------------------------------
\* The trees change; a file being hashed shows parts of both contents.
Write(s, p, c) ==
  /\ step \in {"list", "hash"} /\ writes < MaxWrites
  /\ tree[s][p] # c
  /\ tree' = [tree EXCEPT ![s][p] = c]
  /\ writes' = writes + 1
  /\ open' = IF s = scope /\ open.path = p THEN [open EXCEPT !.hash = Mixed] ELSE open
  /\ UNCHANGED <<key, step, scope, listed, items, plan>>

Stop == step' = "failed" /\ UNCHANGED <<tree, key, writes, scope, listed, open, items, plan>>

\* readDirectoryEntries.
List ==
  /\ step = "list"
  /\ listed' = {p \in PathNumbers : tree[scope][p] # Absent}
  /\ step' = "hash"
  /\ UNCHANGED <<tree, key, writes, scope, open, items, plan>>

\* scanDirectory: the next entry is inspected and opened.
Counted(s) == {p \in PathNumbers : items[s][p] # Absent}
OpenNext ==
  /\ step = "hash" /\ open = NoFile
  /\ \E p \in listed :
       /\ Rank(listed, p) = 0
       /\ IF tree[scope][p] = Absent \/ Cardinality(Counted(scope)) >= MaxFiles
          THEN Stop
          ELSE /\ open' = [path |-> p, hash |-> tree[scope][p]]
               /\ listed' = listed \ {p}
               /\ UNCHANGED <<tree, key, writes, step, scope, items, plan>>

\* hashPinnedFile: a file that is not as it was when it was opened ends the plan.
\* (Mutant: it is not looked at again.)
HashBlindly ==
  /\ step = "hash" /\ open # NoFile
  /\ items' = [items EXCEPT ![scope][open.path] = open.hash]
  /\ open' = NoFile
  /\ UNCHANGED <<tree, key, writes, step, scope, listed, plan>>
HashFile ==
  /\ step = "hash" /\ open # NoFile
  /\ IF open.hash = Mixed \/ tree[scope][open.path] # open.hash
     THEN Stop
     ELSE /\ items' = [items EXCEPT ![scope][open.path] = open.hash]
          /\ open' = NoFile
          /\ UNCHANGED <<tree, key, writes, step, scope, listed, plan>>

EndOfTree ==
  /\ step = "hash" /\ open = NoFile /\ listed = {}
  /\ step' = IF scope = "intake" THEN "list" ELSE "classify"
  /\ scope' = "library"
  /\ UNCHANGED <<tree, key, writes, listed, open, items, plan>>

-----------------------------------------------------------------------------
Unsupported == {p \in PathNumbers : key[p] = OtherKind}
Supported(s) == Counted(s) \ Unsupported
First(seq) == SubSeq(seq, 1, IF Len(seq) < MaxSamples THEN Len(seq) ELSE MaxSamples)
NoMatches == [count |-> 0, matches |-> <<>>]
Named(s, paths) == [i \in 1..Cardinality(paths) |-> <<s, InOrder(paths)[i]>>]

\* buildIndexGroups by collision key, and buildConflictGroups: the first paths of
\* the group, and for each content among them the first paths without it.
Group(s, k) == {p \in Supported(s) : key[p] = k}
ContentCount(s, group, content) == Cardinality({p \in group : items[s][p] = content})
Without(s, paths, content) == {p \in paths : items[s][p] # content}
SamplesWithout(s, group) ==
  [content \in {c \in {items[s][p] : p \in FirstOf(group)} :
                  ContentCount(s, group, c) # Cardinality(group)} |->
     FirstOf(Without(s, group, content))]

\* differentContentSummary.
\* (Mutant: only the first paths are looked at.)
DifferentOfFirst(s, content, k) ==
  LET group == Group(s, k)
  IN  [count |-> Cardinality(group) - ContentCount(s, group, content),
       matches |-> Named(s, Without(s, FirstOf(group), content))]
Different(s, content, k) ==
  LET group == Group(s, k)
      count == Cardinality(group) - ContentCount(s, group, content)
      prepared == SamplesWithout(s, group)
      samples == IF content \in DOMAIN prepared THEN prepared[content] ELSE FirstOf(group)
  IN  IF count = 0 THEN NoMatches
      ELSE [count |-> count, matches |-> Named(s, FirstOf(Without(s, samples, content)))]

\* exactMatchSummary, without the path that is asked for.
Exact(s, content, without) ==
  LET same == {p \in Supported(s) \ without : items[s][p] = content}
  IN  [count |-> Cardinality(same), matches |-> Named(s, FirstOf(same))]

\* combineMatchSummaries.
Combined(m, n) == [count |-> m.count + n.count, matches |-> First(m.matches \o n.matches)]

Classification(p) ==
  LET content == items["intake"][p]
      conflicts == Combined(Different("intake", content, key[p]), Different("library", content, key[p]))
      exact == Combined(Exact("intake", content, {p}), Exact("library", content, {}))
  IN  CASE p \in Unsupported -> [class |-> "unsupported", summary |-> NoMatches]
        [] p \notin Unsupported /\ conflicts.count > 0 -> [class |-> "name-conflict", summary |-> conflicts]
        [] p \notin Unsupported /\ conflicts.count = 0 /\ exact.count > 0 ->
             [class |-> "exact-match", summary |-> exact]
        [] OTHER -> [class |-> "new", summary |-> NoMatches]

\* classify, and the rest of Build.
Classify ==
  /\ step = "classify"
  /\ plan' = [p \in Counted("intake") |-> Classification(p)]
  /\ step' = "done"
  /\ UNCHANGED <<tree, key, writes, scope, listed, open, items>>

ImportNext ==
  \/ \E s \in Scopes, p \in PathNumbers, c \in Contents \cup {Absent} : Write(s, p, c)
  \/ List \/ OpenNext \/ HashFile \/ EndOfTree \/ Classify

ImportSpec == ImportInit /\ [][ImportNext]_importVars

-----------------------------------------------------------------------------
\* All files that the file at p of the intake is to be compared with.
Others(p) == {o \in Scopes \X (PathNumbers \ Unsupported) :
                items[o[1]][o[2]] # Absent /\ o # <<"intake", p>>}
InPlanOrder(S) == Named("intake", {q \in PathNumbers : <<"intake", q>> \in S})
                    \o Named("library", {q \in PathNumbers : <<"library", q>> \in S})

\* The plan says of every file what comparing it with each other file says: the
\* class, how many there are, and the first of them, those of the intake before
\* those of the library.
PlanComparesAllFiles ==
  step = "done" =>
    \A p \in DOMAIN plan \ Unsupported :
      LET conflicts == {o \in Others(p) : key[o[2]] = key[p] /\ items[o[1]][o[2]] # items["intake"][p]}
          same == {o \in Others(p) : items[o[1]][o[2]] = items["intake"][p]}
          found == IF conflicts # {} THEN conflicts ELSE same
      IN  /\ plan[p].class = IF conflicts # {} THEN "name-conflict"
                             ELSE IF same # {} THEN "exact-match" ELSE "new"
          /\ plan[p].summary.count = Cardinality(found)
          /\ plan[p].summary.matches = First(InPlanOrder(found))

\* No hash is of a file that changed while it was read, and trees that did not
\* change are in the plan as they are.
PlanIsOfWholeFiles ==
  step = "done" =>
    /\ \A s \in Scopes, p \in PathNumbers : items[s][p] # Mixed
    /\ writes = 0 => items = tree
=============================================================================
