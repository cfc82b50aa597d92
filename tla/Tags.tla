-------------------------------- MODULE Tags --------------------------------
(***************************************************************************)
(* Tags on works and series (server_user_marks.go): a table of tags and one *)
(* of links between targets and tag keys (two tables in the code, one for    *)
(* works and one for series, which only the table name tells apart).         *)
(*                                                                         *)
(* Adding and removing are statements of their own, each committed before    *)
(* the next; renaming, merging and deleting are one transaction.  Foreign    *)
(* keys are declared but not switched on, so nothing ties a link to its tag  *)
(* but the handlers.                                                         *)
(***************************************************************************)
EXTENDS FiniteSets

CONSTANTS
  TagRequests,   \* requests under way at one time
  Targets,       \* works and series
  TagKeys,       \* normalised names
  Colors,
  NoTag          \* also: no target, no colour chosen

Plain == "plain"      \* the colour of a tag that was given none

ASSUME TagsAssumption == NoTag \notin Targets \cup TagKeys \cup Colors \cup {Plain}

VARIABLES
  tags,       \* local_tags: colour by key, NoTag for a key without a row
  links,      \* pairs of target and key
  job,        \* of a request: what is left to do
  orphans,    \* links whose tag was deleted before they were added
  left        \* keys whose row an add left behind, or was to be moved empty

tagVars == <<tags, links, job, orphans, left>>

Done == [next |-> "none", target |-> NoTag, key |-> NoTag, overtaken |-> FALSE]

TagsInit ==
  /\ tags = [k \in TagKeys |-> NoTag]
  /\ links = {}
  /\ job = [r \in TagRequests |-> Done]
  /\ orphans = {}
  /\ left = {}

Rows == {k \in TagKeys : tags[k] # NoTag}
Linked(k) == {l \in links : l[2] = k}

\* The row of k goes: adds that have written it, and not yet the link, are overtaken.
Overtaken(k) ==
  [r \in TagRequests |->
     IF job[r].next = "link" /\ job[r].key = k THEN [job[r] EXCEPT !.overtaken = TRUE] ELSE job[r]]

-----------------------------------------------------------------------------
\* handleTagSave up to its first statement.
Accept(r, action, t, k) ==
  /\ job[r] = Done
  /\ job' = [job EXCEPT ![r] = [next |-> action, target |-> t, key |-> k, overtaken |-> FALSE]]
  /\ UNCHANGED <<tags, links, orphans, left>>

\* The upsert: an existing tag keeps its colour unless one is given.
AddTag(r, color) ==
  LET k == job[r].key
  IN  /\ job[r].next = "tag"
      /\ tags' = [tags EXCEPT ![k] = IF color # NoTag THEN color ELSE IF @ = NoTag THEN Plain ELSE @]
      /\ job' = [job EXCEPT ![r].next = "link"]
      /\ UNCHANGED <<links, orphans, left>>

\* INSERT OR IGNORE of the link.
AddLink(r) ==
  /\ job[r].next = "link"
  /\ links' = links \cup {<<job[r].target, job[r].key>>}
  /\ orphans' = orphans \cup IF job[r].overtaken THEN {<<job[r].target, job[r].key>>} ELSE {}
  /\ job' = [job EXCEPT ![r] = Done]
  /\ UNCHANGED <<tags, left>>

RemoveLink(r) ==
  /\ job[r].next = "unlink"
  /\ links' = links \ {<<job[r].target, job[r].key>>}
  /\ orphans' = orphans \ {<<job[r].target, job[r].key>>}
  /\ job' = [job EXCEPT ![r].next = "collect"]
  /\ UNCHANGED <<tags, left>>

\* The tag goes with its last link.
\* (Mutant: without looking at the links of other targets.)
CollectAlways(r) ==
  LET k == job[r].key
  IN  /\ job[r].next = "collect"
      /\ tags' = [tags EXCEPT ![k] = NoTag]
      /\ left' = left \ {k}
      /\ job' = [Overtaken(k) EXCEPT ![r] = Done]
      /\ UNCHANGED <<links, orphans>>
Collect(r) ==
  LET k == job[r].key
  IN  /\ job[r].next = "collect"
      /\ IF Linked(k) = {}
         THEN /\ tags' = [tags EXCEPT ![k] = NoTag]
              /\ left' = left \ {k}
              /\ job' = [Overtaken(k) EXCEPT ![r] = Done]
         ELSE job' = [job EXCEPT ![r] = Done] /\ UNCHANGED <<tags, left>>
      /\ UNCHANGED <<links, orphans>>

\* A statement fails: what was written before it stays.
Abort(r) ==
  /\ job[r] # Done
  /\ left' = left \cup IF job[r].next \in {"link", "collect"} THEN {job[r].key} ELSE {}
  /\ job' = [job EXCEPT ![r] = Done]
  /\ UNCHANGED <<tags, links, orphans>>

-----------------------------------------------------------------------------
\* handleTagManage.
DeleteTag(k) ==
  /\ k \in Rows
  /\ links' = links \ Linked(k)
  /\ tags' = [tags EXCEPT ![k] = NoTag]
  /\ orphans' = orphans \ Linked(k)
  /\ left' = left \ {k}
  /\ job' = Overtaken(k)

Recolor(k, color) ==
  /\ k \in Rows
  /\ tags' = [tags EXCEPT ![k] = color]
  /\ UNCHANGED <<links, job, orphans, left>>

\* A new name: the links are copied, links that are there already ignored, then
\* the old ones and the old row deleted.  An existing tag keeps its own colour.
Rename(k, to, color) ==
  LET moved == {<<l[1], to>> : l \in Linked(k)}
  IN  /\ k \in Rows /\ to # k
      /\ tags' = [tags EXCEPT ![k] = NoTag,
                              ![to] = IF color # NoTag THEN color ELSE IF @ # NoTag THEN @ ELSE tags[k]]
      /\ links' = (links \ Linked(k)) \cup moved
      /\ orphans' = orphans \ Linked(k)
      /\ left' = (left \ {k}) \cup IF moved = {} /\ Linked(to) = {} THEN {to} ELSE {}
      /\ job' = Overtaken(k)

TagsNext ==
  \/ \E r \in TagRequests :
       \/ \E t \in Targets, k \in TagKeys : Accept(r, "tag", t, k) \/ Accept(r, "unlink", t, k)
       \/ \E color \in Colors \cup {NoTag} : AddTag(r, color)
       \/ AddLink(r) \/ RemoveLink(r) \/ Collect(r) \/ Abort(r)
  \/ \E k \in TagKeys :
       \/ DeleteTag(k)
       \/ \E color \in Colors : Recolor(k, color)
       \/ \E to \in TagKeys, color \in Colors \cup {NoTag} : Rename(k, to, color)

TagsSpec == TagsInit /\ [][TagsNext]_tagVars

-----------------------------------------------------------------------------
\* Every link shows its tag, and every tag is on something: a link without a row
\* was being added when the row was deleted, and a row without links belongs to a
\* request under way or to one that failed half-way.
TagRowsMatchLinks ==
  /\ \A l \in links : l[2] \in Rows \/ l \in orphans
  /\ \A k \in Rows : Linked(k) # {} \/ k \in left
       \/ \E r \in TagRequests : job[r].key = k /\ job[r].next \in {"link", "collect"}
=============================================================================
