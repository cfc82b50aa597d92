---------------------------- MODULE ContinueTarget ----------------------------
(***************************************************************************)
(* What "continue reading" offers (continue_target.go, series_resume.go): the *)
(* books with progress are tried from the one read last; of a series it is    *)
(* the book being read in it, or the next one after the last that was read.   *)
(* A book that was only opened counts after all that were read into.         *)
(*                                                                         *)
(* Books are numbers in the order of their identities.  The groups of a      *)
(* series are as buildSeriesSections orders them: books that are editions or  *)
(* parts of one number, with the primary one.  A book is one candidate, its   *)
(* times can be read as times, and the library does not change while the      *)
(* answer is looked for.                                                    *)
(***************************************************************************)
EXTENDS Naturals, Sequences, FiniteSets

CONSTANTS
  Books,
  BookStates,   \* what a book may be: open to the reader, status by hand, progress
  GroupsOf,     \* by series: its groups
  NoProgress,
  NoBook

Progresses == [meaningful : BOOLEAN, time : Nat, completed : BOOLEAN] \cup {NoProgress}

\* A place in a series: the group and the entry of it.
Places(s) == UNION {{i} \X DOMAIN GroupsOf[s][i].entries : i \in DOMAIN GroupsOf[s]}
BookAt(s, x) == GroupsOf[s][x[1]].entries[x[2]]

ASSUME ContinueTargetAssumption ==
  /\ Books \subseteq Nat \ {0} /\ IsFiniteSet(Books) /\ NoBook \notin Books
  /\ BookStates \subseteq
       [open : BOOLEAN, status : {"", "unread", "reading", "completed", "abandoned"},
        progress : Progresses]
  /\ DOMAIN GroupsOf \subseteq Nat
  /\ \A s \in DOMAIN GroupsOf :
       /\ GroupsOf[s] \in Seq([primary : Books, entries : Seq(Books) \ {<<>>}])
       /\ \A x, y \in Places(s) : BookAt(s, x) = BookAt(s, y) => x = y

VARIABLES
  books,     \* the state of each book
  closed,    \* series that are completed, abandoned or hidden: nothing in them is offered
  anchors,   \* the books still to try
  seenSeries,
  phase,     \* of the request: "ask", "try", "answered"
  target, nextItem

continueVars == <<books, closed, anchors, seenSeries, phase, target, nextItem>>

AllSeries == DOMAIN GroupsOf
InGroup(g) == {g.entries[i] : i \in DOMAIN g.entries}
InSeries(s) == UNION {InGroup(GroupsOf[s][i]) : i \in DOMAIN GroupsOf[s]}
Memberships(b) == {s \in AllSeries : b \in InSeries(s)}
Lowest(numbers) == CHOOSE i \in numbers : \A j \in numbers : i <= j

ContinueInit ==
  /\ books \in [Books -> BookStates]
  /\ closed \in SUBSET AllSeries
  /\ anchors = {}
  /\ seenSeries = {}
  /\ phase = "ask"
  /\ target = NoBook /\ nextItem = NoBook

-----------------------------------------------------------------------------
\* continueTargetEffectiveReadState.
EffectiveReadState(b) ==
  LET status == books[b].status
      progress == books[b].progress
  IN  CASE status \in {"completed", "abandoned"} -> status
        [] status \notin {"completed", "abandoned"} /\ progress # NoProgress ->
             IF progress.completed THEN "completed" ELSE "reading"
        [] status = "reading" /\ progress = NoProgress -> "reading"
        [] OTHER -> "unread"

\* continueTargetEntryTargetable.
Targetable(b) == books[b].open /\ EffectiveReadState(b) \notin {"completed", "abandoned"}

\* compareSeriesResumeRanks: progress p ranks above q.
Above(p, q) ==
  IF p.meaningful # q.meaningful THEN p.meaningful ELSE p.time > q.time

\* continueTargetLatestProgressEntry: of equal progress the later book counts.
HasProgress(b) == b # NoBook /\ books[b].progress # NoProgress
Later(c, b) ==
  IF HasProgress(b) /\ (c = NoBook \/ ~Above(books[c].progress, books[b].progress)) THEN b ELSE c
LastRead(seq) ==
  LET best[n \in 0..Len(seq)] == IF n = 0 THEN NoBook ELSE Later(best[n - 1], seq[n])
  IN  best[Len(seq)]
LatestOf(group) == LastRead(group.entries)

\* The cursor of a series: likewise over the latest of its groups.
Cursor(s) == LastRead([i \in DOMAIN GroupsOf[s] |-> LatestOf(GroupsOf[s][i])])
GroupIndex(s, b) == CHOOSE i \in DOMAIN GroupsOf[s] : b \in InGroup(GroupsOf[s][i])

\* continueTargetGroupTarget.
GroupTarget(group) ==
  LET open == {i \in DOMAIN group.entries : Targetable(group.entries[i])}
  IN  CASE \E i \in open : group.entries[i] = group.primary -> group.primary
        [] open = {} -> NoBook
        [] OTHER -> group.entries[Lowest(open)]

\* continueTargetNextGroupTarget, after group i.
\* (Mutant: from group i on.)
NextGroupTargetFrom(s, i) ==
  LET found == {j \in DOMAIN GroupsOf[s] : j >= i /\ GroupTarget(GroupsOf[s][j]) # NoBook}
  IN  IF found = {} THEN NoBook ELSE GroupTarget(GroupsOf[s][Lowest(found)])
NextGroupTarget(s, i) ==
  LET found == {j \in DOMAIN GroupsOf[s] : j > i /\ GroupTarget(GroupsOf[s][j]) # NoBook}
  IN  IF found = {} THEN NoBook ELSE GroupTarget(GroupsOf[s][Lowest(found)])

\* continueTargetForSeries.
TargetForSeries(s) ==
  LET cursor == Cursor(s)
  IN  IF s \in closed \/ cursor = NoBook THEN NoBook
      ELSE IF Targetable(cursor) /\ EffectiveReadState(cursor) = "reading" THEN cursor
      ELSE NextGroupTarget(s, GroupIndex(s, cursor))

-----------------------------------------------------------------------------
\* queryContinueTarget: the books with progress, the one read last first.
TriedBefore(b, c) ==
  LET p == books[b].progress
      q == books[c].progress
  IN  Above(p, q) \/ (~Above(q, p) /\ b < c)
FindAnchors ==
  /\ phase = "ask"
  /\ anchors' = {b \in Books : HasProgress(b)}
  /\ phase' = "try"
  /\ UNCHANGED <<books, closed, seenSeries, target, nextItem>>

IsNext(b) == phase = "try" /\ \A c \in anchors \ {b} : TriedBefore(b, c)

\* The next anchor belongs to no series.
TryBook(b) ==
  /\ IsNext(b) /\ Memberships(b) = {}
  /\ IF books[b].open /\ EffectiveReadState(b) = "reading"
     THEN phase' = "answered" /\ target' = b
     ELSE UNCHANGED <<phase, target>>
  /\ anchors' = anchors \ {b}
  /\ UNCHANGED <<books, closed, seenSeries, nextItem>>

\* The next anchor's series, each of them once.
TrySeries(b) ==
  LET left == Memberships(b) \ seenSeries
      s == Lowest(left)
      t == TargetForSeries(s)
  IN  /\ IsNext(b) /\ left # {}
      /\ seenSeries' = seenSeries \cup {s}
      /\ IF t = NoBook THEN UNCHANGED <<phase, target, nextItem>>
         ELSE /\ phase' = "answered"
              /\ target' = t
              /\ nextItem' = NextGroupTarget(s, GroupIndex(s, t))
      /\ UNCHANGED <<books, closed, anchors>>

SeriesTried(b) ==
  /\ IsNext(b) /\ Memberships(b) # {} /\ Memberships(b) \subseteq seenSeries
  /\ anchors' = anchors \ {b}
  /\ UNCHANGED <<books, closed, seenSeries, phase, target, nextItem>>

NothingToContinue ==
  /\ phase = "try" /\ anchors = {}
  /\ phase' = "answered"
  /\ UNCHANGED <<books, closed, anchors, seenSeries, target, nextItem>>

ContinueNext ==
  \/ FindAnchors
  \/ \E b \in anchors : TryBook(b) \/ TrySeries(b) \/ SeriesTried(b)
  \/ NothingToContinue

ContinueSpec == ContinueInit /\ [][ContinueNext]_continueVars

-----------------------------------------------------------------------------
\* What can be read of a series after group i, and its first group that has some.
OpenAfter(s, i) ==
  {j \in DOMAIN GroupsOf[s] : j > i /\ \E b \in InGroup(GroupsOf[s][j]) : Targetable(b)}

\* b is the book of series s read last: nothing in s ranks above it, and of what
\* ranks with it nothing comes later.
ReadLast(s, b) ==
  \E x \in Places(s) :
    /\ BookAt(s, x) = b /\ HasProgress(b)
    /\ \A y \in Places(s) :
         HasProgress(BookAt(s, y)) =>
           LET p == books[BookAt(s, y)].progress
               later == y[1] > x[1] \/ (y[1] = x[1] /\ y[2] > x[2])
           IN  ~Above(p, books[b].progress) /\ (later => Above(books[b].progress, p))

Continues(s, b) ==
  /\ s \notin closed
  /\ \E last \in InSeries(s) :
       /\ ReadLast(s, last)
       /\ \/ b = last /\ EffectiveReadState(last) = "reading"
          \/ /\ ~(Targetable(last) /\ EffectiveReadState(last) = "reading")
             /\ \E j \in OpenAfter(s, GroupIndex(s, last)) :
                  /\ b \in InGroup(GroupsOf[s][j])
                  /\ \A k \in OpenAfter(s, GroupIndex(s, last)) : j <= k

\* Nothing finished, given up, hidden or unreadable is offered.  What is offered is
\* the book being read, or the first that can be read after the one read last, and
\* whatever was read later than that one offers nothing; the book after it follows
\* it in its series.  Nothing is offered only if there is nothing to continue.
ContinuesWhereTheReaderStopped ==
  LET alone == {b \in Books : Memberships(b) = {}}
      offers(o) == IF o[1] = "book" THEN books[o[2]].open /\ HasProgress(o[2]) /\ EffectiveReadState(o[2]) = "reading"
                   ELSE \E b \in Books : Targetable(b) /\ Continues(o[2], b)
      owners == ({"book"} \X alone) \cup ({"series"} \X AllSeries)
      read(o) == {b \in IF o[1] = "book" THEN {o[2]} ELSE InSeries(o[2]) : HasProgress(b)}
      before(o, p) == \E c \in read(p) : \A b \in read(o) : Above(books[c].progress, books[b].progress)
  IN  phase = "answered" =>
        \/ target = NoBook /\ \A o \in owners : ~offers(o)
        \/ /\ target # NoBook /\ Targetable(target)
           /\ \E o \in owners :
                /\ offers(o)
                /\ \A p \in owners : before(o, p) => ~offers(p)
                /\ IF o[1] = "book" THEN target = o[2] /\ nextItem = NoBook
                   ELSE /\ Continues(o[2], target)
                        /\ LET after == OpenAfter(o[2], GroupIndex(o[2], target))
                           IN  IF after = {} THEN nextItem = NoBook
                               ELSE \E j \in after : /\ \A k \in after : j <= k
                                                     /\ nextItem \in InGroup(GroupsOf[o[2]][j])
=============================================================================
