---------------------------- MODULE MCSavedViews ----------------------------
(***************************************************************************)
(* Instances of LibraryPageState, BrowseState and MarkQueue side by side.    *)
(* No handler touches the rows of two of them, so a behaviour of several     *)
(* together has nothing that one of them alone does not have: only one of    *)
(* them moves.                                                              *)
(***************************************************************************)
EXTENDS LibraryPageState, BrowseState, MarkQueue, TLC

VARIABLE part   \* the module that moves

ViewsInit ==
  part \in {"library", "browse", "marks"} /\ Init /\ BrowseInit /\ MarkQueueInit

ViewsNext ==
  /\ \/ part = "library" /\ Next /\ UNCHANGED <<browseVars, markQueueVars>>
     \/ part = "browse" /\ BrowseNext /\ UNCHANGED <<vars, markQueueVars>>
     \/ part = "marks" /\ MarkQueueNext /\ UNCHANGED <<vars, browseVars>>
  /\ UNCHANGED part

ViewsSpec == ViewsInit /\ [][ViewsNext]_<<part, vars, browseVars, markQueueVars>>

\* Tabs and Requests are the same model values, and so are Marks and Sorts, Values
\* and Modes.
Symmetry ==
  Permutations(Requests) \cup Permutations(Sorts) \cup Permutations(Modes)
=============================================================================
