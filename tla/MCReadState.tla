---------------------------- MODULE MCReadState ----------------------------
(* Instances of ReadState for TLC. *)
EXTENDS ReadState, TLC

AllKinds == {"save", "migrate", "mark"}
NoFields == {}
AllMarks == Statuses

Symmetry == Permutations(Requests)
=============================================================================
