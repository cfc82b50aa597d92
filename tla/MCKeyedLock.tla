---------------------------- MODULE MCKeyedLock ----------------------------
(* An instance of KeyedLock for TLC.  It has no symmetry set: the run checks  *)
(* liveness.                                                                  *)
EXTENDS KeyedLock
=============================================================================
