--------------------------- MODULE MCPageManifest ---------------------------
EXTENDS PageManifest, TLC

Symmetry == Permutations(Requests) \cup Permutations(Files)
=============================================================================
