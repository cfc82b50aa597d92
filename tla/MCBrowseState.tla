---------------------------- MODULE MCBrowseState ----------------------------
EXTENDS BrowseState, TLC

Symmetry == Permutations(Devices)
=============================================================================
