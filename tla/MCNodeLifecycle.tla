-------------------------- MODULE MCNodeLifecycle --------------------------
EXTENDS NodeLifecycle, TLC
Symmetry == Permutations(Slots) \cup Permutations(Nodes)
=============================================================================
