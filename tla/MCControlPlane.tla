--------------------------- MODULE MCControlPlane ---------------------------
EXTENDS ControlPlane, TLC

Symmetry == Permutations(Callers) \cup Permutations(CreateKeys) \cup Permutations(Files)
=============================================================================
