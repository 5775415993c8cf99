------------------------------- MODULE MCNodeOps -------------------------------
\* Small instances of NodeOps for TLC.
EXTENDS NodeOps, TLC

Symmetry == Permutations(Path) \union Permutations(Body)
================================================================================
