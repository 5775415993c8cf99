--------------------------- MODULE MCGraphTraversal ---------------------------
\* The graph traversal on small graphs.
EXTENDS GraphTraversal, TLC

Symmetry == Permutations(Node)
=============================================================================
