----------------------------- MODULE MCCheckpoint ------------------------------
EXTENDS Checkpoint, TLC

\* Documents are interchangeable, and so are processes.
Symmetry == Permutations(Doc) \union Permutations(Proc)
================================================================================
