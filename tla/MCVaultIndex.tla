---------------------------- MODULE MCVaultIndex ----------------------------
(* VaultIndex on a small instance. *)
EXTENDS VaultIndex, TLC

Symmetry == Permutations(Folder) \cup Permutations(Gen)
=============================================================================
