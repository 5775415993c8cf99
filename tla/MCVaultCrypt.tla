---------------------------- MODULE MCVaultCrypt ----------------------------
(* VaultCrypt on a small instance. *)
EXTENDS VaultCrypt, TLC

Symmetry == Permutations(File) \cup Permutations(Key)
=============================================================================
