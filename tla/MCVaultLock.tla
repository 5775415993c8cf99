----------------------------- MODULE MCVaultLock -----------------------------
(* Instances of VaultLock for TLC.                                         *)
EXTENDS VaultLock, TLC

Symmetry == Permutations(Proc)
=============================================================================
