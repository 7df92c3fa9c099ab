---------------------------- MODULE MCVaultSync ----------------------------
(* Small instances of VaultSync for TLC.                                    *)
EXTENDS VaultSync, TLC

Symmetry == Permutations(Procs) \cup Permutations(Tx) \cup Permutations(Foreign)
=============================================================================
