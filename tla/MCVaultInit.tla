---------------------------- MODULE MCVaultInit ----------------------------
(* Instances of VaultInit for TLC. *)
EXTENDS VaultInit, TLC

CONSTANTS v0, v1, v2

Followers == Permutations({v1, v2})
=============================================================================
