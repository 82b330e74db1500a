-------------------------- MODULE MCVaultBootstrap --------------------------
(* Instances of VaultBootstrap for TLC. *)
EXTENDS VaultBootstrap
=============================================================================
