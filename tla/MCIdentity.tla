----------------------------- MODULE MCIdentity -----------------------------
(* Instance of Identity for TLC. *)
EXTENDS Identity
=============================================================================
