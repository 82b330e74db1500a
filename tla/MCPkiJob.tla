------------------------------ MODULE MCPkiJob ------------------------------
(* Instances of PkiJob for TLC: backoffLimit is 4, so a Job has 5 pods at    *)
(* most before it gives up.                                                  *)
EXTENDS PkiJob, TLC
=============================================================================
