---------------------------- MODULE MCClientCA -----------------------------
(* Instances of ClientCA for TLC. *)
EXTENDS ClientCA, TLC

Interchangeable ==
    Permutations(Names) \union Permutations(SecretNames) \union Permutations(CNs)
=============================================================================
