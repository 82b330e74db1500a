---------------------------- MODULE PairCustody ----------------------------
(***************************************************************************)
(* What the InternalCertificate operator promises of the key pairs in its  *)
(* secrets, without saying how: a pair is issued by an authority that      *)
(* exists, one that is delivered stays until its secret is removed, and    *)
(* only a client's pair may ever be put in the place of another.           *)
(***************************************************************************)

CONSTANTS SecretNames, Authorities, ServerCA, Holdings, None

VARIABLES established,  \* the authorities that have come to be
          held          \* held[s]: the pair in secret s and whose it is

vars == <<established, held>>

Init == /\ established = {}
        /\ held = [s \in SecretNames |-> None]

\* An authority, once it has come to be, is not taken back.
Establish ==
    /\ established \subseteq established' /\ established' \subseteq Authorities
    /\ UNCHANGED held

\* Somebody's new pair, issued by an authority that exists by now.
Put(s) ==
    /\ held'[s] \in Holdings
    /\ [ca |-> held'[s].pair.ca, key |-> held'[s].pair.key] \in established
    /\ held' = [held EXCEPT ![s] = held'[s]]
    /\ UNCHANGED established

Deliver(s) == held[s] = None /\ Put(s)

Exchange(s) == held[s] # None /\ Put(s) /\ held'[s].pair.ca # ServerCA

Remove(s) ==
    /\ held' = [held EXCEPT ![s] = None]
    /\ UNCHANGED established

Next == \/ Establish
        \/ \E s \in SecretNames : Deliver(s) \/ Exchange(s) \/ Remove(s)

Spec == Init /\ [][Next]_vars
=============================================================================
