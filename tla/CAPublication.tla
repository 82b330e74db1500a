--------------------------- MODULE CAPublication ---------------------------
(***************************************************************************)
(* What the client CA operator promises, and the PKI Job of its root,      *)
(* without saying how: for each common name a certificate authority is     *)
(* established at most once and never replaced.  It may have made several  *)
(* roots in being established; it signs under one of them.  A secret that  *)
(* carries a CA certificate carries one of these roots, and once it has    *)
(* the one that verifies what the authority signs, it gets no other.       *)
(***************************************************************************)

CONSTANTS CNs, SecretNames, Certs, None

VARIABLES made,     \* made[cn]: the roots of cn's authority
          ca,       \* ca[cn]: the one it signs under, None before it is there
          bundle    \* bundle[s]: the CA certificate read from secret s

vars == <<made, ca, bundle>>

Init == /\ made = [cn \in CNs |-> {}]
        /\ ca = [cn \in CNs |-> None]
        /\ bundle = [s \in SecretNames |-> None]

Establish(cn) ==
    /\ ca[cn] = None
    /\ made'[cn] \subseteq Certs /\ ca'[cn] \in made'[cn]
    /\ made' = [made EXCEPT ![cn] = made'[cn]]
    /\ ca' = [ca EXCEPT ![cn] = ca'[cn]]
    /\ UNCHANGED bundle

Publish(s, cn, cert) ==
    /\ cert \in made[cn]
    /\ bundle[s] \in {ca[c] : c \in CNs} \ {None} => cert = ca[cn]
    /\ bundle' = [bundle EXCEPT ![s] = cert]
    /\ UNCHANGED <<made, ca>>

Withdraw(s) ==
    /\ bundle' = [bundle EXCEPT ![s] = None]
    /\ UNCHANGED <<made, ca>>

Next == \/ \E cn \in CNs : Establish(cn)
        \/ \E s \in SecretNames, cn \in CNs : \E cert \in made[cn] : Publish(s, cn, cert)
        \/ \E s \in SecretNames : Withdraw(s)

Spec == Init /\ [][Next]_vars
=============================================================================
