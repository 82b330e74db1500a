----------------------------- MODULE MCIntCert -----------------------------
(* Instances of IntCert for TLC. *)
EXTENDS IntCert, TLC

CONSTANTS n1, n2, s1, s2, ca, cb

Spec0 == [client |-> FALSE, server |-> FALSE, issuer |-> Blank, secret |-> s1, named |-> TRUE]
Server(s) == [Spec0 EXCEPT !.server = TRUE, !.secret = s]
Client(s, c) == [Spec0 EXCEPT !.client = TRUE, !.issuer = c, !.secret = s]
Both(s, c) == [Client(s, c) EXCEPT !.server = TRUE]
Neither(s) == [Spec0 EXCEPT !.secret = s]
Nameless(s) == [Server(s) EXCEPT !.named = FALSE]

\* A secret of its own for each resource, every combination of usages.
Apart == n1 :> {Server(s1), Client(s1, ca), Both(s1, ca), Neither(s1)} @@ n2 :> {Client(s2, ca)}

\* Server resources only, free to name one another's secrets or neither usage.
Servers == n1 :> {Server(s1), Server(s2), Neither(s1)} @@ n2 :> {Server(s1), Nameless(s2)}

\* Two resources after one secret.
Shared == n1 :> {Server(s1), Client(s1, ca)} @@ n2 :> {Client(s1, ca)}

OneServer == n1 :> {Server(s1)}
OneClient == n1 :> {Client(s1, ca)}
OneIssuerless == n1 :> {Client(s1, Blank)}
OneNameless == n1 :> {Nameless(s1)}
TwoIssuers == n1 :> {Client(s1, ca), Client(s1, cb)}
=============================================================================
