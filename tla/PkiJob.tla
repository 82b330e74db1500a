------------------------------- MODULE PkiJob -------------------------------
(***************************************************************************)
(* The vault-pki-server-authn Job: it sets up the root CA and the          *)
(* intermediate CA under which server certificates are issued, unless it   *)
(* finds their mounts enabled.  A goroutine, which nobody waits for, puts  *)
(* the root certificate into the secret sip-root-ca; it shares the         *)
(* variable err with enablePKIRootCA.                                      *)
(***************************************************************************)
EXTENDS Naturals

CONSTANTS None,       \* no secret
          MaxRuns,    \* bound on the runs of the Job, retries included
          MaxFaults   \* bound on failed calls and killed processes

ASSUME NoneAssumption == None \notin Nat
ASSUME BoundsAssumption == MaxRuns \in Nat /\ MaxFaults \in Nat

VARIABLES done,        \* Vault: the calls that took effect
          roots,       \* Vault: how many root CAs sip-root-ca holds
          rootSecret,  \* the root certificate in secret sip-root-ca
          pc,          \* main's next call
          listed,      \* the mounts this run found enabled
          cert,        \* the certificate the goroutine was started with
          persist,     \* the goroutine's next step
          err,         \* the error both share
          runs, faults

vars == <<done, roots, rootSecret, pc, listed, cert, persist, err, runs, faults>>
vaultVars == <<done, roots>>

RootCalls == {"enableRoot", "tuneRoot", "generateRoot", "urlsRoot", "roleRoot", "restrictRoot"}
IntermCalls == {"enableInterm", "tuneInterm", "urlsInterm", "roleInterm", "restrictInterm",
                "csr", "sign", "setSigned"}
Mounts == {"enableRoot", "enableInterm"}
Calls == RootCalls \union IntermCalls
Running == Calls \union {"list", "urlsCheck", "roleCheck", "exit"}

\* A certificate is the n-th root generated in this cluster, or, 0, one that an
\* earlier cluster left in the secret.  The mount signs with the first.
Leftover == 0
SigningRoot == 1

\* Vault's HTTP client sends a request up to three times, without a word to its
\* caller, while the connection fails or Vault answers with a 5xx.
Tries == 3

Init == /\ done = {} /\ roots = 0
        /\ rootSecret \in {None, Leftover}
        /\ pc = "none" /\ listed = {} /\ cert = 0
        /\ persist = "none" /\ err = "nil"
        /\ runs = 0 /\ faults = 0

-----------------------------------------------------------------------------
(* The Job controller, and a user who deletes the Job and applies it again. *)

Start ==
    /\ runs < MaxRuns /\ runs' = runs + 1
    /\ pc' = "list" /\ listed' = {}
    /\ cert' = 0 /\ persist' = "none" /\ err' = "nil"
    /\ UNCHANGED <<vaultVars, rootSecret, faults>>

Run == pc \in {"none", "failed"} /\ Start
RunAgain == pc = "succeeded" /\ Start

Fault == faults < MaxFaults /\ faults' = faults + 1
NoFault == UNCHANGED faults

\* Bug: only main ends.
ExitMainOnly(code) == pc' = code /\ UNCHANGED persist

\* os.Exit and log.Fatal end every goroutine.
Exit(code) == pc' = code /\ persist' = "none"
Fatal == Exit("failed")

Goto(step) == pc' = step /\ UNCHANGED persist

Kill ==
    /\ pc \in Running /\ Fault /\ Fatal
    /\ UNCHANGED <<vaultVars, rootSecret, listed, cert, err, runs>>

-----------------------------------------------------------------------------
(* main *)

\* Where main goes when it is through with the root CA.
ToInterm(found) == IF "enableInterm" \in found THEN "exit" ELSE "enableInterm"

\* Bug: Vault lists paths with a trailing slash, and it is left out here.
ListMountsWithoutSlash ==
    /\ pc = "list"
    /\ \/ NoFault /\ Goto("enableRoot")
       \/ Fault /\ Fatal
    /\ listed' = done \intersect Mounts
    /\ UNCHANGED <<vaultVars, rootSecret, cert, err, runs>>

\* Bug: a mount that is enabled already is an error.
ListMountsStrict ==
    /\ pc = "list"
    /\ \/ NoFault /\ IF "enableRoot" \in done THEN Fatal ELSE Goto("enableRoot")
       \/ Fault /\ Fatal
    /\ listed' = done \intersect Mounts
    /\ UNCHANGED <<vaultVars, rootSecret, cert, err, runs>>

ListMounts ==
    /\ pc = "list"
    /\ \/ NoFault /\ Goto(IF "enableRoot" \in done THEN ToInterm(done) ELSE "enableRoot")
       \/ Fault /\ Fatal
    /\ listed' = done \intersect Mounts
    /\ UNCHANGED <<vaultVars, rootSecret, cert, err, runs>>

Done(call) == done' = done \union {call}

\* Its result is thrown away.
Enable(call, next) ==
    /\ pc = call
    /\ \/ NoFault /\ Done(call)
       \/ Fault /\ (Done(call) \/ UNCHANGED done)
    /\ Goto(next)
    /\ UNCHANGED <<roots, rootSecret, listed, cert, err, runs>>

\* Bug: its error is thrown away too.
CallUnchecked(call, accepted, next) ==
    /\ pc = call
    /\ \/ NoFault /\ accepted /\ Done(call) /\ Goto(next)
       \/ NoFault /\ ~accepted /\ UNCHANGED done /\ Goto(next)
       \/ Fault /\ ((accepted /\ Done(call)) \/ UNCHANGED done) /\ Goto(next)
    /\ UNCHANGED <<roots, rootSecret, listed, cert, err, runs>>

\* A call that Vault may refuse and whose failure is fatal.
Call(call, accepted, next) ==
    /\ pc = call
    /\ \/ NoFault /\ accepted /\ Done(call) /\ Goto(next)
       \/ NoFault /\ ~accepted /\ UNCHANGED done /\ Fatal
       \/ Fault /\ ((accepted /\ Done(call)) \/ UNCHANGED done) /\ Fatal
    /\ UNCHANGED <<roots, rootSecret, listed, cert, err, runs>>

\* A call whose error goes to the shared err.  The build may test the value it
\* has just stored or load the variable again, in a step of its own.
SharedCall(call, check, next) ==
    /\ pc = call
    /\ \/ NoFault /\ Done(call) /\ err' = "nil" /\ (Goto(next) \/ Goto(check))
       \/ /\ Fault /\ (Done(call) \/ UNCHANGED done) /\ err' = "failed"
          /\ (Fatal \/ Goto(check))
    /\ UNCHANGED <<roots, rootSecret, listed, cert, runs>>

CheckErr(check, next) ==
    /\ pc = check
    /\ IF err = "nil" THEN Goto(next) ELSE Fatal
    /\ UNCHANGED <<vaultVars, rootSecret, listed, cert, err, runs, faults>>

\* disableFlag prints its failure and returns.
DisableFlag(call, next) ==
    /\ pc = call
    /\ \/ NoFault /\ Done(call)
       \/ Fault /\ (Done(call) \/ UNCHANGED done)
    /\ Goto(next)
    /\ UNCHANGED <<roots, rootSecret, listed, cert, err, runs>>

EnableRoot == Enable("enableRoot", "tuneRoot")
TuneRoot == Call("tuneRoot", "enableRoot" \in done, "generateRoot")

\* Every request that reaches Vault adds a root, also one that is sent again within
\* the call; the goroutine is started with the certificate of the last.
GenerateRoot ==
    LET Added(n) == /\ done' = IF n = 0 THEN done ELSE done \union {"generateRoot"}
                    /\ roots' = roots + n
        Answered(n) == /\ Added(n) /\ cert' = roots + n
                       /\ pc' = "urlsRoot" /\ persist' = "create"
    IN  /\ pc = "generateRoot"
        /\ \/ NoFault /\ Answered(1)
           \/ Fault /\ \E n \in 2 .. Tries : Answered(n)
           \/ Fault /\ (\E n \in 0 .. Tries : Added(n)) /\ Fatal /\ UNCHANGED cert
        /\ UNCHANGED <<rootSecret, listed, err, runs>>

ConfigureRootUrls == SharedCall("urlsRoot", "urlsCheck", "roleRoot")
CheckRootUrls == CheckErr("urlsCheck", "roleRoot")
WriteRootRole == SharedCall("roleRoot", "roleCheck", "restrictRoot")
CheckRootRole == CheckErr("roleCheck", "restrictRoot")
RestrictRoot == DisableFlag("restrictRoot", ToInterm(listed))

EnableInterm == Enable("enableInterm", "tuneInterm")
TuneInterm == Call("tuneInterm", "enableInterm" \in done, "urlsInterm")
ConfigureIntermUrls == Call("urlsInterm", TRUE, "roleInterm")
WriteIntermRole == Call("roleInterm", TRUE, "restrictInterm")
RestrictInterm == DisableFlag("restrictInterm", "csr")
GenerateIntermediate == Call("csr", TRUE, "sign")
SignIntermediate == Call("sign", roots > 0, "setSigned")
SetSignedIntermediate == Call("setSigned", TRUE, "exit")

Finish ==
    /\ pc = "exit" /\ Exit("succeeded")
    /\ UNCHANGED <<vaultVars, rootSecret, listed, cert, err, runs, faults>>

Main == \/ ListMounts \/ Finish
        \/ EnableRoot \/ TuneRoot \/ GenerateRoot \/ ConfigureRootUrls
        \/ CheckRootUrls \/ WriteRootRole \/ CheckRootRole \/ RestrictRoot
        \/ EnableInterm \/ TuneInterm \/ ConfigureIntermUrls \/ WriteIntermRole
        \/ RestrictInterm \/ GenerateIntermediate \/ SignIntermediate
        \/ SetSignedIntermediate

-----------------------------------------------------------------------------
(* The goroutine.  After a call it tests the value it stored in err, or what *)
(* err has become; the cases of the switch always load err again.            *)

goroutineVars == <<vaultVars, listed, cert, runs>>

PersistCreate ==
    /\ persist = "create"
    /\ \/ /\ NoFault /\ rootSecret = None
          /\ rootSecret' = cert /\ err' = "nil" /\ persist' \in {"done", "check"}
       \/ /\ NoFault /\ rootSecret # None /\ UNCHANGED rootSecret
          /\ err' = "exists" /\ persist' \in {"switch", "check"}
       \/ /\ Fault /\ ((rootSecret = None /\ rootSecret' = cert) \/ UNCHANGED rootSecret)
          /\ err' = "failed" /\ persist' \in {"switch", "check"}
    /\ UNCHANGED <<goroutineVars, pc>>

\* Bug: the switch is not guarded by err != nil, and its default is fatal.
PersistUnchecked ==
    /\ persist = "check"
    /\ persist' = "switch"
    /\ UNCHANGED <<goroutineVars, rootSecret, pc, err, faults>>

PersistCheck ==
    /\ persist = "check"
    /\ persist' = IF err = "nil" THEN "done" ELSE "switch"
    /\ UNCHANGED <<goroutineVars, rootSecret, pc, err, faults>>

PersistSwitch ==
    /\ persist = "switch"
    /\ IF err = "exists" THEN persist' = "update" /\ UNCHANGED pc ELSE Fatal
    /\ UNCHANGED <<goroutineVars, rootSecret, err, faults>>

\* A failed Get leaves a nil map, and writing to it ends the process as well.
PersistUpdate ==
    /\ persist = "update"
    /\ \/ /\ NoFault /\ rootSecret' = cert /\ err' = "nil"
          /\ persist' \in {"done", "updateCheck"} /\ UNCHANGED pc
       \/ /\ Fault /\ rootSecret' \in {rootSecret, cert} /\ err' = "failed"
          /\ \/ Fatal
             \/ persist' = "updateCheck" /\ UNCHANGED pc
    /\ UNCHANGED goroutineVars

PersistUpdateCheck ==
    /\ persist = "updateCheck"
    /\ IF err = "nil" THEN persist' = "done" /\ UNCHANGED pc ELSE Fatal
    /\ UNCHANGED <<goroutineVars, rootSecret, err, faults>>

Persist == \/ PersistCreate \/ PersistCheck \/ PersistSwitch
           \/ PersistUpdate \/ PersistUpdateCheck

Next == Main \/ Persist \/ Run \/ RunAgain \/ Kill

Spec == Init /\ [][Next]_vars

\* Main's calls are taken to return, and the Job controller starts a pod for the
\* Job and for each failed one up to the backoff limit.  That the goroutine ever
\* runs is not assumed: nobody waits for it.
FairSpec == Spec /\ WF_vars(Main) /\ WF_vars(Run)

-----------------------------------------------------------------------------
(* Properties. *)

\* Every variable keeps to its range; the goroutine ends with its process.
TypeOK ==
    /\ done \subseteq Calls /\ roots \in Nat
    /\ rootSecret \in Nat \union {None}
    /\ pc \in Running \union {"none", "failed", "succeeded"}
    /\ listed \subseteq Mounts /\ cert \in Nat
    /\ persist \in {"none", "create", "check", "switch", "update", "updateCheck", "done"}
    /\ err \in {"nil", "exists", "failed"}
    /\ pc \notin Running => persist = "none"
    /\ runs \in 0 .. MaxRuns /\ faults \in 0 .. MaxFaults

\* Over all retries and re-runs one call generates roots, several only when it met a
\* failing connection; a secret that a run of this cluster wrote holds the one which
\* that call returned, and the intermediate CA is signed under a root that is there.
OneGeneratingCall ==
    /\ roots \in 0 .. Tries
    /\ roots > 1 => faults > 0
    /\ rootSecret \notin {None, Leftover} => rootSecret = roots
    /\ "sign" \in done => roots > 0

\* The strengthening that makes it inductive.  A root is on an enabled mount; the
\* run that did not find the mount is the only one to enable it and has not
\* generated a root before it gets there; the goroutine of a run carries its last.
RootNeedsMount == roots > 0 => "enableRoot" \in done
RootMissing == pc \in {"enableRoot", "tuneRoot", "generateRoot"} => roots = 0
MountTuned == pc = "generateRoot" => "enableRoot" \in done
CarriesRoot == persist # "none" => roots > 0 /\ cert = roots

Anchored == /\ TypeOK /\ OneGeneratingCall
            /\ RootNeedsMount /\ RootMissing /\ MountTuned /\ CarriesRoot

\* The calls whose failure the shared err or disableFlag can hide.
Unnoticed == {"urlsRoot", "roleRoot", "restrictRoot", "restrictInterm"}

\* A run that found neither mount and reports success has made both CAs usable,
\* but for what the shared err or disableFlag can hide; and when no call failed,
\* nothing is missing in Vault.
FreshRunComplete ==
    pc = "succeeded" /\ listed = {} =>
        /\ Calls \ Unnoticed \subseteq done
        /\ faults = 0 => done = Calls

\* The shared err is harmless but on a leftover secret: if no call fails, a run
\* fails only there, and then the secret keeps the earlier cluster's root.
FailsOnlyOnLeftover == pc = "failed" /\ faults = 0 => rootSecret = Leftover

\* What makes the two inductive.  A run that found neither mount has behind it
\* the calls that come before its next one, but for those whose failure is not
\* noticed, or not before the call after it.
Place == [enableRoot |-> 1, tuneRoot |-> 2, generateRoot |-> 3, urlsRoot |-> 4, urlsCheck |-> 5,
          roleRoot |-> 5, roleCheck |-> 6, restrictRoot |-> 6,
          enableInterm |-> 7, tuneInterm |-> 8, urlsInterm |-> 9, roleInterm |-> 10,
          restrictInterm |-> 11, csr |-> 12, sign |-> 13, setSigned |-> 14, exit |-> 15]
NotYetNoticed(call) == call \in Mounts /\ Place[pc] = Place[call] + 1

Progress ==
    listed = {} /\ pc \in Running \ {"list"} =>
        \A call \in Calls : Place[call] < Place[pc] =>
            \/ call \in done
            \/ faults > 0 /\ (call \in Unnoticed \/ NotYetNoticed(call))

\* As long as no call fails, the goroutine's error is the leftover secret, and
\* Vault refuses nothing.
ErrIsLeftover ==
    faults = 0 =>
        /\ err \in {"nil", "exists"}
        /\ err = "exists" \/ persist \in {"switch", "update"} => rootSecret = Leftover
        /\ persist = "create" => rootSecret \in {None, Leftover}
NothingRefused ==
    faults = 0 =>
        /\ pc = "tuneRoot" => "enableRoot" \in done
        /\ pc = "tuneInterm" => "enableInterm" \in done
        /\ roots = 0 => /\ pc \in {"none", "list", "enableRoot", "tuneRoot", "generateRoot"}
                        /\ "enableRoot" \in done => pc \in {"tuneRoot", "generateRoot"}

Inductive == /\ Anchored /\ Progress /\ FreshRunComplete
             /\ ErrIsLeftover /\ NothingRefused /\ FailsOnlyOnLeftover

\* Seen from outside, the roots that Vault has and the one of this cluster that the
\* secret holds, the Job implements CAPublication with one authority: over all runs
\* it is established once, and the secret gets a root of its making and keeps it.
rootsMade == [cn \in {"sip-root-ca"} |-> 1 .. roots]
rootCA == [cn \in {"sip-root-ca"} |-> IF roots = 0 THEN None ELSE SigningRoot]
published == [s \in {"sip-root-ca"} |-> IF rootSecret = Leftover THEN None ELSE rootSecret]
Promise == INSTANCE CAPublication WITH
              CNs <- {"sip-root-ca"}, SecretNames <- {"sip-root-ca"}, Certs <- Nat \ {0},
              made <- rootsMade, ca <- rootCA, bundle <- published

ImplementsPublication == Promise!Spec

\* Within the Job's backoff limit a run reports success.
JobSucceeds == <>(pc = "succeeded")

-----------------------------------------------------------------------------
(* What the repository says and the code does not do. *)

\* "set signed intermediate CA certificate to root-signed certificate"
\* (uml/vault-pki-server-authn.puml:23): when the Job has succeeded, the
\* intermediate CA has a certificate to issue under.
SuccessMeansSigned == pc = "succeeded" => "setSigned" \in done
=============================================================================
