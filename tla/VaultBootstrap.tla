--------------------------- MODULE VaultBootstrap ---------------------------
(***************************************************************************)
(* The vault-bootstrap Job: it makes a key, has the cluster's signer       *)
(* certify it through the CertificateSigningRequest vault.svc, which it    *)
(* approves itself, and stores the pair in the secret vault-ha-tls, which  *)
(* the Vault pods start with.  A failed pod is retried; a pod on a node    *)
(* that is lost may go on beside the one that takes its place.             *)
(***************************************************************************)
EXTENDS Naturals

CONSTANTS Pods,      \* pods of the Job that may exist at one time
          None,      \* no object, or a certificate that is not there yet
          MaxRuns,   \* bound on the runs of the Job, retries included
          MaxFaults  \* bound on failed calls, killed pods and lost nodes

ASSUME BoundsAssumption == MaxRuns \in Nat /\ MaxFaults \in Nat

VARIABLES csr,       \* API server: the request vault.svc
          secret,    \* API server: the secret vault-ha-tls
          pc,        \* pc[p]: the call pod p is about to make
          key,       \* key[p]: privPem, told by the number of the run
          seen,      \* seen[p]: the request as p last read it
          found,     \* found[p]: the secret as p last read it
          lost,      \* running pods the Job's controller has given up
          overlaps,  \* runs that ever had another pod beside them
          runs, faults

vars == <<csr, secret, pc, key, seen, found, lost, overlaps, runs, faults>>
apiVars == <<csr, secret>>
localVars == <<key, seen, found>>
jobVars == <<lost, overlaps, runs>>

\* A certificate is told by the key it certifies.
Keys == Nat \ {0}
Certs == Keys \union {None}
Requests == [key : Keys, state : {"pending", "approved"}, cert : Certs]
TLSSecrets == [key : Keys, cert : Certs]
ASSUME NoneAssumption == None \notin Nat \union Requests \union TLSSecrets

Steps == {"create", "delete", "recreate", "get", "approve", "await",
          "store", "read", "update", "cleanup"}
Running(p) == pc[p] \in Steps

Init == /\ csr = None /\ secret = None
        /\ pc = [p \in Pods |-> "none"] /\ key = [p \in Pods |-> 0]
        /\ seen = [p \in Pods |-> None] /\ found = seen
        /\ lost = {} /\ overlaps = {}
        /\ runs = 0 /\ faults = 0

-----------------------------------------------------------------------------
(* Kubernetes: the Job controller, the signer, and a user who deletes the    *)
(* Job and applies it again.                                                 *)

Fault == faults < MaxFaults /\ faults' = faults + 1
NoFault == UNCHANGED faults

\* A new pod makes a new key before it calls anybody.
Start(p) ==
    LET beside == {q \in Pods \ {p} : Running(q)}
    IN  /\ ~Running(p) /\ beside \subseteq lost
        /\ runs < MaxRuns /\ runs' = runs + 1
        /\ pc' = [pc EXCEPT ![p] = "create"]
        /\ key' = [key EXCEPT ![p] = runs + 1]
        /\ seen' = [seen EXCEPT ![p] = None]
        /\ found' = [found EXCEPT ![p] = None]
        /\ overlaps' = overlaps \union
              IF beside = {} THEN {} ELSE {runs + 1} \union {key[q] : q \in beside}
        /\ UNCHANGED <<apiVars, lost, faults>>

\* The Job is applied, or its controller replaces a failed or lost pod.
Run(p) == (\A q \in Pods : pc[q] # "succeeded") /\ Start(p)

RunAgain(p) == pc[p] = "succeeded" /\ Start(p)

LoseNode(p) ==
    /\ Running(p) /\ p \notin lost /\ Fault
    /\ lost' = lost \union {p}
    /\ UNCHANGED <<apiVars, pc, localVars, overlaps, runs>>

\* The signer takes its time.
Sign ==
    /\ csr # None /\ csr.state = "approved" /\ csr.cert = None
    /\ csr' = [csr EXCEPT !.cert = csr.key]
    /\ UNCHANGED <<secret, pc, localVars, jobVars, faults>>

-----------------------------------------------------------------------------
(* main.  A failed call may have taken effect before its answer was lost.    *)

Goto(p, step) == pc' = [pc EXCEPT ![p] = step] /\ UNCHANGED lost

\* Bug: a pod that ends is still counted as lost.
ExitStayingLost(p, code) == pc' = [pc EXCEPT ![p] = code] /\ UNCHANGED lost

\* os.Exit, log.Fatal, or the end of main.
Exit(p, code) == pc' = [pc EXCEPT ![p] = code] /\ lost' = lost \ {p}
Fatal(p) == Exit(p, "failed")

Kill(p) ==
    /\ Running(p) /\ Fault /\ Fatal(p)
    /\ UNCHANGED <<apiVars, localVars, overlaps, runs>>

Requested(p) == csr' = [key |-> key[p], state |-> "pending", cert |-> None]

\* Bug: a request that is there already is taken for this run's.
CreateCSROrReuse(p) ==
    /\ pc[p] = "create"
    /\ \/ NoFault /\ csr = None /\ Requested(p) /\ Goto(p, "get")
       \/ NoFault /\ csr # None /\ UNCHANGED csr /\ Goto(p, "get")
       \/ Fault /\ ((csr = None /\ Requested(p)) \/ UNCHANGED csr) /\ Fatal(p)
    /\ UNCHANGED <<secret, localVars, overlaps, runs>>

\* Bug: a request that is there already is an error like any other.
CreateCSRStrict(p) ==
    /\ pc[p] = "create"
    /\ \/ NoFault /\ csr = None /\ Requested(p) /\ Goto(p, "get")
       \/ NoFault /\ csr # None /\ UNCHANGED csr /\ Fatal(p)
       \/ Fault /\ ((csr = None /\ Requested(p)) \/ UNCHANGED csr) /\ Fatal(p)
    /\ UNCHANGED <<secret, localVars, overlaps, runs>>

CreateCSR(p) ==
    /\ pc[p] = "create"
    /\ \/ NoFault /\ csr = None /\ Requested(p) /\ Goto(p, "get")
       \/ NoFault /\ csr # None /\ UNCHANGED csr /\ Goto(p, "delete")
       \/ Fault /\ ((csr = None /\ Requested(p)) \/ UNCHANGED csr) /\ Fatal(p)
    /\ UNCHANGED <<secret, localVars, overlaps, runs>>

\* Deleting a request: what is not there any more cannot be deleted.
Delete(p, step, Succeed) ==
    /\ pc[p] = step
    /\ \/ NoFault /\ csr # None /\ csr' = None /\ Succeed
       \/ NoFault /\ csr = None /\ UNCHANGED csr /\ Fatal(p)
       \/ Fault /\ csr' \in {csr, None} /\ Fatal(p)
    /\ UNCHANGED <<secret, localVars, overlaps, runs>>

DeleteStale(p) == Delete(p, "delete", Goto(p, "recreate"))

\* Its failure is only logged: main goes on with the request it then finds.
RecreateCSR(p) ==
    /\ pc[p] = "recreate" /\ Goto(p, "get")
    /\ \/ NoFault /\ csr = None /\ Requested(p)
       \/ NoFault /\ csr # None /\ UNCHANGED csr
       \/ Fault /\ ((csr = None /\ Requested(p)) \/ UNCHANGED csr)
    /\ UNCHANGED <<secret, localVars, overlaps, runs>>

\* A Get of the request; the second comes one second after the approval.
ReadCSR(p, step, next) ==
    /\ pc[p] = step
    /\ \/ NoFault /\ csr # None /\ seen' = [seen EXCEPT ![p] = csr] /\ Goto(p, next)
       \/ ((NoFault /\ csr = None) \/ Fault) /\ UNCHANGED seen /\ Fatal(p)
    /\ UNCHANGED <<apiVars, key, found, overlaps, runs>>

GetCSR(p) == ReadCSR(p, "get", "approve")
AwaitCertificate(p) == ReadCSR(p, "await", "store")

\* The update is refused if the request has changed since it was read, or has
\* an Approved condition already.
Approve(p) ==
    LET accepted == csr # None /\ csr = seen[p] /\ csr.state = "pending"
        Approved == csr' = [csr EXCEPT !.state = "approved"]
    IN  /\ pc[p] = "approve"
        /\ \/ NoFault /\ accepted /\ Approved /\ Goto(p, "await")
           \/ NoFault /\ ~accepted /\ UNCHANGED csr /\ Fatal(p)
           \/ Fault /\ ((accepted /\ Approved) \/ UNCHANGED csr) /\ Fatal(p)
        /\ UNCHANGED <<secret, localVars, overlaps, runs>>

\* Whatever is in status.certificate now, and the key of this run.
Stored(p) == secret' = [key |-> key[p], cert |-> seen[p].cert]

StoreSecret(p) ==
    /\ pc[p] = "store"
    /\ \/ NoFault /\ secret = None /\ Stored(p) /\ Goto(p, "cleanup")
       \/ NoFault /\ secret # None /\ UNCHANGED secret /\ Goto(p, "read")
       \/ Fault /\ ((secret = None /\ Stored(p)) \/ UNCHANGED secret) /\ Fatal(p)
    /\ UNCHANGED <<csr, localVars, overlaps, runs>>

\* The error of this Get is dropped, but writing to the nil map of an object
\* that was not read ends the process.
ReadSecret(p) ==
    /\ pc[p] = "read"
    /\ \/ /\ NoFault /\ secret # None
          /\ found' = [found EXCEPT ![p] = secret] /\ Goto(p, "update")
       \/ Fault /\ UNCHANGED found /\ Fatal(p)
    /\ UNCHANGED <<apiVars, key, seen, overlaps, runs>>

\* The object carries the resourceVersion it was read with.
UpdateSecret(p) ==
    LET accepted == secret = found[p]
    IN  /\ pc[p] = "update"
        /\ \/ NoFault /\ accepted /\ Stored(p) /\ Goto(p, "cleanup")
           \/ NoFault /\ ~accepted /\ UNCHANGED secret /\ Fatal(p)
           \/ Fault /\ ((accepted /\ Stored(p)) \/ UNCHANGED secret) /\ Fatal(p)
        /\ UNCHANGED <<csr, localVars, overlaps, runs>>

\* Bug: a request that could not be deleted is left behind.
CleanupUnchecked(p) ==
    /\ pc[p] = "cleanup" /\ Exit(p, "succeeded")
    /\ \/ NoFault /\ csr' = None
       \/ Fault /\ csr' \in {csr, None}
    /\ UNCHANGED <<secret, localVars, overlaps, runs>>

Cleanup(p) == Delete(p, "cleanup", Exit(p, "succeeded"))

Main(p) == \/ CreateCSR(p) \/ DeleteStale(p) \/ RecreateCSR(p)
           \/ GetCSR(p) \/ Approve(p) \/ AwaitCertificate(p)
           \/ StoreSecret(p) \/ ReadSecret(p) \/ UpdateSecret(p) \/ Cleanup(p)

Next == Sign \/ \E p \in Pods : Main(p) \/ Kill(p) \/ LoseNode(p) \/ Run(p) \/ RunAgain(p)

Spec == Init /\ [][Next]_vars

\* Calls are taken to return, and the Job controller starts a pod for the Job and
\* for each that failed or was lost, up to the backoff limit.  Nothing is assumed of the
\* signer: main does not wait for it.
Fairness == /\ \A p \in Pods : WF_vars(Main(p))
            /\ WF_vars(\E p \in Pods : Run(p))

FairSpec == Spec /\ Fairness

-----------------------------------------------------------------------------
(* Properties. *)

\* The calls that use the request as it was last read.
AfterRead == {"approve", "await", "store", "read", "update"}

\* Every variable keeps to its range; only running pods are lost, each run has a
\* key of its own, and a pod that needs what it read has read it.
TypeOK ==
    /\ csr \in Requests \union {None}
    /\ secret \in TLSSecrets \union {None}
    /\ pc \in [Pods -> Steps \union {"none", "succeeded", "failed"}]
    /\ key \in [Pods -> Nat] /\ \A p \in Pods : key[p] <= runs
    /\ \A p \in Pods : Running(p) => key[p] > 0
    /\ seen \in [Pods -> Requests \union {None}]
    /\ \A p \in Pods : pc[p] \in AfterRead => seen[p] # None
    /\ found \in [Pods -> TLSSecrets \union {None}]
    /\ lost \subseteq {p \in Pods : Running(p)}
    /\ overlaps \subseteq Nat
    /\ runs \in 0 .. MaxRuns /\ faults \in 0 .. MaxFaults

\* The certificate in the secret, if there is one, certifies the key beside it,
\* whatever request an earlier run left behind and although a failure to replace
\* it is only logged.  It takes a second pod at the same time to part the two.
PairMatches ==
    secret # None /\ secret.key \notin overlaps => secret.cert \in {None, secret.key}

\* A run that had the Job for itself and reports success has stored its own key
\* and left no request behind for the next run to stumble over.
SuccessIsComplete ==
    \A p \in Pods : pc[p] = "succeeded" /\ key[p] = runs /\ key[p] \notin overlaps =>
        csr = None /\ secret # None /\ secret.key = key[p]

\* Within the backoff limit a run reports success, whatever requests and secrets
\* failed runs left behind.  Two pods at a time can refuse each other's calls
\* until the limit is reached.
JobSucceeds == <>(overlaps # {} \/ \E p \in Pods : pc[p] = "succeeded")
=============================================================================
