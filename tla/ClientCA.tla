----------------------------- MODULE ClientCA ------------------------------
(***************************************************************************)
(* The InternalClientCA operator: one controller-runtime worker that turns *)
(* InternalClientCA resources into Vault PKI mounts and into secrets with  *)
(* the CA certificate.  The API server, the informers, the work queue, the *)
(* garbage collector and Vault are modelled by what the reconciler sees of *)
(* them; every call of Reconcile to Vault or to the API server is a step,  *)
(* so that users, events and crashes fall between any two calls.           *)
(***************************************************************************)
EXTENDS Naturals

CONSTANTS Names,        \* names of InternalClientCA resources
          CNs,          \* common names; a mount sip-client-ca/<CN>-ca each
          SecretNames,  \* names of secrets in the namespace
          CertNames,    \* values of spec.secret.certName
          Blank,        \* the empty string
          None,         \* no object
          MaxOps,       \* bound on what users do
          MaxFaults     \* bound on failed calls and restarts

ASSUME BoundsAssumption == MaxOps \in Nat /\ MaxFaults \in Nat

VARIABLES cr,       \* API server: the resources, by name
          secret,   \* API server: the secrets, by name
          mount,    \* Vault: the set-up steps done on the mount of each CN
          roots,    \* Vault: how many root CAs the mount holds
          crCache,  \* informer cache the reconciler reads resources from
          notices,  \* owners for whom a secret event is under way
          queue,    \* work queue, a set as controller-runtime keeps it
          pc, job,  \* the call Reconcile is about to make, and its locals
          ops, faults

vars == <<cr, secret, mount, roots, crCache, notices, queue, pc, job, ops, faults>>
apiVars == <<cr, secret, crCache, notices>>
vaultVars == <<mount, roots>>
workerVars == <<queue, pc, job>>

SetupSteps == {"enable", "tune", "root", "urls", "role", "restrict"}
Certs == [cn : CNs, root : Nat \ {0}]
CRs == [uid : Nat, cn : CNs, secret : SecretNames, certName : CertNames]
\* A secret the operator wrote, or one that somebody else put there.
Owned == [owner : Names, uid : Nat, certName : CertNames, cert : Certs \union {Blank}]
Foreign == [owner |-> None, uid |-> 0, certName |-> Blank, cert |-> Blank]
Secrets == Owned \union {Foreign}
Jobs == [name : Names, cr : CRs, cert : Certs \union {Blank}]
PCs == SetupSteps \union {"idle", "list", "token", "create", "read", "update", "recreate"}

\* "No object" and "no certificate" are none of the objects.
ASSUME NoneAssumption ==
    /\ None \notin Names \union CRs \union Secrets \union Jobs \union Certs
    /\ Blank \notin Certs

\* The CA a mount signs with and reports: the first one generated on it.
DefaultCA(cn) == [cn |-> cn, root |-> 1]

\* Vault's HTTP client sends a request up to three times, without a word to its
\* caller, while the connection fails or Vault answers with a 5xx.
Tries == 3

Owners(x) == IF x = None \/ x = Foreign THEN {} ELSE {x.owner}

\* A secret event enqueues the owner of the old and of the new object; an
\* update that changes nothing makes no event.
Write(s, new) ==
    /\ secret' = [secret EXCEPT ![s] = new]
    /\ notices' = IF new = secret[s] THEN notices
                  ELSE notices \union Owners(secret[s]) \union Owners(new)

Init == /\ cr = [n \in Names |-> None]
        /\ secret = [s \in SecretNames |-> None]
        /\ mount = [cn \in CNs |-> {}]
        /\ roots = [cn \in CNs |-> 0]
        /\ crCache = cr
        /\ notices = {} /\ queue = {}
        /\ pc = "idle" /\ job = None
        /\ ops = 0 /\ faults = 0

-----------------------------------------------------------------------------
(* Users and other programs. *)

Operation == ops < MaxOps /\ ops' = ops + 1

NewCR(cn, s, k) == [uid |-> ops + 1, cn |-> cn, secret |-> s, certName |-> k]

CreateCR(n, cn, s, k) ==
    /\ cr[n] = None /\ Operation
    /\ cr' = [cr EXCEPT ![n] = NewCR(cn, s, k)]
    /\ UNCHANGED <<secret, crCache, notices, vaultVars, workerVars, faults>>

EditCR(n, cn, s, k) ==
    /\ cr[n] # None /\ Operation
    /\ cr' = [cr EXCEPT ![n] = [NewCR(cn, s, k) EXCEPT !.uid = cr[n].uid]]
    /\ cr' # cr
    /\ UNCHANGED <<secret, crCache, notices, vaultVars, workerVars, faults>>

DeleteCR(n) ==
    /\ cr[n] # None /\ Operation
    /\ cr' = [cr EXCEPT ![n] = None]
    /\ UNCHANGED <<secret, crCache, notices, vaultVars, workerVars, faults>>

DeleteSecret(s) ==
    /\ secret[s] # None /\ Operation
    /\ Write(s, None)
    /\ UNCHANGED <<cr, crCache, vaultVars, workerVars, faults>>

\* Another program creates or overwrites a secret of that name.
ForeignWrite(s) ==
    /\ secret[s] # Foreign /\ Operation
    /\ Write(s, Foreign)
    /\ UNCHANGED <<cr, crCache, vaultVars, workerVars, faults>>

-----------------------------------------------------------------------------
(* Kubernetes. *)

LiveUids == {cr[n].uid : n \in {m \in Names : cr[m] # None}}

\* A secret whose owner, by uid, is gone.
Orphan(s) == /\ secret[s] # None /\ secret[s] # Foreign
             /\ secret[s].uid \notin LiveUids

GarbageCollect(s) ==
    /\ Orphan(s)
    /\ Write(s, None)
    /\ UNCHANGED <<cr, crCache, vaultVars, workerVars, ops, faults>>

\* For(InternalClientCA): the cache catches up and the resource is enqueued.
DeliverCR(n) ==
    /\ crCache[n] # cr[n]
    /\ crCache' = [crCache EXCEPT ![n] = cr[n]]
    /\ queue' = queue \union {n}
    /\ UNCHANGED <<cr, secret, notices, vaultVars, pc, job, ops, faults>>

\* Bug: the controller does not own secrets.
IgnoreSecretEvent(n) ==
    /\ n \in notices
    /\ notices' = notices \ {n}
    /\ UNCHANGED <<cr, secret, crCache, vaultVars, queue, pc, job, ops, faults>>

\* Owns(Secret): the owner named by a secret event is enqueued.
DeliverSecret(n) ==
    /\ n \in notices
    /\ notices' = notices \ {n}
    /\ queue' = queue \union {n}
    /\ UNCHANGED <<cr, secret, crCache, vaultVars, pc, job, ops, faults>>

\* What an informer lists: a resource enqueues itself, a secret its owner.
Listed(store) == {n \in Names : store[n] # None}
                    \union UNION {Owners(secret[s]) : s \in SecretNames}

Resync ==
    /\ queue' = queue \union Listed(crCache)
    /\ queue' # queue
    /\ UNCHANGED <<apiVars, vaultVars, pc, job, ops, faults>>

-----------------------------------------------------------------------------
(* Reconcile.  A fault is a call during which the connection fails; given    *)
(* up, it makes Reconcile return an error: the key is requeued, and whether  *)
(* the call took effect is open.                                             *)

Fault == faults < MaxFaults /\ faults' = faults + 1
NoFault == UNCHANGED faults

Goto(step) == pc' = step /\ UNCHANGED <<queue, job>>
ReturnNil == pc' = "idle" /\ job' = None /\ UNCHANGED queue

\* Bug: the locals of a failed Reconcile survive it.
ReturnErrKeepingJob == pc' = "idle" /\ queue' = queue \union {job.name} /\ UNCHANGED job
ReturnErr == pc' = "idle" /\ job' = None /\ queue' = queue \union {job.name}

Load(n) ==
    /\ pc = "idle" /\ n \in queue
    /\ \/ /\ NoFault /\ crCache[n] = None
          /\ queue' = queue \ {n} /\ UNCHANGED <<pc, job>>
       \/ /\ NoFault /\ crCache[n] # None
          /\ queue' = queue \ {n} /\ pc' = "list"
          /\ job' = [name |-> n, cr |-> crCache[n], cert |-> Blank]
       \/ Fault /\ UNCHANGED workerVars
    /\ UNCHANGED <<apiVars, vaultVars, ops>>

\* Bug: Vault lists paths with a trailing slash, and it is left out here.
ListMountsWithoutSlash ==
    /\ pc = "list"
    /\ \/ NoFault /\ Goto("enable")
       \/ Fault /\ ReturnErr
    /\ UNCHANGED <<apiVars, vaultVars, ops>>

ListMounts ==
    /\ pc = "list"
    /\ \/ NoFault /\ "enable" \notin mount[job.cr.cn] /\ Goto("enable")
       \/ NoFault /\ "enable" \in mount[job.cr.cn] /\ Goto("read")
       \/ Fault /\ ReturnErr
    /\ UNCHANGED <<apiVars, vaultVars, ops>>

Done(step) == mount' = [mount EXCEPT ![job.cr.cn] = @ \union {step}]

\* A call that sets the mount up and adds no CA.
SetUp(step, next) ==
    /\ pc = step
    /\ \/ NoFault /\ Done(step) /\ Goto(next)
       \/ Fault /\ (Done(step) \/ UNCHANGED mount) /\ ReturnErr
    /\ UNCHANGED <<apiVars, roots, ops>>

\* Vault would refuse a path in use, but the single worker has just found it
\* free: see PathFree.
Enable == SetUp("enable", "tune")
Tune == SetUp("tune", "root")
ConfigureUrls == SetUp("urls", "role")
WriteRole == SetUp("role", "token")

\* Every request that reaches Vault adds a root: none is named in it.  A call whose
\* answers are lost is sent again below Reconcile, so it may add several and yet
\* succeed; its answer has the certificate of the last.
Generate(givenUp) ==
    LET cn == job.cr.cn
        Added(n) == /\ mount' = [mount EXCEPT ![cn] = IF n = 0 THEN @ ELSE @ \union {"root"}]
                    /\ roots' = [roots EXCEPT ![cn] = @ + n]
        Answered(n) == /\ Added(n)
                       /\ pc' = "urls" /\ UNCHANGED queue
                       /\ job' = [job EXCEPT !.cert = [cn |-> cn, root |-> roots[cn] + n]]
    IN  /\ pc = "root"
        /\ \/ NoFault /\ Answered(1)
           \/ Fault /\ \E n \in 2 .. Tries : Answered(n)
           \/ Fault /\ (\E n \in 0 .. Tries : Added(n)) /\ givenUp
        /\ UNCHANGED <<apiVars, ops>>

\* Bug: Reconcile as well asks again when it has no answer.
GenerateRootAgain == Generate(UNCHANGED workerVars)
GenerateRoot == Generate(ReturnErr)

\* An unreadable token secret makes enablePKIClientCA return "", nil: the
\* role keeps its flags and the secret is created with an empty certificate.
ReadRootToken ==
    /\ pc = "token"
    /\ \/ NoFault /\ Goto("restrict")
       \/ /\ Fault /\ pc' = "create" /\ UNCHANGED queue
          /\ job' = [job EXCEPT !.cert = Blank]
       \/ Fault /\ ReturnErr
    /\ UNCHANGED <<apiVars, vaultVars, ops>>

\* The PATCH's failure is printed, never returned.
DisableFlag ==
    /\ pc = "restrict"
    /\ \/ NoFault /\ Done("restrict")
       \/ Fault /\ (Done("restrict") \/ UNCHANGED mount)
    /\ Goto("create")
    /\ UNCHANGED <<apiVars, roots, ops>>

ReadCaChain ==
    LET cn == job.cr.cn
    IN  /\ pc = "read"
        /\ \/ /\ NoFault /\ roots[cn] > 0
              /\ pc' = "update" /\ UNCHANGED queue
              /\ job' = [job EXCEPT !.cert = DefaultCA(cn)]
           \/ NoFault /\ roots[cn] = 0 /\ ReturnErr
           \/ Fault /\ ReturnErr
        /\ UNCHANGED <<apiVars, vaultVars, ops>>

BuiltSecret == [owner |-> job.name, uid |-> job.cr.uid,
                certName |-> job.cr.certName, cert |-> job.cert]

\* Bug: a refused or lost write is logged, and Reconcile returns nil.
WriteSecretOnce(accepted) ==
    \/ NoFault /\ accepted /\ Write(job.cr.secret, BuiltSecret) /\ ReturnNil
    \/ NoFault /\ ~accepted /\ UNCHANGED <<secret, notices>> /\ ReturnNil
    \/ Fault /\ UNCHANGED <<secret, notices>> /\ ReturnNil

\* A write the API server accepts or refuses, or whose answer is lost.
WriteSecret(accepted) ==
    \/ NoFault /\ accepted /\ Write(job.cr.secret, BuiltSecret) /\ ReturnNil
    \/ NoFault /\ ~accepted /\ UNCHANGED <<secret, notices>> /\ ReturnErr
    \/ /\ Fault /\ ReturnErr
       /\ \/ accepted /\ Write(job.cr.secret, BuiltSecret)
          \/ UNCHANGED <<secret, notices>>

\* Bug: a secret that already exists is updated on the spot.
CreateOrUpdateSecret(step) ==
    /\ pc = step
    /\ WriteSecret(job.cr.certName # Blank)
    /\ UNCHANGED <<cr, crCache, vaultVars, ops>>

\* A data key may not be empty, and Create needs the name to be free.
CreateSecret(step) ==
    /\ pc = step
    /\ WriteSecret(job.cr.certName # Blank /\ secret[job.cr.secret] = None)
    /\ UNCHANGED <<cr, crCache, vaultVars, ops>>

Create == CreateSecret("create")
Recreate == CreateSecret("recreate")

\* Without a resourceVersion the update replaces whatever secret is there.
Update ==
    /\ pc = "update"
    /\ \/ /\ secret[job.cr.secret] # None
          /\ WriteSecret(job.cr.certName # Blank)
       \/ /\ secret[job.cr.secret] = None
          /\ UNCHANGED <<secret, notices>>
          /\ \/ NoFault /\ Goto("recreate")
             \/ Fault /\ ReturnErr
    /\ UNCHANGED <<cr, crCache, vaultVars, ops>>

\* The pod restarts: the caches are listed anew and all they hold is enqueued.
Restart ==
    /\ Fault
    /\ pc' = "idle" /\ job' = None
    /\ crCache' = cr /\ notices' = {}
    /\ queue' = Listed(cr)
    /\ UNCHANGED <<cr, secret, vaultVars, ops>>

Worker == \/ ListMounts \/ Enable \/ Tune \/ GenerateRoot \/ ConfigureUrls
          \/ WriteRole \/ ReadRootToken \/ DisableFlag \/ ReadCaChain
          \/ Create \/ Update \/ Recreate

User == \/ \E n \in Names, cn \in CNs, s \in SecretNames, k \in CertNames :
              CreateCR(n, cn, s, k) \/ EditCR(n, cn, s, k)
        \/ \E n \in Names : DeleteCR(n)
        \/ \E s \in SecretNames : DeleteSecret(s) \/ ForeignWrite(s)

Kubernetes == \/ \E n \in Names : DeliverCR(n) \/ DeliverSecret(n)
              \/ \E s \in SecretNames : GarbageCollect(s)
              \/ Resync \/ Restart

Next == Worker \/ (\E n \in Names : Load(n)) \/ User \/ Kubernetes

Spec == Init /\ [][Next]_vars

-----------------------------------------------------------------------------
(* Fairness: a call is taken to return in the end (Vault's client has a     *)
(* timeout; the others rely on the connection breaking), so the single      *)
(* worker goes on.  The work queue hands out keys first in first out and    *)
(* holds a failed key back, so a waiting key's turn comes although others   *)
(* keep failing; watches deliver, the garbage collector runs.  Users,       *)
(* restarts and the 10 h resync owe nothing.                                *)

Fairness == /\ WF_vars(Worker)
            /\ \A n \in Names : SF_vars(Load(n))
            /\ \A n \in Names : WF_vars(DeliverCR(n)) /\ WF_vars(DeliverSecret(n))
            /\ \A s \in SecretNames : WF_vars(GarbageCollect(s))

FairSpec == Spec /\ Fairness

-----------------------------------------------------------------------------
(* Properties. *)

\* Every variable keeps to its range; there is a job exactly while Reconcile
\* runs.
TypeOK ==
    /\ cr \in [Names -> CRs \union {None}]
    /\ secret \in [SecretNames -> Secrets \union {None}]
    /\ mount \in [CNs -> SUBSET SetupSteps]
    /\ roots \in [CNs -> Nat]
    /\ crCache \in [Names -> CRs \union {None}]
    /\ notices \subseteq Names
    /\ queue \subseteq Names
    /\ pc \in PCs
    /\ job \in Jobs \union {None}
    /\ pc = "idle" <=> job = None
    /\ ops \in 0 .. MaxOps
    /\ faults \in 0 .. MaxFaults

\* However often Reconcile fails, is retried or dies half way, none of its calls
\* adds a root CA to a mount that has one: what the mount signs with and what
\* providers were given is settled by the one call that found it without.
RootsKept == \A cn \in CNs : roots[cn] # 0 => roots'[cn] = roots[cn]

RootsGeneratedOnce == [][RootsKept]_vars

\* The strengthening that makes it inductive.  A mount is enabled before it gets a
\* root; the worker that found the path free is the only one to set it up; so it
\* generates a root on a mount that has none.  A certificate it carries or has
\* written is that of a root of the mount, and what it updates a secret with is
\* the one the mount signs with.
Made(cert) == cert.root \in 1 .. roots[cert.cn]
Signing(cert) == cert = DefaultCA(cert.cn)

RootNeedsMount == \A cn \in CNs : roots[cn] > 0 => "enable" \in mount[cn]
PathFree == pc = "enable" => "enable" \notin mount[job.cr.cn]
RootMissing == pc \in {"tune", "root"} =>
                   "enable" \in mount[job.cr.cn] /\ roots[job.cr.cn] = 0
JobCertMade == pc # "idle" /\ job.cert # Blank => Made(job.cert)
UpdateSigning == pc = "update" => job.cert # Blank /\ Signing(job.cert)
SecretsMade == \A s \in SecretNames :
                   secret[s] # None /\ secret[s].cert # Blank => Made(secret[s].cert)

Inductive == /\ TypeOK
             /\ RootNeedsMount /\ PathFree /\ RootMissing
             /\ JobCertMade /\ UpdateSigning /\ SecretsMade

Quiet == /\ pc = "idle" /\ queue = {} /\ notices = {}
         /\ crCache = cr
         /\ \A s \in SecretNames : ~Orphan(s)

\* The secret that the version x of resource n asks for is there as it should be.
Shows(n, x) == secret[x.secret] = [owner |-> n, uid |-> x.uid,
                   certName |-> x.certName, cert |-> DefaultCA(x.cn)]

Published(n) == Shows(n, cr[n])

\* When the operator is at rest with nothing to deliver, every resource is
\* served: no error, lost answer, restart, foreign write, edit or deletion is
\* swallowed.  (Two resources that name one secret never let it rest.)
QuietMeansPublished ==
    Quiet => \A n \in Names : cr[n] # None => Published(n)

\* What makes that inductive: a job works for the version in the cache unless its
\* resource waits in the queue again, and a resource whose cached version is not
\* served waits in the queue, for an event or for the job under way.
JobOfItsCN == pc # "idle" /\ job.cert # Blank => job.cert.cn = job.cr.cn
JobFresh == pc # "idle" => job.cr = crCache[job.name] \/ job.name \in queue
NothingForgotten ==
    \A n \in Names : crCache[n] # None =>
        \/ Shows(n, crCache[n])
        \/ n \in queue \union notices
        \/ pc # "idle" /\ job.name = n

Unforgotten == JobOfItsCN /\ JobFresh /\ NothingForgotten

\* A secret with another CA certificate than its mount signs with (a second root, made
\* by a request that was sent again, or none, for want of the token) is never left
\* alone: the resource that asks for it waits in the queue, for its event or for the
\* job under way, unless the API server has a newer version of the resource.
WrongCAIsPending ==
    \A s \in SecretNames :
        LET n == secret[s].owner
        IN  /\ secret[s] \notin {None, Foreign} /\ cr[n] = crCache[n]
            /\ cr[n] # None /\ cr[n].secret = s
            /\ secret[s].cert # DefaultCA(cr[n].cn)
            => n \in queue \union notices \/ (pc # "idle" /\ job.name = n)

\* Reconcile's own writes never take a CA certificate out of a secret, not
\* even on the path that returns an empty certificate without an error.
KeepsCerts == \A s \in SecretNames :
                  /\ secret[s] # None /\ secret[s].cert # Blank
                  /\ secret'[s] # None /\ secret'[s] # Foreign
                  => secret'[s].cert # Blank

SecretNeverBlanked == [][KeepsCerts]_vars

\* A mount the operator enabled and never gave a CA.
Stranded(cn) == "enable" \in mount[cn] /\ roots[cn] = 0

Sole(n) == \A m \in Names \ {n} : cr[m] # None => cr[m].secret # cr[n].secret

Servable(n) == /\ cr[n] # None /\ Sole(n)
               /\ cr[n].certName # Blank /\ ~Stranded(cr[n].cn)

\* Once users stop and calls succeed again, a resource that shares its secret
\* with no other gets it, with the CA of its mount, and keeps it.
EventuallyPublished == \A n \in Names : <>[](Servable(n) => Published(n))

\* The roots of each mount, the one it signs with, and the CA certificate each
\* secret shows.
made == [cn \in CNs |-> {[cn |-> cn, root |-> n] : n \in 1 .. roots[cn]}]
ca == [cn \in CNs |-> IF roots[cn] = 0 THEN None ELSE DefaultCA(cn)]
bundle == [s \in SecretNames |-> IF secret[s] = None \/ secret[s].cert = Blank
                                  THEN None ELSE secret[s].cert]

\* For every CN one CA is established for good, no secret shows a certificate that
\* is not of its making, and one that shows the certificate it signs under never
\* gets another: the operator implements CAPublication.
Promise == INSTANCE CAPublication WITH made <- made, ca <- ca, bundle <- bundle

ImplementsPublication == Promise!Spec

-----------------------------------------------------------------------------
(* What the repository says and the code does not do. *)

\* "move the current state of the cluster closer to the desired state"
\* (internalclientca_controller.go:68-69): a resource with a name for its
\* certificate and a secret of its own is served in the end.
DesiredStateReached ==
    \A n \in Names : <>[](cr[n] # None /\ Sole(n) /\ cr[n].certName # Blank => Published(n))
=============================================================================
