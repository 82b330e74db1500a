------------------------------ MODULE IntCert ------------------------------
(***************************************************************************)
(* The InternalCertificate operator and its admission webhook: it has      *)
(* Vault issue a key pair, from a client CA or from the intermediate CA,   *)
(* for a resource whose secret it does not see, and stores it there.  It   *)
(* looks for the secret in the informer cache, which lags the API server.  *)
(***************************************************************************)
EXTENDS Naturals

CONSTANTS Names,          \* names of InternalCertificate resources
          Choices,        \* Choices[n]: the specs users give to the resource n
          ClientCAs,      \* values of spec.certificate.issuer.reference
          SecretNames, Blank, None,
          WebhookOn,      \* ENABLE_WEBHOOKS is not "false"
          CacheReadsFail, \* a Get from the cache may fail with another error
          MaxOps, MaxFaults

\* Which CA a server certificate comes from: one that is no client CA.
IntermCA == "interm-ca"

\* A spec: its usages, the issuer, the secret, and whether it gives both data
\* keys, keyName and certName.
AllSpecs == [client : BOOLEAN, server : BOOLEAN, issuer : ClientCAs \union {Blank},
             secret : SecretNames, named : BOOLEAN]
Specs == UNION {Choices[n] : n \in Names}

ASSUME ChoicesAssumption == Choices \in [Names -> SUBSET AllSpecs]
ASSUME BoundsAssumption == /\ MaxOps \in Nat /\ MaxFaults \in Nat
                           /\ WebhookOn \in BOOLEAN /\ CacheReadsFail \in BOOLEAN

VARIABLES cr,           \* API server: the resources, by name
          secret,       \* API server: the secrets, by name
          signer,       \* Vault: the key each CA signs with, 0 while it cannot
          crCache,      \* informer cache of the resources
          secretCache,  \* informer cache of the secrets
          notices,      \* notices[s]: owners not yet told of events on s
          queue,        \* work queue, a set as controller-runtime keeps it
          pc, job,      \* the call Reconcile is about to make, and its locals
          ops, faults

vars == <<cr, secret, signer, crCache, secretCache, notices, queue, pc, job, ops, faults>>
storeVars == <<cr, secret, notices>>
cacheVars == <<crCache, secretCache>>
workerVars == <<queue, pc, job>>

CAs == ClientCAs \union {IntermCA}
CRs == [uid : Nat, spec : Specs]
\* One key pair is told from the one it replaces by its serial.
Pairs == [ca : CAs, key : Nat \ {0}, serial : {0, 1}]
Secrets == [owner : Names, uid : Nat, pair : Pairs]
Jobs == [name : Names, cr : CRs, pair : Pairs \union {None}]

\* "No object" is none of the objects, and the intermediate CA no client CA.
ASSUME NoneAssumption == /\ None \notin CRs \union Secrets \union Jobs \union Pairs
                         /\ IntermCA \notin ClientCAs \union {Blank}

Write(s, new) ==
    /\ secret' = [secret EXCEPT ![s] = new]
    /\ notices' = [notices EXCEPT ![s] =
          @ \union {x.owner : x \in {secret[s], new} \ {None}}]

Init == /\ cr = [n \in Names |-> None] /\ crCache = cr
        /\ secret = [s \in SecretNames |-> None] /\ secretCache = secret
        /\ notices = [s \in SecretNames |-> {}]
        /\ signer = [c \in CAs |-> 0] /\ queue = {}
        /\ pc = "idle" /\ job = None
        /\ ops = 0 /\ faults = 0

-----------------------------------------------------------------------------
(* Users, and the rest of the system as far as it lets Vault issue. *)

\* ValidateCreate and ValidateUpdate: exactly one usage; nothing else is looked
\* at, and Default fills nothing in.
Admitted(spec) == WebhookOn => spec.server # spec.client

Operation == ops < MaxOps /\ ops' = ops + 1

CreateCR(n, spec) ==
    /\ cr[n] = None /\ Admitted(spec) /\ Operation
    /\ cr' = [cr EXCEPT ![n] = [uid |-> ops + 1, spec |-> spec]]
    /\ UNCHANGED <<secret, notices, signer, cacheVars, workerVars, faults>>

EditCR(n, spec) ==
    /\ cr[n] # None /\ cr[n].spec # spec /\ Admitted(spec) /\ Operation
    /\ cr' = [cr EXCEPT ![n].spec = spec]
    /\ UNCHANGED <<secret, notices, signer, cacheVars, workerVars, faults>>

DeleteCR(n) ==
    /\ cr[n] # None /\ Operation
    /\ cr' = [cr EXCEPT ![n] = None]
    /\ UNCHANGED <<secret, notices, signer, cacheVars, workerVars, faults>>

DeleteSecret(s) ==
    /\ secret[s] # None /\ Operation
    /\ Write(s, None)
    /\ UNCHANGED <<cr, signer, cacheVars, workerVars, faults>>

\* The PKI job or the InternalClientCA operator finishes a CA.
SetUpCA(c) ==
    /\ signer[c] = 0
    /\ signer' = [signer EXCEPT ![c] = 1]
    /\ UNCHANGED <<storeVars, cacheVars, workerVars, ops, faults>>

-----------------------------------------------------------------------------
(* Kubernetes. *)

LiveUids == {cr[n].uid : n \in {m \in Names : cr[m] # None}}

Orphan(s) == secret[s] # None /\ secret[s].uid \notin LiveUids

GarbageCollect(s) ==
    /\ Orphan(s)
    /\ Write(s, None)
    /\ UNCHANGED <<cr, signer, cacheVars, workerVars, ops, faults>>

DeliverCR(n) ==
    /\ crCache[n] # cr[n]
    /\ crCache' = [crCache EXCEPT ![n] = cr[n]]
    /\ queue' = queue \union {n}
    /\ UNCHANGED <<storeVars, signer, secretCache, pc, job, ops, faults>>

\* Bug: the controller does not own secrets, only caches them.
CacheSecret(s) ==
    /\ notices[s] # {}
    /\ secretCache' = [secretCache EXCEPT ![s] = secret[s]]
    /\ notices' = [notices EXCEPT ![s] = {}]
    /\ UNCHANGED <<cr, secret, signer, crCache, queue, pc, job, ops, faults>>

\* The cache catches up with all events on s and their owners are enqueued.
DeliverSecret(s) ==
    /\ notices[s] # {}
    /\ secretCache' = [secretCache EXCEPT ![s] = secret[s]]
    /\ queue' = queue \union notices[s]
    /\ notices' = [notices EXCEPT ![s] = {}]
    /\ UNCHANGED <<cr, secret, signer, crCache, pc, job, ops, faults>>

\* What informers hand to the queue: each resource, the owner of each secret.
Listed(resources, secrets) ==
    {n \in Names : resources[n] # None}
        \union {secrets[s].owner : s \in {t \in SecretNames : secrets[t] # None}}

Resync ==
    /\ queue' = queue \union Listed(crCache, secretCache)
    /\ queue' # queue
    /\ UNCHANGED <<storeVars, signer, cacheVars, pc, job, ops, faults>>

-----------------------------------------------------------------------------
(* Reconcile. *)

Fault == faults < MaxFaults /\ faults' = faults + 1
NoFault == UNCHANGED faults

Goto(step) == pc' = step /\ UNCHANGED <<queue, job>>

\* Bug: the locals of a Reconcile survive it.
ReturnNilKeepingJob == pc' = "idle" /\ UNCHANGED <<queue, job>>
ReturnNil == pc' = "idle" /\ job' = None /\ UNCHANGED queue
\* Bug: an error is logged and nil returned.
ReturnErrForgotten == pc' = "idle" /\ job' = None /\ UNCHANGED queue
ReturnErr == pc' = "idle" /\ job' = None /\ queue' = queue \union {job.name}

\* A resource with neither usage is left alone.
Load(n) ==
    LET found == crCache[n]
        hasUsage == found # None /\ (found.spec.client \/ found.spec.server)
    IN  /\ pc = "idle" /\ n \in queue
        /\ \/ /\ NoFault /\ ~hasUsage
              /\ queue' = queue \ {n} /\ UNCHANGED <<pc, job>>
           \/ /\ NoFault /\ hasUsage
              /\ queue' = queue \ {n} /\ pc' = "get"
              /\ job' = [name |-> n, cr |-> found, pair |-> None]
           \/ CacheReadsFail /\ Fault /\ UNCHANGED workerVars
        /\ UNCHANGED <<storeVars, signer, cacheVars, ops>>

wanted == job.cr.spec

\* Any secret of that name will do.  An error that is not NotFound makes the
\* client branch issue a pair, and the server branch return nil.
GetSecret ==
    /\ pc = "get"
    /\ \/ NoFault /\ secretCache[wanted.secret] # None /\ ReturnNil
       \/ NoFault /\ secretCache[wanted.secret] = None /\ Goto("issue")
       \/ CacheReadsFail /\ wanted.client /\ Fault /\ Goto("issue")
       \/ CacheReadsFail /\ ~wanted.client /\ Fault /\ ReturnNil
    /\ UNCHANGED <<storeVars, signer, cacheVars, ops>>

\* Bug: the two branches are swapped.
IssuingCASwapped == IF wanted.client THEN IntermCA ELSE wanted.issuer
IssuingCA == IF wanted.client THEN wanted.issuer ELSE IntermCA

NewSerial == IF secret[wanted.secret] = None THEN 0 ELSE 1 - secret[wanted.secret].pair.serial

\* Bug: a refusal passes for an answer.
CanIssueUnchecked(c) == c \in CAs
\* A mount that does not exist, has no role or no CA refuses to issue.
CanIssue(c) == c \in CAs /\ signer[c] # 0

NewPair == [ca |-> IssuingCA, key |-> signer[IssuingCA], serial |-> NewSerial]

Issue ==
    /\ pc = "issue"
    /\ \/ /\ NoFault /\ CanIssue(IssuingCA)
          /\ pc' = "create" /\ UNCHANGED queue
          /\ job' = [job EXCEPT !.pair = NewPair]
       \/ NoFault /\ ~CanIssue(IssuingCA) /\ ReturnErr
       \/ Fault /\ ReturnErr
    /\ UNCHANGED <<storeVars, signer, cacheVars, ops>>

BuiltSecret == [owner |-> job.name, uid |-> job.cr.uid, pair |-> job.pair]

\* The API server takes no secret with an empty data key.
Valid == wanted.named

\* Bug: the server branch updates what exists, as the client branch does.
CreateThenUpdate ==
    /\ pc = "create"
    /\ \/ /\ NoFault /\ Valid /\ secret[wanted.secret] = None
          /\ Write(wanted.secret, BuiltSecret) /\ ReturnNil
       \/ /\ NoFault /\ Valid /\ secret[wanted.secret] # None
          /\ Goto("update") /\ UNCHANGED <<secret, notices>>
       \/ NoFault /\ ~Valid /\ ReturnErr /\ UNCHANGED <<secret, notices>>
    /\ UNCHANGED <<cr, signer, cacheVars, ops>>

Create ==
    /\ pc = "create"
    /\ \/ /\ NoFault /\ Valid /\ secret[wanted.secret] = None
          /\ Write(wanted.secret, BuiltSecret) /\ ReturnNil
       \/ /\ NoFault /\ Valid /\ secret[wanted.secret] # None
          /\ IF wanted.client THEN Goto("update") ELSE ReturnErr
          /\ UNCHANGED <<secret, notices>>
       \/ NoFault /\ ~Valid /\ ReturnErr /\ UNCHANGED <<secret, notices>>
       \/ /\ Fault /\ ReturnErr
          /\ \/ Valid /\ secret[wanted.secret] = None /\ Write(wanted.secret, BuiltSecret)
             \/ UNCHANGED <<secret, notices>>
    /\ UNCHANGED <<cr, signer, cacheVars, ops>>

\* Only the client branch: it replaces whatever it found in its way.
Update ==
    /\ pc = "update"
    /\ \/ /\ NoFault /\ secret[wanted.secret] # None
          /\ Write(wanted.secret, BuiltSecret) /\ ReturnNil
       \/ /\ NoFault /\ secret[wanted.secret] = None
          /\ ReturnErr /\ UNCHANGED <<secret, notices>>
       \/ /\ Fault /\ ReturnErr
          /\ \/ secret[wanted.secret] # None /\ Write(wanted.secret, BuiltSecret)
             \/ UNCHANGED <<secret, notices>>
    /\ UNCHANGED <<cr, signer, cacheVars, ops>>

\* The pod restarts: the caches are listed anew and all they hold is enqueued.
Restart ==
    /\ Fault
    /\ pc' = "idle" /\ job' = None
    /\ crCache' = cr /\ secretCache' = secret
    /\ notices' = [s \in SecretNames |-> {}]
    /\ queue' = Listed(cr, secret)
    /\ UNCHANGED <<cr, secret, signer, ops>>

Worker == GetSecret \/ Issue \/ Create \/ Update

User == \/ \E n \in Names : \E x \in Choices[n] : CreateCR(n, x) \/ EditCR(n, x)
        \/ \E n \in Names : DeleteCR(n)
        \/ \E s \in SecretNames : DeleteSecret(s)

Kubernetes == \/ \E n \in Names : DeliverCR(n)
              \/ \E s \in SecretNames : DeliverSecret(s) \/ GarbageCollect(s)
              \/ Resync \/ Restart

Next == \/ Worker \/ User \/ Kubernetes
        \/ \E n \in Names : Load(n)
        \/ \E c \in CAs : SetUpCA(c)

Spec == Init /\ [][Next]_vars

-----------------------------------------------------------------------------
(* Fairness: as for ClientCA, and the informers' resync, which               *)
(* controller-runtime runs every 10 h unless told otherwise (main.go tells   *)
(* it nothing).  Users, faults and the setting up of CAs owe nothing.        *)

Fairness == /\ WF_vars(Worker) /\ WF_vars(Resync)
            /\ \A n \in Names : SF_vars(Load(n)) /\ WF_vars(DeliverCR(n))
            /\ \A s \in SecretNames : WF_vars(DeliverSecret(s)) /\ WF_vars(GarbageCollect(s))

FairSpec == Spec /\ Fairness

-----------------------------------------------------------------------------
(* Properties. *)

\* Every variable keeps to its range; there is a job exactly while Reconcile
\* runs.
TypeOK ==
    /\ cr \in [Names -> CRs \union {None}]
    /\ secret \in [SecretNames -> Secrets \union {None}]
    /\ signer \in [CAs -> Nat]
    /\ crCache \in [Names -> CRs \union {None}]
    /\ secretCache \in [SecretNames -> Secrets \union {None}]
    /\ notices \in [SecretNames -> SUBSET Names]
    /\ queue \subseteq Names
    /\ pc \in {"idle", "get", "issue", "create", "update"}
    /\ job \in Jobs \union {None}
    /\ (pc = "idle") = (job = None)
    /\ ops \in 0 .. MaxOps /\ faults \in 0 .. MaxFaults

\* What makes that inductive: a job that stores a pair has one, of the CA it
\* asked and under the key this CA still has, and only a client's job updates.
PairWhole == pc \in {"create", "update"} => job.pair \in Pairs
PairIssued == pc \in {"create", "update"} =>
                  job.pair.ca = IssuingCA /\ job.pair.key = signer[IssuingCA]
UpdatesClients == pc = "update" => wanted.client

Inductive == TypeOK /\ PairWhole /\ PairIssued /\ UpdatesClients

Quiet == /\ pc = "idle" /\ queue = {} /\ crCache = cr
         /\ \A s \in SecretNames : notices[s] = {} /\ ~Orphan(s)

\* The secret a resource of name n and content x asks for is there and its own.
Shows(n, x) == LET y == secret[x.spec.secret]
               IN  y # None /\ y.owner = n /\ y.uid = x.uid

Served(n) == Shows(n, cr[n])

\* When the operator is at rest with nothing to deliver, every resource the
\* webhook admitted has its own secret, although Reconcile takes a secret it
\* sees in a stale cache for granted and says no more about it.
QuietMeansServed == Quiet => \A n \in Names : cr[n] # None => Served(n)

\* It takes that no two resources may name one secret, that every resource has
\* a usage (the webhook's doing), and that the cache answers.
Users(s) == {n \in Names : \E x \in Choices[n] : x.secret = s}
Unshared == \A s \in SecretNames : \A m, n \in Users(s) : m = n
Usable == \A n \in Names : \A x \in Choices[n] : Admitted(x) => x.client \/ x.server

\* What makes it inductive.  Specs are their resource's own, and admitted.
Own(n, x) == x # None => x.spec \in Choices[n] /\ Admitted(x.spec)
SpecsOwn == /\ \A n \in Names : Own(n, cr[n]) /\ Own(n, crCache[n])
            /\ job # None => Own(job.name, job.cr)

\* A secret belongs to a resource that may name it, which also hears of it, and
\* the cache is behind only while somebody has yet to hear.
SecretsOwn == \A s \in SecretNames :
                 /\ secret[s] # None => secret[s].owner \in Users(s)
                 /\ notices[s] \subseteq Users(s)
CacheLags == \A s \in SecretNames : secretCache[s] # secret[s] => notices[s] # {}

\* The uids known for those of resources of the name n: none is another's.
Uids(n) ==
    {x.uid : x \in {cr[n], crCache[n]} \ {None}}
    \union {secret[s].uid : s \in {t \in SecretNames : secret[t] # None /\ secret[t].owner = n}}
    \union {x.cr.uid : x \in {y \in {job} \ {None} : y.name = n}}
UidsApart == \A n \in Names : /\ Uids(n) \subseteq 0 .. ops
                              /\ \A m \in Names \ {n} : Uids(m) \intersect Uids(n) = {}

\* The job works for the cached resource, or its name was queued again.
JobFresh == job # None => job.cr = crCache[job.name] \/ job.name \in queue

\* A cached resource is shown by its secret, somebody will look at it again, or
\* the cache or the garbage collector has yet to tell.
Accounted(n, x) ==
    \/ Shows(n, x)
    \/ n \in queue \/ n \in notices[x.spec.secret]
    \/ job # None /\ job.name = n
    \/ Orphan(x.spec.secret) \/ cr[n] = None \/ cr[n].uid # x.uid
NothingForgotten == \A n \in Names : crCache[n] # None => Accounted(n, crCache[n])

Grounded == SpecsOwn /\ SecretsOwn /\ CacheLags /\ UidsApart
Unforgotten == Grounded /\ JobFresh /\ NothingForgotten

\* A server's reconciliation never takes a secret over: however stale the cache
\* it decided on, a secret whose owner lives stays as it is or is deleted, unless
\* it is a client's pair that is being stored.
ServerTakesNone ==
    [][\A s \in SecretNames :
          secret[s] # None /\ ~Orphan(s) /\ secret'[s] \notin {secret[s], None}
          => job # None /\ wanted.client]_vars

Sole(n) == \A m \in Names \ {n} : cr[m] # None => cr[m].spec.secret # cr[n].spec.secret

Servable(n) ==
    /\ cr[n] # None /\ Sole(n)
    /\ cr[n].spec.named
    /\ CanIssue(IF cr[n].spec.client THEN cr[n].spec.issuer ELSE IntermCA)

\* Once users stop, calls succeed again and its CA can issue, a resource gets
\* its own secret and keeps it, even one that takes over the secret's name from
\* a deleted resource.
EventuallyServed == \A n \in Names : <>[](Servable(n) => Served(n))

\* Seen as pairs and the authorities behind them, the operator implements
\* PairCustody: no pair without an authority, and no server's pair is ever put
\* over anything.
Custody == INSTANCE PairCustody WITH
              Authorities <- [ca : CAs, key : Nat \ {0}],
              ServerCA <- IntermCA,
              Holdings <- Secrets,
              established <- {[ca |-> c, key |-> signer[c]] : c \in {x \in CAs : signer[x] # 0}},
              held <- secret

ImplementsCustody == Custody!Spec

-----------------------------------------------------------------------------
(* What the repository says and the code does not do. *)

\* "secret exists" ends the reconciliation (uml/sip-internal-cert.puml:34-36)
\* and a pair is renewed by deleting and re-creating the resource
\* (README.md:263): while the owner lives, a client's pair is not exchanged.
ClientPairKept ==
    [][\A s \in SecretNames :
          secret[s] # None /\ ~Orphan(s) => secret'[s] \in {secret[s], None}]_vars
=============================================================================
