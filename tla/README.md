# Service-Identity-Provider: models, checks and proofs

Service-Identity-Provider (SIP) gives Kubernetes workloads the key pairs and CA
certificates they need for mutual TLS. Vault holds the CAs; Kubernetes Jobs set Vault
up once; two operators turn custom resources into secrets. Hardly any code computes
anything: what can go wrong lies *between* the calls, when one of a chain of remote
calls fails or its answer is lost, when a process dies between two of them, when a cache
lags, or when a retry meets what its predecessor left half done. The modules here model
exactly those calls, in the order the code makes them, and abstract certificates to what
tells two of them apart.

Paths below are relative to `src/`.

## 1. Inventory

| Part | State it keeps | Operations | Meets |
|---|---|---|---|
| **InternalClientCA operator**, `operator/internal-client-ca` | nothing of its own: resources and secrets in the API server, the informer cache, the work queue; a mount `sip-client-ca/<CN>-ca` with its root, URLs and role in Vault | `Reconcile`: load, list mounts, then either the six set-up calls and Create, or read the CA and Update/Create | users, garbage collector, Vault, writers of the same secret |
| **InternalCertificate operator**, `operator/internal-cert` | as above; reads secrets from the informer cache as well | `Reconcile`: load, look the secret up, issue (client CA or intermediate CA), Create, in the client branch Update; validating and defaulting webhook | as above; needs the CAs of the two parts around it |
| **vault-init** Job, `vault/client-go/init` | Vault's seal; the secrets `vault-unseal-key` and `vault-root-token` | health, Initialize, three unseal goroutines, store key, store token; or read key and unseal | Vault pods that restart, join late; the Job controller's retries; users who re-run it |
| **vault-pki-server-authn** Job, `vault/client-go/pki` | mounts `sip-root-ca`, `sip-interm-ca`; the secret `sip-root-ca` | fourteen Vault calls and a goroutine that stores the root certificate | the Job controller's retries |
| **vault-bootstrap** Job, `vault/client-go/bootstrap` | the CSR `vault.svc`, the secret `vault-ha-tls` | create or re-create the CSR, approve, wait 1 s, store, delete | the cluster's signer, other runs of the Job |
| **mTLS demo**, `mtls-demo` | PEM files | generate CAs and chains; serve; call | the secrets the operators publish |

Interaction is by shared state only. vault-bootstrap makes the TLS secret Vault starts
with; vault-init stores the root token the PKI Job and both operators read; the PKI Job
makes the intermediate CA the InternalCertificate operator issues server certificates
from, and the root certificate consumers trust; the InternalClientCA operator makes the
client CAs that the InternalCertificate operator issues client certificates from, and the
secret by which providers trust them.

What is hard, and what each part must get right:

* **Client CA.** Nine remote calls in a row, retried from the beginning; the whole
  set-up hinges on one look at the list of mounts. Below it, Vault's client sends a request
  again by itself when it has no answer, and `PkiGenerateRoot` adds a root each time it is
  sent: Vault signs under the first, the answer has the last. The operator must not add roots
  by retrying as well, must not leave the wrong one published, must not swallow a failure, and
  must converge.
* **Certificates.** A look-up in a lagging cache decides whether a key pair is issued.
  A pair in use must not be exchanged under its owner, and a resource must get its own
  secret in the end.
* **vault-init.** The only copy of the unseal key is in the memory of a process that any
  of its four goroutines may end. A run must end; a successful one must have done its work.
* **vault-bootstrap.** One request, known by a fixed name, that every run deletes, creates,
  approves and reads. Errors are logged and passed over, and a lost node's pod may go on
  beside its successor: the certificate must still be the one of the key beside it.
* **PKI Job.** A goroutine nobody waits for, and a variable `err` both sides assign and
  test without synchronization. One call over all runs must make the root, and what that call
  stores is there for good.
* **Together.** Each operator reads the root token once per process. When Vault is initialized
  anew, the token, the mounts and the CAs are gone while the secrets in Kubernetes stay: the
  provider's CA certificate and the consumer's pair must come to match again.

`PROJECT.json` lists the hazards line by line, with the properties that would catch each.

## 2. Modules

| Module | Is | Instantiated by | Proofs |
|---|---|---|---|
| `CAPublication` | the abstract promise of the client CA operator and of the PKI Job: a CA is established once per common name; a secret shows one of its roots or none, and the one that verifies what the CA signs is not replaced by another | `ClientCA`, `PkiJob` (as `Promise`) | |
| `ClientCA` | the InternalClientCA operator with users, Kubernetes and Vault around it | `MCClientCA` | `ClientCAProofs` |
| `PairCustody` | the abstract promise of the InternalCertificate operator: a pair comes from an authority that exists, stays until its secret is removed, and only a client's pair is put over another | `IntCert`, `Identity` (as `Custody`) | |
| `IntCert` | the InternalCertificate operator and its webhook | `MCIntCert`, `Identity` | `IntCertProofs` (itself instantiated by `IdentityProofs`) |
| `VaultInit` | the vault-init Job and the Vault cluster | `MCVaultInit` | `VaultInitProofs` |
| `VaultBootstrap` | the vault-bootstrap Job, the cluster's signer and the Job's controller | `MCVaultBootstrap` | `VaultBootstrapProofs` |
| `PkiJob` | the vault-pki-server-authn Job | `MCPkiJob` | `PkiJobProofs` |
| `Identity` | the composition: `IntCert` as it is, the CA side for one provider, Vault and its root token | `MCIdentity` | `IdentityProofs` |

Operators whose comment begins with *Bug:* are no part of a specification: each is what a
neighbouring definition would look like with a plausible mistake in it. They are there to
show that the properties notice: with the mistake put in, TLC reports the property named
in `PROJECT.json`.

### ClientCA

State: `cr`, `secret` (API server), `mount`, `roots` (Vault: the set-up steps done on the
mount of each CN, and how many roots it holds), `crCache` and `notices` (what the informers
have yet to tell), `queue`, and `pc`, `job` (the call `Reconcile` is about to make and its
locals). Each remote call of `Reconcile` and `enablePKIClientCA` is an action: `ListMounts`,
`Enable`, `Tune`, `GenerateRoot`, `ConfigureUrls`, `WriteRole`, `ReadRootToken`,
`DisableFlag`, `Create`; or `ReadCaChain`, `Update`, `Recreate`. A call succeeds, is refused,
or *fails*, and then whether it took effect is open (a lost answer). `GenerateRoot` is the call
for which it matters that both programs that make it build their client with an address and TLS
only (`internal-client-ca/cmd/main.go:93-96`, `pki/main.go:66-69`): the client's default is to send
a request, POST included, up to three times (`Tries`) while the connection fails or Vault answers
with a 5xx. No issuer is named, so every request that arrives adds a root. A disturbed call may
therefore add none to three roots and fail, or add two or three and *succeed*, with the certificate of
the last; the mount signs with the first (`DefaultCA`). For the other calls a second request is
refused (a mount in use, a Vault that is initialized) or repeats what the first one did, which is a failed call
with effect or no fault at all. `ReturnErr` requeues
the key, as controller-runtime does; `Restart` ends the process and lists everything anew.
Users create, edit and delete resources and secrets, and another program may overwrite a
secret. The garbage collector removes a secret whose owner (by uid) is gone.

Kept on purpose: the unreadable token that makes `enablePKIClientCA` return `"", nil`
(:231), `disableFlag`'s swallowed failure, the Update without a resourceVersion, the empty
`certName` that the API server refuses as a data key. Abstracted: a delivery brings the
cache to the newest state at once (several events for one object are coalesced; a lag of
any length remains possible because delivery may come late); a certificate is its CN and
the number of the root; namespaces, TTLs and rate limits are left out. Resources are set up
by one worker, the controller's default, and the deployment has one replica with
`--leader-elect`, so that a process that is being replaced and its successor do not
reconcile at once.

### IntCert

As above, with `secretCache` beside `crCache`, since this operator looks its secret up in
the cache as well. `Choices` gives each resource the specs users may try, `Admitted` is the webhook.
`SetUpCA` is the rest of the system making a CA able to issue, at any time or never; `signer`
is the key each CA signs with, or 0. A pair is the CA that issued it, the key this CA had, and
a bit that tells it from the one it replaces.
`CacheReadsFail` lets a read of the cache fail with an error other than NotFound. For the resource
the error is returned; for the secret the two branches treat it differently: the client branch
issues, the server branch returns nil.

### VaultInit

The Vault cluster (`joined`, `unsealed`; it is `initialized` once the first pod has joined,
which is what initializing it does), the two secrets (`current`, of an
earlier cluster, or missing), main (`pc`, `path`, `key`) and one `worker` per pod. `Exit`
ends all goroutines, from whichever `log.Fatal` is called. `Wake` may come before or after
`Join`: 8 s against `retry_join` every 5 s is a hope, not a guarantee. The code has three
workers and three pods; `Pods` is any set.

### PkiJob

`done` is the set of Vault calls that took effect, `listed` the mounts the run found
(`listResp`). `persist` is the goroutine. The race on
`err` is a choice: after each assignment the code may test the value it has just stored
(the build forwards it) or load `err` again in a step of its own, by which time the other
side may have written it. `GenerateRoot` may be sent again by Vault's client, as in `ClientCA`: the
certificate handed to the goroutine is that of the last root, and `SigningRoot` is the first.
`MountsEnableSecretsEngine`'s result is dropped, as in the code,
so that `Tune` is where a missing mount is noticed.

### VaultBootstrap

`csr` is the one request `vault.svc`, `secret` the secret `vault-ha-tls`; a key is told by the
number of its run, and a certificate by the key it certifies. `main` of each pod goes through
`CreateCSR`, `DeleteStale`, `RecreateCSR` (whose failure is only logged), `GetCSR`, `Approve`
(refused when the request has changed since it was read, or has an Approved condition already),
`AwaitCertificate`, `StoreSecret`, `ReadSecret`, `UpdateSecret` and `Cleanup`. `Sign` may come
at any time after the approval, before or after the one second is over, or never: `seen[p].cert`
is then `None`, and `Stored` stores it all the same. `LoseNode` makes the Job's controller give a
pod up that goes on; `overlaps` is a history variable, the runs that ever had another beside them.

### Identity

`IC == INSTANCE IntCert` is the whole certificate operator for one consumer, its `signer` mapped
to what the provider's mount signs with: the number `gen` of the initialization, once the role is
there. `StartCA`, `StartIC` are `init()` of the two programs: the root token is read once, and
without the secret the process ends and is started again. `InitializeAnew` is a Vault that lost
its storage and was initialized again: no mounts, other tokens. `StoreToken` is vault-init's
secret, at any later time. A call with an outdated token is refused (`Allowed`). `StopCA` and
`StopIC` are a crash, or an administrator who ends a process with an outdated token.

The CA side is that of `ClientCA` for one resource that is never deleted. It is written out and
not instantiated, because `ClientCA` has no mount that vanishes; calls between which nothing here
can tell a difference are one (Enable and Tune, URLs and role), the PATCH that restricts the role
is left out, and an event on the provider's secret enqueues it at once. A certificate is the
number of the Vault it is of, or `Spare`: a root that was added by a request sent again and signs
nothing. A read of `vault-root-token` that ends in an error (no cluster configuration) is
told from one that ends without one (no secret), as the code does.

## 3. Runs

| Run | Bounds | Shows |
|---|---|---|
| `clientca_safety` | 2 resources, 2 CNs, 2 secrets, certName given, 3 user operations, 2 faults; symmetric in names, CNs, secrets (3.2 million states) | `RootsGeneratedOnce`, `WrongCAIsPending`, `QuietMeansPublished`, `SecretNeverBlanked`, `Inductive`, refinement of `CAPublication` |
| `clientca_live` | 2 resources, 1 CN, 2 secrets, certName given or not, 3 operations, 1 fault; no symmetry (1.4 million states) | `EventuallyPublished` |
| `intcert_safety` | 2 resources with secrets of their own, all usages, 3 operations, 1 fault | `QuietMeansServed` |
| `intcert_live` | 2 resources after one secret, 3 operations, 1 fault, failing cache reads | `EventuallyServed`, `ServerTakesNone`, refinement of `PairCustody` |
| `vault_init` | 3 pods, 4 runs, 2 restarts, 2 faults | `SuccessIsComplete`, `RunEnds`, `ClusterRecovered` |
| `vault_bootstrap` | 2 pods at a time, 4 runs, 2 faults (576 000 states) | `PairMatches`, `SuccessIsComplete`, `JobSucceeds` |
| `identity` | 1 provider, 1 consumer, 2 initializations of Vault, 3 operations, 1 fault (478 000 states) | `QuietMeansTrusted`, `QuietMeansVerified`, `EventuallyVerified`, refinement of `PairCustody` |
| `pki_job` | 5 runs (backoffLimit 4), 2 faults | `OneGeneratingCall`, `Anchored`, `FreshRunComplete`, `FailsOnlyOnLeftover`, `JobSucceeds`, refinement of `CAPublication` |
| `clientca_stranded`, `intcert_reissued`, `vault_init_key_lost`, `pki_job_unsigned` | the smallest instance that shows it | a property the repository states and the code does not have; see section 6 |

Why the bounds are enough for the cases that matter: two resources and two secrets give
every pairing (apart, contending, one taking over from the other); three operations let one
resource be created, deleted and created again, or two be created and one edited or deleted
while it is being reconciled; two faults let a retry fail as well. A fault is a call, at any
place, during which the connection fails: with or without effect, answered in the end or given
up; or a restart. An empty certName only makes every write of a resource be refused, so that one
value is enough for safety and both are tried where what it excludes is at stake, in
`clientca_live`. `Tries` is the client's default and not a bound of the model. `MaxOps` and `MaxFaults` are the
only bounds on the environment; queue and notices are sets and need none. In VaultInit and
PkiJob, `MaxRuns` bounds the pods the Job starts: with the backoff limit of 4 there are five
at most before the Job gives up, and for vault-init four cover an initial run, its retry, a
re-run and its retry. In VaultBootstrap two faults lose a node and fail a call, or fail two
calls, and four runs leave room for a retry, a re-run and its retry after them. In Identity one
new initialization is enough for every secret, token and process to be of the Vault before; three
operations let the consumer be deleted and created again and a secret be deleted besides.

No run checks for deadlock: the operators may come to rest and the Jobs end. That nobody
hangs is a liveness property of each (`EventuallyPublished`, `EventuallyServed`, `RunEnds`,
`JobSucceeds`).

### Fairness

* The worker's next call is weakly fair: a call is *assumed* to return. Vault's client has a
  timeout; the client of the Kubernetes API and the `http.Client` of `disableFlag` have none, and
  rely on the connection breaking. The same goes for the Jobs' calls.
* `Load(n)` is strongly fair: the work queue is first in, first out and a failing key is held
  back, so a waiting key's turn comes although others keep failing.
* Deliveries and the garbage collector are weakly fair: watches are re-established.
* The resync of the informers is weakly fair in `IntCert` only, where `EventuallyServed` needs
  it: controller-runtime resyncs every 10 h unless a SyncPeriod is set, and `main.go` sets none.
  A resource that took a deleted one's secret name over, or whose cache read failed, does wait
  that long. `ClientCA` needs no resync.
* In the Jobs, main and the workers of VaultInit are weakly fair (Go runs every goroutine), a
  retry is started while the backoff limit lasts, and a Vault pod joins. The PKI Job's goroutine
  is given *no* fairness, because nobody waits for it.
* `main` of each bootstrap pod is weakly fair, and so is the Job's controller starting the next
  pod. The signer gets *no* fairness: main does not wait for it, and `JobSucceeds` does not need it.
* In Identity the kubelet starts a container that has ended (`StartCA`, `StartIC`); the rest is as
  in ClientCA and IntCert. vault-init and administrators owe nothing: `EventuallyVerified` says
  what follows once both processes hold the token of the Vault that signs.
* Users, faults and restarts owe nothing, and run out: liveness says what happens after the last.

## 4. Properties

What providers trust should be what consumers' certificates are signed with, over all retries,
lost answers and restarts. A request that Vault's client sends again makes that false for a
while: a mount may have more roots than one, and a secret may show one that signs nothing. Three
properties say how far it can go. `RootsGeneratedOnce`: no second call ever adds to the roots a first one
made, although Reconcile retries from the beginning (the CA a mount signs with stays). `WrongCAIsPending`:
a secret that shows another certificate than its mount signs with is never left alone. The code
owes this to `Owns(Secret)`, whose event brings `Reconcile` back to read the CA and update.
`ImplementsPublication`: no secret shows anything but roots of a CA of this Vault, and
where the right one has been shown no wrong one follows. `PkiJob` has the first and the last of
these (`OneGeneratingCall`, `ImplementsPublication`) for the server side; there a leftover of an earlier
cluster counts as no certificate, so the property says that it may be replaced by this cluster's
root and never the other way round. It has not the second: no run writes the secret again
(section 6). `QuietMeansPublished` and `QuietMeansServed` say that no
failure is swallowed: if nothing is left to do or deliver, every resource is served.
`EventuallyPublished` and `EventuallyServed` say that rest is reached, for the resources that
*can* be served; what the antecedents exclude is what the code really cannot do (two
resources naming one secret fight for ever; no data key; a stranded mount; a CA that is not
there). `SecretNeverBlanked` is about the `return "", nil`: it is harmless only because it is
followed by Create and never by Update. `ServerTakesNone` is its counterpart in `IntCert`.
`SuccessIsComplete` and `FreshRunComplete` say what exit code 0 means, and are careful about
which runs they say it of. `FailsOnlyOnLeftover` says that the race on `err` is harmless
unless an earlier cluster's secret is there. `PairMatches` ties the two halves of a TLS secret
together over requests other runs left behind; it leaves out, by name, runs that had another pod
beside them, and there it does fail. `ImplementsCustody` is the life of a pair: no pair without an
authority that signed it, and no server's pair ever put over another. In `Identity` the same
promise is kept over all Vaults: the authorities that have come to be (`established`) are that of
the present Vault once its mount has a role and those of the Vaults before; a pair may be stored
after the Vault that signed it is gone. (No variable remembers which of the Vaults before had got as
far as a role. A pair is checked against the mount when it is issued, under the Vault it is of.) `QuietMeansTrusted` hangs
on a detail of the code that reads like a slip: the error AlreadyExists passes for handled and is
returned all the same (`internalclientca_controller.go:117-122`), and that alone brings
`Reconcile` back to replace an old Vault's certificate. `QuietMeansVerified` joins the two
operators: both at rest, a consumer created since has a pair that the provider's certificate
verifies, whatever an earlier Vault or an earlier resource of its name left in the secret, and
even if the certificate operator's own token is outdated by now. `EventuallyVerified` is what the system is
for: the consumer's pair verifies against what its provider trusts.

## 5. What is proved

`ClientCAProofs` proves, for all values of the constants (any sets of names, CNs and secrets,
any bounds), from the assumptions `NoneAssumption` (None and Blank are none of the objects)
and `BoundsAssumption`:

| Theorem | States |
|---|---|
| `TypeCorrect` | `Spec => []TypeOK` |
| `InductiveInvariant` | `Spec => []Inductive` |
| `GeneratedOnce` | `Spec => RootsGeneratedOnce` |
| `WrongCAPending` | `Spec => []WrongCAIsPending` |
| `NeverBlanked` | `Spec => SecretNeverBlanked` |
| `Refinement` | `Spec => ImplementsPublication` |
| `AtRestPublished` | `Spec => []QuietMeansPublished` |

`RootsGeneratedOnce` needs to know that `GenerateRoot` is reached only on a mount without a root.
The code's argument is the one look at the list of mounts: the single worker found the path free,
and nobody else enables it, so it is still free when it is enabled (`PathFree`), has no root while
it is tuned and until the root is generated (`RootMissing`), and a mount has a root only once it
is enabled (`RootNeedsMount`), so that a retry of Reconcile never comes back there. What the
client's own retry adds in one call is the lemma `Generated`. A certificate in the worker's locals
or in a secret is one of the roots of its mount (`JobCertMade`, `SecretsMade`), and an update carries the
first of them, the one the mount signs with (`UpdateSigning`): this is what `NeverBlanked` needs,
and what keeps a right certificate from being replaced by a wrong one in `Refinement`, since
the other writer, Create, finds no secret. Each action's case of `InductiveStep` names only
the parts it can disturb; the rest goes through `OthersPreserve`. `Refinement` maps `made` to the
roots of a mount, `ca` to the one it signs with and `bundle` to the certificate a secret shows;
`Effects` sorts every step into establishing a CA, publishing, withdrawing, or stuttering.

`QuietMeansPublished` says nothing while the operator is busy, so its strengthening
`Unforgotten` accounts for every resource at all times: the version in the cache is shown by its
secret, or its name is in the queue or in a notice, or the job under way is for it
(`NothingForgotten`). That a finished job may be struck off takes two more facts: the job works
for the cached version unless the name was queued again meanwhile (`JobFresh`), and
the certificate of an update is of its own CN (`JobOfItsCN`) and hence, by `UpdateSigning`, the mount's.
`WriteTells` says that no secret is changed without its owner hearing of it. A write of
an empty certificate, or of a root that signs nothing, is a Create, which makes an event of its own.
`WrongCAPending` is `NothingForgotten` seen from the secret.

The proof rests on one worker and one process. With `MaxConcurrentReconciles` above one, or
with two replicas and without `--leader-elect`, `PathFree` is no longer true.

`PkiJobProofs` proves, for any `MaxRuns` and `MaxFaults`, `TypeCorrect`, `AnchoredInvariant`
(`Spec => []Anchored`) and `TrustAnchor` (`Spec => []OneGeneratingCall`). The argument is the same
one in another process: only a run that did not find `sip-root-ca` walks towards
`PkiGenerateRoot`, and no root exists while it does (`RootMissing`), because a root implies an
enabled mount (`RootNeedsMount`), also when `MountsEnableSecretsEngine` failed and its error was
dropped, since `Tune` would then be refused (`MountTuned`). That one call may generate several (the lemma
`Generated`), more than one only when it was disturbed. Whatever the race on `err` makes the
goroutine do, the certificate it carries is the last of them (`CarriesRoot`), and so is what the
secret holds. The lemma `RootsKept`
covers all steps that generate nothing. `Refinement` (`Spec => ImplementsPublication`) follows from
`Anchored` alone: by `RootEffects` a step makes the roots when there are none, writes the last one
into the secret, or does neither. That the Job's controller never runs two of its pods at
once is part of the model, not of the proof.

`FreshComplete` (`Spec => []FreshRunComplete`) and `FailsOnLeftover`
(`Spec => []FailsOnlyOnLeftover`) need to know how far a run has come. `Place` numbers the calls
in the order of the code, and `Progress` says that in a run that found neither mount every call
before the next one took effect, unless its failure is one nobody notices (`Unnoticed`) or is
noticed only by the call after it (`NotYetNoticed`: an Enable, by its Tune). `Advance` and
`CallPassed` move a run one place on. Without a fault the goroutine's error can only be that of
the leftover secret (`ErrIsLeftover`) and Vault has nothing to refuse (`NothingRefused`).

`VaultInitProofs` proves `TypeCorrect` and `Complete` (`Spec => []SuccessIsComplete`) for any set
of pods. `KeyInHand` and `StoredSoFar` follow main: the key in hand is this cluster's until it is
stored, and what is stored stays, because nobody but a run that initializes writes the secrets.
`DoneIsUnsealed` follows the workers: one that is done leaves an unsealed pod, as long as no pod
has restarted, so that main, which waits for all, finds them all unsealed (`AllUnsealed`).

`VaultBootstrapProofs` proves `TypeCorrect`, `PairIsOne` (`Spec => []PairMatches`) and `Complete`
(`Spec => []SuccessIsComplete`) for any number of pods, runs and faults. The strengthening
`Custody` is the chain from key to secret. A run that never overlaps another is alone while it
runs and until the next one starts (`Alone`), so the name is free when it creates the request
again (`PlaceFree`), the request it then finds, if any, is its own (`RequestOwn`), and so are
what it reads (`ReadOwn`) and stores (`SecretOwn`). A certificate is always of the key in its
request (`CertsSound`).

`IntCertProofs` proves, for any names, specs and CAs and with or without the webhook,
`TypeCorrect`, `ServersTakeNothing` (`Spec => ServerTakesNone`) and `Refinement`
(`Spec => ImplementsCustody`). Two facts are added to the types: the pair in the job's hands is of
the CA it asked and under the key that CA still has (`PairIssued`; a CA keeps its key within one
Vault), and only a client's job reaches Update (`UpdatesClients`). `Effects` sorts the steps:
nothing in Vault or the secrets, a CA set up, a secret removed, or the job's pair stored.
What a step may be is stated once, as `Step`: a call of the operator, a refusal by Vault, a user,
Kubernetes, a new process, or something elsewhere. `Step` says nothing of how the CAs develop, so
its lemmas also hold where a CA's key changes, and `IdentityProofs` uses them there.

`AtRestAllServed` (`Spec => []QuietMeansServed`) is about instances with three hypotheses, each of
which the property needs:

* `Unshared`: no two resources may name one secret. Otherwise one finds the other's and is content,
  until a resync after that one is gone.
* `Usable`: every spec that is admitted has a usage; `Load` leaves a resource without one alone. The
  webhook sees to it (`WebhookSuffices`: `WebhookOn => Usable`).
* `~CacheReadsFail`: the server branch returns nil when its look-up fails.

Without `Unshared` or `~CacheReadsFail` only `EventuallyServed` is left, with the resync. Its
strengthening `Unforgotten` has the shape of ClientCA's: every cached resource is shown by its secret or
somebody will look at it again (`Accounted`), and a job that ends has worked for the cached version
unless its name was queued again (`JobFresh`). What is new is the second cache. Reconcile decides by
`secretCache`, so a stale cache must never be the last word: it is behind only while a notice is
pending (`CacheLags`), notices and secrets go to the one resource that may name the secret
(`SecretsOwn`), and a secret of the right name with the wrong uid is an orphan that the garbage
collector has yet to remove, which makes a notice (`OwnerTold`). That a uid cannot belong to two
resources is `UidsApart`; that jobs and caches hold nothing but admitted specs of their own resource
is `SpecsOwn`.

`IdentityProofs` proves, for any number of initializations, user operations and faults,
`TypeCorrect`, `AtRestTrusted` (`Spec => []QuietMeansTrusted`), `AtRestVerified`
(`Spec => []QuietMeansVerified`) and `Refinement` (`Spec => ImplementsCustody`), from `Inductive`.
Nothing about the certificate operator is proved again: `ICP == INSTANCE IntCertProofs` has its
lemmas under the composition's substitution, the first lemmas discharge IntCert's assumptions and
`RestHypotheses` its `Unshared` and `Usable`, and `ICSteps` shows that every step of the
composition starts the operator's process (`Relist`), ends it (`Ended`), or is a `Step`. While the
process is down there is no queue and no job, and `NothingForgotten` may fail; it comes back with the
listing of a new process, which is why `ICAccounts` asks for it only while a token is held.

The CA side needs one fact, `CertInHand`: the certificate `Reconcile` carries is of the Vault its
token is of, or blank, and never blank at an update. `QuietMeansTrusted` is then inductive, because a
write that changes the secret enqueues the resource again. `PairsOfAge` ties pairs to Vaults: a pair
in the secret or in the job's hands is of no later Vault than the present one, and one that bears the
consumer's uid is of none before the Vault the consumer was created under; it rests on uids being used once
(`KnownUidsAreOld`). At rest the two meet: the consumer's secret is its own (`ICP!AtRestServed`), its
pair is of the present Vault, and so is the provider's certificate. `PairIsOfAuthority` is what
`Refinement` adds: only a mount with a role issues (`CanIssue`), what has been set up stays until
Vault is initialized anew, and authorities are never taken out of `established`.

Each proof rests on the assumptions named in its module (`BoundsAssumption`, `NoneAssumption`,
`ChoicesAssumption` and the like: bounds are natural numbers, None is none of the objects, specs
are specs), which TLC evaluates in the runs.

Only model-checked: everything under fairness (`EventuallyPublished`, `EventuallyServed`,
`EventuallyVerified`, `RunEnds`, `ClusterRecovered`, `JobSucceeds`), and the four runs that expect
a violation. Every invariant and every action property of the passing runs, and every refinement,
is also a theorem; `QuietMeansServed` is one under the hypotheses above, which its run satisfies.

## 6. Where code and documentation part

Each has a run whose counterexample shows it:

* **A mount without a CA strands its resource** (`DesiredStateReached`). Enable succeeds, Tune
  or GenerateRoot fails; each retry finds the mount, reads a CA that is not there, and fails.
* **A client's pair is replaced under it** (`ClientPairKept`). Create succeeds but its answer is
  lost, or the cache lags: the retry does not see the secret, issues again and updates.
* **The unseal key can be lost without any failed call** (`KeyNotLost`): a follower's Unseal is
  refused because it has not joined, and its `log.Fatal` beats main to the secret.
* **The PKI Job succeeds over a half-configured mount** (`SuccessMeansSigned`).

Others met while modelling, which the properties' antecedents exclude by name and which have
no run of their own:

* `sip-root-ca` may hold a root that signs nothing, for good (`README.md:32`: it "is shared by all"
  consumers). The answer to `PkiGenerateRoot` is lost, Vault's client sends the request again, and
  the certificate of the second root goes to the secret, while the intermediate CA is signed with
  the first. No error is seen, and no later run writes the secret (`pki/main.go:66-69,127-140`).
  `OneGeneratingCall` says as much: what the secret holds is the *last* root.
* For the same reason a provider's secret may show a second root, which verifies no consumer. It does
  not last: the event of the secret brings `Reconcile` back, which reads the CA and updates
  (`WrongCAIsPending`, `QuietMeansPublished`). `CAPublication` allows it for that reason.
* After a failed `PkiWriteRole` the retry publishes the CA but never writes the role, so
  no client certificate can be issued (`internalclientca_controller.go:104,205`).
* No webhook sets the default certName and keyName that `README.md:237-238,252` and the CRD
  types promise; a resource without them is refused by the API server for ever (`Blank`,
  `named`). README.md and `internalclientca_types.go:45` also name different defaults.
* The webhook does not check that a client certificate names an issuer (`README.md:235`
  against `internalcertificate_webhook.go:103`), and a changed issuer does not change the pair.
* vault-init reports success on a cluster whose first pod is unsealed, although another pod may
  be sealed (`README.md:154`) or the root token was never stored.
* vault-bootstrap stores whatever `status.certificate` holds one second after the approval
  (`main.go:165` says "wait for cert gen"). A slow signer leaves an empty certificate in
  `vault-ha-tls`, the Job succeeds, and a re-run can replace a good pair by such a one.
  `PairMatches` and `SuccessIsComplete` allow for `None` by name.
* Two bootstrap pods at a time, after a lost node, can store the key of one with the certificate
  of the other, or refuse each other's calls until the backoff limit is reached; `overlaps` names
  them in the properties.
* A consumer's pair of an earlier Vault stays for ever (`README.md:263`), since the secret exists;
  and a process with an outdated root token fails every call until somebody ends it.
  `EventuallyVerified` is about consumers created under the present Vault and processes that
  have its token.
* The PKI Job may exit before its goroutine has stored the root certificate, and with an earlier
  cluster's secret in place an `AlreadyExists` seen by main through `err` fails the run without
  a failed call; the retry then leaves the earlier root in the secret.

## 7. Not modelled

* The contents of certificates (key types, SANs, chains, TTLs), expiry and hence renewal, which
  the code does not do; TLS itself.
* Namespaces: each model is one namespace.
* The type of a secret. An Update onto another program's secret of an immutable, different type would be
  refused by the API server each time (`internalclientca_controller.go:139`); the models accept it.
* In `Identity`: the server side (the PKI Job and server certificates) and more than one provider
  or consumer. `PkiJob`, `ClientCA` and `IntCert` have these on their own; together they are
  beyond what TLC explores.
* `mtls-demo`: its generator writes PEM files in a straight line and stops at the first error, its
  two servers load certificates once and call the standard library. There is no state to model.
* `vault/client-go/pki/pki_internal.go`, all of it commented out; generated code, scaffolding,
  flag parsing, Helm charts and manifests (read for the Jobs' order, backoff limits and replicas).

Liveness and the fairness assumptions stay with TLC: the prover handles neither ENABLED nor
fairness.
