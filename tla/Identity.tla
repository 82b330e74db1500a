------------------------------ MODULE Identity ------------------------------
(***************************************************************************)
(* A provider and a consumer that are to trust each other: the             *)
(* InternalClientCA operator publishes the CA of one mount in the          *)
(* provider's secret, the InternalCertificate operator (IntCert, composed  *)
(* here) has the same mount issue the consumer's pair.  Vault may lose its *)
(* storage and be initialized anew; the mount, the CA and the root token   *)
(* are then gone, and each operator holds the token it read when its       *)
(* process started.                                                        *)
(***************************************************************************)
EXTENDS Naturals

CONSTANTS Consumer,      \* the InternalCertificate resource
          ConsumerSecret,
          ProviderCA,    \* the CA of the InternalClientCA resource
          Spare,         \* certificate of a root that no mount signs with
          Blank, None,
          MaxGens,       \* bound on how often Vault is initialized
          MaxOps, MaxFaults

ASSUME BoundsAssumption == MaxGens \in Nat \ {0} /\ MaxOps \in Nat /\ MaxFaults \in Nat

VARIABLES gen,          \* which initialization of Vault is current
          mount,        \* Vault: the set-up done on the provider's mount
          tokenSecret,  \* secret vault-root-token: of which initialization, 0 if none
          caToken,      \* the token the CA operator's process holds, 0 if it is down
          icToken,      \* the same of the certificate operator
          bundle,       \* the CA certificate in the provider's secret
          caQueued,     \* the provider's resource is in the CA operator's queue
          caPc, caCert, \* its next call, and the certificate it has in hand
          born,         \* history: the initialization the consumer was created in
          cr, secret, crCache, secretCache, notices, queue, pc, job, ops, faults

vaultVars == <<gen, mount, tokenSecret>>
caVars == <<bundle, caQueued, caPc, caCert>>
icVars == <<born, cr, secret, crCache, secretCache, notices, queue, pc, job>>
vars == <<vaultVars, caToken, icToken, caVars, icVars, ops, faults>>

Gens == 1 .. MaxGens
SetupSteps == {"enable", "root", "role"}

\* What the consumer's mount signs with: each initialization generates a key.
signer == [c \in {ProviderCA, "interm-ca"} |->
              IF c = ProviderCA /\ "role" \in mount THEN gen ELSE 0]

ConsumerSpec == [client |-> TRUE, server |-> FALSE, issuer |-> ProviderCA,
                 secret |-> ConsumerSecret, named |-> TRUE]

IC == INSTANCE IntCert WITH
         Names <- {Consumer}, Choices <- [n \in {Consumer} |-> {ConsumerSpec}],
         ClientCAs <- {ProviderCA}, SecretNames <- {ConsumerSecret},
         WebhookOn <- TRUE, CacheReadsFail <- FALSE,
         signer <- signer

\* "No object" is none of the objects, and no certificate is no generation's.
ASSUME NoneAssumption ==
    /\ None \notin IC!CRs \union IC!Secrets \union IC!Jobs \union IC!Pairs
    /\ "interm-ca" \notin {ProviderCA, Blank}
    /\ None # Blank /\ None \notin Nat /\ Blank \notin Nat
    /\ Spare \notin {None, Blank} /\ Spare \notin Nat

\* Vault has been initialized for the first time, its token is not stored yet,
\* and the operators are being deployed.
Init == /\ gen = 1 /\ mount = {} /\ tokenSecret = 0
        /\ caToken = 0 /\ icToken = 0
        /\ bundle = None /\ caQueued = FALSE /\ caPc = "idle" /\ caCert = Blank
        /\ born = 0 /\ IC!Init

-----------------------------------------------------------------------------
(* Vault and vault-init. *)

\* Vault loses its storage and vault-init initializes it: no mount is left and
\* the tokens given out before are worth nothing.
InitializeAnew ==
    /\ gen < MaxGens /\ gen' = gen + 1
    /\ mount' = {}
    /\ UNCHANGED <<tokenSecret, caToken, icToken, caVars, icVars, ops, faults>>

\* vault-init creates the secret, or updates it when it exists.
StoreToken ==
    /\ tokenSecret' = gen /\ tokenSecret # gen
    /\ UNCHANGED <<gen, mount, caToken, icToken, caVars, icVars, ops, faults>>

-----------------------------------------------------------------------------
(* The processes of the operators. *)

Fault == faults < MaxFaults /\ faults' = faults + 1
NoFault == UNCHANGED faults

\* init() reads the token once; without the secret it ends in log.Fatal and the
\* kubelet starts it again.  The informers enqueue all they list.
StartCA ==
    /\ caToken = 0 /\ tokenSecret # 0
    /\ caToken' = tokenSecret
    /\ caQueued' = TRUE
    /\ UNCHANGED <<vaultVars, icToken, bundle, caPc, caCert, icVars, ops, faults>>

StartIC ==
    /\ icToken = 0 /\ tokenSecret # 0
    /\ icToken' = tokenSecret
    /\ crCache' = cr /\ secretCache' = secret
    /\ notices' = [s \in {ConsumerSecret} |-> {}]
    /\ queue' = IC!Listed(cr, secret)
    /\ UNCHANGED <<vaultVars, caToken, caVars, born, cr, secret, pc, job, ops, faults>>

\* A process dies, or the administrator ends one that has an outdated token:
\* nothing else makes it read the token again.
StopCA ==
    /\ caToken # 0 /\ caToken' = 0
    /\ \/ Fault
       \/ NoFault /\ caToken # tokenSecret
    /\ caQueued' = FALSE /\ caPc' = "idle" /\ caCert' = Blank
    /\ UNCHANGED <<vaultVars, icToken, bundle, icVars, ops>>

StopIC ==
    /\ icToken # 0 /\ icToken' = 0
    /\ \/ Fault
       \/ NoFault /\ icToken # tokenSecret
    /\ queue' = {} /\ pc' = "idle" /\ job' = None
    /\ UNCHANGED <<vaultVars, caToken, caVars, born, cr, secret, crCache, secretCache, notices, ops>>

-----------------------------------------------------------------------------
(* The CA operator, as in ClientCA, for one resource that is never deleted. *)

Goto(step) == caPc' = step /\ UNCHANGED <<caQueued, caCert>>
ReturnNil == caPc' = "idle" /\ caCert' = Blank /\ UNCHANGED caQueued
ReturnErr == caPc' = "idle" /\ caCert' = Blank /\ caQueued' = TRUE

\* Vault answers the holder of the current token only.
Allowed == caToken = gen

Load ==
    /\ caToken # 0 /\ caPc = "idle" /\ caQueued
    /\ \/ NoFault /\ caPc' = "list" /\ caQueued' = FALSE
       \/ Fault /\ UNCHANGED <<caPc, caQueued>>
    /\ UNCHANGED <<mount, bundle, caCert>>

ListMounts ==
    /\ caPc = "list"
    /\ \/ NoFault /\ Allowed /\ "enable" \notin mount /\ Goto("enable")
       \/ NoFault /\ Allowed /\ "enable" \in mount /\ Goto("read")
       \/ NoFault /\ ~Allowed /\ ReturnErr
       \/ Fault /\ ReturnErr
    /\ UNCHANGED <<mount, bundle>>

\* A call that sets the mount up, with the one after or before it that changes
\* nothing here (the tuning, the URLs).
SetUp(step, next, cert) ==
    /\ caPc = step
    /\ \/ /\ NoFault /\ Allowed
          /\ mount' = mount \union {step}
          /\ caPc' = next /\ caCert' = cert /\ UNCHANGED caQueued
       \/ NoFault /\ ~Allowed /\ ReturnErr /\ UNCHANGED mount
       \/ /\ Fault /\ ReturnErr
          /\ \/ Allowed /\ mount' = mount \union {step}
             \/ UNCHANGED mount
    /\ UNCHANGED bundle

Enable == SetUp("enable", "root", Blank)

\* The request may be sent again below Reconcile: the mount then signs with the
\* first root while the answer carries the certificate of another.
GenerateRoot ==
    \/ SetUp("root", "role", gen)
    \/ /\ caPc = "root" /\ Fault /\ Allowed
       /\ mount' = mount \union {"root"}
       /\ caPc' = "role" /\ caCert' = Spare
       /\ UNCHANGED <<caQueued, bundle>>

WriteRole == SetUp("role", "token", caCert)

\* The secret is read anew for the PATCH that restricts the role; when that
\* fails, the certificate is lost and no error reported, unless there was no
\* client to read it with.
ReadRootToken ==
    /\ caPc = "token"
    /\ \/ NoFault /\ Goto("create")
       \/ Fault /\ caPc' = "create" /\ caCert' = Blank /\ UNCHANGED caQueued
       \/ Fault /\ ReturnErr
    /\ UNCHANGED <<mount, bundle>>

ReadCaChain ==
    /\ caPc = "read"
    /\ \/ /\ NoFault /\ Allowed /\ "root" \in mount
          /\ caPc' = "update" /\ caCert' = gen /\ UNCHANGED caQueued
       \/ NoFault /\ ~(Allowed /\ "root" \in mount) /\ ReturnErr
       \/ Fault /\ ReturnErr
    /\ UNCHANGED <<mount, bundle>>

\* A write that changes the secret is an event on what the operator owns.
Written == /\ bundle' = caCert
           /\ caPc' = "idle" /\ caCert' = Blank
           /\ caQueued' = (caQueued \/ bundle # caCert)
WrittenUnseen == bundle' = caCert /\ ReturnErr

\* Bug: a secret that exists already counts as created.
CreateUnlessExists ==
    /\ caPc \in {"create", "recreate"}
    /\ \/ NoFault /\ bundle = None /\ Written
       \/ NoFault /\ bundle # None /\ ReturnNil /\ UNCHANGED bundle
       \/ Fault /\ bundle = None /\ WrittenUnseen
       \/ Fault /\ ReturnErr /\ UNCHANGED bundle
    /\ UNCHANGED mount

\* The error of a secret that exists passes for handled and is returned all the
\* same: that is what brings Reconcile back to the update.
Create ==
    /\ caPc \in {"create", "recreate"}
    /\ \/ NoFault /\ bundle = None /\ Written
       \/ NoFault /\ bundle # None /\ ReturnErr /\ UNCHANGED bundle
       \/ Fault /\ bundle = None /\ WrittenUnseen
       \/ Fault /\ ReturnErr /\ UNCHANGED bundle
    /\ UNCHANGED mount

\* Bug: a secret that has a certificate is taken for up to date.
UpdateIfBlank ==
    /\ caPc = "update"
    /\ \/ NoFault /\ bundle = Blank /\ Written
       \/ NoFault /\ bundle \notin {None, Blank} /\ ReturnNil /\ UNCHANGED bundle
       \/ NoFault /\ bundle = None /\ Goto("recreate") /\ UNCHANGED bundle
       \/ Fault /\ ReturnErr /\ UNCHANGED bundle
    /\ UNCHANGED mount

Update ==
    /\ caPc = "update"
    /\ \/ NoFault /\ bundle # None /\ Written
       \/ NoFault /\ bundle = None /\ Goto("recreate") /\ UNCHANGED bundle
       \/ Fault /\ bundle # None /\ WrittenUnseen
       \/ Fault /\ ReturnErr /\ UNCHANGED bundle
    /\ UNCHANGED mount

CAWorker ==
    /\ \/ Load \/ ListMounts \/ Enable \/ GenerateRoot \/ WriteRole \/ ReadRootToken
       \/ ReadCaChain \/ Create \/ Update
    /\ UNCHANGED <<gen, tokenSecret, caToken, icToken, icVars, ops>>

-----------------------------------------------------------------------------
(* The certificate operator: IntCert, with calls to Vault only under the     *)
(* current token, and users.                                                 *)

OthersOfIC == UNCHANGED <<vaultVars, caToken, icToken, caVars>>

\* Issuing is the operator's one call to Vault.
ICWorker ==
    /\ icToken # 0 /\ OthersOfIC /\ UNCHANGED born
    /\ \/ pc # "issue" /\ IC!Worker
       \/ icToken = gen /\ IC!Issue
       \/ /\ icToken # gen /\ pc = "issue" /\ IC!ReturnErr
          /\ UNCHANGED <<cr, secret, crCache, secretCache, notices, ops, faults>>
       \/ IC!Load(Consumer)

DeliverCR == icToken # 0 /\ OthersOfIC /\ UNCHANGED born /\ IC!DeliverCR(Consumer)

DeliverSecret ==
    icToken # 0 /\ OthersOfIC /\ UNCHANGED born /\ IC!DeliverSecret(ConsumerSecret)

ICResync == icToken # 0 /\ OthersOfIC /\ UNCHANGED born /\ IC!Resync

GarbageCollect == OthersOfIC /\ UNCHANGED born /\ IC!GarbageCollect(ConsumerSecret)

CreateConsumer ==
    /\ OthersOfIC /\ born' = gen
    /\ IC!CreateCR(Consumer, ConsumerSpec)

DeleteConsumer == OthersOfIC /\ born' = 0 /\ IC!DeleteCR(Consumer)

DeleteConsumerSecret == OthersOfIC /\ UNCHANGED born /\ IC!DeleteSecret(ConsumerSecret)

DeleteBundle ==
    /\ bundle # None /\ ops < MaxOps /\ ops' = ops + 1
    /\ bundle' = None
    /\ caQueued' = (caToken # 0)
    /\ UNCHANGED <<vaultVars, caToken, icToken, caPc, caCert, icVars, faults>>

User == CreateConsumer \/ DeleteConsumer \/ DeleteConsumerSecret \/ DeleteBundle

Next == \/ InitializeAnew \/ StoreToken
        \/ StartCA \/ StartIC \/ StopCA \/ StopIC
        \/ CAWorker \/ ICWorker \/ DeliverCR \/ DeliverSecret \/ ICResync \/ GarbageCollect
        \/ User

Spec == Init /\ [][Next]_vars

-----------------------------------------------------------------------------
(* Fairness: as in ClientCA and IntCert, and the kubelet starts a container   *)
(* that has ended.  Vault, vault-init, administrators and users owe nothing.  *)

Fairness == /\ WF_vars(StartCA) /\ WF_vars(StartIC)
            /\ WF_vars(CAWorker) /\ WF_vars(ICWorker)
            /\ WF_vars(DeliverCR) /\ WF_vars(DeliverSecret) /\ WF_vars(ICResync)
            /\ WF_vars(GarbageCollect)

FairSpec == Spec /\ Fairness

-----------------------------------------------------------------------------
(* Properties. *)

\* Every variable keeps to its range.
TypeOK ==
    /\ gen \in Gens /\ mount \subseteq SetupSteps
    /\ tokenSecret \in 0 .. gen /\ caToken \in 0 .. gen /\ icToken \in 0 .. gen
    /\ bundle \in Gens \union {Spare, Blank, None}
    /\ caQueued \in BOOLEAN /\ caCert \in Gens \union {Spare, Blank}
    /\ caPc \in SetupSteps \union {"idle", "list", "token", "create", "recreate", "read", "update"}
    /\ caToken = 0 => caPc = "idle" /\ ~caQueued
    /\ born \in 0 .. gen
    /\ IC!TypeOK

\* When the CA operator is at rest and its token is valid, the provider's
\* secret has the CA that Vault signs with now, also when an earlier Vault's
\* certificate was in the way of Create.
QuietMeansTrusted ==
    caPc = "idle" /\ ~caQueued /\ caToken = gen => bundle = gen

Verified == /\ secret[ConsumerSecret] # None
            /\ secret[ConsumerSecret].uid = cr[Consumer].uid
            /\ secret[ConsumerSecret].pair.key = bundle

\* When both operators are at rest and the CA operator's token is valid, a
\* consumer created under this Vault has a pair that the provider's CA
\* certificate verifies, whichever calls failed or were refused on the way and
\* whatever token the certificate operator now holds.
QuietMeansVerified ==
    /\ caPc = "idle" /\ ~caQueued /\ caToken = gen
    /\ icToken # 0 /\ IC!Quiet
    /\ cr[Consumer] # None /\ born = gen
    => Verified

\* What makes these inductive.  The CA operator has no certificate in hand that
\* signs but that of the Vault its token is of, and that one whenever it updates.
CertInHand == /\ caCert \in {Blank, Spare, caToken}
              /\ caPc \in {"update", "recreate"} => caCert = caToken

\* Pairs are of Vaults there have been; the consumer's, in the secret and in
\* the hands of Reconcile, is of none before the one it was created under.
ConsumersUid(u) == cr[Consumer] # None /\ cr[Consumer].uid = u
PairsOfAge ==
    /\ \A s \in {ConsumerSecret} : secret[s] # None =>
          /\ secret[s].pair.key <= gen
          /\ ConsumersUid(secret[s].uid) => secret[s].pair.key >= born
    /\ pc \in {"create", "update"} =>
          /\ job.pair.key <= gen
          /\ ConsumersUid(job.cr.uid) => job.pair.key >= born

\* The authorities that have come to be: that of the present Vault once its mount
\* has a role, and of each Vault before, which may have had one.
AuthorityOf(g) == [ca |-> ProviderCA, key |-> g]
established == {AuthorityOf(g) : g \in {x \in Gens : x < gen \/ (x = gen /\ "role" \in mount)}}
PairIsOfAuthority ==
    pc \in {"create", "update"} => [ca |-> job.pair.ca, key |-> job.pair.key] \in established

\* A process of the certificate operator that runs has accounted for the
\* consumer; one that is down has neither a queue nor a job.
ICAccounts == IF icToken = 0 THEN queue = {} /\ pc = "idle"
              ELSE IC!JobFresh /\ IC!NothingForgotten

Inductive == /\ TypeOK /\ IC!PairWhole /\ IC!Grounded
             /\ QuietMeansTrusted /\ CertInHand
             /\ PairsOfAge /\ PairIsOfAuthority /\ ICAccounts

\* Over all the Vaults there have been, the certificate operator implements
\* PairCustody: a pair comes from an authority that was there to sign it, although
\* Vault, its token and its key may vanish between the issue and the store.
Custody == INSTANCE PairCustody WITH
              SecretNames <- {ConsumerSecret}, Authorities <- [ca : {ProviderCA}, key : Gens],
              ServerCA <- "interm-ca", Holdings <- IC!Secrets, held <- secret

ImplementsCustody == Custody!Spec

\* Once both processes hold the token of the Vault that signs and the mount is
\* usable, a consumer created under this Vault ends up with a pair that the
\* provider's CA certificate verifies, whatever an earlier Vault, a deleted
\* resource of its name or a process with an outdated token left behind.
EventuallyVerified ==
    <>[](/\ caToken = gen /\ icToken = gen /\ "role" \in mount
         /\ cr[Consumer] # None /\ born = gen
         => Verified)
=============================================================================
