--------------------------- MODULE IdentityProofs ---------------------------
(***************************************************************************)
(* Theorems about Identity, for every value of its constants.  What the    *)
(* certificate operator does is taken from IntCertProofs.                  *)
(***************************************************************************)
EXTENDS Identity, TLAPS

\* The certificate operator IC, with what is proved about it.
ICP == INSTANCE IntCertProofs WITH
          Names <- {Consumer}, Choices <- [n \in {Consumer} |-> {ConsumerSpec}],
          ClientCAs <- {ProviderCA}, SecretNames <- {ConsumerSecret},
          WebhookOn <- TRUE, CacheReadsFail <- FALSE,
          signer <- signer

\* The assumptions of IntCert hold of what the composition puts in.
LEMMA SpecsAssumption == ICP!ChoicesAssumption
BY DEF ICP!ChoicesAssumption, ICP!AllSpecs, ConsumerSpec

LEMMA CountsAssumption == ICP!BoundsAssumption
BY BoundsAssumption DEF ICP!BoundsAssumption

LEMMA ObjectsAssumption == ICP!NoneAssumption
BY NoneAssumption
   DEF ICP!NoneAssumption, ICP!CRs, ICP!Secrets, ICP!Jobs, ICP!Pairs, ICP!CAs, ICP!IntermCA,
       ICP!Specs, IC!CRs, IC!Secrets, IC!Jobs, IC!Pairs, IC!CAs, IC!IntermCA, IC!Specs

\* So do the hypotheses of its theorem about rest.
LEMMA RestHypotheses == ICP!Unshared /\ ICP!Usable
BY DEF ICP!Unshared, ICP!Users, ICP!Usable, ConsumerSpec

-----------------------------------------------------------------------------
(* IC and ICP are one operator: the same predicates and actions.             *)

LEMMA SameTypes == IC!TypeOK <=> ICP!TypeOK
BY DEF ICP!TypeOK, ICP!CRs, ICP!Secrets, ICP!Jobs, ICP!Pairs, ICP!CAs, ICP!IntermCA, ICP!Specs,
       IC!TypeOK, IC!CRs, IC!Secrets, IC!Jobs, IC!Pairs, IC!CAs, IC!IntermCA, IC!Specs

LEMMA SamePair == IC!PairWhole <=> ICP!PairWhole
BY DEF ICP!PairWhole, ICP!Pairs, ICP!CAs, ICP!IntermCA, IC!PairWhole, IC!Pairs, IC!CAs, IC!IntermCA

LEMMA SameGround == IC!Grounded <=> ICP!Grounded
BY DEF ICP!Grounded, ICP!SpecsOwn, ICP!Own, ICP!Admitted, ICP!SecretsOwn, ICP!Users,
       ICP!CacheLags, ICP!UidsApart, ICP!Uids,
       IC!Grounded, IC!SpecsOwn, IC!Own, IC!Admitted, IC!SecretsOwn, IC!Users,
       IC!CacheLags, IC!UidsApart, IC!Uids

LEMMA SameAccounts == (IC!JobFresh /\ IC!NothingForgotten) <=> (ICP!JobFresh /\ ICP!NothingForgotten)
BY DEF ICP!JobFresh, ICP!NothingForgotten, ICP!Accounted, ICP!Shows, ICP!Orphan, ICP!LiveUids,
       IC!JobFresh, IC!NothingForgotten, IC!Accounted, IC!Shows, IC!Orphan, IC!LiveUids

LEMMA SameQuiet == IC!Quiet <=> ICP!Quiet
BY DEF ICP!Quiet, ICP!Orphan, ICP!LiveUids, IC!Quiet, IC!Orphan, IC!LiveUids

LEMMA SameWorker == /\ IC!Worker <=> ICP!Worker
                    /\ IC!Issue <=> ICP!Issue
                    /\ IC!ReturnErr <=> ICP!ReturnErr
BY DEF IC!Worker, IC!GetSecret, IC!Issue, IC!Create, IC!Update, IC!storeVars, IC!cacheVars,
       IC!NoFault, IC!Fault, IC!Goto, IC!ReturnNil, IC!ReturnErr, IC!wanted, IC!IssuingCA,
       IC!CanIssue, IC!NewPair, IC!NewSerial, IC!CAs, IC!IntermCA, IC!BuiltSecret, IC!Valid, IC!Write,
       ICP!Worker, ICP!GetSecret, ICP!Issue, ICP!Create, ICP!Update, ICP!storeVars, ICP!cacheVars,
       ICP!NoFault, ICP!Fault, ICP!Goto, ICP!ReturnNil, ICP!ReturnErr, ICP!wanted, ICP!IssuingCA,
       ICP!CanIssue, ICP!NewPair, ICP!NewSerial, ICP!CAs, ICP!IntermCA, ICP!BuiltSecret, ICP!Valid,
       ICP!Write

LEMMA SameLoad == IC!Load(Consumer) <=> ICP!Load(Consumer)
BY DEF IC!Load, ICP!Load, IC!storeVars, ICP!storeVars, IC!cacheVars, ICP!cacheVars, IC!NoFault,
       ICP!NoFault, IC!Fault, ICP!Fault, IC!workerVars, ICP!workerVars

LEMMA SameKubernetes == /\ IC!DeliverCR(Consumer) <=> ICP!DeliverCR(Consumer)
                        /\ IC!DeliverSecret(ConsumerSecret) <=> ICP!DeliverSecret(ConsumerSecret)
                        /\ IC!Resync <=> ICP!Resync
                        /\ IC!GarbageCollect(ConsumerSecret) <=> ICP!GarbageCollect(ConsumerSecret)
BY DEF IC!DeliverCR, IC!DeliverSecret, IC!Resync, IC!GarbageCollect, IC!Listed, IC!Orphan,
       IC!LiveUids, IC!Write, IC!storeVars, IC!cacheVars, IC!workerVars,
       ICP!DeliverCR, ICP!DeliverSecret, ICP!Resync, ICP!GarbageCollect, ICP!Listed, ICP!Orphan,
       ICP!LiveUids, ICP!Write, ICP!storeVars, ICP!cacheVars, ICP!workerVars

LEMMA SameUser == /\ IC!CreateCR(Consumer, ConsumerSpec) <=> ICP!CreateCR(Consumer, ConsumerSpec)
                  /\ IC!DeleteCR(Consumer) <=> ICP!DeleteCR(Consumer)
                  /\ IC!DeleteSecret(ConsumerSecret) <=> ICP!DeleteSecret(ConsumerSecret)
BY DEF IC!CreateCR, IC!DeleteCR, IC!DeleteSecret, IC!Admitted, IC!Operation, IC!Write,
       IC!cacheVars, IC!workerVars,
       ICP!CreateCR, ICP!DeleteCR, ICP!DeleteSecret, ICP!Admitted, ICP!Operation, ICP!Write,
       ICP!cacheVars, ICP!workerVars

-----------------------------------------------------------------------------
(* What a step is to the certificate operator.                               *)

\* The process of the certificate operator, and what it has to do, are let be.
ICUntouched == UNCHANGED <<icToken, queue, pc, job>>

\* A step starts the operator's process, ends it, or is one that IntCertProofs
\* speaks of; while the process is down, only others take such steps.
LEMMA ICSteps ==
    ASSUME TypeOK, ICAccounts, [Next]_vars
    PROVE  \/ StartIC /\ ICP!Relist
           \/ StopIC /\ ICP!Ended
           \/ ICP!Step /\ icToken' = icToken /\ (icToken # 0 \/ ICUntouched)
<1> USE DEF ICUntouched
<1>0. ICP!TypeOK
  BY SameTypes DEF TypeOK
<1>1. CASE UNCHANGED <<cr, secret, crCache, secretCache, notices, queue, pc, job, icToken>> /\ ops' >= ops
  BY <1>1 DEF ICP!Step, ICP!Elsewhere, ICP!storeVars, ICP!cacheVars, ICP!workerVars
<1>2. ops \in Nat
  BY <1>0, BoundsAssumption DEF ICP!TypeOK
<1>3. CASE UNCHANGED <<icVars, icToken, ops>>
  BY <1>1, <1>2, <1>3 DEF icVars
<1>4. CASE UNCHANGED vars
  BY <1>3, <1>4 DEF vars
<1>5. CASE InitializeAnew \/ StoreToken \/ StartCA \/ StopCA \/ CAWorker
  BY <1>3, <1>5 DEF InitializeAnew, StoreToken, StartCA, StopCA, CAWorker
<1>6. CASE StartIC
  <2>1. pc' = "idle" /\ job' = None
    BY <1>0, <1>6 DEF StartIC, ICAccounts, ICP!TypeOK
  <2> QED
    BY <1>6, <2>1 DEF StartIC, ICP!Relist, IC!Listed, ICP!Listed
<1>7. CASE StopIC
  BY <1>2, <1>7 DEF StopIC, ICP!Ended, ICP!storeVars, ICP!cacheVars
<1>8. CASE ICWorker
  <2>1. icToken # 0 /\ icToken' = icToken
    BY <1>8 DEF ICWorker, OthersOfIC
  <2>2. CASE IC!Worker
    BY <2>1, <2>2, SameWorker DEF ICP!Step
  <2>3. CASE IC!Issue
    BY <2>1, <2>3, SameWorker DEF ICP!Step, ICP!Worker
  <2>4. CASE /\ pc = "issue" /\ IC!ReturnErr
             /\ UNCHANGED <<cr, secret, crCache, secretCache, notices, ops, faults>>
    BY <2>1, <2>4, SameWorker DEF ICP!Step, ICP!Refused, ICP!storeVars, ICP!cacheVars
  <2>5. CASE IC!Load(Consumer)
    BY <2>1, <2>5, SameLoad DEF ICP!Step
  <2> QED
    BY <1>8, <2>2, <2>3, <2>4, <2>5 DEF ICWorker
<1>9. CASE DeliverCR \/ DeliverSecret \/ ICResync \/ GarbageCollect
  <2>1. ICP!Informed
    BY <1>9, SameKubernetes DEF DeliverCR, DeliverSecret, ICResync, GarbageCollect, ICP!Informed
  <2>2. icToken' = icToken /\ (icToken # 0 \/ GarbageCollect)
    BY <1>9 DEF DeliverCR, DeliverSecret, ICResync, GarbageCollect, OthersOfIC
  <2>3. GarbageCollect => UNCHANGED <<queue, pc, job>>
    BY DEF GarbageCollect, IC!GarbageCollect, IC!workerVars
  <2> QED
    BY <2>1, <2>2, <2>3 DEF ICP!Step
<1>10. CASE CreateConsumer \/ DeleteConsumer \/ DeleteConsumerSecret
  <2>1. ICP!User
    BY <1>10, SameUser DEF CreateConsumer, DeleteConsumer, DeleteConsumerSecret, ICP!User
  <2>2. UNCHANGED <<icToken, queue, pc, job>>
    BY <1>10 DEF CreateConsumer, DeleteConsumer, DeleteConsumerSecret, OthersOfIC,
                 IC!CreateCR, IC!DeleteCR, IC!DeleteSecret, IC!workerVars
  <2> QED
    BY <2>1, <2>2 DEF ICP!Step
<1>11. CASE DeleteBundle
  BY <1>1, <1>2, <1>11 DEF DeleteBundle, icVars
<1> QED
  BY <1>4, <1>5, <1>6, <1>7, <1>8, <1>9, <1>10, <1>11 DEF Next, User

-----------------------------------------------------------------------------
(* Types.                                                                    *)

\* The part of the types that is not the certificate operator's.
Levels == /\ gen \in Gens /\ mount \subseteq SetupSteps
          /\ tokenSecret \in 0 .. gen /\ caToken \in 0 .. gen /\ icToken \in 0 .. gen
          /\ bundle \in Gens \union {Spare, Blank, None}
          /\ caCert \in Gens \union {Spare, Blank}
          /\ caPc \in SetupSteps \union {"idle", "list", "token", "create", "recreate", "read", "update"}
          /\ born \in 0 .. gen
DownIsIdle == caToken = 0 => caPc = "idle" /\ ~caQueued

LEMMA LevelsKept ==
    ASSUME TypeOK, [Next]_vars
    PROVE  Levels'
<1> USE BoundsAssumption DEF Levels, Gens, SetupSteps
<1>0. Levels
  BY DEF TypeOK
<1>1. CASE UNCHANGED <<vaultVars, caToken, icToken, caVars, born>>
  BY <1>0, <1>1 DEF vaultVars, caVars
<1>2. CASE UNCHANGED vars
  BY <1>1, <1>2 DEF vars, icVars
<1>3. CASE InitializeAnew \/ StoreToken
  <2>1. /\ gen' = gen \/ (gen < MaxGens /\ gen' = gen + 1)
        /\ tokenSecret' \in {tokenSecret, gen}
        /\ mount' \in {mount, {}}
        /\ UNCHANGED <<caToken, icToken, bundle, caCert, caPc, born>>
    BY <1>3 DEF InitializeAnew, StoreToken, caVars, icVars
  <2>2. gen' \in Gens /\ gen' >= gen
    BY <1>0, <2>1
  <2> QED
    BY <1>0, <2>1, <2>2
<1>4. CASE StartCA \/ StartIC
  BY <1>0, <1>4 DEF StartCA, StartIC, vaultVars, caVars, icVars
<1>5. CASE StopCA \/ StopIC
  <2>1. /\ caToken' \in {caToken, 0} /\ icToken' \in {icToken, 0}
        /\ caPc' \in {caPc, "idle"} /\ caCert' \in {caCert, Blank}
        /\ UNCHANGED <<gen, mount, tokenSecret, bundle, born>>
    BY <1>5 DEF StopCA, StopIC, vaultVars, caVars, icVars
  <2> QED
    BY <1>0, <2>1
<1>6. CASE ICWorker \/ DeliverCR \/ DeliverSecret \/ ICResync \/ GarbageCollect
           \/ DeleteConsumerSecret
  BY <1>1, <1>6 DEF ICWorker, DeliverCR, DeliverSecret, ICResync, GarbageCollect,
                    DeleteConsumerSecret, OthersOfIC
<1>7. CASE CreateConsumer \/ DeleteConsumer
  <2>1. /\ born' \in {gen, 0}
        /\ UNCHANGED <<gen, mount, tokenSecret, caToken, icToken, bundle, caCert, caPc>>
    BY <1>7 DEF CreateConsumer, DeleteConsumer, OthersOfIC, vaultVars, caVars
  <2> QED
    BY <1>0, <2>1
<1>8. CASE DeleteBundle
  BY <1>0, <1>8 DEF DeleteBundle, vaultVars, icVars
<1>9. CASE CAWorker
  <2>1. UNCHANGED <<gen, tokenSecret, caToken, icToken, born>>
    BY <1>9 DEF CAWorker, icVars
  <2>2. CASE Load \/ ListMounts \/ ReadRootToken \/ ReadCaChain
    BY <1>0, <1>9, <2>1, <2>2
       DEF Load, ListMounts, ReadRootToken, ReadCaChain, Goto, ReturnErr, Allowed
  <2>3. CASE Enable \/ GenerateRoot \/ WriteRole
    BY <1>0, <1>9, <2>1, <2>3 DEF Enable, GenerateRoot, WriteRole, SetUp, ReturnErr, Allowed
  <2>4. CASE Create \/ Update
    BY <1>0, <1>9, <2>1, <2>4 DEF Create, Update, Written, WrittenUnseen, Goto, ReturnErr
  <2> QED
    BY <1>9, <2>2, <2>3, <2>4 DEF CAWorker
<1> QED
  BY <1>2, <1>3, <1>4, <1>5, <1>6, <1>7, <1>8, <1>9 DEF Next, User

\* A step that is not the CA operator's own, nor an event for it, lets it be.
LEMMA CAEffects ==
    ASSUME [Next]_vars
    PROVE  \/ UNCHANGED <<caToken, caQueued, caPc, caCert, bundle>>
           \/ StartCA \/ StopCA \/ DeleteBundle \/ CAWorker
<1>1. CASE ICWorker \/ DeliverCR \/ DeliverSecret \/ ICResync \/ GarbageCollect
  BY <1>1 DEF ICWorker, DeliverCR, DeliverSecret, ICResync, GarbageCollect, OthersOfIC, caVars
<1>2. CASE User \/ InitializeAnew \/ StoreToken \/ StartIC \/ StopIC
  BY <1>2 DEF User, CreateConsumer, DeleteConsumer, DeleteConsumerSecret, OthersOfIC,
              InitializeAnew, StoreToken, StartIC, StopIC, caVars
<1> QED
  BY <1>1, <1>2 DEF Next, vars, caVars

LEMMA QueuedTyped ==
    ASSUME TypeOK, [Next]_vars
    PROVE  caQueued' \in BOOLEAN
<1>1. caQueued \in BOOLEAN
  BY DEF TypeOK
<1>2. CASE StartCA \/ StopCA \/ DeleteBundle
  BY <1>2 DEF StartCA, StopCA, DeleteBundle
<1>3. CASE CAWorker
  BY <1>1, <1>3 DEF CAWorker, Load, ListMounts, Enable, GenerateRoot, WriteRole, SetUp,
     ReadRootToken, ReadCaChain, Create, Update, Written, WrittenUnseen, Goto, ReturnErr
<1> QED
  BY <1>1, <1>2, <1>3, CAEffects

LEMMA DownIsIdleKept ==
    ASSUME TypeOK, [Next]_vars
    PROVE  DownIsIdle'
<1>1. DownIsIdle
  BY DEF TypeOK, DownIsIdle
<1>2. CASE UNCHANGED <<caToken, caQueued, caPc, caCert, bundle>>
  BY <1>1, <1>2 DEF DownIsIdle
<1>3. CASE StartCA
  BY <1>3 DEF StartCA, DownIsIdle
<1>4. CASE StopCA
  BY <1>4 DEF StopCA, DownIsIdle
<1>5. CASE DeleteBundle
  BY <1>1, <1>5 DEF DeleteBundle, DownIsIdle
<1>6. CASE CAWorker
  <2>1. caPc # "idle" \/ Load
    BY <1>6 DEF CAWorker, ListMounts, Enable, GenerateRoot, WriteRole, SetUp, ReadRootToken,
       ReadCaChain, Create, Update
  <2>2. caToken # 0
    BY <1>1, <2>1 DEF Load, DownIsIdle
  <2> QED
    BY <1>6, <2>2 DEF CAWorker, DownIsIdle
<1> QED
  BY <1>2, <1>3, <1>4, <1>5, <1>6, CAEffects

\* Faults and operations stay within their bounds, and Vault signs with a key
\* or with none.
LEMMA BoundsKept ==
    ASSUME TypeOK, [Next]_vars
    PROVE  ICP!Bounded'
<1> USE BoundsAssumption
<1>1. ICP!Bounded
  BY SameTypes DEF TypeOK, ICP!TypeOK, ICP!Bounded
<1>2. gen' \in Nat
  BY LevelsKept DEF Levels, Gens
<1>3. (signer \in [ICP!CAs -> Nat])'
  BY <1>2 DEF signer, ICP!CAs, ICP!IntermCA
<1>4. ops' = ops \/ (ops < MaxOps /\ ops' = ops + 1)
  <2>1. CASE ICWorker \/ DeliverCR \/ DeliverSecret \/ ICResync \/ GarbageCollect
    BY <2>1 DEF ICWorker, DeliverCR, DeliverSecret, ICResync, GarbageCollect, IC!Worker,
       IC!GetSecret, IC!Issue, IC!Create, IC!Update, IC!Load, IC!DeliverCR, IC!DeliverSecret,
       IC!Resync, IC!GarbageCollect
  <2>2. CASE User
    BY <2>2 DEF User, CreateConsumer, DeleteConsumer, DeleteConsumerSecret, DeleteBundle,
       IC!CreateCR, IC!DeleteCR, IC!DeleteSecret, IC!Operation
  <2> QED
    BY <2>1, <2>2 DEF Next, vars, InitializeAnew, StoreToken, StartCA, StartIC, StopCA, StopIC,
       CAWorker
<1>5. faults' = faults \/ (faults < MaxFaults /\ faults' = faults + 1)
  <2>1. CASE ICWorker \/ DeliverCR \/ DeliverSecret \/ ICResync \/ GarbageCollect
    BY <2>1 DEF ICWorker, DeliverCR, DeliverSecret, ICResync, GarbageCollect, IC!Worker,
       IC!GetSecret, IC!Issue, IC!Create, IC!Update, IC!Load, IC!DeliverCR, IC!DeliverSecret,
       IC!Resync, IC!GarbageCollect, IC!Fault, IC!NoFault
  <2>2. CASE User
    BY <2>2 DEF User, CreateConsumer, DeleteConsumer, DeleteConsumerSecret, DeleteBundle,
       IC!CreateCR, IC!DeleteCR, IC!DeleteSecret
  <2>3. CASE CAWorker
    BY <2>3 DEF CAWorker, Load, ListMounts, Enable, GenerateRoot, WriteRole, SetUp, ReadRootToken,
       ReadCaChain, Create, Update, Fault, NoFault
  <2> QED
    BY <2>1, <2>2, <2>3 DEF Next, vars, InitializeAnew, StoreToken, StartCA, StartIC, StopCA, StopIC,
       Fault, NoFault
<1> QED
  BY <1>1, <1>3, <1>4, <1>5 DEF ICP!Bounded

-----------------------------------------------------------------------------
(* The CA operator at rest has published the CA of the Vault it talks to.    *)

LEMMA CertKept ==
    ASSUME TypeOK, CertInHand, [Next]_vars
    PROVE  CertInHand'
<1> USE DEF CertInHand
<1>1. CASE UNCHANGED <<caToken, caQueued, caPc, caCert, bundle>>
  BY <1>1
<1>2. CASE StartCA
  <2>1. caCert \in {Spare, Blank} /\ caPc = "idle"
    BY <1>2 DEF StartCA, TypeOK, Gens
  <2> QED
    BY <1>2, <2>1 DEF StartCA
<1>3. CASE StopCA \/ DeleteBundle
  BY <1>3 DEF StopCA, DeleteBundle
<1>4. CASE CAWorker
  <2>1. caToken' = caToken /\ (Allowed => caToken = gen) /\ gen # Blank
    BY <1>4, NoneAssumption DEF CAWorker, Allowed, TypeOK, Gens
  <2>2. CASE Load \/ ListMounts \/ ReadRootToken \/ ReadCaChain
    BY <2>1, <2>2 DEF Load, ListMounts, ReadRootToken, ReadCaChain, Goto, ReturnErr
  <2>3. CASE Enable \/ GenerateRoot \/ WriteRole
    BY <2>1, <2>3 DEF Enable, GenerateRoot, WriteRole, SetUp, ReturnErr
  <2>4. CASE Create \/ Update
    BY <2>1, <2>4 DEF Create, Update, Written, WrittenUnseen, Goto, ReturnErr
  <2> QED
    BY <1>4, <2>2, <2>3, <2>4 DEF CAWorker
<1> QED
  BY <1>1, <1>2, <1>3, <1>4, CAEffects

\* Vault is initialized anew, or it stays the one it was.
LEMMA GenGrows ==
    ASSUME TypeOK, [Next]_vars
    PROVE  gen' = gen \/ (gen' = gen + 1 /\ InitializeAnew)
<1>1. CASE ICWorker \/ DeliverCR \/ DeliverSecret \/ ICResync \/ GarbageCollect
  BY <1>1 DEF ICWorker, DeliverCR, DeliverSecret, ICResync, GarbageCollect, OthersOfIC, vaultVars
<1>2. CASE User \/ InitializeAnew \/ StoreToken \/ StartIC \/ StopIC \/ StartCA \/ StopCA \/ CAWorker
  BY <1>2 DEF User, CreateConsumer, DeleteConsumer, DeleteConsumerSecret, DeleteBundle, OthersOfIC,
              InitializeAnew, StoreToken, StartIC, StopIC, StartCA, StopCA, CAWorker, vaultVars
<1> QED
  BY <1>1, <1>2 DEF Next, vars, vaultVars

LEMMA TrustedKept ==
    ASSUME TypeOK, TypeOK', CertInHand, QuietMeansTrusted, [Next]_vars
    PROVE  QuietMeansTrusted'
<1> SUFFICES ASSUME caPc' = "idle", ~caQueued', caToken' = gen'
             PROVE  bundle' = gen'
  BY DEF QuietMeansTrusted
<1>0. caToken \in 0 .. gen /\ gen \in Nat /\ caToken' # 0 /\ gen # Blank /\ gen # None
  BY NoneAssumption DEF TypeOK, Gens
<1>1. CASE UNCHANGED <<caToken, caQueued, caPc, caCert, bundle>>
  <2>1. gen' = gen
    BY <1>0, <1>1, GenGrows
  <2> QED
    BY <1>1, <2>1 DEF QuietMeansTrusted
<1>2. CASE StartCA \/ StopCA \/ DeleteBundle
  BY <1>0, <1>2 DEF StartCA, StopCA, DeleteBundle
<1>3. CASE CAWorker
  <2>1. gen' = gen /\ caToken' = caToken
    BY <1>3 DEF CAWorker
  <2>2. bundle' = caCert /\ bundle = caCert /\ caPc \in {"create", "recreate", "update"}
        /\ (caPc # "update" => bundle = None)
    <3>1. CASE Load \/ ListMounts \/ ReadRootToken \/ ReadCaChain
      BY <3>1 DEF Load, ListMounts, ReadRootToken, ReadCaChain, Goto, ReturnErr
    <3>2. CASE Enable \/ GenerateRoot \/ WriteRole
      BY <3>2 DEF Enable, GenerateRoot, WriteRole, SetUp, ReturnErr
    <3>3. CASE Create \/ Update
      BY <3>3 DEF Create, Update, Written, WrittenUnseen, Goto, ReturnErr
    <3> QED
      BY <1>3, <3>1, <3>2, <3>3 DEF CAWorker
  <2>3. caCert # None
    BY NoneAssumption DEF TypeOK, Gens
  <2>4. caPc = "update" /\ caCert = caToken
    BY <2>2, <2>3 DEF CertInHand
  <2> QED
    BY <2>1, <2>2, <2>4
<1> QED
  BY <1>1, <1>2, <1>3, CAEffects

-----------------------------------------------------------------------------
(* The certificate operator in the composition.                              *)

LEMMA ICKept ==
    ASSUME TypeOK, IC!PairWhole, IC!Grounded, ICAccounts, [Next]_vars
    PROVE  TypeOK' /\ IC!PairWhole' /\ IC!Grounded' /\ ICAccounts'
<1>0. ICP!TypeOK /\ ICP!PairWhole /\ ICP!Grounded /\ ICP!Bounded'
  BY SameTypes, SamePair, SameGround, BoundsKept DEF TypeOK
<1>1. ICP!TypeOK' /\ ICP!PairWhole' /\ ICP!Grounded'
  <2>1. CASE StopIC /\ ICP!Ended
    BY <1>0, <2>1, ICP!EndedKept, SpecsAssumption, CountsAssumption, ObjectsAssumption
  <2>2. CASE ICP!Step
    <3>1. ICP!TypeOK' /\ ICP!PairWhole'
      BY <1>0, <2>2, ICP!TypeKept, SpecsAssumption, CountsAssumption, ObjectsAssumption
    <3> QED
      BY <1>0, <2>2, <3>1, ICP!GroundedKept, SpecsAssumption, CountsAssumption, ObjectsAssumption
  <2> QED
    BY <2>1, <2>2, ICSteps DEF ICP!Step
<1>2. IC!TypeOK' /\ IC!PairWhole' /\ IC!Grounded'
  <2>1. (IC!TypeOK <=> ICP!TypeOK)' /\ (IC!PairWhole <=> ICP!PairWhole)'
        /\ (IC!Grounded <=> ICP!Grounded)'
    BY SameTypes, SamePair, SameGround, PTL
  <2> QED
    BY <1>1, <2>1
<1>3. TypeOK'
  BY <1>2, LevelsKept, QueuedTyped, DownIsIdleKept DEF Levels, DownIsIdle, TypeOK
<1>4. ICAccounts'
  <2>1. CASE StartIC /\ ICP!Relist
    <3>1. ICP!JobFresh' /\ ICP!NothingForgotten'
      BY <2>1, ICP!RelistAccounts, SpecsAssumption, CountsAssumption, ObjectsAssumption
    <3>2. icToken' # 0
      BY <2>1 DEF StartIC
    <3>3. (IC!JobFresh /\ IC!NothingForgotten)' <=> (ICP!JobFresh /\ ICP!NothingForgotten)'
      BY SameAccounts, PTL
    <3> QED
      BY <3>1, <3>2, <3>3 DEF ICAccounts
  <2>2. CASE StopIC
    BY <2>2 DEF StopIC, ICAccounts
  <2>3. CASE ICP!Step /\ icToken' = icToken /\ icToken # 0
    <3>1. ICP!JobFresh /\ ICP!NothingForgotten /\ ICP!Unforgotten
      BY <1>0, <2>3, SameAccounts DEF ICAccounts, ICP!Unforgotten
    <3>2. ICP!JobFresh'
      BY <1>0, <1>1, <2>3, <3>1, ICP!FreshKept,
         SpecsAssumption, CountsAssumption, ObjectsAssumption
    <3>3. ICP!NothingForgotten'
      BY <1>0, <1>1, <2>3, <3>1, ICP!NothingForgottenKept, RestHypotheses,
         SpecsAssumption, CountsAssumption, ObjectsAssumption
    <3>4. (IC!JobFresh /\ IC!NothingForgotten)' <=> (ICP!JobFresh /\ ICP!NothingForgotten)'
      BY SameAccounts, PTL
    <3> QED
      BY <2>3, <3>2, <3>3, <3>4 DEF ICAccounts
  <2>4. CASE icToken' = icToken /\ icToken = 0 /\ ICUntouched
    BY <2>4 DEF ICUntouched, ICAccounts
  <2> QED
    BY <2>1, <2>2, <2>3, <2>4, ICSteps
<1> QED
  BY <1>2, <1>3, <1>4

-----------------------------------------------------------------------------
(* Pairs are of the Vaults there have been.                                  *)

\* The consumer stays who it is, is gone, or has just been created.
LEMMA ConsumerEffects ==
    ASSUME [Next]_vars
    PROVE  \/ UNCHANGED <<cr, born>>
           \/ DeleteConsumer /\ ICP!DeleteCR(Consumer)
           \/ CreateConsumer /\ ICP!CreateCR(Consumer, ConsumerSpec)
<1>1. CASE ICWorker \/ DeliverCR \/ DeliverSecret \/ ICResync \/ GarbageCollect
  BY <1>1 DEF ICWorker, DeliverCR, DeliverSecret, ICResync, GarbageCollect, IC!Worker,
     IC!GetSecret, IC!Issue, IC!Create, IC!Update, IC!Load, IC!DeliverCR, IC!DeliverSecret,
     IC!Resync, IC!GarbageCollect, IC!storeVars
<1>2. CASE User
  BY <1>2, SameUser DEF User, CreateConsumer, DeleteConsumer, DeleteConsumerSecret, DeleteBundle,
     IC!DeleteSecret, icVars
<1> QED
  BY <1>1, <1>2 DEF Next, vars, icVars, InitializeAnew, StoreToken, StartCA, StartIC, StopCA,
     StopIC, CAWorker

\* A step at Vault or of the CA operator lets the certificate operator be, any
\* other leaves Vault's CA as it is.
LEMMA VaultOrIC ==
    ASSUME [Next]_vars
    PROVE  UNCHANGED icVars \/ UNCHANGED <<gen, mount>>
<1>1. CASE ICWorker \/ DeliverCR \/ DeliverSecret \/ ICResync \/ GarbageCollect
  BY <1>1 DEF ICWorker, DeliverCR, DeliverSecret, ICResync, GarbageCollect, OthersOfIC, vaultVars
<1>2. CASE User \/ InitializeAnew \/ StoreToken \/ StartIC \/ StopIC \/ StartCA \/ StopCA \/ CAWorker
  BY <1>2 DEF User, CreateConsumer, DeleteConsumer, DeleteConsumerSecret, DeleteBundle, OthersOfIC,
              InitializeAnew, StoreToken, StartIC, StopIC, StartCA, StopCA, CAWorker, vaultVars
<1> QED
  BY <1>1, <1>2 DEF Next, vars

\* The consumer's secret stays, goes, or gets the pair of the job.
LEMMA ConsumersSecretEffects ==
    ASSUME TypeOK, ICAccounts, [Next]_vars
    PROVE  \/ UNCHANGED secret
           \/ /\ UNCHANGED <<gen, mount>>
              /\ \/ secret' = [secret EXCEPT ![ConsumerSecret] = None]
                 \/ /\ pc \in {"create", "update"}
                    /\ secret' = [secret EXCEPT ![ConsumerSecret] = ICP!BuiltSecret]
<1> USE SpecsAssumption, CountsAssumption, ObjectsAssumption
<1>0. ICP!TypeOK
  BY SameTypes DEF TypeOK
<1>1. UNCHANGED secret \/ UNCHANGED <<gen, mount>>
  BY VaultOrIC DEF icVars
<1>2. CASE StopIC
  BY <1>2 DEF StopIC
<1>3. CASE ICP!Step
  <2>1. CASE ICP!SecretRemoved
    BY <1>1, <2>1 DEF ICP!SecretRemoved, ICP!Write
  <2>2. CASE ICP!PairStored
    <3>1. ICP!wanted.secret = ConsumerSecret
      BY <1>0, <2>2, ICP!JobTyped DEF ICP!PairStored
    <3> QED
      BY <1>1, <2>2, <3>1 DEF ICP!PairStored, ICP!Write
  <2>3. CASE UNCHANGED secret
    BY <2>3
  <2> QED
    BY <1>3, <2>1, <2>2, <2>3, ICP!SecretEffects DEF ICP!DeliverSecret, ICP!Relist
<1> QED
  BY <1>2, <1>3, ICSteps DEF ICP!Step

\* Whose uid is known belongs to no resource that is created now.
LEMMA KnownUidsAreOld ==
    ASSUME TypeOK, IC!Grounded, NEW u,
           \/ secret[ConsumerSecret] # None /\ u = secret[ConsumerSecret].uid
           \/ job # None /\ u = job.cr.uid
    PROVE  u # ops + 1
<1>1. ICP!TypeOK /\ ICP!Grounded
  BY SameTypes, SameGround DEF TypeOK
<1>2. u \in ICP!Uids(Consumer)
  <2>1. CASE secret[ConsumerSecret] # None /\ u = secret[ConsumerSecret].uid
    <3>1. secret[ConsumerSecret] \in ICP!Secrets
      BY <1>1, <2>1 DEF ICP!TypeOK
    <3>2. secret[ConsumerSecret].owner = Consumer
      BY <3>1 DEF ICP!Secrets
    <3> QED
      BY <2>1, <3>2 DEF ICP!Uids
  <2>2. CASE job # None /\ u = job.cr.uid
    <3>1. job \in ICP!Jobs
      BY <1>1, <2>2 DEF ICP!TypeOK
    <3>2. job.name = Consumer
      BY <3>1 DEF ICP!Jobs
    <3> QED
      BY <2>2, <3>2 DEF ICP!Uids
  <2> QED
    BY <2>1, <2>2
<1>3. u \in 0 .. ops /\ ops \in Nat
  BY <1>1, <1>2, CountsAssumption DEF ICP!Grounded, ICP!UidsApart, ICP!TypeOK, ICP!BoundsAssumption
<1> QED
  BY <1>3

\* A uid that is known stays the consumer's, and the consumer of its Vault.
LEMMA ConsumerKept ==
    ASSUME TypeOK, IC!Grounded, [Next]_vars, NEW u, ConsumersUid(u)',
           \/ secret[ConsumerSecret] # None /\ u = secret[ConsumerSecret].uid
           \/ job # None /\ u = job.cr.uid
    PROVE  ConsumersUid(u) /\ born' = born
<1>1. CASE UNCHANGED <<cr, born>>
  BY <1>1 DEF ConsumersUid
<1>2. CASE ICP!DeleteCR(Consumer)
  <2>1. cr'[Consumer] = None
    BY <1>2, SameTypes DEF ICP!DeleteCR, TypeOK, ICP!TypeOK
  <2> QED
    BY <2>1 DEF ConsumersUid
<1>3. CASE ICP!CreateCR(Consumer, ConsumerSpec)
  <2>1. cr'[Consumer].uid = ops + 1
    BY <1>3, SameTypes DEF ICP!CreateCR, TypeOK, ICP!TypeOK
  <2> QED
    BY <2>1, KnownUidsAreOld DEF ConsumersUid
<1> QED
  BY <1>1, <1>2, <1>3, ConsumerEffects

LEMMA AgeKept ==
    ASSUME TypeOK, TypeOK', IC!PairWhole, IC!Grounded, ICAccounts, PairsOfAge, [Next]_vars
    PROVE  PairsOfAge'
<1> USE SpecsAssumption, CountsAssumption, ObjectsAssumption
<1> DEFINE s == ConsumerSecret
           busy == pc \in {"create", "update"}
<1>0. ICP!TypeOK /\ ICP!PairWhole /\ gen \in Nat /\ gen' \in Nat /\ born' \in 0 .. gen' /\ gen' >= gen
  BY SameTypes, SamePair, GenGrows DEF TypeOK, Gens
<1>1. busy => /\ job # None /\ job.pair.key \in Nat /\ job.pair.key <= gen
              /\ (ConsumersUid(job.cr.uid) => job.pair.key >= born)
  BY <1>0 DEF PairsOfAge, ICP!TypeOK, ICP!PairWhole, ICP!Pairs
<1>2. secret[s] # None => /\ secret[s].pair.key \in Nat /\ secret[s].pair.key <= gen
                          /\ (ConsumersUid(secret[s].uid) => secret[s].pair.key >= born)
  BY <1>0 DEF PairsOfAge, ICP!TypeOK, ICP!Secrets, ICP!Pairs
<1>3. ASSUME secret'[s] # None
      PROVE  /\ secret'[s].pair.key <= gen'
             /\ ConsumersUid(secret[s].uid)' => secret'[s].pair.key >= born'
  <2>1. CASE secret'[s] = secret[s]
    BY <1>0, <1>2, <1>3, <2>1, ConsumerKept
  <2>2. CASE busy /\ secret'[s].uid = job.cr.uid /\ secret'[s].pair = job.pair
    BY <1>0, <1>1, <2>2, ConsumerKept DEF ConsumersUid
  <2>3. CASE secret'[s] = None \/ (busy /\ secret'[s] = ICP!BuiltSecret)
    BY <1>3, <2>2, <2>3 DEF ICP!BuiltSecret
  <2>4. \A x : secret' = [secret EXCEPT ![s] = x] => secret'[s] = x
    BY <1>0 DEF ICP!TypeOK
  <2> QED
    BY <2>1, <2>3, <2>4, ConsumersSecretEffects
<1>4. ASSUME pc' \in {"create", "update"}
      PROVE  /\ job'.pair.key <= gen'
             /\ ConsumersUid(job.cr.uid)' => job'.pair.key >= born'
  <2>1. CASE busy /\ job' = job
    BY <1>0, <1>1, <2>1, ConsumerKept DEF ConsumersUid
  <2>2. CASE /\ pc = "issue" /\ pc' = "create" /\ ICP!CanIssue(ICP!IssuingCA)
             /\ job'.cr = job.cr /\ job'.pair = ICP!NewPair
    <3>1. gen' = gen
      BY <2>2, GenGrows DEF InitializeAnew, icVars
    <3>2. job'.pair.key = gen
      BY <2>2 DEF ICP!CanIssue, ICP!NewPair, ICP!CAs, ICP!IntermCA, signer
    <3> QED
      BY <1>0, <3>1, <3>2
  <2> QED
    BY <1>0, <1>4, <2>1, <2>2, ICP!PairEffects, ICSteps DEF ICP!Step
<1> QED
  BY <1>3, <1>4 DEF PairsOfAge, ConsumersUid

-----------------------------------------------------------------------------
(* Pairs are of authorities that have come to be.                            *)

\* What a mount has been set up with stays, until Vault is initialized anew.
LEMMA MountGrows ==
    ASSUME [Next]_vars
    PROVE  InitializeAnew \/ mount \subseteq mount'
<1>1. CASE ICWorker \/ DeliverCR \/ DeliverSecret \/ ICResync \/ GarbageCollect
  BY <1>1 DEF ICWorker, DeliverCR, DeliverSecret, ICResync, GarbageCollect, OthersOfIC, vaultVars
<1>2. CASE User \/ StoreToken \/ StartIC \/ StopIC \/ StartCA \/ StopCA
  BY <1>2 DEF User, CreateConsumer, DeleteConsumer, DeleteConsumerSecret, DeleteBundle, OthersOfIC,
              StoreToken, StartIC, StopIC, StartCA, StopCA, vaultVars
<1>3. CASE CAWorker
  BY <1>3 DEF CAWorker, Load, ListMounts, Enable, GenerateRoot, WriteRole, SetUp, ReadRootToken,
              ReadCaChain, Create, Update
<1> QED
  BY <1>1, <1>2, <1>3 DEF Next, vars, vaultVars

LEMMA EstablishedGrows ==
    ASSUME TypeOK, TypeOK', [Next]_vars
    PROVE  established \subseteq established'
<1>1. gen \in Gens /\ gen' \in Gens /\ Gens \subseteq Nat
  BY DEF TypeOK, Gens
<1>2. (gen' = gen /\ mount \subseteq mount') \/ gen' = gen + 1
  BY <1>1, GenGrows, MountGrows DEF InitializeAnew
<1> QED
  BY <1>1, <1>2 DEF established, AuthorityOf

\* Only an authority that has come to be issues.
LEMMA AuthorityKept ==
    ASSUME TypeOK, TypeOK', ICAccounts, PairIsOfAuthority, [Next]_vars
    PROVE  PairIsOfAuthority'
<1> USE SpecsAssumption, CountsAssumption, ObjectsAssumption
<1> SUFFICES ASSUME pc' \in {"create", "update"}
             PROVE  [ca |-> job'.pair.ca, key |-> job'.pair.key] \in established
  BY EstablishedGrows DEF PairIsOfAuthority
<1>1. ICP!TypeOK /\ gen \in Gens
  BY SameTypes DEF TypeOK
<1>2. CASE pc \in {"create", "update"} /\ job' = job
  BY <1>2 DEF PairIsOfAuthority
<1>3. CASE ICP!CanIssue(ICP!IssuingCA) /\ job'.pair = ICP!NewPair
  <2>1. ICP!IssuingCA = ProviderCA /\ signer[ICP!IssuingCA] = gen /\ "role" \in mount
    BY <1>1, <1>3 DEF ICP!CanIssue, ICP!CAs, ICP!IntermCA, signer
  <2>2. job'.pair.ca = ProviderCA /\ job'.pair.key = gen
    BY <1>3, <2>1 DEF ICP!NewPair
  <2> QED
    BY <1>1, <2>1, <2>2 DEF established, AuthorityOf
<1> QED
  BY <1>1, <1>2, <1>3, ICP!PairEffects, ICSteps DEF ICP!Step

-----------------------------------------------------------------------------
(* The theorems.                                                             *)

LEMMA InductiveInit == Init => Inductive
<1> SUFFICES ASSUME Init
             PROVE  Inductive
  OBVIOUS
<1> USE SpecsAssumption, CountsAssumption, ObjectsAssumption
<1>1. ICP!Init
  BY DEF Init, IC!Init, ICP!Init, IC!CAs, IC!IntermCA, ICP!CAs, ICP!IntermCA
<1>2. ICP!TypeOK /\ ICP!Grounded
  BY <1>1, ICP!TypeInit, ICP!UnforgottenInit DEF ICP!Unforgotten
<1>3. TypeOK
  <2>1. Levels
    BY BoundsAssumption DEF Init, Levels, Gens
  <2>2. caQueued \in BOOLEAN /\ DownIsIdle
    BY DEF Init, DownIsIdle
  <2> QED
    BY <1>2, <2>1, <2>2, SameTypes DEF Levels, DownIsIdle, TypeOK
<1>4. IC!PairWhole /\ IC!Grounded
  BY <1>2, SameGround DEF Init, IC!Init, IC!PairWhole
<1>5. QuietMeansTrusted /\ CertInHand /\ PairsOfAge /\ PairIsOfAuthority /\ ICAccounts
  BY DEF Init, IC!Init, QuietMeansTrusted, CertInHand, PairsOfAge, PairIsOfAuthority, ICAccounts
<1> QED
  BY <1>3, <1>4, <1>5 DEF Inductive

\* What the two operators have in hand, in the secrets and in their queues
\* agrees in every state with the Vaults there have been.
THEOREM InductiveInvariant == Spec => []Inductive
<1>1. Inductive /\ [Next]_vars => Inductive'
  <2> SUFFICES ASSUME Inductive, [Next]_vars
               PROVE  Inductive'
    OBVIOUS
  <2>1. TypeOK' /\ IC!PairWhole' /\ IC!Grounded' /\ ICAccounts'
    BY ICKept DEF Inductive
  <2>2. CertInHand' /\ QuietMeansTrusted'
    BY <2>1, CertKept, TrustedKept DEF Inductive
  <2>3. PairsOfAge' /\ PairIsOfAuthority'
    BY <2>1, AgeKept, AuthorityKept DEF Inductive
  <2> QED
    BY <2>1, <2>2, <2>3 DEF Inductive
<1> QED
  BY <1>1, InductiveInit, PTL DEF Spec

\* Every variable keeps to its range, those of the certificate operator as
\* well, although the key its CA signs with vanishes and changes.
THEOREM TypeCorrect == Spec => []TypeOK
BY InductiveInvariant, PTL DEF Inductive

\* When the CA operator is at rest and its token is valid, the provider's
\* secret has the CA that Vault signs with now.
THEOREM AtRestTrusted == Spec => []QuietMeansTrusted
BY InductiveInvariant, PTL DEF Inductive

\* When both operators are at rest, a consumer created under this Vault has a
\* pair that verifies: its secret is its own (IntCertProofs), the pair is no
\* older than the consumer, and the provider trusts the newest.
THEOREM AtRestVerified == Spec => []QuietMeansVerified
<1>1. Inductive => QuietMeansVerified
  <2> SUFFICES ASSUME Inductive, caPc = "idle", ~caQueued, caToken = gen, icToken # 0,
                      IC!Quiet, cr[Consumer] # None, born = gen
               PROVE  Verified
    BY DEF QuietMeansVerified
  <2> DEFINE s == ConsumerSecret
  <2>1. ICP!TypeOK /\ ICP!NothingForgotten /\ ICP!Quiet /\ ICP!Grounded
    BY SameTypes, SameAccounts, SameQuiet, SameGround DEF Inductive, TypeOK, ICAccounts
  <2>2. cr[Consumer].spec = ConsumerSpec /\ ConsumerSpec.secret = s
    BY <2>1 DEF ICP!Grounded, ICP!SpecsOwn, ICP!Own, ConsumerSpec
  <2>3. ICP!Served(Consumer)
    BY <2>1, <2>2, ICP!AtRestServed, SpecsAssumption, CountsAssumption, ObjectsAssumption
  <2>4. secret[s] # None /\ secret[s].uid = cr[Consumer].uid
    BY <2>2, <2>3 DEF ICP!Served, ICP!Shows
  <2>5. secret[s].pair.key \in Nat /\ gen \in Nat
    BY <2>1, <2>4 DEF ICP!TypeOK, ICP!Secrets, ICP!Pairs, Inductive, TypeOK, Gens
  <2>6. secret[s].pair.key <= gen /\ secret[s].pair.key >= born
    BY <2>4 DEF Inductive, PairsOfAge, ConsumersUid
  <2>7. bundle = gen
    BY DEF Inductive, QuietMeansTrusted
  <2> QED
    BY <2>4, <2>5, <2>6, <2>7 DEF Verified
<1> QED
  BY <1>1, InductiveInvariant, PTL

-----------------------------------------------------------------------------
(* Over all Vaults the certificate operator implements PairCustody.          *)

\* What is stored is the consumer's whole pair, of an authority there has been.
LEMMA StoredPair ==
    ASSUME Inductive, pc \in {"create", "update"}
    PROVE  /\ ICP!BuiltSecret \in ICP!Secrets /\ ICP!BuiltSecret # None
           /\ ICP!BuiltSecret.pair = job.pair
           /\ [ca |-> job.pair.ca, key |-> job.pair.key] \in established
           /\ job.pair.ca # "interm-ca"
<1> USE SpecsAssumption, CountsAssumption, ObjectsAssumption
<1>1. ICP!TypeOK /\ ICP!PairWhole
  BY SameTypes, SamePair DEF Inductive, TypeOK
<1>2. ICP!BuiltSecret \in ICP!Secrets /\ ICP!BuiltSecret.pair = job.pair
  BY <1>1, ICP!JobTyped DEF ICP!BuiltSecret, ICP!Secrets, ICP!PairWhole
<1>3. ICP!BuiltSecret # None
  BY <1>2 DEF ICP!NoneAssumption
<1>4. [ca |-> job.pair.ca, key |-> job.pair.key] \in established
  BY DEF Inductive, PairIsOfAuthority
<1>5. job.pair.ca = ProviderCA
  BY <1>4 DEF established, AuthorityOf
<1> QED
  BY <1>2, <1>3, <1>4, <1>5, NoneAssumption

\* Whatever becomes of Vault, its token and its key between the issue of a pair
\* and its storage, the operator does what PairCustody allows: the pair it stores
\* is of an authority that was there to sign it.
THEOREM Refinement == Spec => ImplementsCustody
<1> DEFINE s == ConsumerSecret
<1>1. Init => Custody!Init
  BY DEF Init, IC!Init, Gens, established, Custody!Init
<1>2. ASSUME Inductive, Inductive', [Next]_vars
      PROVE  [Custody!Next]_(Custody!vars)
  <2>1. CASE UNCHANGED secret
    <3>1. established \subseteq established'
      BY <1>2, EstablishedGrows DEF Inductive
    <3>2. established' \subseteq [ca : {ProviderCA}, key : Gens]
      BY DEF established, AuthorityOf
    <3> QED
      BY <2>1, <3>1, <3>2 DEF Custody!Next, Custody!Establish
  <2>2. CASE UNCHANGED <<gen, mount>> /\ secret' = [secret EXCEPT ![s] = None]
    <3>1. UNCHANGED established
      BY <2>2 DEF established
    <3> QED
      BY <2>2, <3>1 DEF Custody!Next, Custody!Remove
  <2>3. CASE /\ UNCHANGED <<gen, mount>> /\ pc \in {"create", "update"}
             /\ secret' = [secret EXCEPT ![s] = ICP!BuiltSecret]
    <3>1. UNCHANGED established
      BY <2>3 DEF established
    <3>2. secret'[s] = ICP!BuiltSecret /\ secret' = [secret EXCEPT ![s] = secret'[s]]
      BY <1>2, <2>3 DEF Inductive, TypeOK, IC!TypeOK
    <3>3. secret'[s] \in IC!Secrets
      BY <1>2, <2>3, <3>2, StoredPair
         DEF ICP!Secrets, ICP!Pairs, ICP!CAs, ICP!IntermCA, IC!Secrets, IC!Pairs, IC!CAs, IC!IntermCA
    <3>4. [ca |-> secret'[s].pair.ca, key |-> secret'[s].pair.key] \in established
      BY <1>2, <2>3, <3>2, StoredPair
    <3>5. Custody!Put(s)
      BY <3>1, <3>2, <3>3, <3>4 DEF Custody!Put
    <3>6. Custody!Deliver(s) \/ Custody!Exchange(s)
      BY <1>2, <2>3, <3>2, <3>5, StoredPair DEF Custody!Deliver, Custody!Exchange
    <3> QED
      BY <3>6 DEF Custody!Next
  <2> QED
    BY <1>2, <2>1, <2>2, <2>3, ConsumersSecretEffects DEF Inductive
<1> QED
  BY <1>1, <1>2, InductiveInvariant, PTL DEF Spec, ImplementsCustody, Custody!Spec
=============================================================================
