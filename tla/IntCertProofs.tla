---------------------------- MODULE IntCertProofs ----------------------------
(***************************************************************************)
(* Theorems about IntCert, for every value of its constants.               *)
(***************************************************************************)
EXTENDS IntCert, TLAPS

\* Writing a secret of the right kind keeps secrets and notices typed.
LEMMA WriteTyped ==
    ASSUME TypeOK, NEW s \in SecretNames, NEW new \in Secrets \union {None}, Write(s, new)
    PROVE  /\ secret' \in [SecretNames -> Secrets \union {None}]
           /\ notices' \in [SecretNames -> SUBSET Names]
<1> DEFINE told == {x.owner : x \in {secret[s], new} \ {None}}
<1>1. secret[s] \in Secrets \union {None}
  BY DEF TypeOK
<1>2. told \subseteq Names
  BY <1>1 DEF Secrets
<1>3. /\ secret' = [secret EXCEPT ![s] = new]
      /\ notices' = [notices EXCEPT ![s] = @ \union told]
  BY DEF Write
<1> HIDE DEF told
<1> QED
  BY <1>2, <1>3 DEF TypeOK

\* While Reconcile runs its job is typed.
LEMMA JobTyped ==
    ASSUME TypeOK, pc # "idle"
    PROVE  /\ job \in Jobs /\ job.name \in Names /\ job.cr \in CRs /\ job.cr.uid \in Nat
           /\ wanted \in AllSpecs /\ wanted.secret \in SecretNames
           /\ wanted.client \in BOOLEAN /\ wanted.issuer \in ClientCAs \union {Blank}
<1>1. job \in Jobs /\ job.name \in Names /\ job.cr \in CRs
  BY NoneAssumption DEF TypeOK, Jobs
<1>2. job.cr.uid \in Nat /\ wanted \in Specs
  BY <1>1 DEF CRs, wanted
<1>3. Specs \subseteq AllSpecs
  BY ChoicesAssumption DEF Specs
<1> QED
  BY <1>1, <1>2, <1>3 DEF AllSpecs

LEMMA ListedTyped ==
    ASSUME NEW resources, NEW secrets \in [SecretNames -> Secrets \union {None}]
    PROVE  Listed(resources, secrets) \subseteq Names
BY DEF Listed, Secrets

\* A pair that can be issued is one.
LEMMA NewPairTyped ==
    ASSUME TypeOK, pc # "idle", CanIssue(IssuingCA)
    PROVE  NewPair \in Pairs
<1>1. secret[wanted.secret] \in Secrets \union {None}
  BY JobTyped DEF TypeOK
<1>2. NewSerial \in {0, 1}
  BY <1>1 DEF NewSerial, Secrets, Pairs
<1>3. IssuingCA \in CAs /\ signer[IssuingCA] \in Nat \ {0}
  BY DEF CanIssue, TypeOK
<1> QED
  BY <1>2, <1>3 DEF NewPair, Pairs

LEMMA TypeInit == Init => TypeOK
BY BoundsAssumption DEF Init, TypeOK

\* What can happen to the operator, whatever becomes of the CAs: a call of its
\* own (Vault may refuse to issue), a user, Kubernetes, a new process, or
\* nothing but a step of the rest of the system.
Refused == pc = "issue" /\ ReturnErr /\ UNCHANGED <<storeVars, cacheVars, ops>>
Relist == /\ pc' = "idle" /\ job' = None
          /\ crCache' = cr /\ secretCache' = secret
          /\ notices' = [s \in SecretNames |-> {}]
          /\ queue' = Listed(cr, secret)
          /\ UNCHANGED <<cr, secret, ops>>
Elsewhere == UNCHANGED <<storeVars, cacheVars, workerVars>> /\ ops' >= ops

Informed == \/ \E n \in Names : DeliverCR(n)
            \/ \E s \in SecretNames : DeliverSecret(s) \/ GarbageCollect(s)
            \/ Resync

Step == \/ Worker \/ Refused \/ \E n \in Names : Load(n)
        \/ User \/ Informed \/ Relist \/ Elsewhere

\* The part of the types that is about the CAs and the bounds.
Bounded == signer \in [CAs -> Nat] /\ ops \in 0 .. MaxOps /\ faults \in 0 .. MaxFaults

LEMMA NextIsStep ==
    ASSUME TypeOK, [Next]_vars
    PROVE  Step /\ Bounded'
<1> USE BoundsAssumption
<1>1. CASE UNCHANGED vars
  BY <1>1 DEF vars, Step, Elsewhere, storeVars, cacheVars, workerVars, TypeOK, Bounded
<1>2. CASE User
  <2>1. Bounded'
    BY <1>2 DEF User, CreateCR, EditCR, DeleteCR, DeleteSecret, Operation, TypeOK, Bounded
  <2> QED
    BY <1>2, <2>1 DEF Step
<1>3. CASE Kubernetes
  <2>1. Bounded'
    BY <1>3 DEF Kubernetes, DeliverCR, DeliverSecret, GarbageCollect, Resync, Restart, Fault,
                TypeOK, Bounded
  <2>2. Informed \/ Relist
    BY <1>3 DEF Kubernetes, Informed, Restart, Relist
  <2> QED
    BY <2>1, <2>2 DEF Step
<1>4. ASSUME NEW n \in Names, Load(n)
      PROVE  Step /\ Bounded'
  BY <1>4 DEF Step, Load, NoFault, Fault, TypeOK, Bounded
<1>5. ASSUME NEW c \in CAs, SetUpCA(c)
      PROVE  Step /\ Bounded'
  BY <1>5 DEF Step, SetUpCA, Elsewhere, TypeOK, Bounded
<1>6. CASE Worker
  <2>1. Bounded'
    BY <1>6 DEF Worker, GetSecret, Issue, Create, Update, Fault, NoFault, TypeOK, Bounded
  <2> QED
    BY <1>6, <2>1 DEF Step
<1> QED
  BY <1>1, <1>2, <1>3, <1>4, <1>5, <1>6 DEF Next

\* The types hold on, as long as the CAs and the bounds keep theirs.
LEMMA TypeKept ==
    ASSUME TypeOK, PairWhole, Step, Bounded'
    PROVE  TypeOK' /\ PairWhole'
<1> USE NoneAssumption DEF Bounded
<1>0. CASE Elsewhere
  BY <1>0 DEF Elsewhere, TypeOK, PairWhole, storeVars, cacheVars, workerVars
<1>2. ASSUME NEW n \in Names, NEW x \in Choices[n], CreateCR(n, x) \/ EditCR(n, x)
      PROVE  TypeOK' /\ PairWhole'
  <2>1. x \in Specs /\ ops + 1 \in Nat
    BY DEF Specs, TypeOK
  <2> QED
    BY <1>2, <2>1 DEF CreateCR, EditCR, CRs, Operation, TypeOK, PairWhole, cacheVars, workerVars
<1>3. ASSUME NEW n \in Names, DeleteCR(n)
      PROVE  TypeOK' /\ PairWhole'
  BY <1>3 DEF DeleteCR, TypeOK, PairWhole, cacheVars, workerVars
<1>4. ASSUME NEW s \in SecretNames, DeleteSecret(s) \/ GarbageCollect(s)
      PROVE  TypeOK' /\ PairWhole'
  <2>1. Write(s, None)
    BY <1>4 DEF DeleteSecret, GarbageCollect
  <2>2. /\ secret' \in [SecretNames -> Secrets \union {None}]
        /\ notices' \in [SecretNames -> SUBSET Names]
    BY <2>1, WriteTyped
  <2> QED
    BY <1>4, <2>2 DEF DeleteSecret, GarbageCollect, TypeOK, PairWhole, cacheVars, workerVars
<1>6. ASSUME NEW n \in Names, DeliverCR(n)
      PROVE  TypeOK' /\ PairWhole'
  BY <1>6 DEF DeliverCR, TypeOK, PairWhole, storeVars
<1>7. ASSUME NEW s \in SecretNames, DeliverSecret(s)
      PROVE  TypeOK' /\ PairWhole'
  BY <1>7 DEF DeliverSecret, TypeOK, PairWhole
<1>8. CASE Resync
  <2>1. Listed(crCache, secretCache) \subseteq Names
    BY ListedTyped DEF TypeOK
  <2> QED
    BY <1>8, <2>1 DEF Resync, TypeOK, PairWhole, storeVars, cacheVars
<1>9. CASE Relist
  <2>1. Listed(cr, secret) \subseteq Names
    BY ListedTyped DEF TypeOK
  <2> QED
    BY <1>9, <2>1 DEF Relist, TypeOK, PairWhole
<1>10. ASSUME NEW n \in Names, Load(n)
       PROVE  TypeOK' /\ PairWhole'
  <2>0. /\ queue' \subseteq queue /\ faults' \in Nat
        /\ UNCHANGED <<storeVars, signer, cacheVars, ops>>
    BY <1>10 DEF Load, NoFault, Fault, workerVars, TypeOK
  <2>1. CASE UNCHANGED <<pc, job>>
    BY <2>0, <2>1 DEF TypeOK, PairWhole, storeVars, cacheVars
  <2>2. CASE crCache[n] # None /\ pc' = "get"
             /\ job' = [name |-> n, cr |-> crCache[n], pair |-> None]
    <3>1. job' \in Jobs
      BY <2>2 DEF Jobs, TypeOK
    <3> QED
      BY <2>0, <2>2, <3>1 DEF TypeOK, PairWhole, storeVars, cacheVars
  <2> QED
    BY <1>10, <2>1, <2>2 DEF Load, workerVars
<1>11. CASE GetSecret
  BY <1>11, JobTyped DEF GetSecret, Goto, ReturnNil, TypeOK, PairWhole, storeVars, cacheVars
<1>12. CASE Issue \/ Refused
  <2>1. job \in Jobs /\ job.name \in Names
    BY <1>12, JobTyped DEF Issue, Refused
  <2>2. CASE ReturnErr /\ UNCHANGED <<storeVars, cacheVars>>
    BY <2>1, <2>2 DEF ReturnErr, TypeOK, PairWhole, storeVars, cacheVars
  <2>3. CASE /\ CanIssue(IssuingCA) /\ pc' = "create" /\ UNCHANGED <<queue, storeVars, cacheVars>>
             /\ job' = [job EXCEPT !.pair = NewPair]
    <3>1. NewPair \in Pairs
      BY <1>12, <2>3, NewPairTyped DEF Issue, Refused
    <3>2. job' \in Jobs /\ job'.pair \in Pairs
      BY <2>1, <2>3, <3>1 DEF Jobs
    <3> QED
      BY <2>3, <3>2 DEF TypeOK, PairWhole, storeVars, cacheVars
  <2> QED
    BY <1>12, <2>2, <2>3 DEF Issue, Refused
<1>14. CASE Create \/ Update
  <2>1. BuiltSecret \in Secrets /\ job.name \in Names /\ wanted.secret \in SecretNames
    BY <1>14, JobTyped DEF Create, Update, BuiltSecret, Secrets, PairWhole
  <2>2. /\ pc \in {"create", "update"}
        /\ ReturnNil \/ ReturnErr \/ Goto("update")
        /\ Write(wanted.secret, BuiltSecret) \/ UNCHANGED <<secret, notices>>
        /\ UNCHANGED <<cr, cacheVars>>
    BY <1>14 DEF Create, Update
  <2>3. /\ secret' \in [SecretNames -> Secrets \union {None}]
        /\ notices' \in [SecretNames -> SUBSET Names]
    BY <2>1, <2>2, WriteTyped DEF TypeOK
  <2>4. /\ queue' \subseteq Names /\ job' \in Jobs \union {None}
        /\ pc' \in {"idle", "update"} /\ (pc' = "idle") = (job' = None)
        /\ PairWhole'
    BY <2>1, <2>2, JobTyped DEF Goto, ReturnNil, ReturnErr, TypeOK, PairWhole
  <2> QED
    BY <2>2, <2>3, <2>4 DEF TypeOK, cacheVars
<1> QED
  BY <1>0, <1>2, <1>3, <1>4, <1>6, <1>7, <1>8, <1>9, <1>10, <1>11, <1>12, <1>14
     DEF Step, Worker, User, Informed

-----------------------------------------------------------------------------
(* The pair a job carries is of the CA it asked. *)

LEMMA PairStep == Inductive /\ [Next]_vars => PairIssued' /\ UpdatesClients'
<1> SUFFICES ASSUME Inductive, [Next]_vars
             PROVE  PairIssued' /\ UpdatesClients'
  OBVIOUS
<1>1. CASE UNCHANGED <<pc, job, signer>>
  BY <1>1 DEF Inductive, PairIssued, UpdatesClients, IssuingCA, wanted
<1>2. CASE pc' \notin {"create", "update"}
  BY <1>2 DEF PairIssued, UpdatesClients
<1>3. ASSUME NEW c \in CAs, SetUpCA(c)
      PROVE  PairIssued' /\ UpdatesClients'
  <2>1. UpdatesClients' /\ UNCHANGED <<pc, job>>
    BY <1>3 DEF SetUpCA, workerVars, Inductive, UpdatesClients, wanted
  <2>2. CASE pc \in {"create", "update"}
    <3>1. job.pair \in Pairs /\ signer[IssuingCA] # 0 /\ IssuingCA \in CAs
      BY <2>2 DEF Inductive, PairWhole, PairIssued, Pairs
    <3>2. signer'[IssuingCA] = signer[IssuingCA]
      BY <1>3, <3>1 DEF SetUpCA, Inductive, TypeOK
    <3> QED
      BY <2>1, <2>2, <3>2 DEF Inductive, PairIssued, IssuingCA, wanted
  <2> QED
    BY <2>1, <2>2 DEF PairIssued
<1>4. CASE Issue
  <2>1. CASE pc' = "create" /\ CanIssue(IssuingCA) /\ job' = [job EXCEPT !.pair = NewPair]
    <3>1. job \in Jobs /\ NewPair \in Pairs
      BY <1>4, <2>1, JobTyped, NewPairTyped DEF Issue, Inductive
    <3>2. job'.pair = NewPair /\ job'.cr = job.cr
      BY <2>1, <3>1 DEF Jobs
    <3>3. IssuingCA' = IssuingCA /\ signer' = signer
      BY <1>4, <3>2 DEF Issue, IssuingCA, wanted
    <3> QED
      BY <2>1, <3>1, <3>2, <3>3 DEF PairIssued, UpdatesClients, NewPair
  <2> QED
    BY <1>2, <1>4, <2>1 DEF Issue, ReturnErr
<1>5. CASE Create \/ Update
  <2>1. CASE Goto("update") /\ wanted.client
    BY <1>5, <2>1 DEF Create, Update, Goto, Inductive, PairIssued, UpdatesClients, IssuingCA, wanted
  <2> QED
    BY <1>2, <1>5, <2>1 DEF Create, Update, ReturnNil, ReturnErr
<1>6. CASE GetSecret
  BY <1>2, <1>6 DEF GetSecret, ReturnNil, Goto
<1>7. ASSUME NEW n \in Names, Load(n)
      PROVE  PairIssued' /\ UpdatesClients'
  BY <1>1, <1>2, <1>7 DEF Load, workerVars
<1>8. CASE User
  BY <1>1, <1>8 DEF User, CreateCR, EditCR, DeleteCR, DeleteSecret, workerVars
<1>9. CASE Kubernetes
  BY <1>1, <1>2, <1>9
     DEF Kubernetes, DeliverCR, DeliverSecret, GarbageCollect, Resync, Restart, workerVars
<1>10. CASE UNCHANGED vars
  BY <1>1, <1>10 DEF vars
<1> QED
  BY <1>3, <1>4, <1>5, <1>6, <1>7, <1>8, <1>9, <1>10 DEF Next, Worker

LEMMA InductiveInvariant == Spec => []Inductive
<1>1. Init => Inductive
  BY TypeInit DEF Init, Inductive, PairWhole, PairIssued, UpdatesClients
<1>2. Inductive /\ [Next]_vars => Inductive'
  BY NextIsStep, TypeKept, PairStep DEF Inductive
<1> QED
  BY <1>1, <1>2, PTL DEF Spec

\* Every variable keeps to its range; there is a job exactly while Reconcile
\* runs, and what it stores is a whole pair.
THEOREM TypeCorrect == Spec => []TypeOK
<1>1. Inductive => TypeOK
  BY DEF Inductive
<1> QED
  BY <1>1, InductiveInvariant, PTL

-----------------------------------------------------------------------------
(* What a step may do to the secrets and to the CAs. *)

SecretCleared == \E s \in SecretNames : Write(s, None)
PairDelivered == /\ pc = "create" /\ secret[wanted.secret] = None
                 /\ Write(wanted.secret, BuiltSecret)
PairExchanged == pc = "update" /\ Write(wanted.secret, BuiltSecret)

LEMMA Effects ==
    ASSUME [Next]_vars
    PROVE  \/ UNCHANGED <<signer, secret>>
           \/ UNCHANGED secret /\ \E c \in CAs : SetUpCA(c)
           \/ UNCHANGED signer /\ (SecretCleared \/ PairDelivered \/ PairExchanged)
<1>1. CASE UNCHANGED vars
  BY <1>1 DEF vars
<1>2. CASE User
  BY <1>2 DEF User, CreateCR, EditCR, DeleteCR, DeleteSecret, SecretCleared
<1>3. CASE Kubernetes
  BY <1>3 DEF Kubernetes, DeliverCR, DeliverSecret, GarbageCollect, Resync, Restart, storeVars,
              SecretCleared
<1>4. ASSUME NEW n \in Names, Load(n)
      PROVE  UNCHANGED <<signer, secret>>
  BY <1>4 DEF Load, storeVars
<1>5. ASSUME NEW c \in CAs, SetUpCA(c)
      PROVE  UNCHANGED secret
  BY <1>5 DEF SetUpCA, storeVars
<1>6. CASE GetSecret \/ Issue
  BY <1>6 DEF GetSecret, Issue, storeVars
<1>7. CASE Create
  BY <1>7 DEF Create, PairDelivered
<1>8. CASE Update
  BY <1>8 DEF Update, PairExchanged
<1> QED
  BY <1>1, <1>2, <1>3, <1>4, <1>5, <1>6, <1>7, <1>8 DEF Next, Worker

\* A server's job never takes a living owner's secret over: however stale the
\* cache it decided on, Create refuses what exists and only a client's job goes
\* on to Update.
THEOREM ServersTakeNothing == Spec => ServerTakesNone
<1> DEFINE Kept == \A s \in SecretNames :
                       secret[s] # None /\ ~Orphan(s) /\ secret'[s] \notin {secret[s], None}
                       => job # None /\ wanted.client
<1>1. ASSUME Inductive, [Next]_vars
      PROVE  Kept
  <2> SUFFICES ASSUME NEW s \in SecretNames,
                      secret[s] # None, secret'[s] # secret[s], secret'[s] # None
               PROVE  job # None /\ wanted.client
    OBVIOUS
  <2>1. ~SecretCleared /\ ~PairDelivered
    BY <1>1, JobTyped DEF SecretCleared, PairDelivered, Write, Inductive, TypeOK
  <2>2. CASE PairExchanged
    BY <1>1, <2>2 DEF PairExchanged, Inductive, UpdatesClients, TypeOK
  <2> QED
    BY <1>1, <2>1, <2>2, Effects
<1> QED
  BY <1>1, InductiveInvariant, PTL DEF Spec, ServerTakesNone

-----------------------------------------------------------------------------
(* The operator implements PairCustody. *)

\* A pair that is stored is somebody's whole pair, of an authority that exists.
LEMMA StoredPair ==
    ASSUME Inductive, pc \in {"create", "update"}
    PROVE  /\ wanted.secret \in SecretNames
           /\ BuiltSecret \in Secrets /\ BuiltSecret # None
           /\ BuiltSecret.pair = job.pair
           /\ job.pair.ca \in CAs
           /\ signer[job.pair.ca] = job.pair.key /\ job.pair.key # 0
           /\ wanted.client => job.pair.ca # IntermCA
<1>1. job.pair \in Pairs /\ job.pair.ca = IssuingCA /\ job.pair.key = signer[IssuingCA]
  BY DEF Inductive, PairWhole, PairIssued
<1>2. BuiltSecret \in Secrets /\ BuiltSecret.pair = job.pair
  BY <1>1, JobTyped DEF BuiltSecret, Secrets, Inductive
<1>3. wanted.secret \in SecretNames /\ (wanted.client => job.pair.ca # IntermCA)
  BY <1>1, JobTyped, NoneAssumption DEF IssuingCA, Inductive
<1> QED
  BY <1>1, <1>2, <1>3, NoneAssumption DEF Pairs

\* Seen as pairs and the authorities behind them the operator does what
\* PairCustody allows, whatever users, the cache and failures do: no pair
\* without an authority, and no server's pair in the place of another.
THEOREM Refinement == Spec => ImplementsCustody
<1> DEFINE authority(c) == [ca |-> c, key |-> signer[c]]
           established == {authority(c) : c \in {x \in CAs : signer[x] # 0}}
<1>1. Init => Custody!Init
  BY DEF Init, Custody!Init
<1>2. ASSUME Inductive, Inductive', [Next]_vars
      PROVE  [Custody!Next]_(Custody!vars)
  <2>1. CASE UNCHANGED <<signer, secret>>
    BY <2>1 DEF Custody!vars
  <2>2. ASSUME UNCHANGED secret, NEW c \in CAs, SetUpCA(c)
        PROVE  Custody!Establish
    <3>1. \A x \in CAs : signer[x] # 0 => signer'[x] = signer[x]
      BY <1>2, <2>2 DEF SetUpCA, Inductive, TypeOK
    <3>2. \A x \in CAs : signer'[x] \in Nat
      BY <1>2 DEF Inductive, TypeOK
    <3>3. established \subseteq established'
      BY <3>1
    <3>4. established' \subseteq [ca : CAs, key : Nat \ {0}]
      BY <3>2
    <3> QED
      BY <2>2, <3>3, <3>4 DEF Custody!Establish
  <2>3. CASE UNCHANGED signer /\ SecretCleared
    BY <2>3 DEF SecretCleared, Write, Custody!Next, Custody!Remove
  <2>4. CASE UNCHANGED signer /\ (PairDelivered \/ PairExchanged)
    <3> DEFINE s == wanted.secret
    <3>1. pc \in {"create", "update"} /\ Write(s, BuiltSecret)
      BY <2>4 DEF PairDelivered, PairExchanged
    <3>2. s \in SecretNames /\ secret' = [secret EXCEPT ![s] = BuiltSecret]
          /\ secret'[s] = BuiltSecret
      BY <1>2, <3>1, StoredPair DEF Write, Inductive, TypeOK
    <3>3. authority(job.pair.ca) \in established
      BY <1>2, <3>1, StoredPair
    <3>4. Custody!Put(s)
      BY <1>2, <2>4, <3>1, <3>2, <3>3, StoredPair DEF Custody!Put
    <3>5. CASE secret[s] = None
      BY <3>2, <3>4, <3>5 DEF Custody!Deliver, Custody!Next
    <3>6. CASE secret[s] # None
      <4>1. wanted.client
        BY <1>2, <2>4, <3>6 DEF PairDelivered, PairExchanged, Inductive, UpdatesClients
      <4>2. secret'[s].pair.ca # IntermCA
        BY <1>2, <3>1, <3>2, <4>1, StoredPair
      <4> QED
        BY <3>2, <3>4, <3>6, <4>2 DEF Custody!Exchange, Custody!Next
    <3> QED
      BY <3>5, <3>6
  <2> QED
    BY <1>2, <2>1, <2>2, <2>3, <2>4, Effects DEF Custody!Next
<1> QED
  BY <1>1, <1>2, InductiveInvariant, PTL DEF Spec, ImplementsCustody, Custody!Spec

-----------------------------------------------------------------------------
(* At rest every resource is served: what makes that inductive.              *)

\* Specs stay their resource's own: only users write them, through the webhook.
LEMMA SpecsKept ==
    ASSUME TypeOK, SpecsOwn, Step
    PROVE  SpecsOwn'
<1> USE DEF SpecsOwn, Own
<1>1. ASSUME UNCHANGED <<cr, crCache>>, job' = None \/ (job # None /\ job'.name = job.name /\ job'.cr = job.cr)
      PROVE  SpecsOwn'
  BY <1>1
<1>2. CASE UNCHANGED <<cr, crCache, job>>
  BY <1>2
<1>3. ASSUME NEW n \in Names, NEW x \in Choices[n], CreateCR(n, x) \/ EditCR(n, x)
      PROVE  SpecsOwn'
  <2>1. UNCHANGED <<crCache, job>> /\ Admitted(x)
    BY <1>3 DEF CreateCR, EditCR, cacheVars, workerVars
  <2>2. \A m \in Names : cr'[m] = cr[m] \/ (m = n /\ cr'[m].spec = x)
    BY <1>3 DEF CreateCR, EditCR, TypeOK, CRs
  <2> QED
    BY <2>1, <2>2 DEF Admitted
<1>4. ASSUME NEW n \in Names, DeleteCR(n)
      PROVE  SpecsOwn'
  BY <1>4 DEF DeleteCR, cacheVars, workerVars, Admitted, TypeOK
<1>5. CASE \E s \in SecretNames : DeleteSecret(s)
  BY <1>2, <1>5 DEF DeleteSecret, cacheVars, workerVars
<1>6. ASSUME NEW n \in Names, DeliverCR(n)
      PROVE  SpecsOwn'
  BY <1>6 DEF DeliverCR, storeVars, Admitted, TypeOK
<1>7. CASE \/ \E s \in SecretNames : DeliverSecret(s) \/ GarbageCollect(s)
           \/ Resync \/ Elsewhere
  BY <1>2, <1>7 DEF DeliverSecret, GarbageCollect, Resync, Elsewhere, storeVars, cacheVars, workerVars
<1>8. CASE Relist
  BY <1>8 DEF Relist, Admitted
<1>9. ASSUME NEW n \in Names, Load(n)
      PROVE  SpecsOwn'
  <2>1. UNCHANGED <<cr, crCache>>
    BY <1>9 DEF Load, storeVars, cacheVars
  <2>2. CASE UNCHANGED job
    BY <1>2, <2>1, <2>2
  <2>3. CASE job'.name = n /\ job'.cr = crCache[n] /\ crCache[n] # None
    BY <2>1, <2>3 DEF Admitted
  <2> QED
    BY <1>9, <2>2, <2>3 DEF Load, workerVars
<1>10. CASE Worker \/ Refused
  <2>1. job \in Jobs /\ job # None /\ UNCHANGED <<cr, crCache>>
    BY <1>10, JobTyped, NoneAssumption
       DEF Worker, GetSecret, Issue, Create, Update, Refused, storeVars, cacheVars
  <2>2. job' \in {None, job} \/ job' = [job EXCEPT !.pair = NewPair]
    BY <1>10 DEF Worker, GetSecret, Issue, Create, Update, Refused, Goto, ReturnNil, ReturnErr
  <2>3. job' = None \/ (job'.name = job.name /\ job'.cr = job.cr)
    BY <2>1, <2>2 DEF Jobs
  <2> QED
    BY <1>1, <2>1, <2>3
<1> QED
  BY <1>3, <1>4, <1>5, <1>6, <1>7, <1>8, <1>9, <1>10 DEF Step, User, Informed

\* A write touches one secret, and tells its old and its new owner.
LEMMA WriteTells ==
    ASSUME TypeOK, NEW s \in SecretNames, NEW new, Write(s, new)
    PROVE  /\ secret'[s] = new
           /\ notices'[s] = notices[s] \union {x.owner : x \in {secret[s], new} \ {None}}
           /\ \A t \in SecretNames \ {s} : secret'[t] = secret[t] /\ notices'[t] = notices[t]
BY DEF Write, TypeOK

\* What a step may do to the secrets and to what is known of them.
SecretRemoved == \E s \in SecretNames : secret[s] # None /\ Write(s, None)
PairStored == pc \in {"create", "update"} /\ Write(wanted.secret, BuiltSecret)

LEMMA SecretEffects ==
    ASSUME Step
    PROVE  \/ UNCHANGED <<secret, secretCache, notices>>
           \/ UNCHANGED secretCache /\ (SecretRemoved \/ PairStored)
           \/ \E s \in SecretNames : DeliverSecret(s)
           \/ Relist
<1>1. CASE User
  BY <1>1 DEF User, CreateCR, EditCR, DeleteCR, DeleteSecret, cacheVars, SecretRemoved
<1>2. CASE Informed
  BY <1>2 DEF Informed, DeliverCR, GarbageCollect, Orphan, Resync, storeVars, cacheVars,
              SecretRemoved
<1>3. CASE Elsewhere \/ Refused \/ \E n \in Names : Load(n)
  BY <1>3 DEF Elsewhere, Refused, Load, storeVars, cacheVars
<1>4. CASE Worker
  BY <1>4 DEF Worker, GetSecret, Issue, Create, Update, storeVars, cacheVars, PairStored
<1> QED
  BY <1>1, <1>2, <1>3, <1>4 DEF Step

LEMMA SecretsKept ==
    ASSUME TypeOK, PairWhole, SpecsOwn, SecretsOwn, CacheLags, Step
    PROVE  SecretsOwn' /\ CacheLags'
<1> USE DEF SecretsOwn, CacheLags, Users
<1>1. CASE UNCHANGED <<secret, secretCache, notices>>
  BY <1>1
<1>2. ASSUME NEW s \in SecretNames, secret[s] # None, Write(s, None), UNCHANGED secretCache
      PROVE  SecretsOwn' /\ CacheLags'
  <2>1. notices'[s] = notices[s] \union {secret[s].owner}
    BY <1>2, WriteTells
  <2> QED
    BY <1>2, <2>1, WriteTells
<1>3. CASE PairStored /\ UNCHANGED secretCache
  <2> DEFINE s == wanted.secret
  <2>1. /\ s \in SecretNames /\ job \in Jobs /\ job # None
        /\ job.name \in Names /\ wanted \in Choices[job.name]
    BY <1>3, JobTyped, NoneAssumption DEF PairStored, SpecsOwn, Own, wanted
  <2>2. BuiltSecret \in Secrets /\ BuiltSecret # None /\ BuiltSecret.owner = job.name
    BY <1>3, <2>1, JobTyped, NoneAssumption DEF PairStored, PairWhole, BuiltSecret, Secrets
  <2>3. job.name \in Users(s)
    BY <2>1
  <2>4. /\ secret'[s].owner = job.name
        /\ job.name \in notices'[s] /\ notices'[s] \subseteq Users(s)
    <3>1. secret'[s] = BuiltSecret
          /\ notices'[s] = notices[s] \union {x.owner : x \in {secret[s], BuiltSecret} \ {None}}
      BY <1>3, <2>1, WriteTells DEF PairStored
    <3>2. secret[s] # None => secret[s].owner \in Users(s)
      BY <2>1
    <3> QED
      BY <2>1, <2>2, <2>3, <3>1, <3>2
  <2>5. \A t \in SecretNames \ {s} : secret'[t] = secret[t] /\ notices'[t] = notices[t]
    BY <1>3, <2>1, WriteTells DEF PairStored
  <2> QED
    BY <1>3, <2>1, <2>3, <2>4, <2>5
<1>4. ASSUME NEW s \in SecretNames, DeliverSecret(s)
      PROVE  SecretsOwn' /\ CacheLags'
  BY <1>4 DEF DeliverSecret, TypeOK
<1>5. CASE Relist
  BY <1>5 DEF Relist
<1> QED
  BY <1>1, <1>2, <1>3, <1>4, <1>5, SecretEffects DEF SecretRemoved

\* A resource keeps its uid, and a new one gets a uid that was never given out.
LEMMA UidEffects ==
    ASSUME TypeOK, Step
    PROVE  \A n \in Names : cr'[n] # None =>
             \/ cr[n] # None /\ cr'[n].uid = cr[n].uid
             \/ /\ cr[n] = None /\ cr'[n].uid = ops + 1 /\ ops' = ops + 1
                /\ \A m \in Names \ {n} : cr'[m] = cr[m]
                /\ UNCHANGED <<secret, crCache, job>>
<1>1. CASE UNCHANGED cr
  BY <1>1
<1>2. ASSUME NEW n \in Names, NEW x \in Choices[n], CreateCR(n, x) \/ EditCR(n, x)
      PROVE  \A m \in Names : cr'[m] # None =>
               \/ cr[m] # None /\ cr'[m].uid = cr[m].uid
               \/ /\ cr[m] = None /\ cr'[m].uid = ops + 1 /\ ops' = ops + 1
                  /\ \A k \in Names \ {m} : cr'[k] = cr[k]
                  /\ UNCHANGED <<secret, crCache, job>>
  <2>1. CASE CreateCR(n, x)
    BY <2>1 DEF CreateCR, Operation, TypeOK, cacheVars, workerVars
  <2>2. CASE EditCR(n, x)
    <3>1. cr[n] \in CRs
      BY <2>2 DEF EditCR, TypeOK
    <3>2. cr' = [cr EXCEPT ![n] = [cr[n] EXCEPT !.spec = x]]
      BY <2>2 DEF EditCR
    <3> QED
      BY <3>1, <3>2, <2>2 DEF EditCR, TypeOK, CRs
  <2> QED
    BY <1>2, <2>1, <2>2
<1>3. ASSUME NEW n \in Names, DeleteCR(n)
      PROVE  \A m \in Names : cr'[m] # None => cr[m] # None /\ cr'[m].uid = cr[m].uid
  BY <1>3 DEF DeleteCR, TypeOK
<1>4. CASE Informed \/ Elsewhere \/ Refused \/ Relist \/ Worker \/ \E n \in Names : Load(n)
  BY <1>1, <1>4 DEF Informed, DeliverCR, DeliverSecret, GarbageCollect, Resync, Elsewhere, Refused,
     Relist, Load, Worker, GetSecret, Issue, Create, Update, storeVars
<1>5. CASE \E s \in SecretNames : DeleteSecret(s)
  BY <1>1, <1>5 DEF DeleteSecret
<1> QED
  BY <1>2, <1>3, <1>4, <1>5 DEF Step, User

\* What it takes for a uid to be known for n's.
LEMMA UidsAre ==
    ASSUME NEW n \in Names
    PROVE  \A u : u \in Uids(n) <=>
             \/ cr[n] # None /\ cr[n].uid = u
             \/ crCache[n] # None /\ crCache[n].uid = u
             \/ \E s \in SecretNames : secret[s] # None /\ secret[s].owner = n /\ secret[s].uid = u
             \/ job # None /\ job.name = n /\ job.cr.uid = u
BY DEF Uids

\* Uids pass from one place to another only under their resource's name.
LEMMA UidsPassOn ==
    ASSUME TypeOK, TypeOK', PairWhole, Step, NEW n \in Names,
           NEW u \in Uids(n)', u \notin Uids(n)
    PROVE  /\ cr[n] = None /\ u = ops + 1 /\ ops' = ops + 1
           /\ \A m \in Names \ {n} : Uids(m)' = Uids(m)
<1>1. \/ cr'[n] # None /\ cr'[n].uid = u
      \/ crCache'[n] # None /\ crCache'[n].uid = u
      \/ \E s \in SecretNames : secret'[s] # None /\ secret'[s].owner = n /\ secret'[s].uid = u
      \/ job' # None /\ job'.name = n /\ job'.cr.uid = u
  BY DEF Uids
<1>2. CASE cr'[n] # None /\ cr'[n].uid = u
  <2>1. ~(cr[n] # None /\ cr'[n].uid = cr[n].uid)
    BY <1>2, UidsAre
  <2>2. /\ cr[n] = None /\ cr'[n].uid = ops + 1 /\ ops' = ops + 1
        /\ \A m \in Names \ {n} : cr'[m] = cr[m]
        /\ UNCHANGED <<secret, crCache, job>>
    BY <1>2, <2>1, UidEffects
  <2>3. \A m \in Names \ {n} : Uids(m)' = Uids(m)
    BY <2>2 DEF Uids
  <2> QED
    BY <1>2, <2>2, <2>3
<1>3. CASE crCache'[n] # None /\ crCache'[n].uid = u
  <2>1. crCache'[n] \in {crCache[n], cr[n]}
    <3>1. CASE User \/ Worker \/ Refused \/ Elsewhere \/ Relist \/ \E m \in Names : Load(m)
      BY <3>1 DEF User, CreateCR, EditCR, DeleteCR, DeleteSecret, Worker, GetSecret, Issue, Create,
         Update, Refused, Elsewhere, Relist, Load, cacheVars
    <3>2. CASE Informed
      BY <3>2 DEF Informed, DeliverCR, DeliverSecret, GarbageCollect, Resync, cacheVars, TypeOK
    <3> QED
      BY <3>1, <3>2 DEF Step
  <2> QED
    BY <1>3, <2>1, UidsAre
<1>4. ASSUME NEW s \in SecretNames, secret'[s] # None, secret'[s].owner = n, secret'[s].uid = u
      PROVE  FALSE
  <2>1. secret'[s] # secret[s]
    BY <1>4, UidsAre
  <2>2. PairStored
    BY <1>4, <2>1, SecretEffects, WriteTells DEF SecretRemoved, DeliverSecret, Relist
  <2>3. wanted.secret \in SecretNames /\ job # None
    BY <2>2, JobTyped, NoneAssumption DEF PairStored
  <2>4. s = wanted.secret /\ secret'[s] = BuiltSecret
    BY <2>1, <2>2, <2>3, WriteTells DEF PairStored
  <2>5. job.name = n /\ job.cr.uid = u
    BY <1>4, <2>4 DEF BuiltSecret
  <2> QED
    BY <2>3, <2>5, UidsAre
<1>5. ASSUME job' # None, job'.name = n, job'.cr.uid = u
      PROVE  FALSE
  <2>1. job' # job
    BY <1>5, UidsAre
  <2>2. CASE Worker \/ Refused
    <3>1. job \in Jobs /\ job # None
      BY <2>2, JobTyped, NoneAssumption
         DEF Worker, GetSecret, Issue, Create, Update, Refused
    <3>2. job' = [job EXCEPT !.pair = NewPair]
      BY <1>5, <2>1, <2>2
         DEF Worker, GetSecret, Issue, Create, Update, Refused, Goto, ReturnNil, ReturnErr
    <3>3. job'.name = job.name /\ job'.cr = job.cr
      BY <3>1, <3>2 DEF Jobs
    <3> QED
      BY <1>5, <3>1, <3>3, UidsAre
  <2>3. ASSUME NEW m \in Names, Load(m)
        PROVE  FALSE
    <3>1. crCache[m] # None /\ job' = [name |-> m, cr |-> crCache[m], pair |-> None]
      BY <2>1, <2>3 DEF Load, workerVars
    <3> QED
      BY <1>5, <3>1, UidsAre
  <2>4. CASE User \/ Informed \/ Relist \/ Elsewhere
    BY <1>5, <2>1, <2>4 DEF User, CreateCR, EditCR, DeleteCR, DeleteSecret, Informed, DeliverCR,
       DeliverSecret, GarbageCollect, Resync, Relist, Elsewhere, workerVars
  <2> QED
    BY <2>2, <2>3, <2>4 DEF Step
<1> QED
  BY <1>1, <1>2, <1>3, <1>4, <1>5

LEMMA OpsGrow == ASSUME TypeOK, Step, Bounded' PROVE ops' >= ops /\ ops \in Nat
<1>1. ops' \in {ops, ops + 1} \/ ops' >= ops
  BY DEF Step, User, CreateCR, EditCR, DeleteCR, DeleteSecret, Operation, Worker, GetSecret, Issue,
     Create, Update, Refused, Load, Informed, DeliverCR, DeliverSecret, GarbageCollect, Resync,
     Relist, Elsewhere
<1> QED
  BY <1>1, BoundsAssumption DEF TypeOK, Bounded

LEMMA UidsKept ==
    ASSUME TypeOK, TypeOK', PairWhole, UidsApart, Step, Bounded'
    PROVE  UidsApart'
<1> SUFFICES ASSUME NEW n \in Names
             PROVE  /\ Uids(n)' \subseteq 0 .. ops'
                    /\ \A m \in Names \ {n} : Uids(m)' \intersect Uids(n)' = {}
  BY DEF UidsApart
<1>1. ops' >= ops /\ ops \in Nat /\ ops' \in Nat
  BY OpsGrow, BoundsAssumption DEF Bounded
<1>2. \A k \in Names : Uids(k) \subseteq 0 .. ops
  BY DEF UidsApart
<1>3. Uids(n)' \subseteq 0 .. ops'
  BY <1>1, <1>2, UidsPassOn
<1>4. ASSUME NEW m \in Names \ {n}, NEW u \in Uids(m)', u \in Uids(n)'
      PROVE  FALSE
  <2>1. CASE u \in Uids(m) /\ u \in Uids(n)
    BY <2>1 DEF UidsApart
  <2>2. CASE u \notin Uids(n)
    BY <1>1, <1>2, <1>4, <2>2, UidsPassOn
  <2>3. CASE u \notin Uids(m)
    BY <1>1, <1>2, <1>4, <2>3, UidsPassOn
  <2> QED
    BY <2>1, <2>2, <2>3
<1> QED
  BY <1>3, <1>4

\* An orphan stays one: its owner's uid does not come again.
LEMMA OrphansStay ==
    ASSUME TypeOK, TypeOK', Grounded, Step, NEW s \in SecretNames, Orphan(s), secret'[s] = secret[s]
    PROVE  Orphan(s)'
<1>1. secret[s].owner \in Names /\ secret[s].uid <= ops /\ ops \in Nat
  <2>1. secret[s] \in Secrets
    BY DEF Orphan, TypeOK
  <2>2. secret[s].uid \in Uids(secret[s].owner)
    BY <2>1 DEF Orphan, Uids, Secrets
  <2> QED
    BY <2>1, <2>2, BoundsAssumption DEF Secrets, Grounded, UidsApart, TypeOK
<1>2. \A n \in Names : cr'[n] # None => cr'[n].uid # secret[s].uid
  <2> TAKE n \in Names
  <2>1. cr[n] # None => cr[n].uid # secret[s].uid
    BY DEF Orphan, LiveUids
  <2> QED
    BY <1>1, <2>1, UidEffects
<1> QED
  BY <1>2 DEF Orphan, LiveUids

LEMMA GroundedKept ==
    ASSUME TypeOK, TypeOK', PairWhole, Grounded, Step, Bounded'
    PROVE  Grounded'
BY SpecsKept, SecretsKept, UidsKept DEF Grounded

\* What is in the queue leaves it by Load only, or when all is listed anew.
LEMMA QueueEffects ==
    ASSUME Step, ~Relist
    PROVE  queue \subseteq queue' \/ \E n \in Names : Load(n)
BY DEF Step, User, CreateCR, EditCR, DeleteCR, DeleteSecret, Worker, GetSecret, Issue, Create,
   Update, Refused, Goto, ReturnNil, ReturnErr, Informed, DeliverCR, DeliverSecret,
   GarbageCollect, Resync, Elsewhere, workerVars

LEMMA CacheEffects ==
    ASSUME TypeOK, Step, ~Relist, NEW n \in Names
    PROVE  crCache'[n] = crCache[n] \/ n \in queue'
<1>1. CASE Informed
  BY <1>1 DEF Informed, DeliverCR, DeliverSecret, GarbageCollect, Resync, cacheVars, TypeOK
<1>2. CASE User \/ Worker \/ Refused \/ Elsewhere \/ \E m \in Names : Load(m)
  BY <1>2 DEF User, CreateCR, EditCR, DeleteCR, DeleteSecret, Worker, GetSecret, Issue, Create,
     Update, Refused, Elsewhere, Load, cacheVars
<1> QED
  BY <1>1, <1>2 DEF Step

\* A job keeps its name and the resource it works for.
LEMMA JobEffects ==
    ASSUME TypeOK, Step
    PROVE  \/ UNCHANGED job
           \/ \E n \in Names : Load(n)
           \/ job # None /\ (job' = None \/ (job'.name = job.name /\ job'.cr = job.cr))
           \/ Relist
<1>1. CASE Worker \/ Refused
  <2>1. job \in Jobs /\ job # None
    BY <1>1, JobTyped, NoneAssumption DEF Worker, GetSecret, Issue, Create, Update, Refused
  <2>2. job' \in {None, job} \/ job' = [job EXCEPT !.pair = NewPair]
    BY <1>1 DEF Worker, GetSecret, Issue, Create, Update, Refused, Goto, ReturnNil, ReturnErr
  <2> QED
    BY <2>1, <2>2 DEF Jobs
<1>2. CASE User \/ Informed \/ Elsewhere
  BY <1>2 DEF User, CreateCR, EditCR, DeleteCR, DeleteSecret, Informed, DeliverCR, DeliverSecret,
     GarbageCollect, Resync, Elsewhere, workerVars
<1> QED
  BY <1>1, <1>2 DEF Step

LEMMA FreshKept ==
    ASSUME TypeOK, TypeOK', JobFresh, Step
    PROVE  JobFresh'
<1>1. CASE Relist
  BY <1>1 DEF Relist, JobFresh
<1>2. ASSUME NEW n \in Names, Load(n)
      PROVE  JobFresh'
  BY <1>2, NoneAssumption DEF Load, JobFresh, cacheVars, workerVars, TypeOK
<1>3. CASE ~Relist /\ (~\E n \in Names : Load(n)) /\ job' # None
  <2>1. job # None /\ job'.name = job.name /\ job'.cr = job.cr
    BY <1>3, JobEffects
  <2>2. job.name \in Names /\ queue \subseteq queue'
    BY <1>3, <2>1, JobTyped, QueueEffects DEF TypeOK
  <2> QED
    BY <1>3, <2>1, <2>2, CacheEffects DEF JobFresh
<1> QED
  BY <1>1, <1>2, <1>3 DEF JobFresh

\* Whoever loses or gets a secret of the name s hears of it.
LEMMA OwnerTold ==
    ASSUME TypeOK, PairWhole, SpecsOwn, SecretsOwn, Step, ~Relist, NEW s \in SecretNames
    PROVE  /\ secret'[s] # secret[s] /\ secret[s] # None => secret[s].owner \in notices'[s]
           /\ PairStored /\ s = wanted.secret => job.name \in notices'[s]
           /\ \A n \in notices[s] : n \in notices'[s] \/ n \in queue'
<1>1. PairStored => /\ BuiltSecret # None /\ BuiltSecret.owner = job.name
                    /\ wanted.secret \in SecretNames
  <2> SUFFICES ASSUME PairStored
               PROVE  /\ BuiltSecret # None /\ BuiltSecret.owner = job.name
                      /\ wanted.secret \in SecretNames
    OBVIOUS
  <2>1. BuiltSecret \in Secrets
    BY JobTyped DEF PairStored, PairWhole, BuiltSecret, Secrets
  <2> QED
    BY <2>1, JobTyped, NoneAssumption DEF BuiltSecret, PairStored
<1>2. CASE SecretRemoved
  BY <1>2, WriteTells, <1>1 DEF SecretRemoved, PairStored
<1>3. CASE PairStored
  BY <1>1, <1>3, WriteTells DEF PairStored
<1>4. CASE ~PairStored /\ \E t \in SecretNames : DeliverSecret(t)
  BY <1>4 DEF DeliverSecret, TypeOK
<1>5. CASE ~PairStored /\ UNCHANGED <<secret, secretCache, notices>>
  BY <1>5
<1> QED
  BY <1>2, <1>3, <1>4, <1>5, SecretEffects

\* What accounts for a resource, other than a job, is not lost before another
\* look at it is due.
LEMMA AccountKept ==
    ASSUME TypeOK, TypeOK', PairWhole, Grounded, Unshared, Usable, Step, Bounded', ~Relist,
           NEW n \in Names, NEW x, crCache[n] = x, crCache'[n] = x, x # None,
           \/ Shows(n, x) \/ n \in queue \/ n \in notices[x.spec.secret]
           \/ Orphan(x.spec.secret) \/ cr[n] = None \/ cr[n].uid # x.uid
    PROVE  Accounted(n, x)'
<1> DEFINE s == x.spec.secret
<1>1. x \in CRs /\ x.spec \in Choices[n] /\ Admitted(x.spec)
  BY DEF TypeOK, Grounded, SpecsOwn, Own
<1>2. s \in SecretNames /\ (x.spec.client \/ x.spec.server)
  <2>1. x.spec \in AllSpecs
    BY <1>1, ChoicesAssumption
  <2> QED
    BY <1>1, <2>1 DEF AllSpecs, Usable
<1>3. Users(s) = {n}
  BY <1>1, <1>2 DEF Users, Unshared
<1>4. secret[s] # None => secret[s].owner = n
  BY <1>2, <1>3 DEF Grounded, SecretsOwn
<1>5. secret'[s] # secret[s] /\ secret[s] # None => n \in notices'[s]
  BY <1>2, <1>4, OwnerTold DEF Grounded
<1>6. CASE Shows(n, x) \/ Orphan(s)
  <2>1. secret[s] # None
    BY <1>6 DEF Shows, Orphan
  <2>2. CASE secret'[s] = secret[s]
    BY <1>2, <1>6, <2>2, OrphansStay DEF Shows, Accounted
  <2> QED
    BY <1>5, <2>1, <2>2 DEF Accounted
<1>7. CASE n \in notices[s]
  BY <1>2, <1>7, OwnerTold DEF Grounded, Accounted
<1>8. CASE n \in queue
  <2>1. CASE Load(n)
    <3>1. CASE UNCHANGED workerVars
      BY <1>8, <3>1 DEF Accounted, workerVars
    <3>2. CASE job' = [name |-> n, cr |-> x, pair |-> None] /\ pc' = "get"
      BY <1>2, <3>2 DEF Accounted, TypeOK
    <3> QED
      BY <1>2, <2>1, <3>1, <3>2 DEF Load
  <2>2. CASE ~Load(n)
    <3>1. n \in queue'
      BY <1>8, <2>2, QueueEffects DEF Load
    <3> QED
      BY <3>1 DEF Accounted
  <2> QED
    BY <2>1, <2>2
<1>9. CASE cr[n] = None \/ cr[n].uid # x.uid
  <2>1. x.uid \in 0 .. ops /\ ops \in Nat
    BY UidsAre, BoundsAssumption DEF Grounded, UidsApart, TypeOK
  <2>2. cr'[n] = None \/ cr'[n].uid # x.uid
    BY <1>9, <2>1, UidEffects
  <2> QED
    BY <2>2 DEF Accounted
<1> QED
  BY <1>6, <1>7, <1>8, <1>9

\* A secret that is found in the cache is the resource's own, unless its owner
\* is due to be told of a change, or the resource, or the secret, is outdated.
LEMMA FoundIsAccounted ==
    ASSUME TypeOK, Grounded, Unshared, NEW n \in Names, NEW x, crCache[n] = x, x # None,
           secretCache[x.spec.secret] # None
    PROVE  \/ Shows(n, x) \/ n \in notices[x.spec.secret]
           \/ Orphan(x.spec.secret) \/ cr[n] = None \/ cr[n].uid # x.uid
<1> DEFINE s == x.spec.secret
<1>1. x.spec \in Choices[n] /\ s \in SecretNames /\ n \in Users(s)
  <2>1. x.spec \in Choices[n]
    BY DEF Grounded, SpecsOwn, Own
  <2>2. s \in SecretNames
    BY <2>1, ChoicesAssumption DEF AllSpecs
  <2> QED
    BY <2>1, <2>2 DEF Users
<1>2. Users(s) = {n}
  BY <1>1 DEF Unshared
<1>3. CASE secretCache[s] # secret[s]
  BY <1>1, <1>2, <1>3 DEF Grounded, CacheLags, SecretsOwn
<1>4. CASE secretCache[s] = secret[s] /\ ~Orphan(s)
  <2>1. secret[s] # None /\ secret[s].owner = n
    BY <1>1, <1>2, <1>4 DEF Grounded, SecretsOwn
  <2>2. PICK m \in Names : cr[m] # None /\ cr[m].uid = secret[s].uid
    BY <1>4, <2>1 DEF Orphan, LiveUids
  <2>3. secret[s].uid \in Uids(n) /\ secret[s].uid \in Uids(m)
    BY <1>1, <2>1, <2>2, UidsAre
  <2>4. m = n
    BY <2>3 DEF Grounded, UidsApart
  <2> QED
    BY <2>1, <2>2, <2>4 DEF Shows
<1> QED
  BY <1>3, <1>4

LEMMA NothingForgottenKept ==
    ASSUME TypeOK, TypeOK', PairWhole, Unforgotten, Unshared, Usable, ~CacheReadsFail,
           Step, Bounded'
    PROVE  NothingForgotten'
<1> SUFFICES ASSUME NEW n \in Names, crCache'[n] # None
             PROVE  Accounted(n, crCache[n])'
  BY DEF NothingForgotten
<1>0. TypeOK /\ Grounded
  BY DEF Unforgotten
<1>1. CASE Relist
  BY <1>1 DEF Relist, Listed, Accounted
<1>2. CASE ~Relist /\ crCache'[n] # crCache[n]
  BY <1>2, CacheEffects DEF Accounted
<1>3. ASSUME ~Relist, crCache'[n] = crCache[n]
      PROVE  Accounted(n, crCache[n])'
  <2> DEFINE x == crCache[n]
             s == x.spec.secret
  <2>1. Accounted(n, x)
    BY <1>3 DEF Unforgotten, NothingForgotten
  <2>2. CASE \/ Shows(n, x) \/ n \in queue \/ n \in notices[s]
             \/ Orphan(s) \/ cr[n] = None \/ cr[n].uid # x.uid
    BY <1>0, <1>3, <2>2, AccountKept
  <2>3. CASE job # None /\ job.name = n /\ job' # None
    <3>1. ~\E m \in Names : Load(m)
      BY <2>3 DEF Load, TypeOK
    <3>2. job'.name = n
      BY <1>3, <2>3, <3>1, JobEffects
    <3> QED
      BY <2>3, <3>2 DEF Accounted
  <2>4. CASE job # None /\ job.name = n /\ job' = None /\ n \notin queue
    <3>1. job.cr = x /\ wanted.secret = s /\ pc # "idle"
      BY <2>4 DEF Unforgotten, JobFresh, wanted, TypeOK
    <3>2. s \in SecretNames
      BY <3>1, JobTyped
    <3>3. CASE ReturnErr
      BY <2>4, <3>3 DEF ReturnErr, Accounted
    <3>4. CASE PairStored
      BY <1>0, <1>3, <2>4, <3>1, <3>2, <3>4, OwnerTold DEF Grounded, Accounted
    <3>5. CASE GetSecret
      <4>1. secretCache[s] # None
        BY <2>4, <3>1, <3>5 DEF GetSecret, Goto
      <4> QED
        BY <1>0, <1>3, <2>2, <4>1, FoundIsAccounted
    <3>6. CASE /\ ~GetSecret /\ (Worker \/ Refused)
      <4>1. ReturnErr \/ PairStored
        BY <2>4, <3>1, <3>6
           DEF Worker, Issue, Create, Update, Refused, Goto, ReturnNil, PairStored, TypeOK
      <4> QED
        BY <3>3, <3>4, <4>1
    <3>7. CASE User \/ Informed \/ Elsewhere \/ \E m \in Names : Load(m)
      BY <2>4, <3>1, <3>7
         DEF User, CreateCR, EditCR, DeleteCR, DeleteSecret, Informed, DeliverCR, DeliverSecret,
             GarbageCollect, Resync, Elsewhere, Load, workerVars
    <3> QED
      BY <1>3, <3>3, <3>4, <3>5, <3>6, <3>7 DEF Step
  <2> QED
    BY <2>1, <2>2, <2>3, <2>4 DEF Accounted
<1> QED
  BY <1>1, <1>2, <1>3

\* A process that ends leaves the types and what is known of the secrets as
\* they are; what it had to do it forgets.
Ended == /\ pc' = "idle" /\ job' = None /\ queue' = {}
         /\ UNCHANGED <<storeVars, cacheVars>> /\ ops' >= ops

LEMMA EndedKept ==
    ASSUME TypeOK, Grounded, Ended, Bounded'
    PROVE  TypeOK' /\ PairWhole' /\ Grounded'
<1>1. TypeOK' /\ PairWhole'
  BY DEF Ended, TypeOK, PairWhole, Bounded, storeVars, cacheVars
<1>2. SpecsOwn' /\ SecretsOwn' /\ CacheLags'
  BY DEF Ended, Grounded, SpecsOwn, Own, SecretsOwn, CacheLags, storeVars, cacheVars
<1>3. \A n \in Names : Uids(n)' \subseteq Uids(n)
  BY DEF Ended, Uids, storeVars, cacheVars
<1>4. ops' >= ops /\ ops \in Nat /\ ops' \in Nat
  BY <1>1, BoundsAssumption DEF Ended, TypeOK, Bounded
<1>5. \A n \in Names : Uids(n)' \subseteq 0 .. ops'
  BY <1>3, <1>4 DEF Grounded, UidsApart
<1>6. UidsApart'
  BY <1>3, <1>5 DEF Grounded, UidsApart
<1> QED
  BY <1>1, <1>2, <1>6 DEF Grounded

\* One that starts looks at everything there is.
LEMMA RelistAccounts == Relist => JobFresh' /\ NothingForgotten'
BY DEF Relist, JobFresh, NothingForgotten, Listed, Accounted

\* A job that is about to store a pair was so before, or has just been issued one.
LEMMA PairEffects ==
    ASSUME TypeOK, Step \/ Ended, pc' \in {"create", "update"}
    PROVE  \/ pc \in {"create", "update"} /\ job' = job
           \/ /\ pc = "issue" /\ pc' = "create" /\ CanIssue(IssuingCA)
              /\ job'.cr = job.cr /\ job'.pair = NewPair
<1>1. CASE User \/ Informed \/ Elsewhere \/ \E n \in Names : Load(n)
  BY <1>1 DEF User, CreateCR, EditCR, DeleteCR, DeleteSecret, Informed, DeliverCR, DeliverSecret,
              GarbageCollect, Resync, Elsewhere, Load, workerVars
<1>2. CASE Relist \/ Ended \/ Refused \/ GetSecret
  BY <1>2 DEF Relist, Ended, Refused, GetSecret, ReturnNil, ReturnErr, Goto
<1>3. CASE Issue
  <2>1. CanIssue(IssuingCA) /\ pc' = "create" /\ job' = [job EXCEPT !.pair = NewPair]
    BY <1>3 DEF Issue, ReturnErr
  <2>2. job \in Jobs
    BY <1>3, JobTyped DEF Issue
  <2> QED
    BY <1>3, <2>1, <2>2 DEF Issue, Jobs
<1>4. CASE Create \/ Update
  BY <1>4 DEF Create, Update, ReturnNil, ReturnErr, Goto
<1> QED
  BY <1>1, <1>2, <1>3, <1>4 DEF Step, Worker

LEMMA UnforgottenInit == Init => Unforgotten
<1>1. Init => Grounded
  BY NoneAssumption DEF Init, Grounded, SpecsOwn, Own, SecretsOwn, CacheLags, UidsApart, Uids
<1> QED
  BY <1>1 DEF Init, Unforgotten, JobFresh, NothingForgotten

LEMMA AtRestServed ==
    ASSUME TypeOK, NothingForgotten, Quiet, NEW n \in Names, cr[n] # None,
           cr[n].spec.secret \in SecretNames
    PROVE  Served(n)
BY DEF NothingForgotten, Accounted, Quiet, Served, TypeOK

\* The webhook sees to it that a resource has a usage.
LEMMA WebhookSuffices == WebhookOn => Usable
<1> SUFFICES ASSUME WebhookOn, NEW n \in Names, NEW x \in Choices[n], Admitted(x)
             PROVE  x.client \/ x.server
  BY DEF Usable
<1>1. x \in AllSpecs
  BY ChoicesAssumption
<1> QED
  BY <1>1 DEF AllSpecs, Admitted

\* At rest, every resource has the secret it asks for and owns it: a secret that
\* Reconcile took for granted was the resource's own, or an event is under way
\* or the garbage collector has work to do.  It holds for resources with a
\* usage each and secrets of their own, if the cache answers.
THEOREM AtRestAllServed ==
    ASSUME Unshared, Usable, ~CacheReadsFail
    PROVE  Spec => []QuietMeansServed
<1>1. Init => Unforgotten
  BY UnforgottenInit
<1>2. ASSUME Inductive, Inductive', Unforgotten, [Next]_vars
      PROVE  Unforgotten'
  <2>1. TypeOK /\ TypeOK' /\ PairWhole /\ Step /\ Bounded'
    BY <1>2, NextIsStep DEF Inductive
  <2> QED
    BY <1>2, <2>1, GroundedKept, FreshKept, NothingForgottenKept DEF Unforgotten
<1>3. Inductive /\ Unforgotten => QuietMeansServed
  <2> SUFFICES ASSUME Inductive, Unforgotten, Quiet, NEW n \in Names, cr[n] # None
               PROVE  Served(n)
    BY DEF QuietMeansServed
  <2>1. cr[n].spec.secret \in SecretNames
    BY ChoicesAssumption DEF Unforgotten, Grounded, SpecsOwn, Own, AllSpecs
  <2> QED
    BY <2>1, AtRestServed DEF Inductive, Unforgotten
<1> QED
  BY <1>1, <1>2, <1>3, InductiveInvariant, PTL DEF Spec
=============================================================================
