--------------------------- MODULE ClientCAProofs ---------------------------
(***************************************************************************)
(* Theorems about ClientCA, for every value of its constants.              *)
(***************************************************************************)
EXTENDS ClientCA, TLAPS

\* Writing an object of the right kind keeps the secrets and the notices typed.
LEMMA WriteTyped ==
    ASSUME TypeOK, NEW s \in SecretNames, NEW new \in Secrets \union {None}, Write(s, new)
    PROVE  /\ secret' \in [SecretNames -> Secrets \union {None}]
           /\ notices' \subseteq Names
<1>1. Owners(new) \subseteq Names
  BY DEF Owners, Secrets, Owned
<1>2. Owners(secret[s]) \subseteq Names
  BY DEF Owners, Secrets, Owned, TypeOK
<1> QED
  BY <1>1, <1>2 DEF Write, TypeOK

\* While Reconcile runs its job is typed, and so is the secret it builds.
LEMMA JobTyped ==
    ASSUME TypeOK, pc # "idle"
    PROVE  /\ job \in Jobs /\ job.name \in Names /\ job.cr \in CRs
           /\ job.cr.cn \in CNs /\ job.cr.secret \in SecretNames
           /\ BuiltSecret \in Secrets
BY NoneAssumption DEF TypeOK, Jobs, CRs, BuiltSecret, Secrets, Owned

LEMMA ListedTyped ==
    ASSUME TypeOK, NEW store
    PROVE  Listed(store) \subseteq Names
<1>1. \A s \in SecretNames : Owners(secret[s]) \subseteq Names
  BY DEF Owners, Secrets, Owned, TypeOK
<1> QED
  BY <1>1 DEF Listed

\* Of the requests of one call any number up to Tries adds a root; an answered call
\* leaves the certificate of the last in the job.
LEMMA Generated ==
    ASSUME TypeOK, GenerateRoot
    PROVE  \E n \in 0 .. Tries :
              /\ roots' = [roots EXCEPT ![job.cr.cn] = roots[job.cr.cn] + n]
              /\ mount' = [mount EXCEPT ![job.cr.cn] =
                              IF n = 0 THEN mount[job.cr.cn] ELSE mount[job.cr.cn] \union {"root"}]
              /\ \/ /\ n > 0 /\ pc' = "urls" /\ UNCHANGED queue
                    /\ job' = [job EXCEPT !.cert = [cn |-> job.cr.cn, root |-> roots[job.cr.cn] + n]]
                 \/ ReturnErr
<1>1. CASE NoFault
  <2>1. ~Fault
    BY <1>1 DEF Fault, NoFault, TypeOK
  <2>2. /\ roots' = [roots EXCEPT ![job.cr.cn] = roots[job.cr.cn] + 1]
        /\ mount' = [mount EXCEPT ![job.cr.cn] = mount[job.cr.cn] \union {"root"}]
        /\ pc' = "urls" /\ UNCHANGED queue
        /\ job' = [job EXCEPT !.cert = [cn |-> job.cr.cn, root |-> roots[job.cr.cn] + 1]]
    BY <2>1 DEF GenerateRoot, Generate
  <2>3. 1 \in 0 .. Tries /\ 1 > 0 /\ 1 # 0
    BY DEF Tries
  <2> QED
    BY <2>2, <2>3
<1> QED
  BY <1>1 DEF GenerateRoot, Generate, Tries

\* Init and every step keep the variables in their ranges.
LEMMA TypeInit == Init => TypeOK
BY BoundsAssumption DEF Init, TypeOK, PCs, SetupSteps

LEMMA TypeStep == TypeOK /\ [Next]_vars => TypeOK'
<1> SUFFICES ASSUME TypeOK, [Next]_vars
             PROVE  TypeOK'
  OBVIOUS
<1> USE BoundsAssumption, NoneAssumption
<1>1. CASE UNCHANGED vars
  BY <1>1 DEF vars, TypeOK
<1>2. ASSUME NEW n \in Names, NEW cn \in CNs, NEW s \in SecretNames, NEW k \in CertNames,
             CreateCR(n, cn, s, k) \/ EditCR(n, cn, s, k)
      PROVE  TypeOK'
  BY <1>2 DEF CreateCR, EditCR, NewCR, CRs, Operation, TypeOK, vaultVars, workerVars
<1>3. ASSUME NEW n \in Names, DeleteCR(n)
      PROVE  TypeOK'
  BY <1>3 DEF DeleteCR, Operation, TypeOK, vaultVars, workerVars
<1>4. ASSUME NEW s \in SecretNames, DeleteSecret(s) \/ ForeignWrite(s)
      PROVE  TypeOK'
  <2>1. Write(s, None) \/ Write(s, Foreign)
    BY <1>4 DEF DeleteSecret, ForeignWrite
  <2>2. /\ secret' \in [SecretNames -> Secrets \union {None}]
        /\ notices' \subseteq Names
    BY <2>1, WriteTyped DEF Secrets
  <2> QED
    BY <1>4, <2>2 DEF DeleteSecret, ForeignWrite, Operation, TypeOK, vaultVars, workerVars
<1>5. ASSUME NEW n \in Names, DeliverCR(n) \/ DeliverSecret(n)
      PROVE  TypeOK'
  BY <1>5 DEF DeliverCR, DeliverSecret, TypeOK, vaultVars
<1>6. ASSUME NEW s \in SecretNames, GarbageCollect(s)
      PROVE  TypeOK'
  BY <1>6, WriteTyped DEF GarbageCollect, TypeOK, vaultVars, workerVars
<1>7. CASE Resync
  BY <1>7, ListedTyped DEF Resync, TypeOK, apiVars, vaultVars
<1>8. CASE Restart
  BY <1>8, ListedTyped DEF Restart, Fault, TypeOK, vaultVars, PCs
<1>9. ASSUME NEW n \in Names, Load(n)
      PROVE  TypeOK'
  BY <1>9 DEF Load, Fault, NoFault, TypeOK, apiVars, vaultVars, workerVars, PCs, Jobs
<1>10. CASE ListMounts
  BY <1>10, JobTyped DEF ListMounts, Fault, NoFault, Goto, ReturnErr, TypeOK, PCs, SetupSteps,
                         apiVars, vaultVars
<1>11. ASSUME NEW step \in SetupSteps, NEW next \in PCs \ {"idle"}, SetUp(step, next)
       PROVE  TypeOK'
  <2>1. step # "idle"
    BY DEF SetupSteps
  <2> QED
    BY <1>11, <2>1, JobTyped DEF SetUp, Done, Fault, NoFault, Goto, ReturnErr, TypeOK, PCs,
                                 apiVars
<1>12. CASE Enable \/ Tune \/ ConfigureUrls \/ WriteRole
  BY <1>11, <1>12 DEF Enable, Tune, ConfigureUrls, WriteRole, PCs, SetupSteps
<1>13. CASE GenerateRoot
  <2> DEFINE cn == job.cr.cn
  <2>1. pc # "idle" /\ UNCHANGED <<apiVars, ops>> /\ (Fault \/ NoFault)
    BY <1>13 DEF GenerateRoot, Generate
  <2>2. cn \in CNs /\ job \in Jobs /\ roots[cn] \in Nat
    BY <2>1, JobTyped DEF TypeOK
  <2>3. PICK n \in 0 .. Tries :
           /\ roots' = [roots EXCEPT ![cn] = roots[cn] + n]
           /\ mount' = [mount EXCEPT ![cn] = IF n = 0 THEN mount[cn] ELSE mount[cn] \union {"root"}]
           /\ \/ /\ n > 0 /\ pc' = "urls" /\ UNCHANGED queue
                 /\ job' = [job EXCEPT !.cert = [cn |-> cn, root |-> roots[cn] + n]]
              \/ ReturnErr
    BY <1>13, Generated
  <2>4. roots' \in [CNs -> Nat] /\ mount' \in [CNs -> SUBSET SetupSteps]
    BY <2>2, <2>3 DEF TypeOK, SetupSteps, Tries
  <2>5. /\ pc' \in PCs /\ queue' \subseteq Names
        /\ job' \in Jobs \union {None} /\ (pc' = "idle" <=> job' = None)
    <3>1. CASE ReturnErr
      BY <2>2, <3>1 DEF ReturnErr, TypeOK, PCs, Jobs
    <3>2. CASE n > 0 /\ pc' = "urls" /\ UNCHANGED queue
               /\ job' = [job EXCEPT !.cert = [cn |-> cn, root |-> roots[cn] + n]]
      <4>1. [cn |-> cn, root |-> roots[cn] + n] \in Certs
        BY <2>2, <3>2 DEF Certs, Tries
      <4>2. job' \in Jobs
        BY <2>2, <3>2, <4>1 DEF Jobs
      <4> QED
        BY <3>2, <4>2 DEF TypeOK, PCs, SetupSteps
    <3> QED
      BY <2>3, <3>1, <3>2
  <2> QED
    BY <2>1, <2>4, <2>5 DEF TypeOK, apiVars, Fault, NoFault
<1>14. CASE ReadRootToken
  BY <1>14, JobTyped DEF ReadRootToken, Fault, NoFault, Goto, ReturnErr, TypeOK, PCs, SetupSteps,
                         Jobs, apiVars, vaultVars
<1>15. CASE DisableFlag
  BY <1>15, JobTyped DEF DisableFlag, Done, Fault, NoFault, Goto, TypeOK, PCs, SetupSteps, apiVars
<1>16. CASE ReadCaChain
  BY <1>16, JobTyped DEF ReadCaChain, DefaultCA, Fault, NoFault, ReturnErr, TypeOK, PCs,
                         Jobs, Certs, apiVars, vaultVars
<1>17. ASSUME NEW STATE accepted, WriteSecret(accepted), pc # "idle",
              UNCHANGED <<cr, crCache, vaultVars, ops>>
       PROVE  TypeOK'
  <2>1. /\ secret' \in [SecretNames -> Secrets \union {None}]
        /\ notices' \subseteq Names
    BY <1>17, JobTyped, WriteTyped DEF WriteSecret, TypeOK
  <2> QED
    BY <1>17, <2>1, JobTyped DEF WriteSecret, Fault, NoFault, ReturnNil, ReturnErr, TypeOK, PCs,
                                 vaultVars
<1>18. CASE Create \/ Recreate
  BY <1>17, <1>18 DEF Create, Recreate, CreateSecret
<1>19. CASE Update
  <2>1. CASE secret[job.cr.secret] # None
    BY <1>17, <1>19, <2>1 DEF Update
  <2>2. CASE secret[job.cr.secret] = None
    BY <1>19, <2>2, JobTyped DEF Update, Goto, Fault, NoFault, ReturnErr, TypeOK, PCs, vaultVars
  <2> QED
    BY <2>1, <2>2
<1> QED
  BY <1>1, <1>2, <1>3, <1>4, <1>5, <1>6, <1>7, <1>8, <1>9, <1>10, <1>12, <1>13, <1>14, <1>15,
     <1>16, <1>18, <1>19 DEF Next, Worker, User, Kubernetes

\* The variables keep to their ranges, and a job exists exactly while Reconcile
\* runs, whatever users, Kubernetes and failures do.
THEOREM TypeCorrect == Spec => []TypeOK
BY TypeInit, TypeStep, PTL DEF Spec

-----------------------------------------------------------------------------
(* A mount gets its roots once, and only they are published. *)

\* Secrets show roots of their mounts when the one that is written becomes
\* nothing, foreign or a secret with such a root or none.
LEMMA WriteMade ==
    ASSUME TypeOK, SecretsMade, roots' = roots, NEW s \in SecretNames, NEW STATE new, Write(s, new),
           new # None /\ new.cert # Blank => Made(new.cert)
    PROVE  SecretsMade'
<1> SUFFICES ASSUME NEW t \in SecretNames, (secret[t] # None /\ secret[t].cert # Blank)'
             PROVE  Made(secret[t].cert)'
  BY DEF SecretsMade
<1>1. secret'[t] = IF t = s THEN new ELSE secret[t]
  BY DEF Write, TypeOK
<1> QED
  BY <1>1 DEF SecretsMade, Made, Signing, DefaultCA

\* A step that leaves the mounts alone and the worker where it was, and writes
\* nothing to a secret but its removal or something foreign.
LEMMA OthersPreserve ==
    ASSUME Inductive, UNCHANGED <<mount, roots, pc, job>>,
           \/ UNCHANGED secret
           \/ \E s \in SecretNames : Write(s, None) \/ Write(s, Foreign)
    PROVE  /\ RootNeedsMount' /\ PathFree' /\ RootMissing'
           /\ JobCertMade' /\ UpdateSigning' /\ SecretsMade'
<1>1. RootNeedsMount' /\ PathFree' /\ RootMissing' /\ UpdateSigning'
  BY DEF Inductive, RootNeedsMount, PathFree, RootMissing, UpdateSigning
<1>2. JobCertMade'
  BY DEF Inductive, JobCertMade, Made, Signing, DefaultCA
<1>3. ASSUME UNCHANGED secret
      PROVE  SecretsMade'
  BY <1>3 DEF Inductive, SecretsMade, Made, Signing, DefaultCA
<1>4. ASSUME NEW s \in SecretNames, Write(s, None) \/ Write(s, Foreign)
      PROVE  SecretsMade'
  <2>1. Foreign.cert = Blank
    BY DEF Foreign
  <2>2. CASE Write(s, None)
    BY <2>2, WriteMade DEF Inductive
  <2>3. CASE Write(s, Foreign)
    BY <2>1, <2>3, WriteMade DEF Inductive
  <2> QED
    BY <1>4, <2>2, <2>3
<1> QED
  BY <1>1, <1>2, <1>3, <1>4

LEMMA InductiveInit == Init => Inductive
BY TypeInit DEF Init, Inductive, RootNeedsMount, PathFree, RootMissing,
                JobCertMade, UpdateSigning, SecretsMade

LEMMA InductiveStep == Inductive /\ [Next]_vars => Inductive'
<1> SUFFICES ASSUME Inductive, [Next]_vars
             PROVE  Inductive'
  OBVIOUS
<1> DEFINE Rest == /\ RootNeedsMount /\ PathFree /\ RootMissing
                   /\ JobCertMade /\ UpdateSigning /\ SecretsMade
<1>a. TypeOK /\ TypeOK'
  BY TypeStep DEF Inductive
<1>b. SUFFICES Rest'
  BY <1>a DEF Inductive
<1> USE NoneAssumption
<1>1. CASE UNCHANGED vars
  BY <1>1, OthersPreserve DEF vars
<1>2. CASE User
  BY <1>2, OthersPreserve DEF User, CreateCR, EditCR, DeleteCR, DeleteSecret, ForeignWrite,
                              vaultVars, workerVars
<1>3. ASSUME NEW n \in Names, DeliverCR(n) \/ DeliverSecret(n)
      PROVE  Rest'
  BY <1>3, OthersPreserve DEF DeliverCR, DeliverSecret, vaultVars
<1>4. ASSUME NEW s \in SecretNames, GarbageCollect(s)
      PROVE  Rest'
  BY <1>4, OthersPreserve DEF GarbageCollect, vaultVars, workerVars
<1>5. CASE Resync
  BY <1>5, OthersPreserve DEF Resync, apiVars, vaultVars
<1>6. CASE Restart
  BY <1>6 DEF Restart, vaultVars, Inductive, RootNeedsMount, PathFree,
              RootMissing, JobCertMade, UpdateSigning, SecretsMade, Made, Signing, DefaultCA
<1>7. ASSUME NEW n \in Names, Load(n)
      PROVE  Rest'
  <2>1. CASE UNCHANGED <<pc, job>>
    BY <1>7, <2>1, OthersPreserve DEF Load, apiVars, vaultVars
  <2>2. CASE pc' = "list" /\ job'.cert = Blank
    BY <1>7, <2>2 DEF Load, apiVars, vaultVars, Inductive, RootNeedsMount,
                      PathFree, RootMissing, JobCertMade, UpdateSigning, SecretsMade,
                      Made, Signing, DefaultCA
  <2> QED
    BY <1>7, <2>1, <2>2 DEF Load, workerVars
<1>8. CASE ListMounts
  BY <1>8 DEF ListMounts, Goto, ReturnErr, apiVars, vaultVars, Inductive, RootNeedsMount, PathFree, RootMissing, JobCertMade, UpdateSigning,
              SecretsMade, Made, Signing, DefaultCA
<1>9. ASSUME NEW step \in {"enable", "tune"}, NEW next \in {"tune", "root"},
             SetUp(step, next)
      PROVE  Rest'
  <2>1. job.cr.cn \in CNs
    BY <1>9, <1>a, JobTyped DEF SetUp
  <2>2. \A cn \in CNs : mount[cn] \subseteq mount'[cn]
    BY <1>9, <1>a DEF SetUp, Done, TypeOK
  <2>3. pc' = next => "enable" \in mount'[job.cr.cn]
    BY <1>9, <2>1, <1>a DEF SetUp, Done, Goto, ReturnErr, Inductive, RootMissing, TypeOK
  <2>4. roots[job.cr.cn] = 0
    BY <1>9, <2>1, <1>a DEF SetUp, Inductive, RootNeedsMount, PathFree, RootMissing, TypeOK
  <2> QED
    BY <1>9, <2>1, <2>2, <2>3, <2>4
       DEF SetUp, Goto, ReturnErr, apiVars, Inductive, RootNeedsMount, PathFree,
           RootMissing, JobCertMade, UpdateSigning, SecretsMade, Made, Signing, DefaultCA
<1>10. ASSUME NEW step \in {"urls", "role"}, NEW next \in {"role", "token"},
              SetUp(step, next)
       PROVE  Rest'
  <2>1. \A cn \in CNs : mount[cn] \subseteq mount'[cn]
    BY <1>10, <1>a DEF SetUp, Done, TypeOK
  <2> QED
    BY <1>10, <2>1
       DEF SetUp, Goto, ReturnErr, apiVars, Inductive, RootNeedsMount, PathFree,
           RootMissing, JobCertMade, UpdateSigning, SecretsMade, Made, Signing, DefaultCA
<1>11. CASE Enable \/ Tune \/ ConfigureUrls \/ WriteRole
  BY <1>9, <1>10, <1>11 DEF Enable, Tune, ConfigureUrls, WriteRole
<1>12. CASE GenerateRoot
  <2> DEFINE cn == job.cr.cn
  <2>1. cn \in CNs /\ roots[cn] = 0 /\ "enable" \in mount[cn] /\ job \in Jobs
    BY <1>12, <1>a, JobTyped DEF GenerateRoot, Generate, Inductive, RootMissing
  <2>2. PICK n \in 0 .. Tries :
           /\ roots' = [roots EXCEPT ![cn] = roots[cn] + n]
           /\ mount' = [mount EXCEPT ![cn] = IF n = 0 THEN mount[cn] ELSE mount[cn] \union {"root"}]
           /\ \/ /\ n > 0 /\ pc' = "urls" /\ UNCHANGED queue
                 /\ job' = [job EXCEPT !.cert = [cn |-> cn, root |-> roots[cn] + n]]
              \/ ReturnErr
    BY <1>12, <1>a, Generated
  <2>3. /\ roots'[cn] = n /\ \A c \in CNs \ {cn} : roots'[c] = roots[c]
        /\ \A c \in CNs : mount[c] \subseteq mount'[c]
    BY <1>a, <2>1, <2>2 DEF TypeOK, Tries
  <2>4. RootNeedsMount'
    BY <2>1, <2>3 DEF Inductive, RootNeedsMount
  <2>5. SecretsMade'
    <3>1. \A s \in SecretNames : secret[s] # None /\ secret[s].cert # Blank
                                    => secret[s].cert.cn \in CNs /\ secret[s].cert.root \in Nat \ {0}
      BY <1>a DEF TypeOK, Secrets, Owned, Foreign, Certs
    <3>2. UNCHANGED secret
      BY <1>12 DEF GenerateRoot, Generate, apiVars
    <3> QED
      BY <2>1, <2>3, <3>1, <3>2 DEF Inductive, SecretsMade, Made
  <2>6. CASE ReturnErr
    BY <2>4, <2>5, <2>6 DEF ReturnErr, PathFree, RootMissing, JobCertMade, UpdateSigning
  <2>7. CASE n > 0 /\ pc' = "urls" /\ job' = [job EXCEPT !.cert = [cn |-> cn, root |-> roots[cn] + n]]
    <3>1. job'.cert = [cn |-> cn, root |-> n]
      BY <2>1, <2>7 DEF Jobs, Tries
    <3>2. JobCertMade'
      BY <2>3, <2>7, <3>1 DEF JobCertMade, Made, Tries
    <3> QED
      BY <2>4, <2>5, <2>7, <3>2 DEF PathFree, RootMissing, UpdateSigning
  <2> QED
    BY <2>2, <2>6, <2>7
<1>13. CASE ReadRootToken
  <2>1. job' = job \/ pc' = "idle" \/ job'.cert = Blank
    BY <1>13, <1>a, JobTyped DEF ReadRootToken, Goto, ReturnErr, Jobs
  <2> QED
    BY <1>13, <2>1
       DEF ReadRootToken, Goto, ReturnErr, apiVars, vaultVars, Inductive, RootNeedsMount, PathFree, RootMissing, JobCertMade, UpdateSigning, SecretsMade,
           Made, Signing, DefaultCA
<1>14. CASE DisableFlag
  <2>1. \A cn \in CNs : mount[cn] \subseteq mount'[cn]
    BY <1>14, <1>a DEF DisableFlag, Done, TypeOK
  <2> QED
    BY <1>14, <2>1
       DEF DisableFlag, Goto, apiVars, Inductive, RootNeedsMount, PathFree,
           RootMissing, JobCertMade, UpdateSigning, SecretsMade, Made, Signing, DefaultCA
<1>15. CASE ReadCaChain
  <2> DEFINE cn == job.cr.cn
  <2>1. pc' = "update" => job'.cert = DefaultCA(cn) /\ 1 \in 1 .. roots[cn]
    BY <1>15, <1>a, JobTyped DEF ReadCaChain, ReturnErr, Jobs, TypeOK
  <2>2. DefaultCA(cn).cn = cn /\ DefaultCA(cn) # Blank
    BY <1>15, <1>a, JobTyped DEF DefaultCA, Certs, ReadCaChain
  <2>3. JobCertMade' /\ UpdateSigning'
    BY <1>15, <2>1, <2>2 DEF ReadCaChain, ReturnErr, vaultVars, JobCertMade, UpdateSigning,
                             Made, Signing, DefaultCA
  <2> QED
    BY <1>15, <2>3
       DEF ReadCaChain, ReturnErr, apiVars, vaultVars, Inductive, RootNeedsMount,
           PathFree, RootMissing, SecretsMade, Made, Signing, DefaultCA
<1>16. ASSUME NEW STATE accepted, WriteSecret(accepted), pc # "idle",
              UNCHANGED <<cr, crCache, vaultVars, ops>>
       PROVE  Rest'
  <2>1. SecretsMade'
    <3>1. BuiltSecret # None /\ BuiltSecret.cert # Blank => Made(BuiltSecret.cert)
      BY <1>16 DEF BuiltSecret, Inductive, JobCertMade
    <3>2. CASE Write(job.cr.secret, BuiltSecret)
      BY <1>16, <1>a, <3>1, <3>2, JobTyped, WriteMade DEF Inductive, vaultVars
    <3>3. CASE UNCHANGED secret
      BY <1>16, <3>3 DEF Inductive, SecretsMade, Made, Signing, DefaultCA, vaultVars
    <3> QED
      BY <1>16, <3>2, <3>3 DEF WriteSecret
  <2> QED
    BY <1>16, <2>1
       DEF WriteSecret, ReturnNil, ReturnErr, vaultVars, Inductive, RootNeedsMount, PathFree, RootMissing, JobCertMade, UpdateSigning
<1>17. CASE Create \/ Recreate
  BY <1>16, <1>17 DEF Create, Recreate, CreateSecret
<1>18. CASE Update
  <2>1. CASE secret[job.cr.secret] # None
    BY <1>16, <1>18, <2>1 DEF Update
  <2>2. CASE secret[job.cr.secret] = None
    BY <1>18, <2>2
       DEF Update, Goto, ReturnErr, vaultVars, Inductive, RootNeedsMount,
           PathFree, RootMissing, JobCertMade, UpdateSigning, SecretsMade, Made, Signing, DefaultCA
  <2> QED
    BY <2>1, <2>2
<1> QED
  BY <1>1, <1>2, <1>3, <1>4, <1>5, <1>6, <1>7, <1>8, <1>11, <1>12, <1>13, <1>14, <1>15, <1>17,
     <1>18 DEF Next, Worker, Kubernetes

\* The strengthened invariant holds throughout.
THEOREM InductiveInvariant == Spec => []Inductive
BY InductiveInit, InductiveStep, PTL DEF Spec

-----------------------------------------------------------------------------
(* What a step can do to the roots and to the secrets, and what follows. *)

RootAdded == /\ UNCHANGED secret
             /\ \E cn \in CNs, n \in 1 .. Tries :
                   roots[cn] = 0 /\ roots' = [roots EXCEPT ![cn] = n]
SecretCleared == \E s \in SecretNames : Write(s, None) \/ Write(s, Foreign)
SecretBuilt == /\ pc \in {"create", "recreate", "update"}
               /\ pc # "update" => secret[job.cr.secret] = None
               /\ Write(job.cr.secret, BuiltSecret)

LEMMA Effects ==
    ASSUME Inductive, [Next]_vars
    PROVE  \/ UNCHANGED <<roots, secret>>
           \/ RootAdded
           \/ SecretCleared /\ UNCHANGED roots
           \/ SecretBuilt /\ UNCHANGED roots
<1> DEFINE Goal == \/ UNCHANGED <<roots, secret>>
                   \/ RootAdded
                   \/ SecretCleared /\ UNCHANGED roots
                   \/ SecretBuilt /\ UNCHANGED roots
<1>1. CASE UNCHANGED vars
  BY <1>1 DEF vars
<1>2. CASE User
  BY <1>2 DEF User, CreateCR, EditCR, DeleteCR, DeleteSecret, ForeignWrite, SecretCleared, vaultVars
<1>3. CASE Kubernetes
  BY <1>3 DEF Kubernetes, DeliverCR, DeliverSecret, GarbageCollect, Resync, Restart, SecretCleared,
              apiVars, vaultVars
<1>4. ASSUME NEW n \in Names, Load(n)
      PROVE  Goal
  BY <1>4 DEF Load, apiVars, vaultVars
<1>5. CASE ListMounts \/ ReadRootToken \/ ReadCaChain
  BY <1>5 DEF ListMounts, ReadRootToken, ReadCaChain, apiVars, vaultVars
<1>6. CASE Enable \/ Tune \/ ConfigureUrls \/ WriteRole \/ DisableFlag
  BY <1>6 DEF Enable, Tune, ConfigureUrls, WriteRole, DisableFlag, SetUp, apiVars
<1>7. CASE GenerateRoot
  <2> DEFINE cn == job.cr.cn
  <2>1. cn \in CNs /\ roots[cn] = 0 /\ UNCHANGED secret
    BY <1>7, JobTyped DEF GenerateRoot, Generate, apiVars, Inductive, RootMissing
  <2>2. PICK n \in 0 .. Tries : roots' = [roots EXCEPT ![cn] = roots[cn] + n]
    BY <1>7, Generated DEF Inductive
  <2>3. roots' = [roots EXCEPT ![cn] = n]
    BY <2>1, <2>2 DEF Tries
  <2>4. CASE n = 0
    BY <2>1, <2>3, <2>4 DEF Inductive, TypeOK
  <2>5. CASE n \in 1 .. Tries
    BY <2>1, <2>3, <2>5 DEF RootAdded
  <2> QED
    BY <2>4, <2>5 DEF Tries
<1>8. CASE Create \/ Recreate
  BY <1>8 DEF Create, Recreate, CreateSecret, WriteSecret, SecretBuilt, vaultVars
<1>9. CASE Update
  BY <1>9 DEF Update, WriteSecret, SecretBuilt, vaultVars
<1> QED
  BY <1>1, <1>2, <1>3, <1>4, <1>5, <1>6, <1>7, <1>8, <1>9 DEF Next, Worker

\* However often a call is lost, sent again, retried or cut short by a restart, a
\* mount gets its roots from one call of Reconcile and no other ever adds to them.
THEOREM GeneratedOnce == Spec => RootsGeneratedOnce
<1>1. ASSUME Inductive, [Next]_vars
      PROVE  RootsKept
  <2>1. CASE RootAdded
    BY <1>1, <2>1 DEF RootAdded, RootsKept, Inductive, TypeOK
  <2>2. CASE UNCHANGED roots
    BY <2>2 DEF RootsKept
  <2> QED
    BY <1>1, <2>1, <2>2, Effects
<1> QED
  BY <1>1, InductiveInvariant, PTL DEF Spec, RootsGeneratedOnce

\* The operator never takes a CA certificate out of a secret it writes.
THEOREM NeverBlanked == Spec => SecretNeverBlanked
<1>1. ASSUME Inductive, [Next]_vars
      PROVE  KeepsCerts
  <2> SUFFICES ASSUME NEW s \in SecretNames,
                      secret[s] # None, secret[s].cert # Blank,
                      secret'[s] # None, secret'[s] # Foreign
               PROVE  secret'[s].cert # Blank
    BY DEF KeepsCerts
  <2>1. CASE UNCHANGED secret
    BY <2>1
  <2>2. CASE SecretCleared
    BY <2>2, <1>1 DEF SecretCleared, Write, Inductive, TypeOK
  <2>3. CASE SecretBuilt
    <3>1. pc = "update" => BuiltSecret.cert # Blank
      BY <1>1 DEF BuiltSecret, Inductive, UpdateSigning
    <3> QED
      BY <2>3, <3>1, <1>1 DEF SecretBuilt, Write, Inductive, TypeOK
  <2> QED
    BY <1>1, <2>1, <2>2, <2>3, Effects DEF RootAdded
<1> QED
  BY <1>1, InductiveInvariant, PTL DEF Spec, SecretNeverBlanked

\* The operator implements the abstract promise: per common name one CA for
\* good, no certificate in a secret that is not of its making, and none but the
\* one it signs under where that one is.
THEOREM Refinement == Spec => ImplementsPublication
<1> USE NoneAssumption
<1>1. Init => Promise!Init
  BY DEF Init, Promise!Init, made, ca, bundle
<1>2. ASSUME Inductive, Inductive', [Next]_vars
      PROVE  [Promise!Next]_(Promise!vars)
  <2>0. UNCHANGED roots => UNCHANGED <<made, ca>>
    BY DEF made, ca, DefaultCA
  <2>1. CASE UNCHANGED <<roots, secret>>
    BY <2>0, <2>1 DEF Promise!vars, bundle
  <2>2. CASE RootAdded
    <3>1. PICK cn \in CNs, n \in 1 .. Tries : roots[cn] = 0 /\ roots' = [roots EXCEPT ![cn] = n]
      BY <2>2 DEF RootAdded
    <3>2. roots'[cn] = n /\ n # 0 /\ \A c \in CNs \ {cn} : roots'[c] = roots[c]
      BY <3>1, <1>2 DEF Inductive, TypeOK, Tries
    <3>3. ca[cn] = None /\ ca'[cn] = DefaultCA(cn) /\ ca' = [ca EXCEPT ![cn] = ca'[cn]]
      BY <3>1, <3>2 DEF ca, DefaultCA
    <3>4. made'[cn] \subseteq Certs /\ DefaultCA(cn) \in made'[cn]
          /\ made' = [made EXCEPT ![cn] = made'[cn]]
      <4>1. made'[cn] = {[cn |-> cn, root |-> i] : i \in 1 .. n}
        BY <3>2 DEF made
      <4>2. made' = [made EXCEPT ![cn] = made'[cn]]
        BY <3>2 DEF made
      <4>3. \A i \in 1 .. n : [cn |-> cn, root |-> i] \in Certs
        BY DEF Certs
      <4>4. 1 \in 1 .. n
        BY DEF Tries
      <4> QED
        BY <4>1, <4>2, <4>3, <4>4 DEF DefaultCA
    <3>5. bundle' = bundle
      BY <2>2 DEF RootAdded, bundle
    <3>6. Promise!Establish(cn)
      BY <3>3, <3>4, <3>5 DEF Promise!Establish
    <3> QED
      BY <3>6 DEF Promise!Next
  <2>3. ASSUME NEW s \in SecretNames, NEW STATE new, Write(s, new), UNCHANGED roots,
               new = None \/ new.cert = Blank
        PROVE  Promise!Withdraw(s)
    BY <2>0, <2>3, <1>2 DEF Promise!Withdraw, Write, bundle, Inductive, TypeOK
  <2>4. CASE SecretCleared /\ UNCHANGED roots
    BY <2>3, <2>4 DEF SecretCleared, Foreign, Promise!Next
  <2>5. CASE SecretBuilt /\ UNCHANGED roots
    <3>1. job.cr.secret \in SecretNames /\ BuiltSecret \in Secrets
      BY <1>2, <2>5, JobTyped DEF SecretBuilt, Inductive
    <3>2. CASE BuiltSecret.cert = Blank
      BY <2>3, <2>5, <3>1, <3>2 DEF SecretBuilt, Promise!Next
    <3>3. CASE BuiltSecret.cert # Blank
      <4> DEFINE cn == job.cert.cn
                 s == job.cr.secret
      <4>1. /\ job.cert \in Certs /\ cn \in CNs /\ BuiltSecret # None
            /\ job.cert.root \in 1 .. roots[cn] /\ roots[cn] \in Nat
        BY <1>2, <2>5, <3>3, JobTyped
           DEF SecretBuilt, BuiltSecret, Inductive, JobCertMade, Made, Jobs, Certs, TypeOK
      <4>2. job.cert \in made[cn]
        <5>1. job.cert = [cn |-> cn, root |-> job.cert.root]
          BY <4>1 DEF Certs
        <5> QED
          BY <4>1, <5>1 DEF made
      <4>3. bundle' = [bundle EXCEPT ![s] = job.cert]
        BY <1>2, <2>5, <3>1, <3>3, <4>1
           DEF SecretBuilt, BuiltSecret, Write, bundle, Inductive, TypeOK
      <4>4. bundle[s] = None \/ job.cert = ca[cn]
        <5>1. CASE pc = "update"
          BY <1>2, <4>1, <5>1 DEF Inductive, UpdateSigning, Signing, ca
        <5>2. CASE pc # "update"
          BY <2>5, <3>1, <5>2 DEF SecretBuilt, bundle
        <5> QED
          BY <5>1, <5>2
      <4>5. Promise!Publish(s, cn, job.cert)
        BY <2>0, <2>5, <4>2, <4>3, <4>4 DEF Promise!Publish
      <4> QED
        BY <3>1, <4>1, <4>2, <4>5 DEF Promise!Next
    <3> QED
      BY <3>2, <3>3
  <2> QED
    BY <1>2, <2>1, <2>2, <2>4, <2>5, Effects
<1> QED
  BY <1>1, <1>2, InductiveInvariant, PTL DEF Spec, ImplementsPublication, Promise!Spec

-----------------------------------------------------------------------------
(* No resource is forgotten. *)

\* A job has a certificate of its own common name only, and works for the cached
\* version of its resource unless that waits in the queue again.
LEMMA JobStep == TypeOK /\ JobOfItsCN /\ JobFresh /\ [Next]_vars => JobOfItsCN' /\ JobFresh'
<1> SUFFICES ASSUME TypeOK, JobOfItsCN, JobFresh, [Next]_vars
             PROVE  JobOfItsCN' /\ JobFresh'
  OBVIOUS
<1> USE DEF JobOfItsCN, JobFresh
<1>1. CASE pc' = "idle"
  BY <1>1
<1>2. ASSUME UNCHANGED <<pc, job, crCache>>, queue \subseteq queue'
      PROVE  JobOfItsCN' /\ JobFresh'
  BY <1>2
<1>3. ASSUME NEW n \in Names, DeliverCR(n)
      PROVE  JobOfItsCN' /\ JobFresh'
  BY <1>3, JobTyped DEF DeliverCR, TypeOK
<1>4. ASSUME NEW n \in Names, Load(n)
      PROVE  JobOfItsCN' /\ JobFresh'
  <2>1. CASE pc' = "list" /\ job' = [name |-> n, cr |-> crCache[n], cert |-> Blank]
    BY <1>4, <2>1 DEF Load, apiVars
  <2> QED
    BY <1>1, <1>4, <2>1 DEF Load, workerVars
<1>5. CASE pc # "idle" /\ UNCHANGED <<crCache, queue>> /\ job' \in {job, [job EXCEPT !.cert = Blank]}
  BY <1>5, JobTyped DEF Jobs
<1>6. CASE GenerateRoot \/ ReadCaChain
  <2>1. pc # "idle" /\ UNCHANGED crCache /\ job.cr.cn \in CNs
    <3>1. pc # "idle" /\ UNCHANGED crCache
      BY <1>6 DEF GenerateRoot, Generate, ReadCaChain, apiVars
    <3> QED
      BY <3>1, JobTyped
  <2>2. ASSUME NEW n \in Nat \ {0}, job' = [job EXCEPT !.cert = [cn |-> job.cr.cn, root |-> n]],
               UNCHANGED queue
        PROVE  JobOfItsCN' /\ JobFresh'
    <3>1. job \in Jobs
      BY <2>1, JobTyped
    <3>2. job'.cr = job.cr /\ job'.name = job.name /\ job'.cert.cn = job.cr.cn
      BY <2>2, <3>1 DEF Jobs
    <3> QED
      BY <2>1, <2>2, <3>2
  <2>3. CASE ReturnErr
    BY <1>1, <2>3 DEF ReturnErr
  <2>4. CASE GenerateRoot
    <3>1. PICK n \in 0 .. Tries :
             \/ /\ n > 0 /\ UNCHANGED queue
                /\ job' = [job EXCEPT !.cert = [cn |-> job.cr.cn, root |-> roots[job.cr.cn] + n]]
             \/ ReturnErr
      BY <2>4, Generated
    <3>2. n > 0 => roots[job.cr.cn] + n \in Nat \ {0}
      BY <2>1 DEF TypeOK, Tries
    <3> QED
      BY <2>2, <2>3, <3>1, <3>2
  <2>5. CASE ReadCaChain
    BY <2>2, <2>3, <2>5 DEF ReadCaChain, DefaultCA
  <2> QED
    BY <1>6, <2>4, <2>5
<1>7. CASE ListMounts \/ Enable \/ Tune \/ ConfigureUrls \/ WriteRole
  BY <1>1, <1>5, <1>7 DEF ListMounts, Enable, Tune, ConfigureUrls, WriteRole, SetUp, Goto, ReturnErr, apiVars
<1>8. CASE ReadRootToken \/ DisableFlag
  BY <1>1, <1>5, <1>8 DEF ReadRootToken, DisableFlag, Goto, ReturnErr, apiVars
<1>9. CASE Create \/ Update \/ Recreate
  BY <1>1, <1>5, <1>9 DEF Create, Update, Recreate, CreateSecret, WriteSecret, Goto, ReturnErr, ReturnNil
<1>10. CASE User
  BY <1>2, <1>10 DEF User, CreateCR, EditCR, DeleteCR, DeleteSecret, ForeignWrite, workerVars
<1>11. CASE Kubernetes
  BY <1>1, <1>2, <1>3, <1>11
     DEF Kubernetes, DeliverSecret, GarbageCollect, Resync, Restart, apiVars, workerVars
<1>12. CASE UNCHANGED vars
  BY <1>2, <1>12 DEF vars
<1> QED
  BY <1>4, <1>6, <1>7, <1>8, <1>9, <1>10, <1>11, <1>12 DEF Next, Worker

\* A write loses no notice, and the owner of what it replaces is told.
LEMMA WriteTells ==
    ASSUME TypeOK, NEW s \in SecretNames, NEW STATE new, Write(s, new),
           NEW n \in Names, NEW x \in CRs, Shows(n, x)
    PROVE  Shows(n, x)' \/ n \in notices'
<1> USE NoneAssumption
<1>1. x.secret \in SecretNames /\ DefaultCA(x.cn) \in Certs
  BY DEF CRs, DefaultCA, Certs
<1>2. secret[x.secret] \in Owned /\ secret[x.secret].owner = n
  BY <1>1 DEF Shows, Owned, CRs
<1>3. Owners(secret[x.secret]) = {n}
  BY <1>2 DEF Owners, Foreign, Secrets
<1>4. CASE secret'[x.secret] = secret[x.secret]
  BY <1>4 DEF Shows, DefaultCA
<1>5. CASE secret'[x.secret] # secret[x.secret]
  BY <1>1, <1>3, <1>5 DEF Write, TypeOK
<1> QED
  BY <1>4, <1>5

LEMMA ForgottenStep ==
    ASSUME Inductive, Unforgotten, [Next]_vars
    PROVE  NothingForgotten'
<1> USE NoneAssumption
<1>a. TypeOK /\ NothingForgotten
  BY DEF Inductive, Unforgotten
<1>b. \A n \in Names : crCache[n] # None => crCache[n] \in CRs
  BY <1>a DEF TypeOK
<1> DEFINE Kept(n) == \/ Shows(n, crCache[n])'
                      \/ n \in queue' \union notices'
                      \/ pc' # "idle" /\ job'.name = n
<1>1. ASSUME UNCHANGED <<crCache, pc, job>>,
             queue \union notices \subseteq queue' \union notices',
             \/ UNCHANGED secret
             \/ \E s \in SecretNames : Write(s, None) \/ Write(s, Foreign)
      PROVE  NothingForgotten'
  <2> SUFFICES ASSUME NEW n \in Names, crCache[n] # None
               PROVE  Kept(n)
    BY <1>1 DEF NothingForgotten
  <2>1. CASE Shows(n, crCache[n]) /\ UNCHANGED secret
    BY <1>1, <2>1 DEF Shows, DefaultCA
  <2>2. ASSUME NEW s \in SecretNames, NEW STATE new, Write(s, new), Shows(n, crCache[n])
        PROVE  Kept(n)
    <3>1. Shows(n, crCache[n])' \/ n \in notices'
      BY <1>1, <1>a, <1>b, <2>2, WriteTells DEF Shows, DefaultCA
    <3> QED
      BY <3>1
  <2> QED
    BY <1>1, <1>a, <2>1, <2>2 DEF NothingForgotten
<1>2. ASSUME UNCHANGED <<crCache, secret, notices>>, pc # "idle",
             ReturnErr \/ (pc' # "idle" /\ UNCHANGED queue /\ job'.name = job.name)
      PROVE  NothingForgotten'
  BY <1>2, <1>a DEF ReturnErr, NothingForgotten, Shows, DefaultCA
<1>3. ASSUME NEW m \in Names, Load(m)
      PROVE  NothingForgotten'
  BY <1>3, <1>a DEF Load, apiVars, vaultVars, workerVars, NothingForgotten, Shows, DefaultCA
<1>4. ASSUME NEW m \in Names, DeliverCR(m)
      PROVE  NothingForgotten'
  BY <1>4, <1>a DEF DeliverCR, NothingForgotten, Shows, DefaultCA, TypeOK
<1>5. CASE Restart
  BY <1>5, <1>a DEF Restart, Listed, NothingForgotten
<1>6. CASE User
  BY <1>1, <1>6 DEF User, CreateCR, EditCR, DeleteCR, DeleteSecret, ForeignWrite, Write,
                    vaultVars, workerVars
<1>7. ASSUME NEW m \in Names, DeliverSecret(m)
      PROVE  NothingForgotten'
  BY <1>1, <1>7 DEF DeliverSecret, vaultVars
<1>8. ASSUME NEW s \in SecretNames, GarbageCollect(s)
      PROVE  NothingForgotten'
  BY <1>1, <1>8 DEF GarbageCollect, Write, vaultVars, workerVars
<1>9. CASE Resync
  BY <1>1, <1>9 DEF Resync, apiVars, vaultVars
<1>10. CASE ListMounts \/ Enable \/ Tune \/ ConfigureUrls \/ WriteRole
  BY <1>2, <1>10 DEF ListMounts, Enable, Tune, ConfigureUrls, WriteRole, SetUp, Goto, ReturnErr,
                     apiVars
<1>11. CASE GenerateRoot \/ ReadRootToken \/ DisableFlag \/ ReadCaChain
  <2>1. pc # "idle"
    BY <1>11 DEF GenerateRoot, Generate, ReadRootToken, DisableFlag, ReadCaChain
  <2>2. UNCHANGED <<crCache, secret, notices>>
    BY <1>11 DEF GenerateRoot, Generate, ReadRootToken, DisableFlag, ReadCaChain, apiVars
  <2>3. ReturnErr \/ (pc' # "idle" /\ UNCHANGED queue /\ job'.name = job.name)
    <3>1. job \in Jobs
      BY <2>1, <1>a, JobTyped
    <3> QED
      BY <1>11, <3>1 DEF GenerateRoot, Generate, ReadRootToken, DisableFlag, ReadCaChain, Goto,
                         ReturnErr, Jobs
  <2> QED
    BY <1>2, <2>1, <2>2, <2>3
<1>12. ASSUME NEW STATE accepted, WriteSecret(accepted), pc \in {"create", "recreate", "update"},
              pc # "update" /\ accepted => secret[job.cr.secret] = None, UNCHANGED crCache
       PROVE  NothingForgotten'
  <2>1. CASE UNCHANGED <<secret, notices>> /\ ReturnErr
    BY <1>2, <1>12, <2>1
  <2>2. CASE Write(job.cr.secret, BuiltSecret) /\ (ReturnErr \/ (accepted /\ ReturnNil))
    <3> SUFFICES ASSUME NEW n \in Names, crCache[n] # None
                 PROVE  Kept(n)
      BY <1>12 DEF NothingForgotten
    <3>1. /\ job.name \in Names /\ job.cr \in CRs /\ job.cr.secret \in SecretNames
          /\ BuiltSecret \in Owned
      <4>1. job \in Jobs /\ pc # "idle"
        BY <1>12, <1>a, JobTyped
      <4> QED
        BY <4>1, <1>a, JobTyped DEF BuiltSecret, Owned, Jobs, CRs
    <3>2. CASE n # job.name
      <4>1. Shows(n, crCache[n]) => Shows(n, crCache[n])' \/ n \in notices'
        BY <1>12, <1>a, <1>b, <2>2, <3>1, WriteTells DEF Shows, DefaultCA
      <4>2. queue \union notices \subseteq queue' \union notices'
        BY <2>2 DEF Write, ReturnErr, ReturnNil
      <4> QED
        BY <1>12, <1>a, <3>2, <4>1, <4>2 DEF NothingForgotten
    <3>3. CASE n = job.name /\ ReturnErr
      BY <3>3 DEF ReturnErr
    <3>4. CASE n = job.name /\ job.cr # crCache[n]
      BY <1>12, <2>2, <3>4 DEF Unforgotten, JobFresh, ReturnErr, ReturnNil
    <3>5. CASE n = job.name /\ job.cr = crCache[n] /\ accepted /\ pc # "update"
      <4>1. secret[job.cr.secret] = None
        BY <1>12, <3>5
      <4>2. BuiltSecret # None /\ Owners(BuiltSecret) = {n}
        BY <3>1, <3>5 DEF Owners, Foreign, Owned, BuiltSecret, Secrets
      <4> QED
        BY <2>2, <4>1, <4>2 DEF Write
    <3>6. CASE n = job.name /\ job.cr = crCache[n] /\ pc = "update"
      <4>1. job.cert = DefaultCA(job.cr.cn)
        BY <1>12, <3>6 DEF Unforgotten, JobOfItsCN, Inductive, UpdateSigning, Signing
      <4>2. secret'[job.cr.secret] = BuiltSecret
        BY <1>a, <2>2, <3>1 DEF Write, TypeOK
      <4> QED
        BY <1>12, <3>6, <4>1, <4>2 DEF Shows, BuiltSecret, DefaultCA
    <3> QED
      BY <2>2, <3>2, <3>3, <3>4, <3>5, <3>6
  <2> QED
    BY <1>12, <2>1, <2>2 DEF WriteSecret
<1>13. CASE Create \/ Recreate
  BY <1>12, <1>13 DEF Create, Recreate, CreateSecret
<1>14. CASE Update
  <2>1. CASE secret[job.cr.secret] # None
    BY <1>12, <1>14, <2>1 DEF Update
  <2>2. CASE secret[job.cr.secret] = None
    BY <1>2, <1>14, <2>2 DEF Update, Goto
  <2> QED
    BY <2>1, <2>2
<1>15. CASE UNCHANGED vars
  BY <1>1, <1>15 DEF vars
<1> QED
  BY <1>3, <1>4, <1>5, <1>6, <1>7, <1>8, <1>9, <1>10, <1>11, <1>13, <1>14, <1>15
     DEF Next, Worker, Kubernetes

LEMMA UnforgottenInvariant == Spec => []Unforgotten
<1>1. Init => Unforgotten
  BY DEF Init, Unforgotten, JobOfItsCN, JobFresh, NothingForgotten
<1>2. Inductive /\ Unforgotten /\ [Next]_vars => Unforgotten'
  BY JobStep, ForgottenStep DEF Inductive, Unforgotten
<1> QED
  BY <1>1, <1>2, InductiveInvariant, PTL DEF Spec

\* A secret that shows a root its mount does not sign with, because the request for
\* a root was sent again, is on its way to be repaired: the resource that asks for
\* it is in the queue, its event is under way or a job for it runs.
THEOREM WrongCAPending == Spec => []WrongCAIsPending
<1>1. Inductive /\ Unforgotten => WrongCAIsPending
  <2> SUFFICES ASSUME Inductive, Unforgotten, NEW s \in SecretNames,
                      secret[s] \notin {None, Foreign},
                      cr[secret[s].owner] = crCache[secret[s].owner],
                      cr[secret[s].owner] # None, cr[secret[s].owner].secret = s,
                      secret[s].cert # DefaultCA(cr[secret[s].owner].cn)
               PROVE  \/ secret[s].owner \in queue \union notices
                      \/ pc # "idle" /\ job.name = secret[s].owner
    BY DEF WrongCAIsPending
  <2>1. secret[s].owner \in Names
    BY DEF Inductive, TypeOK, Secrets, Owned
  <2>2. ~Shows(secret[s].owner, crCache[secret[s].owner])
    BY DEF Shows
  <2> QED
    BY <2>1, <2>2 DEF Unforgotten, NothingForgotten
<1> QED
  BY <1>1, InductiveInvariant, UnforgottenInvariant, PTL

\* At rest every resource has its secret with the CA of its mount: no failed call,
\* restart, foreign write, edit or deletion is swallowed by Reconcile.
THEOREM AtRestPublished == Spec => []QuietMeansPublished
<1>1. Unforgotten => QuietMeansPublished
  BY DEF Unforgotten, NothingForgotten, QuietMeansPublished, Quiet, Published
<1> QED
  BY <1>1, UnforgottenInvariant, PTL
=============================================================================
