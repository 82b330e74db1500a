------------------------ MODULE VaultBootstrapProofs ------------------------
(***************************************************************************)
(* Theorems about VaultBootstrap, for any pods, runs and failures.         *)
(***************************************************************************)
EXTENDS VaultBootstrap, TLAPS

\* A run that never had another pod beside it.
Single(p) == key[p] \notin overlaps

\* The strengthening that makes PairMatches and SuccessIsComplete inductive.
\* A certificate is of the key in its request.  A single run is alone as long as
\* it runs, and until the next one starts; so the request it finds after its own
\* Create, or its failure, is its own or none, and so is what it reads of it.
CertOfRequest(r) == r # None => r.cert \in {None, r.key}
CertsSound == CertOfRequest(csr) /\ \A p \in Pods : CertOfRequest(seen[p])

Alone == \A p \in Pods :
            /\ Single(p)
            /\ Running(p) \/ (pc[p] = "succeeded" /\ key[p] = runs)
            => \A q \in Pods \ {p} : ~Running(q)

PlaceFree == \A p \in Pods : Single(p) /\ pc[p] = "recreate" => csr = None
RequestOwn == \A p \in Pods :
                 Single(p) /\ pc[p] \in {"get", "approve", "await"} /\ csr # None
                 => csr.key = key[p]
ReadOwn == \A p \in Pods :
              Single(p) /\ pc[p] \in {"store", "read", "update"} => seen[p].key = key[p]
SecretOwn == \A p \in Pods :
                Single(p) /\ pc[p] = "cleanup" => secret # None /\ secret.key = key[p]

Custody == /\ TypeOK /\ CertsSound /\ Alone /\ PlaceFree /\ RequestOwn
           /\ ReadOwn /\ SecretOwn /\ PairMatches /\ SuccessIsComplete

-----------------------------------------------------------------------------
(* Types. *)

\* Init and every step keep the variables in their ranges.
LEMMA TypeInit == Init => TypeOK
BY BoundsAssumption DEF Init, TypeOK, Running, Steps, AfterRead

\* Moving one pod on: to a next step, or out.
LEMMA MoveTyped ==
    ASSUME TypeOK, NEW p \in Pods, Running(p),
           NEW step \in Steps \union {"succeeded", "failed"},
           \/ step \in Steps /\ Goto(p, step)
           \/ step \notin Steps /\ Exit(p, step),
           UNCHANGED key
    PROVE  /\ pc' \in [Pods -> Steps \union {"none", "succeeded", "failed"}]
           /\ \A q \in Pods : Running(q)' => key'[q] > 0
           /\ lost' \subseteq {q \in Pods : Running(q)'}
<1>1. pc' = [pc EXCEPT ![p] = step]
  BY DEF Goto, Exit
<1>2. pc' \in [Pods -> Steps \union {"none", "succeeded", "failed"}]
  BY <1>1 DEF TypeOK
<1>3. \A q \in Pods : Running(q)' => key'[q] > 0
  BY <1>1 DEF TypeOK, Running
<1>4. lost' \subseteq {q \in Pods : Running(q)'}
  BY <1>1 DEF TypeOK, Running, Goto, Exit
<1> QED
  BY <1>2, <1>3, <1>4

\* What a pod's call may leave in the API server and in its locals.
LEMMA CallTyped ==
    ASSUME TypeOK, NEW p \in Pods, Running(p),
           csr' \in Requests \union {None}, secret' \in TLSSecrets \union {None},
           seen' \in [Pods -> Requests \union {None}],
           found' \in [Pods -> TLSSecrets \union {None}],
           NEW step \in Steps \union {"succeeded", "failed"},
           \/ step \in Steps /\ Goto(p, step)
           \/ step \notin Steps /\ Exit(p, step),
           \A q \in Pods \ {p} : seen'[q] = seen[q],
           step \in AfterRead => seen'[p] # None,
           UNCHANGED <<key, overlaps, runs>>, NoFault \/ Fault
    PROVE  TypeOK'
<1>1. faults' \in 0 .. MaxFaults
  BY BoundsAssumption DEF TypeOK, Fault, NoFault
<1>2. \A q \in Pods : pc'[q] \in AfterRead => seen'[q] # None
  BY DEF TypeOK, Goto, Exit, AfterRead, Steps
<1> QED
  BY <1>1, <1>2, MoveTyped DEF TypeOK

LEMMA TypeStep == TypeOK /\ [Next]_vars => TypeOK'
<1> SUFFICES ASSUME TypeOK, [Next]_vars
             PROVE  TypeOK'
  OBVIOUS
<1>0. /\ csr \in Requests \union {None} /\ secret \in TLSSecrets \union {None}
      /\ seen \in [Pods -> Requests \union {None}]
      /\ found \in [Pods -> TLSSecrets \union {None}]
  BY DEF TypeOK
<1>1. CASE UNCHANGED vars
  BY <1>1 DEF vars, TypeOK, Running
<1>2. CASE Sign
  BY <1>2 DEF Sign, TypeOK, Running, Requests, Certs, localVars, jobVars
<1>3. ASSUME NEW p \in Pods, Run(p) \/ RunAgain(p)
      PROVE  TypeOK'
  <2>0. Start(p)
    BY <1>3 DEF Run, RunAgain
  <2>1. runs' = runs + 1 /\ runs' \in 1 .. MaxRuns
    BY <2>0, BoundsAssumption DEF Start, TypeOK
  <2>2. key' \in [Pods -> Nat] /\ \A q \in Pods : key'[q] <= runs'
    BY <2>0, <2>1 DEF Start, TypeOK
  <2>3. /\ pc' \in [Pods -> Steps \union {"none", "succeeded", "failed"}]
        /\ \A q \in Pods : Running(q)' => key'[q] > 0
        /\ lost' \subseteq {q \in Pods : Running(q)'}
    BY <2>0, <2>1 DEF Start, TypeOK, Running, Steps
  <2>4. overlaps' \subseteq Nat
    <3>1. SUFFICES ASSUME NEW r \in overlaps'
                   PROVE  r \in Nat
      OBVIOUS
    <3> DEFINE beside == {q \in Pods \ {p} : Running(q)}
               new == IF beside = {} THEN {} ELSE {runs + 1} \union {key[q] : q \in beside}
    <3>2. overlaps' = overlaps \union new
      BY <2>0 DEF Start
    <3>3. ASSUME r \in new
          PROVE  r = runs + 1 \/ \E q \in Pods : r = key[q]
      BY <3>3
    <3>4. r \in overlaps \/ r = runs + 1 \/ \E q \in Pods : r = key[q]
      <4> HIDE DEF new
      <4> QED
        BY <3>2, <3>3
    <3>5. overlaps \subseteq Nat /\ runs + 1 \in Nat /\ \A q \in Pods : key[q] \in Nat
      BY DEF TypeOK
    <3> HIDE DEF new
    <3> QED
      BY <3>4, <3>5
  <2>5. /\ seen' \in [Pods -> Requests \union {None}]
        /\ found' \in [Pods -> TLSSecrets \union {None}]
    BY <2>0 DEF Start, TypeOK
  <2>6. \A q \in Pods : pc'[q] \in AfterRead => seen'[q] # None
    BY <2>0 DEF Start, TypeOK, AfterRead
  <2>7. /\ csr' \in Requests \union {None} /\ secret' \in TLSSecrets \union {None}
        /\ faults' \in 0 .. MaxFaults /\ runs' \in 0 .. MaxRuns
    BY <2>0, <2>1 DEF Start, TypeOK, apiVars
  <2> QED
    BY <2>2, <2>3, <2>4, <2>5, <2>6, <2>7 DEF TypeOK
<1>4. ASSUME NEW p \in Pods, LoseNode(p)
      PROVE  TypeOK'
  BY <1>4, BoundsAssumption DEF LoseNode, Fault, TypeOK, Running, apiVars, localVars
<1>5. ASSUME NEW p \in Pods, Kill(p)
      PROVE  TypeOK'
  BY <1>0, <1>5, CallTyped DEF Kill, Fatal, apiVars, localVars, Steps, AfterRead, TypeOK
<1>6. ASSUME NEW p \in Pods, CreateCSR(p) \/ RecreateCSR(p)
      PROVE  TypeOK'
  <2>1. Running(p) /\ key[p] \in Keys
    BY <1>6 DEF CreateCSR, RecreateCSR, Running, Steps, TypeOK, Keys
  <2>2. csr' \in Requests \union {None}
    BY <1>0, <1>6, <2>1 DEF CreateCSR, RecreateCSR, Requested, Requests, Certs
  <2> QED
    BY <1>0, <1>6, <2>1, <2>2, CallTyped DEF CreateCSR, RecreateCSR, Fatal, localVars, Steps, AfterRead, TypeOK
<1>7. ASSUME NEW p \in Pods, DeleteStale(p) \/ Cleanup(p)
      PROVE  TypeOK'
  <2>1. Running(p)
    BY <1>7 DEF DeleteStale, Cleanup, Delete, Running, Steps
  <2> QED
    BY <1>0, <1>7, <2>1, CallTyped DEF DeleteStale, Cleanup, Delete, Fatal, localVars, Steps, AfterRead, TypeOK
<1>8. ASSUME NEW p \in Pods, GetCSR(p) \/ AwaitCertificate(p)
      PROVE  TypeOK'
  <2>1. Running(p)
    BY <1>8 DEF GetCSR, AwaitCertificate, ReadCSR, Running, Steps
  <2> QED
    BY <1>0, <1>8, <2>1, CallTyped DEF GetCSR, AwaitCertificate, ReadCSR, Fatal, apiVars, Steps, AfterRead, TypeOK
<1>9. ASSUME NEW p \in Pods, Approve(p)
      PROVE  TypeOK'
  <2>1. Running(p)
    BY <1>9 DEF Approve, Running, Steps
  <2>2. csr' \in Requests \union {None}
    <3>1. CASE UNCHANGED csr
      BY <1>0, <3>1
    <3>2. CASE csr # None /\ csr' = [csr EXCEPT !.state = "approved"]
      BY <1>0, <3>2 DEF Requests
    <3> QED
      BY <1>9, <3>1, <3>2 DEF Approve
  <2> QED
    BY <1>0, <1>9, <2>1, <2>2, CallTyped DEF Approve, Fatal, localVars, Steps, AfterRead, TypeOK
<1>10. ASSUME NEW p \in Pods, StoreSecret(p) \/ UpdateSecret(p)
       PROVE  TypeOK'
  <2>1. Running(p) /\ key[p] \in Keys
    BY <1>10 DEF StoreSecret, UpdateSecret, Running, Steps, TypeOK, Keys
  <2>2. seen[p] \in Requests /\ seen[p] # None
    BY <1>0, <1>10 DEF StoreSecret, UpdateSecret, TypeOK, AfterRead
  <2>3. secret' \in TLSSecrets \union {None}
    BY <1>0, <1>10, <2>1, <2>2 DEF StoreSecret, UpdateSecret, Stored, TLSSecrets, Requests
  <2>4. /\ UNCHANGED <<csr, key, seen, found, overlaps, runs>>
        /\ NoFault \/ Fault
    BY <1>10 DEF StoreSecret, UpdateSecret, localVars
  <2>5. CASE Goto(p, "cleanup")
    BY <1>0, <2>1, <2>3, <2>4, <2>5, CallTyped DEF Steps, AfterRead
  <2>6. CASE Goto(p, "read")
    BY <1>0, <2>1, <2>2, <2>3, <2>4, <2>6, CallTyped DEF Steps
  <2>7. CASE Exit(p, "failed")
    BY <1>0, <2>1, <2>3, <2>4, <2>7, CallTyped DEF Steps, AfterRead
  <2> QED
    BY <1>10, <2>5, <2>6, <2>7 DEF StoreSecret, UpdateSecret, Fatal
<1>11. ASSUME NEW p \in Pods, ReadSecret(p)
       PROVE  TypeOK'
  <2>1. Running(p)
    BY <1>11 DEF ReadSecret, Running, Steps
  <2> QED
    BY <1>0, <1>11, <2>1, CallTyped DEF ReadSecret, Fatal, apiVars, Steps, AfterRead, TypeOK
<1> QED
  BY <1>1, <1>2, <1>3, <1>4, <1>5, <1>6, <1>7, <1>8, <1>9, <1>10, <1>11 DEF Next, Main

\* Whatever pods run, fail or are lost, every variable keeps to its range.
THEOREM TypeCorrect == Spec => []TypeOK
BY TypeInit, TypeStep, PTL DEF Spec

-----------------------------------------------------------------------------
(* The pair. *)

LEMMA CustodyInit == Init => Custody
BY TypeInit DEF Init, Custody, CertsSound, CertOfRequest, Alone, PlaceFree, RequestOwn, ReadOwn,
   SecretOwn, PairMatches, SuccessIsComplete, Running, Steps

\* A step of pod p's process.  Another single run is not under way beside it, and
\* a single run that succeeded last has no pod beside it either: only what p
\* itself is about to do has to be looked at.
LEMMA StepOfOne ==
    ASSUME Custody, TypeOK', NEW p \in Pods, Running(p),
           UNCHANGED <<key, overlaps, runs>>,
           \A q \in Pods \ {p} : pc'[q] = pc[q],
           CertsSound', PairMatches',
           Single(p) =>
              /\ pc'[p] = "recreate" => csr' = None
              /\ pc'[p] \in {"get", "approve", "await"} /\ csr' # None => csr'.key = key[p]
              /\ pc'[p] \in {"store", "read", "update"} => seen'[p].key = key[p]
              /\ pc'[p] \in {"cleanup", "succeeded"} => secret' # None /\ secret'.key = key[p]
              /\ pc'[p] = "succeeded" => csr' = None
    PROVE  Custody'
<1>1. ASSUME NEW q \in Pods \ {p}, Single(q)
      PROVE  ~Running(q) /\ (pc[q] = "succeeded" => key[q] # runs)
  BY <1>1 DEF Custody, Alone
<1>2. \A q \in Pods : Single(q)' <=> Single(q)
  BY DEF Single
<1>3. Alone'
  BY <1>1, <1>2 DEF Custody, Alone, Running
<1>4. PlaceFree' /\ RequestOwn' /\ ReadOwn' /\ SecretOwn'
  BY <1>1, <1>2 DEF PlaceFree, RequestOwn, ReadOwn, SecretOwn, Running, Steps
<1>5. SuccessIsComplete'
  BY <1>1, <1>2 DEF SuccessIsComplete, Single
<1> QED
  BY <1>3, <1>4, <1>5 DEF Custody

\* A new run, alone or not, has not read or stored anything; a run beside which it
\* starts is single no more.
LEMMA CustodyStart ==
    ASSUME Custody, TypeOK', NEW p \in Pods, Start(p)
    PROVE  Custody'
<1>1. /\ UNCHANGED <<csr, secret>> /\ runs' = runs + 1
      /\ pc' = [pc EXCEPT ![p] = "create"] /\ key' = [key EXCEPT ![p] = runs + 1]
      /\ seen' = [seen EXCEPT ![p] = None]
  BY DEF Start, apiVars
<1>2. TypeOK
  BY DEF Custody
<1>3. pc'[p] = "create" /\ key'[p] = runs' /\ seen'[p] = None
  BY <1>1, <1>2 DEF TypeOK
<1>4. ASSUME NEW q \in Pods \ {p}
      PROVE  pc'[q] = pc[q] /\ key'[q] = key[q] /\ seen'[q] = seen[q] /\ key'[q] # runs'
  BY <1>1, <1>2 DEF TypeOK
<1>5. overlaps \subseteq overlaps'
  BY DEF Start
<1>6. ASSUME NEW q \in Pods \ {p}, Running(q)
      PROVE  ~Single(q)' /\ ~Single(p)'
  <2>1. runs + 1 \in overlaps' /\ key[q] \in overlaps'
    BY <1>6 DEF Start
  <2> QED
    BY <2>1, <1>3, <1>4, <1>1 DEF Single
<1>7. Alone'
  BY <1>3, <1>4, <1>6 DEF Alone, Running
<1>8. CertsSound'
  BY <1>1, <1>3, <1>4 DEF Custody, CertsSound, CertOfRequest
<1>9. PlaceFree' /\ RequestOwn' /\ ReadOwn' /\ SecretOwn'
  BY <1>3, <1>4, <1>6 DEF PlaceFree, RequestOwn, ReadOwn, SecretOwn, Running, Steps
<1>10. PairMatches' /\ SuccessIsComplete'
  BY <1>1, <1>3, <1>4, <1>5 DEF Custody, PairMatches, SuccessIsComplete
<1> QED
  BY <1>7, <1>8, <1>9, <1>10 DEF Custody

LEMMA CustodyStep == Custody /\ [Next]_vars => Custody'
<1> SUFFICES ASSUME Custody, [Next]_vars
             PROVE  Custody'
  OBVIOUS
<1>a. TypeOK /\ TypeOK'
  BY TypeStep DEF Custody
<1>b. CertsSound /\ PairMatches
  BY DEF Custody
<1>1. CASE UNCHANGED vars
  BY <1>1 DEF vars, Custody, TypeOK, CertsSound, CertOfRequest, Alone, PlaceFree, RequestOwn,
     ReadOwn, SecretOwn, PairMatches, SuccessIsComplete, Single, Running
<1>2. CASE Sign
  <2>a. csr \in Requests /\ csr' = [csr EXCEPT !.cert = csr.key]
    BY <1>2, <1>a DEF Sign, TypeOK
  <2>b. csr' \in Requests
    BY <2>a DEF Requests, Certs
  <2>1. /\ csr # None /\ csr' # None /\ csr'.key = csr.key /\ csr'.cert = csr.key
        /\ UNCHANGED <<secret, pc, key, seen, overlaps, runs>>
    BY <1>2, <2>a, <2>b, NoneAssumption DEF Sign, Requests, localVars, jobVars
  <2>2. CertsSound'
    BY <2>1, <1>b DEF CertsSound, CertOfRequest
  <2>3. Alone' /\ PlaceFree' /\ RequestOwn' /\ ReadOwn' /\ SecretOwn'
    BY <2>1 DEF Custody, Alone, PlaceFree, RequestOwn, ReadOwn, SecretOwn, Single, Running
  <2>4. PairMatches' /\ SuccessIsComplete'
    BY <2>1 DEF Custody, PairMatches, SuccessIsComplete, Single
  <2> QED
    BY <1>a, <2>2, <2>3, <2>4 DEF Custody
<1>3. ASSUME NEW p \in Pods, Run(p) \/ RunAgain(p)
      PROVE  Custody'
  BY <1>a, <1>3, CustodyStart DEF Run, RunAgain
<1>4. ASSUME NEW p \in Pods, LoseNode(p) \/ Kill(p)
      PROVE  Custody'
  <2>1. /\ UNCHANGED <<csr, secret, seen, key, overlaps, runs>>
        /\ Running(p) /\ \A q \in Pods \ {p} : pc'[q] = pc[q]
        /\ pc'[p] \in {pc[p], "failed"}
    BY <1>4, <1>a DEF LoseNode, Kill, Fatal, Exit, apiVars, localVars, TypeOK
  <2>2. CertsSound' /\ PairMatches'
    BY <1>b, <2>1 DEF CertsSound, CertOfRequest, PairMatches
  <2>3. pc[p] # "succeeded"
    BY <2>1 DEF Running, Steps
  <2> QED
    BY <1>a, <2>1, <2>2, <2>3, StepOfOne
       DEF Custody, PlaceFree, RequestOwn, ReadOwn, SecretOwn
<1>5. ASSUME NEW p \in Pods, CreateCSR(p)
      PROVE  Custody'
  <2>1. /\ UNCHANGED <<secret, seen, key, overlaps, runs>> /\ Running(p)
        /\ \A q \in Pods \ {p} : pc'[q] = pc[q]
        /\ pc'[p] \in {"get", "delete", "failed"}
    BY <1>5, <1>a DEF CreateCSR, Fatal, Exit, Goto, localVars, Running, Steps, TypeOK
  <2>2. \/ UNCHANGED csr /\ pc'[p] # "get"
        \/ csr' = [key |-> key[p], state |-> "pending", cert |-> None]
    BY <1>5, <1>a DEF CreateCSR, Requested, Fatal, Exit, Goto, TypeOK
  <2>3. CertsSound' /\ PairMatches'
    BY <1>b, <2>1, <2>2 DEF CertsSound, CertOfRequest, PairMatches
  <2> QED
    BY <1>a, <2>1, <2>2, <2>3, StepOfOne
<1>6. ASSUME NEW p \in Pods, RecreateCSR(p)
      PROVE  Custody'
  <2>1. /\ UNCHANGED <<secret, seen, key, overlaps, runs>> /\ Running(p)
        /\ \A q \in Pods \ {p} : pc'[q] = pc[q]
        /\ pc'[p] = "get" /\ pc[p] = "recreate"
    BY <1>6, <1>a DEF RecreateCSR, Goto, localVars, Running, Steps, TypeOK
  <2>2. \/ UNCHANGED csr
        \/ csr' = [key |-> key[p], state |-> "pending", cert |-> None]
    BY <1>6 DEF RecreateCSR, Requested
  <2>3. CertsSound' /\ PairMatches'
    BY <1>b, <2>1, <2>2 DEF CertsSound, CertOfRequest, PairMatches
  <2>4. Single(p) => csr = None
    BY <2>1 DEF Custody, PlaceFree
  <2> QED
    BY <1>a, <2>1, <2>2, <2>3, <2>4, StepOfOne
<1>7. ASSUME NEW p \in Pods, DeleteStale(p) \/ Cleanup(p)
      PROVE  Custody'
  <2>1. /\ UNCHANGED <<secret, seen, key, overlaps, runs>> /\ Running(p)
        /\ \A q \in Pods \ {p} : pc'[q] = pc[q]
        /\ csr' \in {csr, None}
    BY <1>7, <1>a DEF DeleteStale, Cleanup, Delete, Fatal, Exit, Goto, localVars, Running, Steps,
                      TypeOK
  <2>2. \/ pc'[p] = "recreate" /\ csr' = None
        \/ pc'[p] = "succeeded" /\ pc[p] = "cleanup" /\ csr' = None
        \/ pc'[p] = "failed"
    BY <1>7, <1>a DEF DeleteStale, Cleanup, Delete, Fatal, Exit, Goto, TypeOK
  <2>3. CertsSound' /\ PairMatches'
    BY <1>b, <2>1 DEF CertsSound, CertOfRequest, PairMatches
  <2>4. Single(p) /\ pc[p] = "cleanup" => secret # None /\ secret.key = key[p]
    BY DEF Custody, SecretOwn
  <2> QED
    BY <1>a, <2>1, <2>2, <2>3, <2>4, StepOfOne
<1>8. ASSUME NEW p \in Pods, GetCSR(p) \/ AwaitCertificate(p)
      PROVE  Custody'
  <2>1. /\ UNCHANGED <<csr, secret, key, overlaps, runs>> /\ Running(p)
        /\ \A q \in Pods \ {p} : pc'[q] = pc[q] /\ seen'[q] = seen[q]
        /\ pc[p] \in {"get", "await"}
        /\ seen'[p] \in {seen[p], csr}
    BY <1>8, <1>a DEF GetCSR, AwaitCertificate, ReadCSR, Fatal, Exit, Goto, apiVars, Running,
                      Steps, TypeOK
  <2>2. \/ pc'[p] = "failed"
        \/ /\ pc'[p] \in {"approve", "store"}
           /\ csr # None /\ seen'[p] = csr
    BY <1>8, <1>a DEF GetCSR, AwaitCertificate, ReadCSR, Fatal, Exit, Goto, TypeOK
  <2>3. CertsSound' /\ PairMatches'
    BY <1>b, <2>1 DEF CertsSound, CertOfRequest, PairMatches
  <2>4. Single(p) /\ csr # None => csr.key = key[p]
    BY <2>1 DEF Custody, RequestOwn
  <2> QED
    BY <1>a, <2>1, <2>2, <2>3, <2>4, StepOfOne
<1>9. ASSUME NEW p \in Pods, Approve(p)
      PROVE  Custody'
  <2>1. /\ UNCHANGED <<secret, seen, key, overlaps, runs>> /\ Running(p)
        /\ \A q \in Pods \ {p} : pc'[q] = pc[q]
        /\ pc[p] = "approve" /\ pc'[p] \in {"await", "failed"}
    BY <1>9, <1>a DEF Approve, Fatal, Exit, Goto, localVars, Running, Steps, TypeOK
  <2>2. \/ UNCHANGED csr
        \/ csr # None /\ csr'.key = csr.key /\ csr'.cert = csr.cert
    BY <1>9, <1>a DEF Approve, TypeOK, Requests
  <2>3. CertsSound' /\ PairMatches'
    BY <1>b, <2>1, <2>2 DEF CertsSound, CertOfRequest, PairMatches
  <2>4. Single(p) /\ csr # None => csr.key = key[p]
    BY <2>1 DEF Custody, RequestOwn
  <2> QED
    BY <1>a, <2>1, <2>2, <2>3, <2>4, StepOfOne
<1>10. ASSUME NEW p \in Pods, StoreSecret(p) \/ UpdateSecret(p)
       PROVE  Custody'
  <2>1. /\ UNCHANGED <<csr, seen, key, overlaps, runs>> /\ Running(p)
        /\ \A q \in Pods \ {p} : pc'[q] = pc[q]
        /\ pc[p] \in {"store", "update"} /\ pc'[p] \in {"cleanup", "read", "failed"}
    BY <1>10, <1>a DEF StoreSecret, UpdateSecret, Fatal, Exit, Goto, localVars, Running, Steps,
                       TypeOK
  <2>2. \/ UNCHANGED secret /\ pc'[p] # "cleanup"
        \/ secret' = [key |-> key[p], cert |-> seen[p].cert]
    BY <1>10, <1>a DEF StoreSecret, UpdateSecret, Stored, Fatal, Exit, Goto, TypeOK
  <2>3. seen[p] # None /\ seen[p].cert \in {None, seen[p].key}
    BY <1>a, <1>b, <2>1 DEF TypeOK, AfterRead, CertsSound, CertOfRequest
  <2>4. Single(p) => seen[p].key = key[p]
    BY <2>1 DEF Custody, ReadOwn
  <2>5. CertsSound' /\ PairMatches'
    BY <1>b, <2>1, <2>2, <2>3, <2>4 DEF CertsSound, CertOfRequest, PairMatches, Single
  <2>6. pc'[p] = "cleanup" => secret' # None /\ secret'.key = key[p]
    <3>1. key[p] \in Keys /\ seen[p].cert \in Certs
      BY <1>a, <2>1, <2>3 DEF TypeOK, Running, Steps, Keys, Requests
    <3> QED
      BY <2>2, <3>1, NoneAssumption DEF TLSSecrets
  <2> QED
    BY <1>a, <2>1, <2>2, <2>4, <2>5, <2>6, StepOfOne
<1>11. ASSUME NEW p \in Pods, ReadSecret(p)
       PROVE  Custody'
  <2>1. /\ UNCHANGED <<csr, secret, seen, key, overlaps, runs>> /\ Running(p)
        /\ \A q \in Pods \ {p} : pc'[q] = pc[q]
        /\ pc[p] = "read" /\ pc'[p] \in {"update", "failed"}
    BY <1>11, <1>a DEF ReadSecret, Fatal, Exit, Goto, apiVars, Running, Steps, TypeOK
  <2>2. CertsSound' /\ PairMatches'
    BY <1>b, <2>1 DEF CertsSound, CertOfRequest, PairMatches
  <2>3. Single(p) => seen[p].key = key[p]
    BY <2>1 DEF Custody, ReadOwn
  <2> QED
    BY <1>a, <2>1, <2>2, <2>3, StepOfOne
<1> QED
  BY <1>1, <1>2, <1>3, <1>4, <1>5, <1>6, <1>7, <1>8, <1>9, <1>10, <1>11 DEF Next, Main

\* The strengthened invariant holds for good.
THEOREM CustodyInvariant == Spec => []Custody
BY CustodyInit, CustodyStep, PTL DEF Spec

\* However many runs, failures and lost nodes: what a run that was never beside
\* another stores is its key with that key's certificate, or with none yet.
THEOREM PairIsOne == Spec => []PairMatches
<1>1. Custody => PairMatches
  BY DEF Custody
<1> QED
  BY <1>1, CustodyInvariant, PTL

\* Such a run's success means that its key is stored and its request is gone.
THEOREM Complete == Spec => []SuccessIsComplete
<1>1. Custody => SuccessIsComplete
  BY DEF Custody
<1> QED
  BY <1>1, CustodyInvariant, PTL
=============================================================================
