--------------------------- MODULE VaultInitProofs ---------------------------
(***************************************************************************)
(* Theorems about VaultInit, for any cluster and any bounds.               *)
(***************************************************************************)
EXTENDS VaultInit, TLAPS

LEMMA NoWorkersTyped == NoWorkers \in [Pods -> {"none", "sleep", "unseal", "done"}]
BY DEF NoWorkers

LEMMA TypeInit == Init => TypeOK
BY NoWorkersTyped, BoundsAssumption DEF Init, TypeOK, Values, Steps

\* The ways the process ends or goes on keep its own variables typed.
LEMMA ExitTyped ==
    ASSUME TypeOK, NEW code \in {"succeeded", "failed"}, Exit(code)
    PROVE  /\ pc' \in {"succeeded", "failed"} /\ key' \in Values
           /\ worker' = NoWorkers /\ worker' \in [Pods -> {"none", "sleep", "unseal", "done"}]
           /\ path' \in {"none", "init", "unseal", "nothing"}
BY NoWorkersTyped DEF Exit, TypeOK, Values

LEMMA TypeStep == TypeOK /\ [Next]_vars => TypeOK'
<1> SUFFICES ASSUME TypeOK, [Next]_vars
             PROVE  TypeOK'
  OBVIOUS
<1> USE BoundsAssumption, PodsAssumption, NoWorkersTyped
<1>1. CASE UNCHANGED vars
  BY <1>1 DEF vars, TypeOK
<1>2. ASSUME NEW p \in Pods, Join(p) \/ RestartPod(p)
      PROVE  TypeOK'
  BY <1>2 DEF Join, RestartPod, TypeOK, secretVars
<1>3. CASE Run \/ RunAgain
  BY <1>3 DEF Run, RunAgain, Start, TypeOK, Values, Steps, vaultVars, secretVars
<1>4. CASE ReadHealth
  BY <1>4, ExitTyped DEF ReadHealth, Fatal, Fault, NoFault, TypeOK, Steps, vaultVars, secretVars
<1>5. CASE Initialize
  BY <1>5, ExitTyped
     DEF Initialize, Fatal, Fault, NoFault, TypeOK, Values, Steps, secretVars
<1>6. CASE PutKey \/ PutToken
  BY <1>6, ExitTyped
     DEF PutKey, PutToken, Fatal, Fault, NoFault, Goto, TypeOK, Values, Steps, vaultVars
<1>7. CASE GetKey
  BY <1>7, ExitTyped
     DEF GetKey, Fatal, Fault, NoFault, TypeOK, Steps, vaultVars, secretVars
<1>8. CASE Wait \/ Kill
  BY <1>8, ExitTyped
     DEF Wait, Kill, Fatal, Fault, TypeOK, Steps, vaultVars, secretVars
<1>9. ASSUME NEW p \in Pods, Wake(p)
      PROVE  TypeOK'
  BY <1>9 DEF Wake, NoWorkers, TypeOK, vaultVars, secretVars
<1>10. ASSUME NEW p \in Pods, Unseal(p)
       PROVE  TypeOK'
  <2>1. unsealed' \subseteq joined /\ joined' = joined
    BY <1>10 DEF Unseal, TypeOK
  <2>2. CASE Fatal
    BY <1>10, <2>1, <2>2, ExitTyped DEF Unseal, Fatal, Fault, NoFault, TypeOK, Steps, secretVars
  <2>3. CASE worker' = [worker EXCEPT ![p] = "done"] /\ UNCHANGED <<pc, path, key>> /\ NoFault
    BY <1>10, <2>1, <2>3 DEF Unseal, NoFault, NoWorkers, TypeOK, secretVars
  <2> QED
    BY <1>10, <2>2, <2>3 DEF Unseal
<1> QED
  BY <1>1, <1>2, <1>3, <1>4, <1>5, <1>6, <1>7, <1>8, <1>9, <1>10 DEF Next, Main

\* Every variable keeps to its range, and goroutines run only in a process whose
\* main has a key for them.
THEOREM TypeCorrect == Spec => []TypeOK
BY TypeInit, TypeStep, PTL DEF Spec

-----------------------------------------------------------------------------
(* A run that reports success is complete. *)

\* Init and every step keep what has been stored, and what workers have done.
LEMMA StoreStep == Inductive /\ [Next]_vars => KeyInHand' /\ StoredSoFar'
<1> SUFFICES ASSUME Inductive, [Next]_vars
             PROVE  KeyInHand' /\ StoredSoFar'
  OBVIOUS
<1> USE DEF Inductive, KeyInHand, StoredSoFar
<1>1. CASE UNCHANGED <<secretVars, pc, path, key>>
  BY <1>1 DEF secretVars
<1>2. CASE UNCHANGED <<secretVars, path>> /\ pc' = "failed"
  BY <1>2
<1>3. CASE Run \/ RunAgain
  BY <1>3 DEF Run, RunAgain, Start
<1>4. CASE ReadHealth
  BY <1>2, <1>4 DEF ReadHealth, Fatal, Exit, secretVars
<1>5. CASE Initialize
  BY <1>2, <1>5 DEF Initialize, Fatal, Exit, secretVars, TypeOK
<1>6. CASE PutKey \/ PutToken
  <2>1. CASE PutKey /\ NoFault
    BY <2>1 DEF PutKey, Fatal, Exit, Goto
  <2>2. CASE PutToken /\ NoFault
    BY <2>2 DEF PutToken, Fatal, Exit, Goto
  <2>3. CASE Fatal
    BY <2>3 DEF Fatal, Exit
  <2>4. (PutKey /\ NoFault) \/ (PutToken /\ NoFault) \/ Fatal
    BY <1>6 DEF PutKey, PutToken, Fault, NoFault
  <2> QED
    BY <2>1, <2>2, <2>3, <2>4
<1>7. CASE GetKey
  BY <1>2, <1>7 DEF GetKey, Fatal, Exit, secretVars
<1>8. CASE Wait \/ Kill
  BY <1>2, <1>8 DEF Wait, Kill, Fatal, Exit, secretVars
<1>9. ASSUME NEW p \in Pods, Join(p) \/ RestartPod(p) \/ Wake(p) \/ Unseal(p)
      PROVE  KeyInHand' /\ StoredSoFar'
  BY <1>1, <1>2, <1>9 DEF Join, RestartPod, Wake, Unseal, Fatal, Exit, secretVars
<1> QED
  BY <1>1, <1>3, <1>4, <1>5, <1>6, <1>7, <1>8, <1>9 DEF Next, Main, vars

LEMMA WorkersStep == Inductive /\ [Next]_vars => DoneIsUnsealed' /\ AllUnsealed'
<1> SUFFICES ASSUME Inductive, [Next]_vars
             PROVE  DoneIsUnsealed' /\ AllUnsealed'
  OBVIOUS
<1>0. TypeOK /\ DoneIsUnsealed /\ AllUnsealed
  BY DEF Inductive
<1>1. ASSUME UNCHANGED <<unsealed, restarts, worker, path>>,
             pc' = pc \/ pc' # "succeeded" \/ path' = "nothing"
      PROVE  DoneIsUnsealed' /\ AllUnsealed'
  BY <1>0, <1>1 DEF DoneIsUnsealed, AllUnsealed
<1>2. ASSUME pc' # "succeeded", \A p \in Pods : worker'[p] # "done"
      PROVE  DoneIsUnsealed' /\ AllUnsealed'
  BY <1>2 DEF DoneIsUnsealed, AllUnsealed
<1>3. ASSUME Fatal
      PROVE  DoneIsUnsealed' /\ AllUnsealed'
  BY <1>2, <1>3 DEF Fatal, Exit, NoWorkers
<1>4. CASE UNCHANGED vars
  BY <1>1, <1>4 DEF vars
<1>5. CASE Run \/ RunAgain
  BY <1>2, <1>5 DEF Run, RunAgain, Start, NoWorkers
<1>6. CASE ReadHealth
  <2>1. CASE UNCHANGED worker
    BY <1>0, <1>6, <2>1 DEF ReadHealth, Fatal, Exit, DoneIsUnsealed, AllUnsealed, vaultVars
  <2> QED
    BY <1>3, <1>6, <2>1 DEF ReadHealth
<1>7. CASE Initialize
  BY <1>2, <1>3, <1>7 DEF Initialize
<1>8. CASE PutKey \/ PutToken
  BY <1>1, <1>3, <1>8 DEF PutKey, PutToken, Goto, vaultVars
<1>9. CASE GetKey
  BY <1>2, <1>3, <1>9 DEF GetKey
<1>10. CASE Wait
  <2>1. restarts = 0 => unsealed = Pods
    BY <1>0, <1>10 DEF Wait, DoneIsUnsealed, TypeOK
  <2> QED
    BY <1>10, <2>1 DEF Wait, Exit, NoWorkers, DoneIsUnsealed, AllUnsealed, vaultVars
<1>11. CASE Kill
  BY <1>3, <1>11 DEF Kill
<1>12. ASSUME NEW p \in Pods, Join(p)
       PROVE  DoneIsUnsealed' /\ AllUnsealed'
  BY <1>1, <1>12 DEF Join
<1>13. ASSUME NEW p \in Pods, RestartPod(p)
       PROVE  DoneIsUnsealed' /\ AllUnsealed'
  <2>1. restarts' # 0
    BY <1>0, <1>13, BoundsAssumption DEF RestartPod, TypeOK
  <2> QED
    BY <2>1 DEF DoneIsUnsealed, AllUnsealed
<1>14. ASSUME NEW p \in Pods, Wake(p)
       PROVE  DoneIsUnsealed' /\ AllUnsealed'
  BY <1>0, <1>14 DEF Wake, DoneIsUnsealed, AllUnsealed, TypeOK, vaultVars
<1>15. ASSUME NEW p \in Pods, Unseal(p)
       PROVE  DoneIsUnsealed' /\ AllUnsealed'
  <2>1. CASE worker' = [worker EXCEPT ![p] = "done"] /\ unsealed' = unsealed \union {p}
             /\ UNCHANGED <<pc, path>>
    <3>1. DoneIsUnsealed'
      BY <1>0, <1>15, <2>1 DEF Unseal, DoneIsUnsealed, TypeOK
    <3>2. pc # "succeeded"
      BY <1>0, <1>15 DEF Unseal, NoWorkers, TypeOK
    <3> QED
      BY <2>1, <3>1, <3>2 DEF AllUnsealed
  <2> QED
    BY <1>3, <1>15, <2>1 DEF Unseal
<1> QED
  BY <1>4, <1>5, <1>6, <1>7, <1>8, <1>9, <1>10, <1>11, <1>12, <1>13, <1>14, <1>15
     DEF Next, Main

LEMMA InductiveInvariant == Spec => []Inductive
<1>1. Init => Inductive
  BY TypeInit
     DEF Init, NoWorkers, Inductive, KeyInHand, StoredSoFar, DoneIsUnsealed, AllUnsealed
<1>2. Inductive /\ [Next]_vars => Inductive'
  BY TypeStep, StoreStep, WorkersStep DEF Inductive
<1> QED
  BY <1>1, <1>2, PTL DEF Spec

\* A run that initialized the cluster and reports success has stored the only
\* copies of key and token, and one that initialized or unsealed it has unsealed
\* every pod, although any goroutine may end the process at any time.
THEOREM Complete == Spec => []SuccessIsComplete
<1>1. Inductive => SuccessIsComplete
  BY DEF Inductive, StoredSoFar, AllUnsealed, SuccessIsComplete
<1> QED
  BY <1>1, InductiveInvariant, PTL
=============================================================================
