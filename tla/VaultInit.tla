----------------------------- MODULE VaultInit -----------------------------
(***************************************************************************)
(* The vault-init Job: it initializes the Vault cluster through its first  *)
(* pod, unseals every pod from a goroutine each and stores the unseal key  *)
(* and the root token, which nothing but this one process has, in secrets. *)
(* Its pods may die and be retried; a restarted Vault pod comes up sealed, *)
(* and the user then runs the Job again.                                   *)
(***************************************************************************)
EXTENDS Naturals

CONSTANTS Pods,         \* the pods of VAULT_CLUSTER
          First,        \* vaultFQDNs[0]
          MaxRuns,      \* bound on the runs of the Job, retries included
          MaxRestarts,  \* bound on restarts of Vault pods
          MaxFaults     \* bound on failed calls and killed processes

ASSUME PodsAssumption == First \in Pods
ASSUME BoundsAssumption == MaxRuns \in Nat /\ MaxRestarts \in Nat /\ MaxFaults \in Nat

VARIABLES joined,          \* pods that know the cluster's seal
          unsealed,        \* pods that are unsealed
          keySecret,       \* secret vault-unseal-key
          tokenSecret,     \* secret vault-root-token
          pc,              \* the main goroutine's next call
          path,            \* the branch main took
          key,             \* the unseal key the process holds
          worker,          \* the unSealWorker of each pod
          runs, restarts, faults

vars == <<joined, unsealed, keySecret, tokenSecret, pc, path, key, worker, runs, restarts, faults>>
vaultVars == <<joined, unsealed>>
secretVars == <<keySecret, tokenSecret>>

\* A key or token is this cluster's, one of an earlier cluster, or missing.
Values == {"current", "old", "none"}
Steps == {"health", "initialize", "putKey", "putToken", "getKey", "wait"}
NoWorkers == [p \in Pods |-> "none"]

\* The cluster is initialized through its first pod: it has a key and a token.
initialized == First \in joined

Init == /\ joined = {} /\ unsealed = {}
        /\ keySecret \in {"none", "old"} /\ tokenSecret = keySecret
        /\ pc = "none" /\ path = "none" /\ key = "none" /\ worker = NoWorkers
        /\ runs = 0 /\ restarts = 0 /\ faults = 0

-----------------------------------------------------------------------------
(* Vault and Kubernetes. *)

\* A pod other than the first joins once an active node answers (retry_join).
Join(p) ==
    /\ p \notin joined /\ unsealed # {}
    /\ joined' = joined \union {p}
    /\ UNCHANGED <<unsealed, secretVars, pc, path, key, worker, runs, restarts, faults>>

RestartPod(p) ==
    /\ p \in unsealed /\ restarts < MaxRestarts
    /\ restarts' = restarts + 1
    /\ unsealed' = unsealed \ {p}
    /\ UNCHANGED <<joined, secretVars, pc, path, key, worker, runs, faults>>

Start ==
    /\ runs < MaxRuns /\ runs' = runs + 1
    /\ pc' = "health" /\ path' = "none" /\ key' = "none" /\ worker' = NoWorkers
    /\ UNCHANGED <<vaultVars, secretVars, restarts, faults>>

\* The Job is applied, or its controller retries a failed pod.
Run == pc \in {"none", "failed"} /\ Start

\* "delete previous Succeeded job to re-run" it
RunAgain == pc = "succeeded" /\ Start

-----------------------------------------------------------------------------
(* The process.  log.Fatal, in any goroutine, ends all of them. *)

Fault == faults < MaxFaults /\ faults' = faults + 1
NoFault == UNCHANGED faults

\* Bug: main returns an error code but the goroutines go on.
ExitMainOnly(code) == pc' = code /\ key' = "none" /\ UNCHANGED <<worker, path>>

Exit(code) == /\ pc' = code /\ key' = "none" /\ worker' = NoWorkers
              /\ UNCHANGED path
Fatal == Exit("failed")

Goto(step) == pc' = step /\ UNCHANGED <<path, key, worker>>

ReadHealth ==
    /\ pc = "health"
    /\ \/ NoFault /\ pc' = "initialize" /\ path' = "init" /\ ~initialized
          /\ UNCHANGED <<key, worker>>
       \/ NoFault /\ pc' = "getKey" /\ path' = "unseal" /\ initialized /\ First \notin unsealed
          /\ UNCHANGED <<key, worker>>
       \/ NoFault /\ pc' = "succeeded" /\ path' = "nothing" /\ First \in unsealed
          /\ UNCHANGED <<key, worker>>
       \/ Fault /\ Fatal
    /\ UNCHANGED <<vaultVars, secretVars, runs, restarts>>

\* The other pods are given 8 s to join before they are unsealed.
Initialize ==
    LET Initialized == joined' = joined \union {First}
    IN  /\ pc = "initialize"
        /\ \/ /\ NoFault /\ Initialized
              /\ key' = "current" /\ pc' = "putKey" /\ UNCHANGED path
              /\ worker' = [p \in Pods |-> IF p = First THEN "unseal" ELSE "sleep"]
           \/ Fault /\ (Initialized \/ UNCHANGED joined) /\ Fatal
        /\ UNCHANGED <<unsealed, secretVars, runs, restarts>>

\* Create, or Get and Update when it exists; a failure of either is fatal.
PutKey ==
    /\ pc = "putKey"
    /\ \/ NoFault /\ keySecret' = key /\ Goto("putToken")
       \/ Fault /\ keySecret' \in {keySecret, key} /\ Fatal
    /\ UNCHANGED <<vaultVars, tokenSecret, runs, restarts>>

PutToken ==
    /\ pc = "putToken"
    /\ \/ NoFault /\ tokenSecret' = "current" /\ Goto("wait")
       \/ Fault /\ tokenSecret' \in {tokenSecret, "current"} /\ Fatal
    /\ UNCHANGED <<vaultVars, keySecret, runs, restarts>>

\* Bug: only the first pod is unsealed.
GetKeyForFirst ==
    /\ pc = "getKey"
    /\ \/ /\ NoFault /\ keySecret # "none"
          /\ key' = keySecret /\ pc' = "wait" /\ UNCHANGED path
          /\ worker' = [p \in Pods |-> IF p = First THEN "unseal" ELSE "done"]
       \/ NoFault /\ keySecret = "none" /\ Fatal
       \/ Fault /\ Fatal
    /\ UNCHANGED <<vaultVars, secretVars, runs, restarts>>

GetKey ==
    /\ pc = "getKey"
    /\ \/ /\ NoFault /\ keySecret # "none"
          /\ key' = keySecret /\ pc' = "wait" /\ UNCHANGED path
          /\ worker' = [p \in Pods |-> "unseal"]
       \/ NoFault /\ keySecret = "none" /\ Fatal
       \/ Fault /\ Fatal
    /\ UNCHANGED <<vaultVars, secretVars, runs, restarts>>

\* Bug: nobody waits for the goroutines.
ExitAtOnce ==
    /\ pc = "wait"
    /\ Exit("succeeded")
    /\ UNCHANGED <<vaultVars, secretVars, runs, restarts, faults>>

\* wg.Wait, then os.Exit(0)
Wait ==
    /\ pc = "wait" /\ \A p \in Pods : worker[p] = "done"
    /\ Exit("succeeded")
    /\ UNCHANGED <<vaultVars, secretVars, runs, restarts, faults>>

Wake(p) ==
    /\ worker[p] = "sleep"
    /\ worker' = [worker EXCEPT ![p] = "unseal"]
    /\ UNCHANGED <<vaultVars, secretVars, pc, path, key, runs, restarts, faults>>

\* Bug: a goroutine that fails returns without wg.Done.
UnsealOrReturn(p) ==
    LET accepted == p \in unsealed \/ (p \in joined /\ key = "current")
    IN  /\ worker[p] = "unseal"
        /\ \/ /\ NoFault /\ accepted /\ unsealed' = unsealed \union {p}
              /\ worker' = [worker EXCEPT ![p] = "done"]
           \/ /\ NoFault /\ ~accepted /\ UNCHANGED unsealed
              /\ worker' = [worker EXCEPT ![p] = "none"]
        /\ UNCHANGED <<joined, secretVars, pc, path, key, runs, restarts>>

\* A sealed pod refuses a wrong key, and one that has not joined knows no key.
Unseal(p) ==
    LET Unsealed == unsealed' = unsealed \union {p}
        accepted == p \in unsealed \/ (p \in joined /\ key = "current")
    IN  /\ worker[p] = "unseal"
        /\ \/ /\ NoFault /\ accepted /\ Unsealed
              /\ worker' = [worker EXCEPT ![p] = "done"] /\ UNCHANGED <<pc, path, key>>
           \/ NoFault /\ ~accepted /\ UNCHANGED unsealed /\ Fatal
           \/ /\ Fault /\ Fatal
              /\ \/ accepted /\ Unsealed
                 \/ UNCHANGED unsealed
        /\ UNCHANGED <<joined, secretVars, runs, restarts>>

Kill ==
    /\ pc \in Steps /\ Fault /\ Fatal
    /\ UNCHANGED <<vaultVars, secretVars, runs, restarts>>

Main == ReadHealth \/ Initialize \/ PutKey \/ PutToken \/ GetKey \/ Wait

Next == \/ Main \/ Kill \/ Run \/ RunAgain
        \/ \E p \in Pods : Wake(p) \/ Unseal(p) \/ Join(p) \/ RestartPod(p)

Spec == Init /\ [][Next]_vars

\* Go runs every goroutine, calls are taken to return, and the Job controller starts
\* a pod for the Job and for each failed one up to the backoff limit.  Users owe nothing.
Fairness == /\ WF_vars(Main) /\ WF_vars(Run)
            /\ \A p \in Pods : WF_vars(Wake(p)) /\ WF_vars(Unseal(p)) /\ WF_vars(Join(p))

FairSpec == Spec /\ Fairness

-----------------------------------------------------------------------------
(* Properties. *)

\* Every variable keeps to its range; goroutines run only after main has a key.
TypeOK ==
    /\ joined \subseteq Pods /\ unsealed \subseteq joined
    /\ keySecret \in Values /\ tokenSecret \in Values
    /\ pc \in Steps \union {"none", "succeeded", "failed"}
    /\ path \in {"none", "init", "unseal", "nothing"}
    /\ key \in Values
    /\ worker \in [Pods -> {"none", "sleep", "unseal", "done"}]
    /\ pc \notin {"putKey", "putToken", "wait"} => worker = NoWorkers
    /\ runs \in 0 .. MaxRuns /\ restarts \in 0 .. MaxRestarts /\ faults \in 0 .. MaxFaults

\* A run that initialized the cluster and reports success has stored the only
\* copies of the key and of the token; one that initialized or unsealed it has
\* unsealed every pod, although the goroutines race the main one to the end.
SuccessIsComplete ==
    pc = "succeeded" =>
        /\ path = "init" => keySecret = "current" /\ tokenSecret = "current"
        /\ path # "nothing" /\ restarts = 0 => unsealed = Pods

\* What makes that inductive: the key in hand is this cluster's until it is
\* stored, what main has stored so far stays, and a worker that is done leaves an
\* unsealed pod behind.
KeyInHand == /\ pc \in {"initialize", "putKey"} => path = "init"
             /\ pc = "getKey" => path = "unseal"
             /\ pc = "putKey" => key = "current"
StoredSoFar ==
    path = "init" => /\ pc \in {"putToken", "wait", "succeeded"} => keySecret = "current"
                     /\ pc \in {"wait", "succeeded"} => tokenSecret = "current"
DoneIsUnsealed == restarts = 0 => \A p \in Pods : worker[p] = "done" => p \in unsealed
AllUnsealed == pc = "succeeded" /\ path # "nothing" /\ restarts = 0 => unsealed = Pods

Inductive == TypeOK /\ KeyInHand /\ StoredSoFar /\ DoneIsUnsealed /\ AllUnsealed

\* The Job never hangs in wg.Wait: every run comes to an end.
RunEnds == pc = "health" ~> pc \in {"succeeded", "failed"}

\* When the key is stored, all pods have joined and the first is sealed, a run
\* that nothing disturbs any more unseals them all.
Undisturbed == faults = MaxFaults /\ restarts = MaxRestarts
ClusterRecovered ==
    pc = "getKey" /\ keySecret = "current" /\ joined = Pods /\ Undisturbed
        ~> pc = "succeeded" /\ unsealed = Pods

-----------------------------------------------------------------------------
(* What the repository says and the code does not do. *)

\* An initialized cluster is unsealed with the secret
\* (uml/vault-init-and-unseal.puml:18-19): the key is stored, or about to be.
KeyNotLost == initialized => keySecret = "current" \/ key = "current"
=============================================================================
