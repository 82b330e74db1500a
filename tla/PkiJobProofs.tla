---------------------------- MODULE PkiJobProofs ----------------------------
(***************************************************************************)
(* Theorems about PkiJob, for any number of runs and failures.             *)
(***************************************************************************)
EXTENDS PkiJob, TLAPS

\* Of the requests of one call any number up to Tries adds a root, more than one only
\* in a call that met a fault; an answered one starts the goroutine with the last.
LEMMA Generated ==
    ASSUME TypeOK, GenerateRoot
    PROVE  \E n \in 0 .. Tries :
              /\ roots' = roots + n /\ (n > 1 => Fault)
              /\ done' = IF n = 0 THEN done ELSE done \union {"generateRoot"}
              /\ \/ n > 0 /\ cert' = roots + n /\ pc' = "urlsRoot" /\ persist' = "create"
                 \/ Fault /\ UNCHANGED cert /\ pc' = "failed" /\ persist' = "none"
<1>1. CASE NoFault
  <2>1. ~Fault
    BY <1>1 DEF Fault, NoFault, TypeOK
  <2>2. /\ roots' = roots + 1 /\ done' = done \union {"generateRoot"}
        /\ cert' = roots + 1 /\ pc' = "urlsRoot" /\ persist' = "create"
    BY <2>1 DEF GenerateRoot
  <2>3. 1 \in 0 .. Tries /\ 1 > 0 /\ 1 # 0 /\ ~(1 > 1)
    BY DEF Tries
  <2> QED
    BY <2>2, <2>3
<1>2. CASE ~NoFault
  BY <1>2 DEF GenerateRoot, Fatal, Exit, Tries
<1> QED
  BY <1>1, <1>2

\* Init and every step keep the variables in their ranges.
LEMMA TypeInit == Init => TypeOK
BY BoundsAssumption DEF Init, TypeOK, Calls, Running, Leftover

\* The shapes that main's calls share, once for all of them.
LEMMA CallTyped ==
    ASSUME TypeOK, NEW call \in Calls, NEW next \in Running,
           \/ Enable(call, next)
           \/ DisableFlag(call, next)
           \/ \E check \in Running : SharedCall(call, check, next)
    PROVE  TypeOK'
<1>1. call \in Running
  BY DEF Running
<1> QED
  BY <1>1, BoundsAssumption DEF Enable, DisableFlag, SharedCall, Done, Goto, Fatal, Exit,
     Fault, NoFault, TypeOK, Running

LEMMA FatalCallTyped ==
    ASSUME TypeOK, NEW call \in Calls, NEW next \in Running, NEW STATE accepted,
           Call(call, accepted, next)
    PROVE  TypeOK'
<1>1. call \in Running
  BY DEF Running
<1> QED
  BY <1>1, BoundsAssumption DEF Call, Done, Goto, Fatal, Exit, Fault, NoFault, TypeOK, Running

LEMMA TypeStep == TypeOK /\ [Next]_vars => TypeOK'
<1> SUFFICES ASSUME TypeOK, [Next]_vars
             PROVE  TypeOK'
  OBVIOUS
<1> USE BoundsAssumption
<1>1. CASE UNCHANGED vars
  BY <1>1 DEF vars, TypeOK
<1>2. CASE Run \/ RunAgain
  BY <1>2, SMTT(60) DEF Run, RunAgain, Start, TypeOK, Running, vaultVars
<1>3. CASE Kill
  BY <1>3 DEF Kill, Fault, Fatal, Exit, TypeOK, Running, Calls, RootCalls, IntermCalls, vaultVars
<1>4. CASE ListMounts
  BY <1>4 DEF ListMounts, Mounts, ToInterm, Fault, NoFault, Goto, Fatal, Exit, TypeOK, Running, Calls,
              RootCalls, IntermCalls, vaultVars
<1>5. CASE EnableRoot \/ EnableInterm \/ RestrictRoot \/ RestrictInterm
  BY <1>5, CallTyped DEF EnableRoot, EnableInterm, RestrictRoot, RestrictInterm, ToInterm,
                         Calls, RootCalls, IntermCalls, Running
<1>6. CASE \/ TuneRoot \/ TuneInterm \/ ConfigureIntermUrls \/ WriteIntermRole
           \/ GenerateIntermediate \/ SignIntermediate \/ SetSignedIntermediate
  BY <1>6, FatalCallTyped DEF TuneRoot, TuneInterm, ConfigureIntermUrls, WriteIntermRole,
     GenerateIntermediate, SignIntermediate, SetSignedIntermediate,
     Calls, RootCalls, IntermCalls, Running
<1>7. CASE ConfigureRootUrls \/ WriteRootRole
  BY <1>7, CallTyped DEF ConfigureRootUrls, WriteRootRole, Calls, RootCalls, Running
<1>8. CASE CheckRootUrls \/ CheckRootRole
  BY <1>8 DEF CheckRootUrls, CheckRootRole, CheckErr, Goto, Fatal, Exit, TypeOK, Running, Calls,
              RootCalls, vaultVars
<1>9. CASE GenerateRoot
  <2>1. faults' \in 0 .. MaxFaults /\ UNCHANGED <<rootSecret, listed, err, runs>>
    BY <1>9 DEF GenerateRoot, Fault, NoFault, TypeOK
  <2>2. PICK n \in 0 .. Tries :
           /\ roots' = roots + n
           /\ done' = IF n = 0 THEN done ELSE done \union {"generateRoot"}
           /\ \/ n > 0 /\ cert' = roots + n /\ pc' = "urlsRoot" /\ persist' = "create"
              \/ UNCHANGED cert /\ pc' = "failed" /\ persist' = "none"
    BY <1>9, Generated
  <2>3. done' \subseteq Calls /\ roots' \in Nat /\ cert' \in Nat
    BY <2>2 DEF TypeOK, Calls, RootCalls, Tries
  <2> QED
    BY <2>1, <2>2, <2>3 DEF TypeOK, Running, Calls, RootCalls
<1>10. CASE Finish
  BY <1>10 DEF Finish, Exit, TypeOK, Running, Calls, RootCalls, IntermCalls, vaultVars
<1>11. CASE PersistCreate
  BY <1>11 DEF PersistCreate, Fault, NoFault, TypeOK, goroutineVars, vaultVars
<1>12. CASE PersistCheck \/ PersistSwitch \/ PersistUpdateCheck
  BY <1>12 DEF PersistCheck, PersistSwitch, PersistUpdateCheck, Fatal, Exit, TypeOK,
               goroutineVars, vaultVars
<1>13. CASE PersistUpdate
  BY <1>13 DEF PersistUpdate, Fault, NoFault, Fatal, Exit, TypeOK, goroutineVars, vaultVars
<1> QED
  BY <1>1, <1>2, <1>3, <1>4, <1>5, <1>6, <1>7, <1>8, <1>9, <1>10, <1>11, <1>12, <1>13
     DEF Next, Main, Persist

\* Whatever fails and however often the Job runs, every variable of it and of
\* Vault keeps to its range, and no goroutine outlives its process.
THEOREM TypeCorrect == Spec => []TypeOK
BY TypeInit, TypeStep, PTL DEF Spec

-----------------------------------------------------------------------------
(* One generating call. *)

LEMMA AnchoredInit == Init => Anchored
BY TypeInit, NoneAssumption DEF Init, Anchored, OneGeneratingCall, Tries, Leftover, RootNeedsMount,
   RootMissing, MountTuned, CarriesRoot

\* A step that leaves the roots alone keeps the invariant if main goes to no
\* call before the root's generation, but for the next one, and only the
\* goroutine writes the secret and only Sign adds "sign".
LEMMA RootsKept ==
    ASSUME Anchored, TypeOK', UNCHANGED <<roots, cert>>,
           done \subseteq done',
           rootSecret' \in {rootSecret, cert},
           rootSecret' # rootSecret => persist # "none",
           "sign" \in done' => "sign" \in done \/ roots > 0,
           faults' \in {faults, faults + 1},
           RootMissing', MountTuned',
           persist' # "none" => persist # "none"
    PROVE  Anchored'
BY NoneAssumption, BoundsAssumption DEF Anchored, TypeOK, OneGeneratingCall, Leftover, RootNeedsMount,
                                        CarriesRoot

LEMMA FaultsGrow ==
    ASSUME TypeOK, [Next]_vars
    PROVE  faults' \in {faults, faults + 1}
<1>1. CASE Persist \/ Run \/ RunAgain \/ Kill \/ UNCHANGED vars
  BY <1>1 DEF Persist, PersistCreate, PersistCheck, PersistSwitch, PersistUpdate,
     PersistUpdateCheck, Run, RunAgain, Start, Kill, Fault, NoFault, vars
<1>2. CASE \/ ListMounts \/ Finish \/ EnableRoot \/ EnableInterm \/ GenerateRoot
           \/ ConfigureRootUrls \/ CheckRootUrls \/ WriteRootRole \/ CheckRootRole
           \/ RestrictRoot \/ RestrictInterm
  BY <1>2 DEF ListMounts, Finish, EnableRoot, EnableInterm, Enable, GenerateRoot,
     ConfigureRootUrls, WriteRootRole, SharedCall, CheckRootUrls, CheckRootRole, CheckErr,
     RestrictRoot, RestrictInterm, DisableFlag, Fault, NoFault
<1>3. CASE \/ TuneRoot \/ TuneInterm \/ ConfigureIntermUrls \/ WriteIntermRole
           \/ GenerateIntermediate \/ SignIntermediate \/ SetSignedIntermediate
  BY <1>3 DEF TuneRoot, TuneInterm, ConfigureIntermUrls, WriteIntermRole,
     GenerateIntermediate, SignIntermediate, SetSignedIntermediate, Call, Fault, NoFault
<1> QED
  BY <1>1, <1>2, <1>3 DEF Next, Main

LEMMA AnchoredStep == Anchored /\ [Next]_vars => Anchored'
<1> SUFFICES ASSUME Anchored, [Next]_vars
             PROVE  Anchored'
  OBVIOUS
<1> DEFINE Early == {"enableRoot", "tuneRoot", "generateRoot"}
<1>a. TypeOK /\ TypeOK'
  BY TypeStep DEF Anchored
<1>b. ASSUME pc' \notin Early
      PROVE  RootMissing' /\ MountTuned'
  BY <1>b DEF RootMissing, MountTuned
<1>c. faults' \in {faults, faults + 1}
  BY FaultsGrow DEF Anchored
<1>1. CASE UNCHANGED vars
  BY <1>1 DEF vars, Anchored, TypeOK, OneGeneratingCall, RootNeedsMount, RootMissing, MountTuned,
              CarriesRoot, Calls, Running
<1>2. CASE Run \/ RunAgain
  BY <1>2, <1>a DEF Run, RunAgain, Start, Anchored, OneGeneratingCall, RootNeedsMount, RootMissing,
                    MountTuned, CarriesRoot, vaultVars
<1>3. CASE Kill \/ Finish
  BY <1>3, <1>a, <1>b, <1>c, RootsKept DEF Kill, Finish, Fatal, Exit, vaultVars
<1>4. CASE ListMounts
  <2>1. RootMissing' /\ MountTuned'
    BY <1>4, <1>a DEF ListMounts, ToInterm, Goto, Fatal, Exit, Anchored, RootNeedsMount,
                      RootMissing, MountTuned, OneGeneratingCall, vaultVars
  <2> QED
    BY <1>4, <1>a, <2>1, <1>c, RootsKept DEF ListMounts, Goto, Fatal, Exit, vaultVars
<1>5. CASE EnableRoot
  BY <1>5, <1>a, <1>c, RootsKept DEF EnableRoot, Enable, Done, Goto, Anchored, RootMissing, MountTuned
<1>6. CASE TuneRoot
  BY <1>6, <1>a, <1>c, RootsKept DEF TuneRoot, Call, Done, Goto, Fatal, Exit, Anchored, RootMissing,
                               MountTuned
<1>7. CASE GenerateRoot
  <2>1. roots = 0 /\ "enableRoot" \in done /\ faults \in Nat
    BY <1>7, <1>a, BoundsAssumption DEF GenerateRoot, Anchored, RootMissing, MountTuned, TypeOK
  <2>2. PICK n \in 0 .. Tries :
           /\ roots' = roots + n /\ (n > 1 => Fault)
           /\ done' = IF n = 0 THEN done ELSE done \union {"generateRoot"}
           /\ \/ n > 0 /\ cert' = roots + n /\ pc' = "urlsRoot" /\ persist' = "create"
              \/ UNCHANGED cert /\ pc' = "failed" /\ persist' = "none"
    BY <1>7, <1>a, Generated
  <2>3. roots' = n /\ n \in Nat /\ UNCHANGED rootSecret
    BY <1>7, <2>1, <2>2 DEF GenerateRoot, Tries
  <2>4. rootSecret \in {None, Leftover} /\ "sign" \notin done
    BY <2>1, NoneAssumption DEF Anchored, OneGeneratingCall, Leftover
  <2>5. OneGeneratingCall'
    BY <2>1, <2>2, <2>3, <2>4 DEF OneGeneratingCall, Fault, Leftover
  <2>6. RootNeedsMount' /\ RootMissing' /\ MountTuned' /\ CarriesRoot'
    BY <2>1, <2>2, <2>3 DEF RootNeedsMount, RootMissing, MountTuned, CarriesRoot
  <2> QED
    BY <1>a, <2>5, <2>6 DEF Anchored
<1>8. CASE ConfigureRootUrls \/ WriteRootRole
  BY <1>8, <1>a, <1>b, <1>c, RootsKept DEF ConfigureRootUrls, WriteRootRole, SharedCall, Done, Goto,
                                     Fatal, Exit
<1>9. CASE CheckRootUrls \/ CheckRootRole
  BY <1>9, <1>a, <1>b, <1>c, RootsKept DEF CheckRootUrls, CheckRootRole, CheckErr, Goto, Fatal, Exit,
                                     vaultVars
<1>10. CASE RestrictRoot \/ RestrictInterm \/ EnableInterm
  BY <1>10, <1>a, <1>b, <1>c, RootsKept DEF RestrictRoot, RestrictInterm, EnableInterm, Enable,
                                      DisableFlag, ToInterm, Done, Goto
<1>11. CASE \/ TuneInterm \/ ConfigureIntermUrls \/ WriteIntermRole
            \/ GenerateIntermediate \/ SetSignedIntermediate
  BY <1>11, <1>a, <1>b, <1>c, RootsKept DEF TuneInterm, ConfigureIntermUrls, WriteIntermRole,
     GenerateIntermediate, SetSignedIntermediate, Call, Done, Goto, Fatal, Exit
<1>12. CASE SignIntermediate
  BY <1>12, <1>a, <1>b, <1>c, RootsKept DEF SignIntermediate, Call, Done, Goto, Fatal, Exit
<1>13. CASE Persist
  <2>1. \/ UNCHANGED pc
        \/ pc' = "failed"
    BY <1>13 DEF Persist, PersistCreate, PersistCheck, PersistSwitch, PersistUpdate,
                 PersistUpdateCheck, Fatal, Exit
  <2>2. RootMissing' /\ MountTuned'
    BY <1>13, <2>1 DEF Persist, PersistCreate, PersistCheck, PersistSwitch, PersistUpdate,
       PersistUpdateCheck, goroutineVars, vaultVars, Anchored, RootMissing, MountTuned
  <2> QED
    BY <1>13, <1>a, <2>2, <1>c, RootsKept DEF Persist, PersistCreate, PersistCheck, PersistSwitch,
       PersistUpdate, PersistUpdateCheck, goroutineVars, vaultVars
<1> QED
  BY <1>1, <1>2, <1>3, <1>4, <1>5, <1>6, <1>7, <1>8, <1>9, <1>10, <1>11, <1>12, <1>13
     DEF Next, Main

\* The strengthened invariant of the Job's path to the root holds for good.
THEOREM AnchoredInvariant == Spec => []Anchored
BY AnchoredInit, AnchoredStep, PTL DEF Spec

\* Over any number of runs, failures and lost answers one call generates the roots,
\* several only under a fault, and what a run of this cluster put in the secret is
\* the root which that call returned.
THEOREM TrustAnchor == Spec => []OneGeneratingCall
<1>1. Anchored => OneGeneratingCall
  BY DEF Anchored
<1> QED
  BY <1>1, AnchoredInvariant, PTL

-----------------------------------------------------------------------------
(* A fresh run leaves nothing out, but for what its code cannot notice. *)

LEMMA Places ==
    /\ Place["enableRoot"] = 1 /\ Place["tuneRoot"] = 2 /\ Place["generateRoot"] = 3
    /\ Place["urlsRoot"] = 4 /\ Place["urlsCheck"] = 5 /\ Place["roleRoot"] = 5
    /\ Place["roleCheck"] = 6 /\ Place["restrictRoot"] = 6
    /\ Place["enableInterm"] = 7 /\ Place["tuneInterm"] = 8 /\ Place["urlsInterm"] = 9
    /\ Place["roleInterm"] = 10 /\ Place["restrictInterm"] = 11 /\ Place["csr"] = 12
    /\ Place["sign"] = 13 /\ Place["setSigned"] = 14 /\ Place["exit"] = 15
BY DEF Place

LEMMA PlacesOfCalls ==
    /\ \A call \in Calls : Place[call] \in 1 .. 14
    /\ \A c, d \in Calls : Place[c] = Place[d] => c = d
BY Places DEF Calls, RootCalls, IntermCalls

\* Main goes past a call that took effect, or whose failure it cannot see yet.
LEMMA Advance ==
    ASSUME Progress, NEW call \in Calls, pc = call,
           pc' \in Running \ {"list"}, Place[pc'] = Place[call] + 1,
           done \subseteq done', listed' = listed, faults \in Nat, faults' \in {faults, faults + 1},
           call \in done' \/ (faults' > 0 /\ call \in Unnoticed \union Mounts),
           \A c \in Mounts : Place[call] = Place[c] + 1 => c \in done'
    PROVE  Progress'
<1> SUFFICES ASSUME listed = {}, NEW c \in Calls, Place[c] < Place[pc']
             PROVE  \/ c \in done'
                    \/ /\ faults' > 0
                       /\ c \in Unnoticed \/ (c \in Mounts /\ Place[pc'] = Place[c] + 1)
  BY DEF Progress, NotYetNoticed
<1>1. call \in Running \ {"list"}
  BY DEF Running, Calls, RootCalls, IntermCalls
<1>2. CASE c = call
  BY <1>2
<1>3. CASE c # call
  <2>1. Place[c] < Place[call]
    BY <1>3, PlacesOfCalls
  <2>2. \/ c \in done
        \/ faults > 0 /\ (c \in Unnoticed \/ (c \in Mounts /\ Place[call] = Place[c] + 1))
    BY <1>1, <2>1 DEF Progress, NotYetNoticed
  <2> QED
    BY <2>2
<1> QED
  BY <1>2, <1>3

\* The shapes of main's calls, once for all of them: a call has taken effect
\* when main goes on, or its failure counts and is one that main cannot notice.
LEMMA CallPassed ==
    ASSUME TypeOK, NEW call \in Calls, NEW next \in Running, NEW check \in Running,
           NEW STATE accepted,
           \/ (Enable(call, next) \/ DisableFlag(call, next) \/ SharedCall(call, check, next))
                 /\ call \in Unnoticed \union Mounts
           \/ Call(call, accepted, next)
    PROVE  /\ pc = call /\ listed' = listed /\ done \subseteq done'
           /\ faults \in Nat /\ faults' \in {faults, faults + 1}
           /\ \/ pc' = "failed"
              \/ /\ pc' \in {next, check}
                 /\ call \in done' \/ (faults' > 0 /\ call \in Unnoticed \union Mounts)
<1>1. pc = call /\ listed' = listed
  BY DEF Enable, DisableFlag, SharedCall, Call
<1>2. faults \in Nat /\ (Fault => faults' = faults + 1 /\ faults' > 0) /\ (NoFault => faults' = faults)
  BY BoundsAssumption DEF TypeOK, Fault, NoFault
<1>3. CASE Enable(call, next) /\ call \in Unnoticed \union Mounts
  BY <1>1, <1>2, <1>3 DEF Enable, Done, Goto
<1>4. CASE DisableFlag(call, next) /\ call \in Unnoticed \union Mounts
  BY <1>1, <1>2, <1>4 DEF DisableFlag, Done, Goto
<1>5. CASE SharedCall(call, check, next) /\ call \in Unnoticed \union Mounts
  BY <1>1, <1>2, <1>5 DEF SharedCall, Done, Goto, Fatal, Exit
<1>6. CASE Call(call, accepted, next)
  BY <1>1, <1>2, <1>6 DEF Call, Done, Goto, Fatal, Exit
<1> QED
  BY <1>3, <1>4, <1>5, <1>6

LEMMA ProgressStep == Anchored /\ Progress /\ [Next]_vars => Progress'
<1> SUFFICES ASSUME Anchored, Progress, [Next]_vars
             PROVE  Progress'
  OBVIOUS
<1>0. TypeOK
  BY DEF Anchored
<1>1. CASE pc' \notin Running \ {"list"}
  BY <1>1 DEF Progress
<1>2. ASSUME pc' = "failed"
      PROVE  Progress'
  BY <1>1, <1>2 DEF Running, Calls, RootCalls, IntermCalls
<1>3. ASSUME NEW call \in Calls, NEW next \in Running \ {"list"}, NEW check \in Running \ {"list"},
             NEW STATE accepted,
             Place[next] = Place[call] + 1, Place[check] = Place[next],
             \/ (Enable(call, next) \/ DisableFlag(call, next) \/ SharedCall(call, check, next))
                   /\ call \in Unnoticed \union Mounts
             \/ Call(call, accepted, next),
             pc' = "failed" \/ \A c \in Mounts : Place[call] = Place[c] + 1 => c \in done'
      PROVE  Progress'
  <2>1. /\ pc = call /\ listed' = listed /\ done \subseteq done'
        /\ faults \in Nat /\ faults' \in {faults, faults + 1}
        /\ \/ pc' = "failed"
           \/ /\ pc' \in {next, check}
              /\ call \in done' \/ (faults' > 0 /\ call \in Unnoticed \union Mounts)
    BY <1>0, <1>3, CallPassed
  <2> QED
    BY <1>2, <1>3, <2>1, Advance
<1>4. \A c \in Mounts : Place[c] \in {1, 7} /\ c \in {"enableRoot", "enableInterm"}
  BY Places DEF Mounts
<1> USE Places
<1> DEFINE In == {"enableRoot", "tuneRoot", "generateRoot", "urlsRoot", "roleRoot", "restrictRoot",
                  "enableInterm", "tuneInterm", "urlsInterm", "roleInterm", "restrictInterm",
                  "csr", "sign", "setSigned"}
<1>5. In \subseteq Calls /\ In \union {"urlsCheck", "roleCheck", "exit"} \subseteq Running \ {"list"}
  BY DEF Running, Calls, RootCalls, IntermCalls
<1>6. CASE EnableRoot
  BY <1>3, <1>4, <1>5, <1>6 DEF EnableRoot, Mounts
<1>7. CASE TuneRoot
  <2>1. pc' = "failed" \/ "enableRoot" \in done'
    BY <1>7 DEF TuneRoot, Call, Done, Fatal, Exit
  <2> QED
    BY <1>3, <1>4, <1>5, <1>7, <2>1 DEF TuneRoot
<1>8. CASE ConfigureRootUrls
  BY <1>3, <1>4, <1>5, <1>8 DEF ConfigureRootUrls, Unnoticed
<1>9. CASE WriteRootRole
  BY <1>3, <1>4, <1>5, <1>9 DEF WriteRootRole, Unnoticed
<1>10. CASE RestrictRoot
  <2>1. CASE listed = {}
    <3>1. DisableFlag("restrictRoot", "enableInterm")
      BY <1>10, <2>1 DEF RestrictRoot, ToInterm
    <3> QED
      BY <1>3, <1>4, <1>5, <3>1 DEF Unnoticed
  <2>2. CASE listed # {}
    BY <1>10, <2>2 DEF RestrictRoot, DisableFlag, Progress
  <2> QED
    BY <2>1, <2>2
<1>11. CASE EnableInterm
  BY <1>3, <1>4, <1>5, <1>11 DEF EnableInterm, Mounts
<1>12. CASE TuneInterm
  <2>1. pc' = "failed" \/ "enableInterm" \in done'
    BY <1>12 DEF TuneInterm, Call, Done, Fatal, Exit
  <2> QED
    BY <1>3, <1>4, <1>5, <1>12, <2>1 DEF TuneInterm
<1>13. CASE ConfigureIntermUrls \/ WriteIntermRole \/ GenerateIntermediate
            \/ SignIntermediate \/ SetSignedIntermediate
  <2> DEFINE Passed(call, next) == pc = call /\ pc' = next /\ call \in done'
  <2>1. listed' = listed /\ done \subseteq done'
    BY <1>13 DEF ConfigureIntermUrls, WriteIntermRole, GenerateIntermediate, SignIntermediate,
                 SetSignedIntermediate, Call, Done
  <2>2. faults \in Nat /\ faults' \in {faults, faults + 1}
    BY <1>0, <1>13, BoundsAssumption
       DEF ConfigureIntermUrls, WriteIntermRole, GenerateIntermediate, SignIntermediate,
           SetSignedIntermediate, Call, Fault, NoFault, TypeOK
  <2>3. \/ pc' = "failed"
        \/ Passed("urlsInterm", "roleInterm") \/ Passed("roleInterm", "restrictInterm")
        \/ Passed("csr", "sign") \/ Passed("sign", "setSigned") \/ Passed("setSigned", "exit")
    BY <1>13 DEF ConfigureIntermUrls, WriteIntermRole, GenerateIntermediate, SignIntermediate,
                 SetSignedIntermediate, Call, Done, Goto, Fatal, Exit
  <2> QED
    BY <1>2, <1>4, <1>5, <2>1, <2>2, <2>3, Advance
<1>14. CASE RestrictInterm
  BY <1>3, <1>4, <1>5, <1>14 DEF RestrictInterm, Unnoticed
<1>15. CASE CheckRootUrls \/ CheckRootRole
  <2>1. UNCHANGED <<listed, done, faults>>
    BY <1>15 DEF CheckRootUrls, CheckRootRole, CheckErr, vaultVars
  <2>2. \/ pc' = "failed"
        \/ pc \in {"urlsCheck", "roleCheck"} /\ pc' \in Running \ {"list"} /\ Place[pc'] = Place[pc]
    BY <1>5, <1>15 DEF CheckRootUrls, CheckRootRole, CheckErr, Goto, Fatal, Exit
  <2> QED
    BY <1>2, <1>5, <2>1, <2>2 DEF Progress, NotYetNoticed
<1>16. CASE GenerateRoot
  <2>1. /\ pc = "generateRoot" /\ listed' = listed
        /\ faults \in Nat /\ faults' \in {faults, faults + 1}
    BY <1>0, <1>16, BoundsAssumption DEF GenerateRoot, TypeOK, Fault, NoFault
  <2>2. \/ pc' = "failed"
        \/ pc' = "urlsRoot" /\ done' = done \union {"generateRoot"}
    BY <1>0, <1>16, Generated
  <2> QED
    BY <1>2, <1>4, <1>5, <2>1, <2>2, Advance
<1>17. CASE ListMounts
  <2>1. ASSUME listed' = {}, pc' # "failed"
        PROVE  pc' = "enableRoot"
    BY <1>17, <2>1 DEF ListMounts, Mounts, Goto, Fatal, Exit
  <2> QED
    BY <1>2, <2>1, PlacesOfCalls DEF Progress
<1>18. CASE Persist
  <2>1. UNCHANGED <<listed, done>> /\ (pc' = pc \/ pc' = "failed")
    BY <1>18 DEF Persist, PersistCreate, PersistCheck, PersistSwitch, PersistUpdate,
                 PersistUpdateCheck, goroutineVars, vaultVars, Fatal, Exit
  <2>2. faults \in Nat /\ faults' \in {faults, faults + 1}
    BY <1>0, <1>18, BoundsAssumption
       DEF Persist, PersistCreate, PersistCheck, PersistSwitch, PersistUpdate,
           PersistUpdateCheck, TypeOK, Fault, NoFault
  <2> QED
    BY <1>2, <2>1, <2>2 DEF Progress, NotYetNoticed
<1>19. CASE Run \/ RunAgain \/ Kill \/ Finish
  BY <1>1, <1>19 DEF Run, RunAgain, Start, Kill, Finish, Fatal, Exit, Running, Calls, RootCalls,
                     IntermCalls
<1>20. CASE UNCHANGED vars
  BY <1>20 DEF vars, Progress, NotYetNoticed
<1> QED
  BY <1>6, <1>7, <1>8, <1>9, <1>10, <1>11, <1>12, <1>13, <1>14, <1>15, <1>16, <1>17, <1>18,
     <1>19, <1>20 DEF Next, Main

\* Main reports success in Finish only, and is past every call there.
LEMMA CompleteStep ==
    Anchored /\ Progress /\ FreshRunComplete /\ [Next]_vars => FreshRunComplete'
<1> SUFFICES ASSUME Anchored, Progress, FreshRunComplete, [Next]_vars, pc' = "succeeded"
             PROVE  FreshRunComplete'
  BY DEF FreshRunComplete
<1>1. CASE Finish
  <2> SUFFICES ASSUME listed = {}
               PROVE  /\ Calls \ Unnoticed \subseteq done
                      /\ faults = 0 => done = Calls
    BY <1>1 DEF Finish, FreshRunComplete, vaultVars
  <2>1. pc = "exit" /\ pc \in Running \ {"list"}
    BY <1>1 DEF Finish, Running, Calls, RootCalls, IntermCalls
  <2>2. \A call \in Calls : Place[call] < Place[pc]
    BY <2>1, Places, PlacesOfCalls
  <2>3. \A call \in Calls : ~NotYetNoticed(call)
    BY <2>1, Places DEF NotYetNoticed, Mounts
  <2>4. \A call \in Calls : call \in done \/ (faults > 0 /\ call \in Unnoticed)
    BY <2>1, <2>2, <2>3 DEF Progress
  <2> QED
    BY <2>4 DEF Anchored, TypeOK
<1>2. CASE UNCHANGED <<pc, listed, done, faults>>
  BY <1>2 DEF FreshRunComplete
<1>3. ~(Run \/ RunAgain \/ Kill)
  BY DEF Run, RunAgain, Start, Kill, Fatal, Exit
<1>4. ~ListMounts
  BY DEF ListMounts, Goto, ToInterm, Fatal, Exit
<1>5. ~(EnableRoot \/ RestrictRoot \/ EnableInterm \/ RestrictInterm)
  BY DEF EnableRoot, RestrictRoot, EnableInterm, RestrictInterm, Enable, DisableFlag, ToInterm, Goto
<1>6. ~(\/ TuneRoot \/ TuneInterm \/ ConfigureIntermUrls \/ WriteIntermRole
        \/ GenerateIntermediate \/ SignIntermediate \/ SetSignedIntermediate)
  BY DEF TuneRoot, TuneInterm, ConfigureIntermUrls, WriteIntermRole, GenerateIntermediate,
         SignIntermediate, SetSignedIntermediate, Call, Goto, Fatal, Exit
<1>7. ~(\/ ConfigureRootUrls \/ WriteRootRole \/ CheckRootUrls \/ CheckRootRole \/ GenerateRoot)
  BY DEF ConfigureRootUrls, WriteRootRole, SharedCall, CheckRootUrls, CheckRootRole, CheckErr,
         GenerateRoot, Goto, Fatal, Exit
<1>8. ~Persist
  <2>1. ASSUME Persist
        PROVE  pc' = pc \/ pc' = "failed"
    BY <2>1 DEF Persist, PersistCreate, PersistCheck, PersistSwitch, PersistUpdate,
                PersistUpdateCheck, Fatal, Exit
  <2>2. persist = "none" \/ pc # "succeeded"
    BY DEF Anchored, TypeOK, Running, Calls, RootCalls, IntermCalls
  <2> QED
    BY <2>1, <2>2 DEF Persist, PersistCreate, PersistCheck, PersistSwitch, PersistUpdate,
                      PersistUpdateCheck
<1> QED
  BY <1>1, <1>2, <1>3, <1>4, <1>5, <1>6, <1>7, <1>8 DEF Next, Main, vars

-----------------------------------------------------------------------------
(* Without a failed call a run fails on a leftover secret only. *)

LEMMA FaultsCount ==
    ASSUME TypeOK, [Next]_vars, faults' = 0
    PROVE  faults = 0 /\ ~Fault
BY FaultsGrow, BoundsAssumption DEF TypeOK, Fault

Faultless == ErrIsLeftover /\ NothingRefused /\ FailsOnlyOnLeftover

LEMMA FaultlessStep == Anchored /\ Faultless /\ [Next]_vars => Faultless'
<1> SUFFICES ASSUME Anchored, Faultless, [Next]_vars, faults' = 0
             PROVE  Faultless'
  BY DEF Faultless, ErrIsLeftover, NothingRefused, FailsOnlyOnLeftover
<1>0. TypeOK /\ faults = 0 /\ ~Fault
  BY FaultsCount DEF Anchored
<1> USE DEF ErrIsLeftover, NothingRefused, FailsOnlyOnLeftover
<1>1. CASE UNCHANGED vars
  BY <1>1 DEF vars, Faultless
<1>2. CASE Run \/ RunAgain
  BY <1>0, <1>2 DEF Run, RunAgain, Start, vaultVars, Faultless
<1>3. ~Kill
  BY <1>0 DEF Kill
<1>4. CASE ListMounts
  BY <1>0, <1>4 DEF ListMounts, Goto, ToInterm, vaultVars, Faultless
<1>5. CASE Finish
  BY <1>0, <1>5 DEF Finish, Exit, vaultVars, Faultless
<1>6. CASE EnableRoot \/ EnableInterm
  BY <1>0, <1>6 DEF EnableRoot, EnableInterm, Enable, Done, Goto, Faultless
<1>7. CASE RestrictRoot \/ RestrictInterm
  BY <1>0, <1>7 DEF RestrictRoot, RestrictInterm, DisableFlag, Done, Goto, ToInterm, Faultless
<1>8. CASE TuneRoot \/ TuneInterm
  BY <1>0, <1>8 DEF TuneRoot, TuneInterm, Call, Done, Goto, Faultless
<1>9. CASE ConfigureIntermUrls \/ WriteIntermRole \/ GenerateIntermediate \/ SetSignedIntermediate
  BY <1>0, <1>9 DEF ConfigureIntermUrls, WriteIntermRole, GenerateIntermediate,
                    SetSignedIntermediate, Call, Done, Goto, Faultless
<1>10. CASE SignIntermediate
  BY <1>0, <1>10 DEF SignIntermediate, Call, Done, Goto, Faultless, TypeOK
<1>11. CASE GenerateRoot
  <2>1. pc = "generateRoot" /\ pc' = "urlsRoot" /\ roots' = roots + 1
        /\ UNCHANGED <<rootSecret, err>> /\ persist' = "create"
    BY <1>0, <1>11 DEF GenerateRoot
  <2>2. roots = 0 /\ rootSecret \in {None, Leftover}
    BY <2>1, NoneAssumption DEF Anchored, OneGeneratingCall, RootMissing, Leftover
  <2> QED
    BY <1>0, <2>1, <2>2 DEF Faultless
<1>12. CASE ConfigureRootUrls \/ WriteRootRole
  BY <1>0, <1>12 DEF ConfigureRootUrls, WriteRootRole, SharedCall, Done, Goto, Faultless
<1>13. CASE CheckRootUrls \/ CheckRootRole
  BY <1>0, <1>13 DEF CheckRootUrls, CheckRootRole, CheckErr, Goto, Fatal, Exit, vaultVars, Faultless
<1>14. CASE Persist
  <2>1. pc # "failed" /\ UNCHANGED <<roots, done>>
    BY <1>0, <1>14 DEF Persist, PersistCreate, PersistCheck, PersistSwitch, PersistUpdate,
       PersistUpdateCheck, goroutineVars, vaultVars, TypeOK, Running, Calls, RootCalls, IntermCalls
  <2>2. NothingRefused'
    <3>1. persist # "none" /\ (pc' = pc \/ pc' = "failed")
      BY <1>14 DEF Persist, PersistCreate, PersistCheck, PersistSwitch, PersistUpdate,
         PersistUpdateCheck, Fatal, Exit
    <3>2. roots # 0
      BY <3>1 DEF Anchored, CarriesRoot
    <3> QED
      BY <1>0, <2>1, <3>1, <3>2 DEF Faultless
  <2>3. CASE PersistCreate
    BY <1>0, <2>1, <2>2, <2>3 DEF PersistCreate, Faultless
  <2>4. CASE PersistCheck \/ PersistSwitch
    BY <1>0, <2>1, <2>2, <2>4 DEF PersistCheck, PersistSwitch, Fatal, Exit, goroutineVars, Faultless
  <2>5. CASE PersistUpdate \/ PersistUpdateCheck
    BY <1>0, <2>1, <2>2, <2>5
       DEF PersistUpdate, PersistUpdateCheck, Fatal, Exit, goroutineVars, Faultless
  <2> QED
    BY <1>14, <2>3, <2>4, <2>5 DEF Persist
<1> QED
  BY <1>1, <1>2, <1>3, <1>4, <1>5, <1>6, <1>7, <1>8, <1>9, <1>10, <1>11, <1>12, <1>13, <1>14
     DEF Next, Main

LEMMA InductiveInvariant == Spec => []Inductive
<1>1. Init => Inductive
  <2>1. Init => Anchored
    BY AnchoredInit
  <2>2. Init => Progress /\ FreshRunComplete
    BY DEF Init, Progress, FreshRunComplete, Running, Calls, RootCalls, IntermCalls
  <2>3. Init => ErrIsLeftover /\ NothingRefused /\ FailsOnlyOnLeftover
    BY DEF Init, ErrIsLeftover, NothingRefused, FailsOnlyOnLeftover
  <2> QED
    BY <2>1, <2>2, <2>3 DEF Inductive
<1>2. Inductive /\ [Next]_vars => Inductive'
  BY AnchoredStep, ProgressStep, CompleteStep, FaultlessStep DEF Inductive, Faultless
<1> QED
  BY <1>1, <1>2, PTL DEF Spec

\* A run that found neither mount and reports success has left out no call but
\* those whose failure the shared err or disableFlag hides; the results that
\* Enable throws away are caught by the call after it.
THEOREM FreshComplete == Spec => []FreshRunComplete
<1>1. Inductive => FreshRunComplete
  BY DEF Inductive
<1> QED
  BY <1>1, InductiveInvariant, PTL

\* The race on err is harmless but on a leftover secret: in every interleaving
\* without a failed call, a run that fails has found one and leaves it as it is.
THEOREM FailsOnLeftover == Spec => []FailsOnlyOnLeftover
<1>1. Inductive => FailsOnlyOnLeftover
  BY DEF Inductive
<1> QED
  BY <1>1, InductiveInvariant, PTL

-----------------------------------------------------------------------------
(* The Job implements CAPublication.                                         *)

\* The roots are made once; the secret gets the last from the run that made them.
Made == roots = 0 /\ roots' \in 1 .. Tries /\ UNCHANGED rootSecret
Persisted == /\ roots \in 1 .. Tries /\ UNCHANGED roots
             /\ rootSecret \in {None, Leftover, roots} /\ rootSecret' = roots

LEMMA RootEffects ==
    ASSUME Anchored, [Next]_vars
    PROVE  UNCHANGED <<roots, rootSecret>> \/ Made \/ Persisted
<1>1. CASE \/ Finish \/ ListMounts \/ CheckRootUrls \/ CheckRootRole
           \/ Run \/ RunAgain \/ Kill \/ UNCHANGED vars
  BY <1>1 DEF Finish, ListMounts, CheckRootUrls, CheckRootRole, CheckErr, Run, RunAgain, Start,
              Kill, vaultVars, vars
<1>2. CASE \/ EnableRoot \/ EnableInterm \/ ConfigureRootUrls \/ WriteRootRole
           \/ RestrictRoot \/ RestrictInterm
  BY <1>2 DEF EnableRoot, EnableInterm, Enable, ConfigureRootUrls, WriteRootRole, SharedCall,
              RestrictRoot, RestrictInterm, DisableFlag
<1>3. CASE \/ TuneRoot \/ TuneInterm \/ ConfigureIntermUrls \/ WriteIntermRole
           \/ GenerateIntermediate \/ SignIntermediate \/ SetSignedIntermediate
  BY <1>3 DEF TuneRoot, TuneInterm, ConfigureIntermUrls, WriteIntermRole, GenerateIntermediate,
              SignIntermediate, SetSignedIntermediate, Call
<1>4. CASE GenerateRoot
  <2>1. roots = 0 /\ UNCHANGED rootSecret
    BY <1>4 DEF GenerateRoot, Anchored, RootMissing
  <2>2. PICK n \in 0 .. Tries : roots' = roots + n
    BY <1>4, Generated DEF Anchored
  <2> QED
    BY <2>1, <2>2 DEF Made, Tries
<1>5. CASE Persist
  <2>1. UNCHANGED roots /\ rootSecret' \in {rootSecret, cert} /\ persist # "none"
    BY <1>5 DEF Persist, PersistCreate, PersistCheck, PersistSwitch, PersistUpdate,
                PersistUpdateCheck, goroutineVars, vaultVars
  <2>2. roots \in 1 .. Tries /\ cert = roots /\ rootSecret \in {None, Leftover, roots}
    BY <2>1 DEF Anchored, CarriesRoot, OneGeneratingCall, Tries
  <2> QED
    BY <2>1, <2>2 DEF Persisted
<1> QED
  BY <1>1, <1>2, <1>3, <1>4, <1>5 DEF Next, Main

\* Over all runs, whatever fails and is retried and whatever an earlier cluster
\* left in the secret, the Job does what CAPublication allows: its authority is
\* established once, and what it puts into the secret is one of its roots and stays.
THEOREM Refinement == Spec => ImplementsPublication
<1> DEFINE c == "sip-root-ca"
<1>1. Init => Promise!Init
  BY DEF Init, Promise!Init, rootsMade, rootCA, published
<1>2. ASSUME Anchored, [Next]_vars
      PROVE  [Promise!Next]_(Promise!vars)
  <2>1. CASE UNCHANGED <<roots, rootSecret>>
    BY <2>1 DEF Promise!vars, rootsMade, rootCA, published
  <2>2. CASE Made
    <3>1. rootCA[c] = None /\ rootCA'[c] = 1 /\ rootCA' = [rootCA EXCEPT ![c] = rootCA'[c]]
      BY <2>2 DEF Made, rootCA, SigningRoot, Tries
    <3>2. /\ rootsMade'[c] \subseteq Nat \ {0} /\ 1 \in rootsMade'[c]
          /\ rootsMade' = [rootsMade EXCEPT ![c] = rootsMade'[c]]
      BY <2>2 DEF Made, rootsMade, Tries
    <3>3. UNCHANGED published
      BY <2>2 DEF Made, published
    <3>4. Promise!Establish(c)
      BY <3>1, <3>2, <3>3 DEF Promise!Establish
    <3> QED
      BY <3>4 DEF Promise!Next
  <2>3. CASE Persisted
    <3>1. roots \in rootsMade[c] /\ rootCA[c] = 1 /\ UNCHANGED <<rootsMade, rootCA>>
      BY <2>3 DEF Persisted, rootsMade, rootCA, SigningRoot, Tries
    <3>2. published' = [published EXCEPT ![c] = roots]
      BY <2>3 DEF Persisted, published, Leftover, Tries
    <3>3. published[c] \in {None, roots}
      BY <2>3 DEF Persisted, published
    <3>4. published[c] = 1 => roots = rootCA[c]
      BY <3>1, <3>3, NoneAssumption
    <3>5. Promise!Publish(c, c, roots)
      BY <3>1, <3>2, <3>4 DEF Promise!Publish
    <3> QED
      BY <3>1, <3>5 DEF Promise!Next
  <2> QED
    BY <1>2, <2>1, <2>2, <2>3, RootEffects
<1> QED
  BY <1>1, <1>2, AnchoredInvariant, PTL DEF Spec, ImplementsPublication, Promise!Spec
=============================================================================
