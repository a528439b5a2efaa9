----------------------- MODULE SandboxLifecycleProofs -----------------------
(***************************************************************************)
(* Theorems about SandboxLifecycle, for all containers, networks, plans    *)
(* of the assumed shape, crashes and numbers of faults.                    *)
(***************************************************************************)
EXTENDS SandboxLifecycle, TLAPS

LEMMA PlanFacts ==
  ASSUME TypeOK
  PROVE  /\ plan \in Seq(Step)
         /\ AttachComesLast(plan) /\ EverySidecarIsChecked(plan)
         /\ RecordsFollowCreation(plan) /\ CreationsAreRecorded(plan)
         /\ ConnectionsArePrepared(plan) /\ LlmServersAreListed(plan)
         /\ pc = "setup" => plan[at] \in Step
BY PlansAssumption DEF TypeOK

-----------------------------------------------------------------------------

(* The variables keep their types, the call index stays within the plan    *)
(* and the cursor within the list being cleaned up.                        *)
THEOREM TypeCorrect == Spec => []TypeOK
<1>1. Init => TypeOK
  <2> SUFFICES ASSUME Init PROVE TypeOK
    OBVIOUS
  <2>1. plan \in Plans /\ plan \in Seq(Step) /\ plan # <<>>
    BY PlansAssumption DEF Init
  <2>2. 1 \in DOMAIN plan /\ 1 \in 1..Len(plan) + 1
    BY <2>1
  <2> QED
    BY <2>1, <2>2, ContainersAssumption DEF Init, NothingCalled, TypeOK
<1>2. TypeOK /\ [Next]_vars => TypeOK'
  <2> SUFFICES ASSUME TypeOK, [Next]_vars PROVE TypeOK'
    OBVIOUS
  <2> USE DEF TypeOK, vars, control, cleaning, bookkeeping, daemon, files
  <2> DEFINE s == plan[at]
  <2>1. /\ plan \in Seq(Step) /\ Len(plan) \in Nat
        /\ pc = "setup" => /\ at \in 1..Len(plan)
                           /\ s.on \in Container
                           /\ s.net \in Network \cup {NoNetwork}
    BY PlanFacts DEF Step
  <2>2. ASSUME Proceed, pc = "setup"
        PROVE  /\ at' \in 1..Len(plan') + 1
               /\ pc' \in {"setup", "wait"} /\ (pc' = "setup" => at' \in DOMAIN plan')
               /\ outcome' = outcome /\ faults' = faults /\ plan' = plan
    BY <2>1, <2>2 DEF Proceed
  <2>3. ASSUME Raise
        PROVE pc' = "copy" /\ outcome' = "raised" /\ at' = at /\ plan' = plan
    BY <2>3 DEF Raise
  <2>4. Fault => faults' \in Nat
    BY DEF Fault
  <2>5. 1 \in DOMAIN CleanUpOrder /\ 1 \in DOMAIN NetworkOrder
    BY OrdersAssumption
  <2>a. ASSUME NextContainer, pc \in {"copy", "remove"}
        PROVE  /\ cursor' \in Nat /\ stopped' = FALSE
               /\ \/ pc' = "run_directory"
                  \/ pc' = "copy" /\ cursor' \in DOMAIN CleanUpOrder
                  \/ pc' = "networks" /\ cursor' \in DOMAIN NetworkOrder
    BY <2>a, <2>5, OrdersAssumption DEF NextContainer
  <2>b. pc \in {"copy", "state", "stop", "remove"} => Target \in Container
    BY OrdersAssumption DEF Target
  <2>c. ASSUME NextNetwork, pc = "networks"
        PROVE  /\ cursor' \in Nat
               /\ \/ pc' = "networks" /\ cursor' \in DOMAIN NetworkOrder
                  \/ pc' = "report"
    BY <2>c, OrdersAssumption DEF NextNetwork
  <2>6. CASE CreateNetwork
    BY <2>6, <2>1, <2>2, <2>3, <2>4, <2>5, ContainersAssumption
    DEF CreateNetwork, Calling, Subject, Net, ProceedOrRaise, Interrupt
  <2>7. CASE StageSource
    BY <2>7, <2>1, <2>2, <2>3, <2>4, <2>5
    DEF StageSource, Calling, Subject, Net, ProceedOrRaise, Interrupt
  <2>8. CASE SealSecrets
    BY <2>8, <2>1, <2>2, <2>3, <2>4, <2>5
    DEF SealSecrets, Calling, Subject, Net, ProceedOrRaise, Interrupt
  <2>9. CASE CreateContainer
    BY <2>9, <2>1, <2>2, <2>3, <2>4, <2>5
    DEF CreateContainer, Calling, Subject, Net, ProceedOrRaise, Interrupt
  <2>10. CASE ConnectContainer
    BY <2>10, <2>1, <2>2, <2>3, <2>4, <2>5
    DEF ConnectContainer, Calling, Subject, Net, ProceedOrRaise, Interrupt
  <2>11. CASE SetCreated
    BY <2>11, <2>1, <2>2, <2>3, <2>4, <2>5
    DEF SetCreated, Calling, Subject, Net, ProceedOrRaise, Interrupt
  <2>12. CASE ExtendContainers
    BY <2>12, <2>1, <2>2, <2>3, <2>4, <2>5, ContainersAssumption
    DEF ExtendContainers, Calling, Subject, Net, ProceedOrRaise, Interrupt
  <2>13. CASE StartContainer
    BY <2>13, <2>1, <2>2, <2>3, <2>4, <2>5
    DEF StartContainer, Calling, Subject, Net, ProceedOrRaise, Interrupt
  <2>14. CASE CheckHealth
    BY <2>14, <2>1, <2>2, <2>3, <2>4, <2>5
    DEF CheckHealth, Calling, Subject, Net, ProceedOrRaise, Interrupt
  <2>15. CASE Verify
    BY <2>15, <2>1, <2>2, <2>3, <2>4, <2>5
    DEF Verify, Calling, Subject, Net, ProceedOrRaise, Interrupt
  <2>16. CASE ProvisionSecrets
    BY <2>16, <2>1, <2>2, <2>3, <2>4, <2>5
    DEF ProvisionSecrets, Calling, Subject, Net, ProceedOrRaise, Interrupt
  <2>17. CASE StartAttached
    BY <2>17, <2>1, <2>2, <2>3, <2>4, <2>5
    DEF StartAttached, Calling, Subject, Net, ProceedOrRaise, Interrupt
  <2>18. CASE AwaitRunning
    BY <2>18, <2>1, <2>2, <2>3, <2>4, <2>5
    DEF AwaitRunning, Calling, Subject, Net, ProceedOrRaise, Interrupt
  <2>19. CASE SetUpRaises
    BY <2>19, <2>3, <2>4, <2>5
    DEF SetUpRaises, Calling
  <2>20. CASE ProcessReturns
    BY <2>20, <2>5
    DEF ProcessReturns
  <2>21. CASE WaitInterrupted
    BY <2>21, <2>3, <2>4, <2>5
    DEF WaitInterrupted, Interrupt
  <2>22. CASE SkipContainer
    BY <2>22, <2>4, <2>a, <2>b DEF SkipContainer
  <2>23. CASE CopyLogFiles
    BY <2>23, <2>4
    DEF CopyLogFiles, Interrupt
  <2>24. CASE SaveState
    BY <2>24
    DEF SaveState
  <2>25. CASE SaveStateRaises
    BY <2>25, <2>4
    DEF SaveStateRaises, LeaveCleanUp
  <2>26. CASE StopContainer
    BY <2>26, <2>b
    DEF StopContainer, Target
  <2>27. CASE NotStopped
    BY <2>27, <2>4
    DEF NotStopped
  <2>28. CASE RemoveContainer
    BY <2>28, <2>4, <2>a, <2>b DEF RemoveContainer
  <2>29. CASE RemoveContainerFails
    BY <2>29, <2>4, <2>a, <2>b DEF RemoveContainerFails
  <2>30. CASE CleanUpInterrupted
    BY <2>30, <2>4
    DEF CleanUpInterrupted, LeaveCleanUp, Interrupt
  <2>31. CASE SkipNetwork
    BY <2>31, <2>c
    DEF SkipNetwork
  <2>32. CASE RemoveNetwork
    BY <2>32, <2>c
    DEF RemoveNetwork
  <2>33. CASE RemoveNetworkFails
    BY <2>33, <2>4, <2>c, OrdersAssumption
    DEF RemoveNetworkFails, TargetNet
  <2>34. CASE PrintErrors
    BY <2>34
    DEF PrintErrors
  <2>35. CASE CleanUpRunDirectory
    BY <2>35
    DEF CleanUpRunDirectory
  <2>36. CASE CleanUpSecretsFiles
    BY <2>36
    DEF CleanUpSecretsFiles
  <2>37. CASE CleanUpStagedSources
    BY <2>37
    DEF CleanUpStagedSources
  <2>38. CASE FileCleanUpRaises
    BY <2>38, <2>4
    DEF FileCleanUpRaises, Tracked
  <2>39. CASE AttachedStart
    BY <2>39, ContainersAssumption
    DEF AttachedStart
  <2>40. CASE AttachedStartFails
    BY <2>40, <2>4
    DEF AttachedStartFails
  <2>41. CASE AttachedEnds
    BY <2>41, <2>4
    DEF AttachedEnds
  <2>42. CASE ContainerExits
    BY <2>42
    DEF ContainerExits
  <2>43. CASE OtherRun
    BY <2>43
    DEF OtherRun
  <2>44. CASE UNCHANGED vars
    BY <2>44
  <2>45. QED
    BY <2>6, <2>7, <2>8, <2>9, <2>10, <2>11, <2>12, <2>13, <2>14, <2>15, <2>16, <2>17, <2>18, <2>19, <2>20, <2>21, <2>22, <2>23, <2>24, <2>25, <2>26, <2>27, <2>28, <2>29, <2>30, <2>31, <2>32, <2>33, <2>34, <2>35, <2>36, <2>37, <2>38, <2>39, <2>40, <2>41, <2>42, <2>43, <2>44 DEF Next, SetUp, CleanUp, Environment, Finished
<1>3. QED
  BY <1>1, <1>2, PTL DEF Spec

-----------------------------------------------------------------------------
(* What the clean-up has achieved so far, behind its cursor.  An exception *)
(* that cuts it short promises nothing.                                    *)

Handled(c) == docker[c] = "absent" \/ c \in errors

RemovingContainers == pc \in {"copy", "state", "stop", "remove"}
CleaningFiles      == pc \in {"run_directory", "secrets", "staged", "done"}

ContainersBehindCursor ==
  RemovingContainers =>
    \A i \in 1..cursor - 1 :
      CleanUpOrder[i] \in Tracked => Handled(CleanUpOrder[i])

ContainersHandled ==
  pc \in {"networks", "report"} \/ CleaningFiles => \A c \in Tracked : Handled(c)

NetworksBehindCursor ==
  pc = "networks" =>
    \A i \in 1..cursor - 1 :
      NetworkOrder[i] \in netCreated => NetworkOrder[i] \in errors

NetworksHandled == pc = "report" \/ CleaningFiles => netCreated \subseteq errors

ErrorsPrinted == CleaningFiles => printed = errors

ResidueInv ==
  outcome # "cleanup_raised" =>
    /\ ContainersBehindCursor /\ ContainersHandled
    /\ NetworksBehindCursor /\ NetworksHandled
    /\ ErrorsPrinted

(* The clean-up keeps its promises as its cursor moves on.                 *)
LEMMA ResidueInvariance == Spec => []ResidueInv
<1>1. Init => ResidueInv
  BY DEF Init, NothingCalled, ResidueInv, ContainersBehindCursor,
         ContainersHandled, NetworksBehindCursor, NetworksHandled,
         ErrorsPrinted, RemovingContainers, CleaningFiles
<1>2. TypeOK /\ TypeOK' /\ ResidueInv /\ [Next]_vars => ResidueInv'
  <2> SUFFICES ASSUME TypeOK, TypeOK', ResidueInv, [Next]_vars,
                      outcome' # "cleanup_raised"
               PROVE  /\ ContainersBehindCursor' /\ ContainersHandled'
                      /\ NetworksBehindCursor' /\ NetworksHandled'
                      /\ ErrorsPrinted'
    BY DEF ResidueInv
  <2> USE DEF ContainersBehindCursor, ContainersHandled, NetworksBehindCursor,
              NetworksHandled, ErrorsPrinted, RemovingContainers, CleaningFiles,
              control, cleaning, bookkeeping, daemon, files
  <2>1. ASSUME outcome # "cleanup_raised"
        PROVE  /\ ContainersBehindCursor /\ ContainersHandled
               /\ NetworksBehindCursor /\ NetworksHandled
               /\ ErrorsPrinted
    BY <2>1 DEF ResidueInv
  <2>2. ASSUME pc' \in {"setup", "wait", "copy"}, cursor' = 1
        PROVE  /\ ContainersBehindCursor' /\ ContainersHandled'
               /\ NetworksBehindCursor' /\ NetworksHandled'
               /\ ErrorsPrinted'
    BY <2>2
  <2>3. CASE SetUp
    <3>1. pc = "setup" /\ cursor' = cursor /\ pc' \in {"setup", "wait", "copy"}
      BY <2>3
      DEF SetUp, CreateNetwork, StageSource, SealSecrets, CreateContainer,
          ConnectContainer, SetCreated, ExtendContainers, StartContainer,
          CheckHealth, Verify, ProvisionSecrets, StartAttached, AwaitRunning,
          SetUpRaises, Calling, ProceedOrRaise, Proceed, Raise
    <3> QED
      BY <2>2, <3>1 DEF TypeOK
  <2>4. CASE ProcessReturns \/ WaitInterrupted
    <3>1. pc = "wait" /\ cursor' = cursor /\ pc' = "copy"
      BY <2>4 DEF ProcessReturns, WaitInterrupted, Raise
    <3> QED
      BY <2>2, <3>1 DEF TypeOK
  <2>5. CASE Environment
    <3>1. /\ UNCHANGED <<pc, outcome, cursor, errors, printed, listed, created, netCreated>>
          /\ \A c \in Container : docker[c] = "absent" => docker'[c] = "absent"
      BY <2>5, ContainersAssumption
      DEF Environment, AttachedStart, AttachedStartFails, AttachedEnds,
          ContainerExits, OtherRun, TypeOK
    <3>2. \A c \in Container : Handled(c) => Handled(c)'
      BY <3>1 DEF Handled
    <3> QED
      BY <2>1, <3>1, <3>2, OrdersAssumption DEF TypeOK, Tracked
  <2>6. CASE SkipContainer \/ RemoveContainer \/ RemoveContainerFails
    <3>1. /\ pc \in {"copy", "remove"} /\ NextContainer
          /\ UNCHANGED <<outcome, listed, created, netCreated, printed>>
      BY <2>6 DEF SkipContainer, RemoveContainer, RemoveContainerFails
    <3>2. Target \in Container /\ cursor \in 1..Len(CleanUpOrder)
      BY <3>1, OrdersAssumption DEF TypeOK, Target
    <3>3. Target \in Tracked => docker'[Target] = "absent" \/ Target \in errors'
      BY <2>6, <3>2
      DEF SkipContainer, RemoveContainer, RemoveContainerFails, TypeOK
    <3>4. \A c \in Container : Handled(c) => Handled(c)'
      BY <2>6, <3>2
      DEF SkipContainer, RemoveContainer, RemoveContainerFails, Handled, TypeOK
    <3>5. \A i \in 1..cursor :
            CleanUpOrder[i] \in Tracked' => Handled(CleanUpOrder[i])'
      <4>1. \A i \in 1..cursor - 1 :
              CleanUpOrder[i] \in Tracked => Handled(CleanUpOrder[i])
        BY <2>1, <3>1
      <4>2. TAKE i \in 1..cursor
      <4>3. HAVE CleanUpOrder[i] \in Tracked'
      <4>4. CleanUpOrder[i] \in Tracked /\ CleanUpOrder[i] \in Container
        BY <3>1, <4>3 DEF Tracked, TypeOK
      <4>5. CASE i = cursor
        BY <3>3, <4>4, <4>5 DEF Target, Handled
      <4>6. CASE i \in 1..cursor - 1
        BY <3>4, <4>1, <4>4, <4>6
      <4> QED
        BY <3>2, <4>5, <4>6
    <3>6. CASE cursor < Len(CleanUpOrder)
      BY <3>1, <3>2, <3>5, <3>6 DEF NextContainer
    <3>7. CASE ~(cursor < Len(CleanUpOrder))
      <4>1. \A c \in Tracked' : Handled(c)'
        BY <3>1, <3>2, <3>5, <3>7, OrdersAssumption DEF Tracked, TypeOK
      <4> QED
        BY <3>1, <4>1, <3>7 DEF NextContainer
    <3> QED
      BY <3>6, <3>7
  <2>7. CASE CopyLogFiles \/ SaveState \/ NotStopped
    BY <2>1, <2>7 DEF CopyLogFiles, SaveState, NotStopped, Handled, Tracked
  <2>8. CASE StopContainer
    <3>1. \A c \in Container : Handled(c) => Handled(c)'
      BY <2>8 DEF StopContainer, Handled, TypeOK
    <3> QED
      BY <2>1, <2>8, <3>1 DEF StopContainer, Tracked, TypeOK
  <2>9. CASE SaveStateRaises \/ CleanUpInterrupted \/ FileCleanUpRaises
    BY <2>9 DEF SaveStateRaises, CleanUpInterrupted, LeaveCleanUp, FileCleanUpRaises
  <2>10. CASE SkipNetwork \/ RemoveNetwork \/ RemoveNetworkFails
    <3>1. /\ pc = "networks" /\ NextNetwork
          /\ UNCHANGED <<outcome, docker, listed, created, printed>>
          /\ netCreated' \subseteq netCreated /\ errors \subseteq errors'
      BY <2>10 DEF SkipNetwork, RemoveNetwork, RemoveNetworkFails
    <3>2. TargetNet \in Network /\ cursor \in 1..Len(NetworkOrder)
      BY <3>1, OrdersAssumption DEF TypeOK, TargetNet
    <3>3. TargetNet \in netCreated' => TargetNet \in errors'
      BY <2>10 DEF SkipNetwork, RemoveNetwork, RemoveNetworkFails
    <3>4. \A i \in 1..cursor :
            NetworkOrder[i] \in netCreated' => NetworkOrder[i] \in errors'
      BY <2>1, <3>1, <3>2, <3>3 DEF TargetNet, TypeOK
    <3>5. \A c \in Tracked' : Handled(c)'
      BY <2>1, <3>1 DEF Tracked, Handled
    <3>6. CASE cursor < Len(NetworkOrder)
      BY <3>1, <3>2, <3>4, <3>5, <3>6 DEF NextNetwork
    <3>7. CASE ~(cursor < Len(NetworkOrder))
      <4>1. netCreated' \subseteq errors'
        BY <3>2, <3>4, <3>7, OrdersAssumption DEF TypeOK
      <4> QED
        BY <3>1, <3>5, <4>1, <3>7 DEF NextNetwork
    <3> QED
      BY <3>6, <3>7
  <2>11. CASE PrintErrors
    BY <2>1, <2>11 DEF PrintErrors, Handled, Tracked
  <2>12. CASE CleanUpRunDirectory \/ CleanUpSecretsFiles \/ CleanUpStagedSources
    BY <2>1, <2>12
    DEF CleanUpRunDirectory, CleanUpSecretsFiles, CleanUpStagedSources,
        Handled, Tracked
  <2>13. CASE UNCHANGED vars
    BY <2>1, <2>13 DEF vars, Handled, Tracked
  <2> QED
    BY <2>3, <2>4, <2>5, <2>6, <2>7, <2>8, <2>9, <2>10, <2>11, <2>12, <2>13
    DEF Next, CleanUp, Finished
<1>3. QED
  BY <1>1, <1>2, TypeCorrect, PTL DEF Spec

(* A clean-up that was not cut short has removed every recorded container  *)
(* and network or has named it on the terminal.                            *)
THEOREM TrackedResidue == Spec => []TrackedResidueIsReported
<1>1. ResidueInv => TrackedResidueIsReported
  BY DEF ResidueInv, ContainersHandled, NetworksHandled, ErrorsPrinted,
         CleaningFiles, Handled, TrackedResidueIsReported, CleanUpWasComplete
<1>2. QED
  BY <1>1, ResidueInvariance, PTL

(* The clean-up deletes a staged directory only when the container it is   *)
(* bound into is gone, could not be removed, or an exception cut it short. *)
THEOREM StagedFilesOutlive == Spec => FilesOutliveContainers
<1> DEFINE Safe ==
      \A c \in staged \ staged' :
        docker[c] = "absent" \/ c \in errors \/ outcome' = "cleanup_raised"
<1>1. ResidueInv /\ [Next]_vars => [Safe]_vars
  <2> SUFFICES ASSUME ResidueInv, Next, NEW c \in staged \ staged',
                      outcome' # "cleanup_raised"
               PROVE  docker[c] = "absent" \/ c \in errors
    OBVIOUS
  <2> USE DEF control, cleaning, bookkeeping, daemon, files
  <2>1. CASE CleanUpStagedSources
    BY <2>1
    DEF CleanUpStagedSources, ResidueInv, ContainersHandled, CleaningFiles, Handled
  <2>2. CASE FileCleanUpRaises
    BY <2>2 DEF FileCleanUpRaises
  <2>3. ASSUME SetUp \/ ProcessReturns \/ WaitInterrupted \/ Environment \/ Finished
        PROVE  staged \subseteq staged'
    BY <2>3
    DEF SetUp, CreateNetwork, StageSource, SealSecrets, CreateContainer,
        ConnectContainer, SetCreated, ExtendContainers, StartContainer,
        CheckHealth, Verify, ProvisionSecrets, StartAttached, AwaitRunning,
        SetUpRaises, ProcessReturns, WaitInterrupted, Environment, AttachedStart,
        AttachedStartFails, AttachedEnds, ContainerExits, OtherRun, Finished, vars
  <2>4. ASSUME CleanUp, ~CleanUpStagedSources, ~FileCleanUpRaises
        PROVE  staged' = staged
    BY <2>4
    DEF CleanUp, SkipContainer, CopyLogFiles, SaveState, SaveStateRaises,
        StopContainer, NotStopped, RemoveContainer, RemoveContainerFails,
        CleanUpInterrupted, LeaveCleanUp, SkipNetwork, RemoveNetwork,
        RemoveNetworkFails, PrintErrors, CleanUpRunDirectory, CleanUpSecretsFiles
  <2> QED
    BY <2>1, <2>2, <2>3, <2>4 DEF Next
<1>2. [][Safe]_vars <=> FilesOutliveContainers
  BY DEF FilesOutliveContainers
<1>3. QED
  BY <1>1, <1>2, ResidueInvariance, PTL DEF Spec

-----------------------------------------------------------------------------
(* The daemon starts the workload when it likes, but not before the host   *)
(* has made the attach call; and every call behind the call index has done *)
(* its bookkeeping.                                                        *)

AttachCalled == \E i \in DOMAIN plan : i <= at /\ plan[i].op = "attach"

CallsAreRecorded ==
  \A i \in DOMAIN plan :
    i < at =>
      /\ plan[i].op = "health" => plan[i].on \in started
      /\ plan[i].op = "provision" => plan[i].on \in published

StartInv ==
  /\ docker[Workload] \in {"running", "exited"} => attachCli # "idle"
  /\ attachCli # "idle" => AttachCalled
  /\ CallsAreRecorded

(* A step that leaves plan and call index alone keeps the invariant when   *)
(* it starts no workload and forgets no bookkeeping.                       *)
LEMMA StartInvKept ==
  ASSUME TypeOK, StartInv,
         UNCHANGED <<plan, at>>,
         started \subseteq started', published \subseteq published',
         attachCli' = attachCli \/ attachCli # "idle",
         attachCli # "idle" => attachCli' # "idle",
         docker'[Workload] \in {"running", "exited"} =>
           docker[Workload] \in {"running", "exited"} \/ attachCli # "idle"
  PROVE  StartInv'
BY DEF StartInv, AttachCalled, CallsAreRecorded

(* The workload's container runs only after every sidecar of the plan has  *)
(* been found healthy and every sidecar with secrets has its key.          *)
THEOREM WorkloadLast == Spec => []WorkloadStartsLast
<1>1. Init => StartInv
  BY ContainersAssumption, PlansAssumption
  DEF Init, NothingCalled, StartInv, CallsAreRecorded
<1>2. TypeOK /\ StartInv /\ [Next]_vars => StartInv'
  <2> SUFFICES ASSUME TypeOK, StartInv, [Next]_vars PROVE StartInv'
    OBVIOUS
  <2> USE DEF control, cleaning, bookkeeping, daemon, files
  <2>1. plan \in Seq(Step) /\ Workload \in Container /\ at \in Nat
    BY PlanFacts, ContainersAssumption DEF TypeOK
  <2>2. CASE SetUp
    <3>1. pc = "setup" /\ plan[at].on \in Container /\ at \in DOMAIN plan
      BY <2>1, <2>2, PlanFacts
      DEF TypeOK, Step, SetUp, CreateNetwork, StageSource, SealSecrets,
          CreateContainer, ConnectContainer, SetCreated, ExtendContainers,
          StartContainer, CheckHealth, Verify, ProvisionSecrets, StartAttached,
          AwaitRunning, SetUpRaises, Calling
    <3>2. plan' = plan /\ (at' = at \/ at' = at + 1)
      BY <2>2
      DEF SetUp, CreateNetwork, StageSource, SealSecrets,
          CreateContainer, ConnectContainer, SetCreated, ExtendContainers,
          StartContainer, CheckHealth, Verify, ProvisionSecrets, StartAttached,
          AwaitRunning, SetUpRaises, ProceedOrRaise, Proceed, Raise
    <3>3. started \subseteq started' /\ published \subseteq published'
      BY <2>2
      DEF SetUp, CreateNetwork, StageSource, SealSecrets,
          CreateContainer, ConnectContainer, SetCreated, ExtendContainers,
          StartContainer, CheckHealth, Verify, ProvisionSecrets, StartAttached,
          AwaitRunning, SetUpRaises
    <3>4. at' = at + 1 =>
            /\ plan[at].op = "health" => plan[at].on \in started'
            /\ plan[at].op = "provision" => plan[at].on \in published'
      BY <2>1, <2>2
      DEF SetUp, CreateNetwork, StageSource, SealSecrets,
          CreateContainer, ConnectContainer, SetCreated, ExtendContainers,
          StartContainer, CheckHealth, Verify, ProvisionSecrets, StartAttached,
          AwaitRunning, SetUpRaises, Calling, Subject, Raise
    <3>5. CallsAreRecorded'
      <4> SUFFICES ASSUME NEW i \in DOMAIN plan, i < at'
                   PROVE  /\ plan[i].op = "health" => plan[i].on \in started'
                          /\ plan[i].op = "provision" => plan[i].on \in published'
        BY <3>2 DEF CallsAreRecorded
      <4>1. CASE i < at
        BY <3>3, <4>1 DEF StartInv, CallsAreRecorded
      <4>2. CASE i = at /\ at' = at + 1
        BY <3>4, <4>2
      <4> QED
        BY <2>1, <3>2, <4>1, <4>2
    <3>6. attachCli' # "idle" => attachCli # "idle" \/ plan[at].op = "attach"
      BY <2>2
      DEF SetUp, CreateNetwork, StageSource, SealSecrets,
          CreateContainer, ConnectContainer, SetCreated, ExtendContainers,
          StartContainer, CheckHealth, Verify, ProvisionSecrets, StartAttached,
          AwaitRunning, SetUpRaises, Calling
    <3>7. attachCli' # "idle" => AttachCalled'
      BY <2>1, <3>1, <3>2, <3>6 DEF StartInv, AttachCalled
    <3>8. plan[at].op = "start" => plan[at].on # Workload
      BY <3>1, PlanFacts DEF AttachComesLast
    <3>9. docker'[Workload] \in {"running", "exited"} =>
            docker[Workload] \in {"running", "exited"}
      BY <2>1, <2>2, <3>1, <3>8
      DEF SetUp, CreateNetwork, StageSource, SealSecrets,
          CreateContainer, ConnectContainer, SetCreated, ExtendContainers,
          StartContainer, CheckHealth, Verify, ProvisionSecrets, StartAttached,
          AwaitRunning, SetUpRaises, Calling, Subject, TypeOK
    <3>10. attachCli # "idle" => attachCli' # "idle"
      BY <2>2
      DEF SetUp, CreateNetwork, StageSource, SealSecrets,
          CreateContainer, ConnectContainer, SetCreated, ExtendContainers,
          StartContainer, CheckHealth, Verify, ProvisionSecrets, StartAttached,
          AwaitRunning, SetUpRaises
    <3> QED
      BY <3>5, <3>7, <3>9, <3>10 DEF StartInv
  <2>3. CASE ProcessReturns \/ WaitInterrupted
    BY <2>3, StartInvKept DEF ProcessReturns, WaitInterrupted, Raise
  <2>4. CASE Environment
    BY <2>1, <2>4, StartInvKept
    DEF Environment, AttachedStart, AttachedStartFails, AttachedEnds,
        ContainerExits, OtherRun, TypeOK
  <2>5. CASE CleanUp
    <3>1. UNCHANGED <<plan, at, started, published, attachCli>>
      BY <2>5
      DEF CleanUp, SkipContainer, CopyLogFiles, SaveState, SaveStateRaises,
          StopContainer, NotStopped, RemoveContainer, RemoveContainerFails,
          CleanUpInterrupted, LeaveCleanUp, SkipNetwork, RemoveNetwork,
          RemoveNetworkFails, PrintErrors, CleanUpRunDirectory,
          CleanUpSecretsFiles, CleanUpStagedSources, FileCleanUpRaises
    <3>2. docker'[Workload] \in {"running", "exited"} =>
            docker[Workload] \in {"running", "exited"}
      BY <2>1, <2>5
      DEF TypeOK, CleanUp, SkipContainer, CopyLogFiles, SaveState,
          SaveStateRaises, StopContainer, NotStopped, RemoveContainer,
          RemoveContainerFails, CleanUpInterrupted, LeaveCleanUp, SkipNetwork,
          RemoveNetwork, RemoveNetworkFails, PrintErrors, CleanUpRunDirectory,
          CleanUpSecretsFiles, CleanUpStagedSources, FileCleanUpRaises
    <3> QED
      BY <3>1, <3>2, StartInvKept
  <2>6. CASE UNCHANGED vars
    BY <2>6, StartInvKept DEF vars
  <2> QED
    BY <2>2, <2>3, <2>4, <2>5, <2>6 DEF Next, Finished
<1>3. TypeOK /\ StartInv => WorkloadStartsLast
  <2> SUFFICES ASSUME TypeOK, StartInv, docker[Workload] \in {"running", "exited"}
               PROVE  /\ PlannedOn("create") \ {Workload} \subseteq started
                      /\ PlannedOn("seal") \ {Workload} \subseteq published
    BY DEF WorkloadStartsLast
  <2>1. PICK a \in DOMAIN plan : a <= at /\ plan[a].op = "attach"
    BY DEF StartInv, AttachCalled
  <2>2. \A j \in DOMAIN plan :
          plan[j].op \in {"health", "provision"} /\ plan[j].on # Workload => j < at
    BY <2>1, PlanFacts DEF AttachComesLast, TypeOK
  <2>3. ASSUME NEW i \in DOMAIN plan, plan[i].op = "create", plan[i].on # Workload
        PROVE  plan[i].on \in started
    <3>1. PICK j \in DOMAIN plan : plan[j].op = "health" /\ plan[j].on = plan[i].on
      BY <2>3, PlanFacts DEF EverySidecarIsChecked
    <3> QED
      BY <2>2, <2>3, <3>1 DEF StartInv, CallsAreRecorded
  <2>4. ASSUME NEW i \in DOMAIN plan, plan[i].op = "seal", plan[i].on # Workload
        PROVE  plan[i].on \in published
    <3>1. PICK j \in DOMAIN plan : plan[j].op = "provision" /\ plan[j].on = plan[i].on
      BY <2>4, PlanFacts DEF EverySidecarIsChecked
    <3> QED
      BY <2>2, <2>4, <3>1 DEF StartInv, CallsAreRecorded
  <2> QED
    BY <2>3, <2>4 DEF PlannedOn
<1>4. QED
  BY <1>1, <1>2, <1>3, TypeCorrect, PTL DEF Spec

-----------------------------------------------------------------------------
(* Names that several runs use.  What the host has recorded exists, until  *)
(* the clean-up comes to it, and so keeps its name from other runs.        *)

NamesAreBorneOnce == \A c \in foreign : docker[c] = "absent"

BeforeRemoval == {"setup", "wait", "copy", "state", "stop", "remove"}

CreatedCallsExist ==
  pc \in {"setup", "wait"} =>
    \A i \in DOMAIN plan : i < at /\ plan[i].op = "create" => docker[plan[i].on] # "absent"

RecordedExist ==
  pc \in BeforeRemoval =>
    \A c \in created : (\A i \in 1..cursor - 1 : CleanUpOrder[i] # c) => docker[c] # "absent"

TargetIsRecorded == pc \in {"state", "stop", "remove"} => Target \in created

OwnInv == NamesAreBorneOnce /\ CreatedCallsExist /\ RecordedExist /\ TargetIsRecorded

(* A step that removes no container and leaves the set-up's bookkeeping    *)
(* and the cursor alone.                                                   *)
LEMMA OwnInvKept ==
  ASSUME OwnInv,
         UNCHANGED <<plan, at, created, foreign, cursor>>,
         \A c \in foreign : docker'[c] = docker[c],
         \A c \in Container : docker[c] # "absent" => docker'[c] # "absent",
         created \subseteq Container, \A i \in DOMAIN plan : plan[i].on \in Container,
         pc' \in {"setup", "wait"} => pc \in {"setup", "wait"},
         pc' \in BeforeRemoval => pc \in BeforeRemoval,
         pc' \in {"state", "stop", "remove"} => pc \in {"state", "stop", "remove"} \/ Target \in created
  PROVE  OwnInv'
BY DEF OwnInv, NamesAreBorneOnce, CreatedCallsExist, RecordedExist, TargetIsRecorded, Target

(* Names stay with the run that bears them.                                *)
LEMMA OwnInvariance == Spec => []OwnInv
<1>1. Init => OwnInv
  <2> SUFFICES ASSUME Init PROVE OwnInv
    OBVIOUS
  <2>1. plan \in Seq(Step) /\ at = 1
    BY PlansAssumption DEF Init, NothingCalled
  <2>2. \A i \in DOMAIN plan : ~(i < at)
    BY <2>1
  <2>3. NamesAreBorneOnce
    BY ContainersAssumption DEF Init, NothingCalled, NamesAreBorneOnce
  <2> QED
    BY <2>2, <2>3
    DEF Init, NothingCalled, OwnInv, CreatedCallsExist, RecordedExist, TargetIsRecorded
<1>2. TypeOK /\ OwnInv /\ [Next]_vars => OwnInv'
  <2> SUFFICES ASSUME TypeOK, OwnInv, [Next]_vars PROVE OwnInv'
    OBVIOUS
  <2> USE DEF control, cleaning, bookkeeping, daemon, files
  <2>1. /\ plan \in Seq(Step) /\ at \in Nat
        /\ \A i \in DOMAIN plan : plan[i].on \in Container
        /\ created \subseteq Container /\ foreign \subseteq Container
        /\ docker \in [Container -> {"absent", "created", "running", "exited"}]
    <3>1. plan \in Seq(Step) /\ at \in Nat
      BY PlanFacts DEF TypeOK
    <3>2. ASSUME NEW i \in DOMAIN plan PROVE plan[i].on \in Container
      <4>1. plan[i] \in Step
        BY <3>1
      <4> QED
        BY <4>1 DEF Step
    <3> QED
      BY <3>1, <3>2, ContainersAssumption DEF TypeOK
  <2>2. CASE SetUp
    <3> DEFINE c == plan[at].on
    <3>1. pc = "setup" /\ at \in DOMAIN plan /\ c \in Container /\ cursor = 1
      BY <2>1, <2>2
      DEF TypeOK, SetUp, CreateNetwork, StageSource, SealSecrets,
          CreateContainer, ConnectContainer, SetCreated, ExtendContainers,
          StartContainer, CheckHealth, Verify, ProvisionSecrets, StartAttached,
          AwaitRunning, SetUpRaises, Calling
    <3>2. /\ plan' = plan /\ (at' = at \/ at' = at + 1)
          /\ pc' \in {"setup", "wait", "copy"}
          /\ UNCHANGED <<cursor, foreign>>
          /\ pc' \in {"setup", "wait"} => at' = at + 1
      BY <2>2
      DEF SetUp, CreateNetwork, StageSource, SealSecrets,
          CreateContainer, ConnectContainer, SetCreated, ExtendContainers,
          StartContainer, CheckHealth, Verify, ProvisionSecrets, StartAttached,
          AwaitRunning, SetUpRaises, ProceedOrRaise, Proceed, Raise
    <3>3. /\ \A d \in Container : docker[d] # "absent" => docker'[d] # "absent"
          /\ \A d \in foreign : docker[d] = "absent" => docker'[d] = "absent"
      BY <2>1, <2>2
      DEF SetUp, CreateNetwork, StageSource, SealSecrets,
          CreateContainer, ConnectContainer, SetCreated, ExtendContainers,
          StartContainer, CheckHealth, Verify, ProvisionSecrets, StartAttached,
          AwaitRunning, SetUpRaises, Calling, Subject, Exists
    <3>4. plan[at].op = "create" /\ pc' \in {"setup", "wait"} => docker'[c] # "absent"
      BY <2>1, <2>2, <3>1
      DEF SetUp, CreateNetwork, StageSource, SealSecrets,
          CreateContainer, ConnectContainer, SetCreated, ExtendContainers,
          StartContainer, CheckHealth, Verify, ProvisionSecrets, StartAttached,
          AwaitRunning, SetUpRaises, Calling, Subject, Raise
    <3>5. created' = created \/ (plan[at].op = "record" /\ created' = created \cup {c})
      BY <2>2
      DEF SetUp, CreateNetwork, StageSource, SealSecrets,
          CreateContainer, ConnectContainer, SetCreated, ExtendContainers,
          StartContainer, CheckHealth, Verify, ProvisionSecrets, StartAttached,
          AwaitRunning, SetUpRaises, Calling, Subject
    <3>6. plan[at].op = "record" => docker[c] # "absent"
      <4> SUFFICES ASSUME plan[at].op = "record" PROVE docker[c] # "absent"
        OBVIOUS
      <4>1. PICK j \in DOMAIN plan : j < at /\ plan[j].op = "create" /\ plan[j].on = c
        BY <3>1, PlanFacts DEF RecordsFollowCreation
      <4> QED
        BY <3>1, <4>1 DEF OwnInv, CreatedCallsExist
    <3>7. CreatedCallsExist'
      <4> SUFFICES ASSUME pc' \in {"setup", "wait"}, NEW i \in DOMAIN plan, i < at',
                          plan[i].op = "create"
                   PROVE  docker'[plan[i].on] # "absent"
        BY <3>2 DEF CreatedCallsExist
      <4>1. CASE i < at
        BY <2>1, <3>1, <3>3, <4>1 DEF OwnInv, CreatedCallsExist
      <4>2. CASE i = at
        BY <3>4, <4>2
      <4> QED
        BY <2>1, <3>2, <4>1, <4>2
    <3>8. \A d \in created : docker[d] # "absent"
      BY <3>1 DEF OwnInv, RecordedExist, BeforeRemoval
    <3>9. RecordedExist'
      BY <2>1, <3>1, <3>3, <3>5, <3>6, <3>8 DEF RecordedExist
    <3>10. NamesAreBorneOnce'
      BY <3>2, <3>3 DEF OwnInv, NamesAreBorneOnce
    <3> QED
      BY <3>2, <3>7, <3>9, <3>10 DEF OwnInv, TargetIsRecorded
  <2>3. CASE ProcessReturns \/ WaitInterrupted
    BY <2>1, <2>3, OwnInvKept DEF ProcessReturns, WaitInterrupted, Raise, BeforeRemoval
  <2>4. CASE AttachedStart \/ AttachedStartFails \/ AttachedEnds \/ ContainerExits
    <3>1. UNCHANGED <<plan, at, pc, created, foreign, cursor>>
      BY <2>4 DEF AttachedStart, AttachedStartFails, AttachedEnds, ContainerExits
    <3>2. /\ \A c \in Container : docker[c] # "absent" => docker'[c] # "absent"
          /\ \A c \in foreign : docker[c] = "absent" => docker'[c] = docker[c]
      BY <2>1, <2>4, ContainersAssumption
      DEF AttachedStart, AttachedStartFails, AttachedEnds, ContainerExits, TypeOK
    <3> QED
      BY <2>1, <3>1, <3>2, OwnInvKept DEF OwnInv, NamesAreBorneOnce
  <2>5. CASE OtherRun
    BY <2>5
    DEF OtherRun, OwnInv, NamesAreBorneOnce, CreatedCallsExist, RecordedExist,
        TargetIsRecorded, Target
  <2>6. CASE SkipContainer \/ RemoveContainer \/ RemoveContainerFails
    <3>1. /\ pc \in {"copy", "remove"} /\ NextContainer
          /\ UNCHANGED <<plan, at, created>> /\ foreign' \subseteq foreign
          /\ docker' = docker \/ docker' = [docker EXCEPT ![Target] = "absent"]
      BY <2>6 DEF SkipContainer, RemoveContainer, RemoveContainerFails
    <3>2. Target = CleanUpOrder[cursor] /\ cursor \in Nat /\ cursor >= 1
      BY <3>1, OrdersAssumption DEF Target, TypeOK
    <3>3. NamesAreBorneOnce'
      BY <2>1, <3>1 DEF OwnInv, NamesAreBorneOnce
    <3>4. ASSUME pc' \in BeforeRemoval
          PROVE  pc' = "copy" /\ cursor' = cursor + 1
      BY <3>1, <3>4 DEF NextContainer, BeforeRemoval
    <3>5. RecordedExist'
      <4> SUFFICES ASSUME pc' \in BeforeRemoval, NEW c \in created,
                          \A i \in 1..cursor' - 1 : CleanUpOrder[i] # c
                   PROVE  docker'[c] # "absent"
        BY <3>1 DEF RecordedExist
      <4>1. c # Target /\ \A i \in 1..cursor - 1 : CleanUpOrder[i] # c
        BY <3>2, <3>4
      <4>2. docker[c] # "absent"
        BY <3>1, <4>1 DEF OwnInv, RecordedExist, BeforeRemoval
      <4> QED
        BY <2>1, <3>1, <4>1, <4>2
    <3> QED
      BY <3>1, <3>3, <3>4, <3>5
      DEF OwnInv, CreatedCallsExist, TargetIsRecorded, NextContainer
  <2>7. CASE CopyLogFiles \/ SaveState \/ NotStopped
    BY <2>1, <2>7, OwnInvKept DEF CopyLogFiles, SaveState, NotStopped, Tracked, BeforeRemoval
  <2>8. CASE StopContainer
    <3>1. /\ \A c \in Container : docker[c] # "absent" => docker'[c] # "absent"
          /\ \A c \in foreign : docker[c] = "absent" => docker'[c] = docker[c]
      BY <2>1, <2>8 DEF StopContainer
    <3> QED
      BY <2>1, <2>8, <3>1, OwnInvKept DEF StopContainer, OwnInv, NamesAreBorneOnce, BeforeRemoval
  <2>9. CASE SaveStateRaises \/ CleanUpInterrupted \/ FileCleanUpRaises
    BY <2>1, <2>9, OwnInvKept
    DEF SaveStateRaises, CleanUpInterrupted, LeaveCleanUp, FileCleanUpRaises, BeforeRemoval
  <2>10. CASE SkipNetwork \/ RemoveNetwork \/ RemoveNetworkFails
    BY <2>10
    DEF SkipNetwork, RemoveNetwork, RemoveNetworkFails, NextNetwork, OwnInv, NamesAreBorneOnce,
        CreatedCallsExist, RecordedExist, TargetIsRecorded, BeforeRemoval
  <2>11. CASE PrintErrors \/ CleanUpRunDirectory \/ CleanUpSecretsFiles \/ CleanUpStagedSources
    BY <2>1, <2>11, OwnInvKept
    DEF PrintErrors, CleanUpRunDirectory, CleanUpSecretsFiles, CleanUpStagedSources, BeforeRemoval
  <2>12. CASE UNCHANGED vars
    BY <2>1, <2>12, OwnInvKept DEF vars
  <2> QED
    BY <2>2, <2>3, <2>4, <2>5, <2>6, <2>7, <2>8, <2>9, <2>10, <2>11, <2>12
    DEF Next, Environment, CleanUp, Finished
<1>3. QED
  BY <1>1, <1>2, TypeCorrect, PTL DEF Spec

(* The container the clean-up works on exists.                             *)
LEMMA TargetExists ==
  ASSUME TypeOK, OwnInv, pc \in {"state", "stop", "remove"}
  PROVE  docker[Target] # "absent"
<1>1. Target \in created /\ cursor \in DOMAIN CleanUpOrder
  BY DEF OwnInv, TargetIsRecorded, TypeOK
<1>2. \A i \in 1..cursor - 1 : CleanUpOrder[i] # Target
  BY <1>1, OrdersAssumption DEF Target
<1> QED
  BY <1>1, <1>2 DEF OwnInv, RecordedExist, BeforeRemoval

(* The clean-up stops and removes by its name only what this run created.  *)
THEOREM OthersLeftAlone == Spec => []OtherRunsAreLeftAlone
<1>1. TypeOK /\ OwnInv => OtherRunsAreLeftAlone
  BY TargetExists DEF OtherRunsAreLeftAlone, OwnInv, NamesAreBorneOnce
<1>2. QED
  BY <1>1, OwnInvariance, TypeCorrect, PTL

-----------------------------------------------------------------------------
(* What one step may do, by the part of Next it belongs to.                *)

LEMMA SetUpStep ==
  ASSUME TypeOK, SetUp
  PROVE  /\ pc = "setup" /\ at \in DOMAIN plan /\ plan[at] \in Step
         /\ UNCHANGED <<plan, cleaning, scratch>>
         /\ \/ /\ at' = at + 1 /\ pc' = IF at = Len(plan) THEN "wait" ELSE "setup"
               /\ UNCHANGED <<outcome, faults>>
            \/ /\ at' = at /\ pc' = "copy" /\ outcome' = "raised"
               /\ \/ faults' = faults + 1
                  \/ /\ faults' = faults /\ ~CanSucceed
                     /\ UNCHANGED << listed, created, netCreated, docker, networks,
                                     staged, secrets >>
BY PlanFacts
DEF TypeOK, control, bookkeeping, daemon, SetUp, CreateNetwork, StageSource, SealSecrets, CreateContainer,
    ConnectContainer, SetCreated, ExtendContainers, StartContainer, CheckHealth,
    Verify, ProvisionSecrets, StartAttached, AwaitRunning, SetUpRaises, Calling,
    ProceedOrRaise, Proceed, Raise, Interrupt, Fault, files

(* What exists afterwards has existed or is the subject of the call.       *)
LEMMA SetUpDocker ==
  ASSUME TypeOK, SetUp, NEW c \in Container
  PROVE  /\ docker[c] # "absent" => docker'[c] # "absent"
         /\ docker'[c] # "absent" =>
              docker[c] # "absent" \/ (plan[at].op = "create" /\ plan[at].on = c)
         /\ docker'[c] = "created" => docker[c] \in {"absent", "created"}
         /\ c \in started' => c \in started \/ docker'[c] = "running"
BY SetUpStep
DEF TypeOK, bookkeeping, daemon, SetUp, CreateNetwork, StageSource, SealSecrets,
    CreateContainer, ConnectContainer, SetCreated, ExtendContainers, StartContainer,
    CheckHealth, Verify, ProvisionSecrets, StartAttached, AwaitRunning, SetUpRaises,
    Calling, Subject, Exists, Step

LEMMA SetUpBookkeeping ==
  ASSUME TypeOK, SetUp
  PROVE  /\ created \subseteq created' /\ listed \subseteq listed'
         /\ networks \subseteq networks' /\ netCreated \subseteq netCreated'
         /\ networks' \subseteq networks \cup {plan[at].net}
         /\ staged' \cup secrets' # staged \cup secrets =>
              /\ plan[at].op \in {"stage", "seal"}
              /\ staged' \cup secrets' = staged \cup secrets \cup {plan[at].on}
         /\ at' = at + 1 =>
              /\ networks' \ netCreated' \subseteq networks \ netCreated
              /\ plan[at].op = "record" => plan[at].on \in created'
              /\ plan[at].op = "extend" => LlmServer \subseteq listed'
              /\ plan[at].op = "network" => plan[at].net \in networks'
BY SetUpStep
DEF TypeOK, bookkeeping, daemon, files, SetUp, CreateNetwork, StageSource, SealSecrets,
    CreateContainer, ConnectContainer, SetCreated, ExtendContainers, StartContainer,
    CheckHealth, Verify, ProvisionSecrets, StartAttached, AwaitRunning, SetUpRaises,
    Calling, Subject, Net, Raise

LEMMA CleanUpStep ==
  ASSUME TypeOK, CleanUp
  PROVE  /\ pc \notin {"setup", "wait"} /\ pc' \notin {"setup", "wait"}
         /\ UNCHANGED <<plan, at, listed, created, started>>
         /\ faults' = faults \/ faults' = faults + 1
         /\ outcome' = outcome \/ outcome' = "cleanup_raised"
         /\ networks' \ netCreated' \subseteq networks \ netCreated
         /\ staged' \subseteq staged /\ secrets' \subseteq secrets
         /\ \A c \in Container :
              /\ docker'[c] # "absent" => docker[c] # "absent"
              /\ docker'[c] = "created" => docker[c] = "created"
<1> USE DEF control, cleaning, bookkeeping, daemon, files
<1>1. CASE SkipContainer \/ RemoveContainer \/ RemoveContainerFails
  <2>1. pc' \in {"copy", "run_directory", "networks"}
    BY <1>1 DEF SkipContainer, RemoveContainer, RemoveContainerFails, NextContainer
  <2> QED
    BY <1>1, <2>1 DEF SkipContainer, RemoveContainer, RemoveContainerFails, Fault, TypeOK
<1>2. CASE CopyLogFiles \/ SaveState \/ SaveStateRaises \/ StopContainer \/ NotStopped
             \/ CleanUpInterrupted
  BY <1>2
  DEF CopyLogFiles, SaveState, SaveStateRaises, StopContainer, NotStopped,
      CleanUpInterrupted, LeaveCleanUp, Interrupt, Fault, TypeOK
<1>3. CASE SkipNetwork \/ RemoveNetwork \/ RemoveNetworkFails
  <2>1. pc' \in {"networks", "report"}
    BY <1>3 DEF SkipNetwork, RemoveNetwork, RemoveNetworkFails, NextNetwork
  <2> QED
    BY <1>3, <2>1 DEF SkipNetwork, RemoveNetwork, RemoveNetworkFails, Fault, TypeOK
<1>4. CASE PrintErrors \/ CleanUpRunDirectory \/ CleanUpSecretsFiles
             \/ CleanUpStagedSources \/ FileCleanUpRaises
  BY <1>4
  DEF PrintErrors, CleanUpRunDirectory, CleanUpSecretsFiles, CleanUpStagedSources,
      FileCleanUpRaises, Fault, TypeOK
<1> QED
  BY <1>1, <1>2, <1>3, <1>4 DEF CleanUp

(* Steps of the daemon, the containers and other runs, and the end of the  *)
(* wait.                                                                   *)
LEMMA OtherStep ==
  ASSUME TypeOK, Environment \/ ProcessReturns \/ WaitInterrupted
  PROVE  /\ UNCHANGED <<plan, at, cleaning, bookkeeping, networks, files>>
         /\ faults' = faults \/ faults' = faults + 1
         /\ \/ UNCHANGED <<pc, outcome>>
            \/ pc = "wait" /\ pc' = "copy" /\ outcome' \in {"returned", "raised"}
         /\ \A c \in Container :
              /\ docker'[c] # "absent" <=> docker[c] # "absent"
              /\ docker'[c] = docker[c] \/ docker'[c] \in {"running", "exited"}
              /\ docker[c] \notin {"created", "running"} => docker'[c] = docker[c]
BY ContainersAssumption
DEF TypeOK, control, daemon, Environment, AttachedStart, AttachedStartFails, AttachedEnds,
    ContainerExits, OtherRun, ProcessReturns, WaitInterrupted, Raise, Interrupt, Fault

-----------------------------------------------------------------------------
(* What exists at the daemon or on the disk, and which call has put it     *)
(* there.                                                                  *)

(* A call behind the call index has had its effect.  The call at the index *)
(* may have had it too, when something went wrong right after it.          *)
Called(i) == IF faults = 0 THEN i < at ELSE i <= at

CallsHadTheirEffect ==
  \A i \in DOMAIN plan :
    i < at =>
      /\ plan[i].op = "record" => plan[i].on \in created
      /\ plan[i].op = "extend" => LlmServer \subseteq listed
      /\ plan[i].op = "network" /\ pc \in {"setup", "wait"} => plan[i].net \in networks

ExistingWereCreated ==
  \A c \in Container :
    docker[c] # "absent" =>
      \E i \in DOMAIN plan : Called(i) /\ plan[i].op = "create" /\ plan[i].on = c

FilesWereWritten ==
  \A c \in staged \cup secrets :
    \E i \in DOMAIN plan : Called(i) /\ plan[i].op \in {"stage", "seal"} /\ plan[i].on = c

NetworksAreRecorded ==
  \A n \in networks \ netCreated :
    faults # 0 /\ pc \notin {"setup", "wait"} /\ at \in DOMAIN plan /\ plan[at].net = n

(* A set-up ends in front of a call because that call raised; and without  *)
(* a fault only a call raises that needs something it did not find.        *)
SetUpStopsAtItsFailure ==
  /\ pc \in {"setup", "wait"} => outcome = "running"
  /\ pc = "wait" => at \notin DOMAIN plan
  /\ pc \notin {"setup", "wait"} => outcome # "running"
  /\ at \in DOMAIN plan => pc = "setup" \/ outcome \in {"raised", "cleanup_raised"}
  /\ at \in DOMAIN plan /\ pc # "setup" /\ faults = 0 =>
       plan[at].op \notin (Creation \ {"create"}) \cup {"extend"}

FixedAreListed == Container \ LlmServer \subseteq listed

FilesAreCleaned ==
  outcome # "cleanup_raised" =>
    /\ pc \in {"secrets", "staged", "done"} => ~scratch
    /\ pc = "done" => (staged \cup secrets) \cap Tracked = {}

LeakInv ==
  /\ CallsHadTheirEffect /\ ExistingWereCreated /\ FilesWereWritten
  /\ NetworksAreRecorded /\ SetUpStopsAtItsFailure /\ FixedAreListed
  /\ FilesAreCleaned

(* The call index never falls back, and faults are never forgotten.        *)
LEMMA CalledStaysCalled ==
  ASSUME TypeOK, at' = at \/ at' = at + 1, faults' = faults \/ faults' = faults + 1,
         NEW i \in DOMAIN plan, Called(i)
  PROVE  Called(i)'
<1>1. at \in Nat /\ faults \in Nat /\ i \in Nat
  BY PlanFacts DEF TypeOK
<1> QED
  BY <1>1 DEF Called

(* Every call had its effect or raised; what exists was made by a call     *)
(* that is behind the call index or was the last one; and what the         *)
(* clean-up has gone through is gone.                                      *)
LEMMA LeakInvariance == Spec => []LeakInv
<1>1. Init => LeakInv
  <2> SUFFICES ASSUME Init PROVE LeakInv
    OBVIOUS
  <2>1. plan \in Seq(Step) /\ plan # <<>> /\ at = 1
    BY PlansAssumption DEF Init, NothingCalled
  <2>2. \A i \in DOMAIN plan : ~(i < at)
    BY <2>1
  <2> QED
    BY <2>1, <2>2
    DEF Init, NothingCalled, LeakInv, CallsHadTheirEffect, ExistingWereCreated,
        FilesWereWritten, NetworksAreRecorded, SetUpStopsAtItsFailure, FixedAreListed,
        FilesAreCleaned
<1>2. TypeOK /\ OwnInv /\ LeakInv /\ [Next]_vars => LeakInv'
  <2> SUFFICES ASSUME TypeOK, OwnInv, LeakInv, [Next]_vars PROVE LeakInv'
    OBVIOUS
  <2> USE DEF cleaning, bookkeeping, files
  <2>1. plan \in Seq(Step) /\ at \in Nat /\ faults \in Nat /\ Len(plan) \in Nat
        /\ DOMAIN plan = 1..Len(plan)
    BY PlanFacts DEF TypeOK
  <2>2. CASE SetUp
    <3>1. /\ pc = "setup" /\ at \in DOMAIN plan /\ plan[at] \in Step /\ outcome = "running"
          /\ UNCHANGED <<plan, scratch>>
          /\ at' = at \/ at' = at + 1
          /\ faults' = faults \/ faults' = faults + 1
      BY <2>2, SetUpStep DEF LeakInv, SetUpStopsAtItsFailure
    <3>2. \/ at' = at + 1
          \/ at' = at /\ faults' # 0
          \/ /\ at' = at
             /\ UNCHANGED <<listed, created, netCreated, docker, networks, staged, secrets>>
      <4>1. faults + 1 # 0
        BY <2>1
      <4> QED
        BY <2>2, <4>1, SetUpStep
    <3>3. \A i \in DOMAIN plan : Called(i) => Called(i)'
      BY <3>1, CalledStaysCalled
    <3>4. \A i \in DOMAIN plan :
            i = at => UNCHANGED <<docker, staged, secrets>> \/ Called(i)'
      <4>1. at < at + 1 /\ at <= at + 1 /\ at <= at
        BY <2>1
      <4> QED
        BY <3>2, <4>1 DEF Called
    <3>5. CallsHadTheirEffect'
      <4> SUFFICES ASSUME NEW i \in DOMAIN plan, i < at'
                   PROVE  /\ plan[i].op = "record" => plan[i].on \in created'
                          /\ plan[i].op = "extend" => LlmServer \subseteq listed'
                          /\ plan[i].op = "network" => plan[i].net \in networks'
        BY <3>1 DEF CallsHadTheirEffect
      <4>1. CASE i < at
        BY <2>2, <3>1, <4>1, SetUpBookkeeping DEF LeakInv, CallsHadTheirEffect
      <4>2. CASE i = at /\ at' = at + 1
        BY <2>2, <4>2, SetUpBookkeeping
      <4> QED
        BY <2>1, <3>1, <4>1, <4>2
    <3>6. ExistingWereCreated'
      <4> SUFFICES ASSUME NEW c \in Container, docker'[c] # "absent"
                   PROVE  \E i \in DOMAIN plan :
                            Called(i)' /\ plan[i].op = "create" /\ plan[i].on = c
        BY <3>1 DEF ExistingWereCreated
      <4>1. CASE docker[c] # "absent"
        BY <3>3, <4>1 DEF LeakInv, ExistingWereCreated
      <4>2. CASE docker[c] = "absent"
        BY <2>2, <3>1, <3>4, <4>2, SetUpDocker
      <4> QED
        BY <4>1, <4>2
    <3>7. FilesWereWritten'
      <4> SUFFICES ASSUME NEW c \in staged' \cup secrets'
                   PROVE  \E i \in DOMAIN plan :
                            Called(i)' /\ plan[i].op \in {"stage", "seal"} /\ plan[i].on = c
        BY <3>1 DEF FilesWereWritten
      <4>1. CASE c \in staged \cup secrets
        BY <3>3, <4>1 DEF LeakInv, FilesWereWritten
      <4>2. CASE c \notin staged \cup secrets
        BY <2>2, <3>1, <3>4, <4>2, SetUpBookkeeping
      <4> QED
        BY <4>1, <4>2
    <3>8. NetworksAreRecorded'
      <4>1. networks \ netCreated = {}
        BY <3>1 DEF LeakInv, NetworksAreRecorded
      <4>2. CASE at' = at + 1
        BY <2>2, <4>1, <4>2, SetUpBookkeeping DEF NetworksAreRecorded
      <4>3. CASE at' = at
        <5>1. pc' = "copy"
          <6>1. at # at + 1
            BY <2>1
          <6> QED
            BY <2>2, <4>3, <6>1, SetUpStep
        <5> QED
          BY <2>2, <3>1, <3>2, <4>1, <4>3, <5>1, SetUpBookkeeping
          DEF NetworksAreRecorded
      <4> QED
        BY <3>1, <4>2, <4>3
    <3>9. SetUpStopsAtItsFailure'
      <4>1. ASSUME faults' = 0, at' = at
            PROVE  plan[at].op \notin (Creation \ {"create"}) \cup {"extend"}
        <5>1. ~CanSucceed
          <6>1. at # at + 1 /\ faults + 1 # 0
            BY <2>1
          <6> QED
            BY <2>2, <4>1, <6>1, SetUpStep
        <5>2. plan[at].op # "connect"
          <6> SUFFICES ASSUME plan[at].op = "connect" PROVE FALSE
            OBVIOUS
          <6>1. PICK j \in DOMAIN plan : j < at /\ plan[j].op = "create" /\ plan[j].on = plan[at].on
            BY <3>1, PlanFacts DEF ConnectionsArePrepared
          <6>2. PICK k \in DOMAIN plan : k < at /\ plan[k].op = "network" /\ plan[k].net = plan[at].net
            BY <3>1, PlanFacts DEF ConnectionsArePrepared
          <6>3. plan[at].net \in networks
            BY <3>1, <6>2 DEF LeakInv, CallsHadTheirEffect
          <6>4. docker[plan[at].on] # "absent"
            BY <3>1, <6>1 DEF OwnInv, CreatedCallsExist
          <6> QED
            BY <5>1, <6>3, <6>4 DEF CanSucceed, Subject, Net
        <5> QED
          BY <5>1, <5>2 DEF CanSucceed, Creation
      <4>2. CASE at' = at + 1
        <5>1. pc' = (IF at = Len(plan) THEN "wait" ELSE "setup") /\ outcome' = "running"
          <6>1. at # at + 1
            BY <2>1
          <6> QED
            BY <2>2, <3>1, <4>2, <6>1, SetUpStep
        <5>2. at = Len(plan) => at' \notin DOMAIN plan
          BY <2>1, <4>2
        <5> QED
          BY <3>1, <5>1, <5>2 DEF SetUpStopsAtItsFailure
      <4>3. CASE at' = at
        <5>1. pc' = "copy" /\ outcome' = "raised"
          <6>1. at # at + 1
            BY <2>1
          <6> QED
            BY <2>2, <4>3, <6>1, SetUpStep
        <5> QED
          BY <3>1, <4>1, <4>3, <5>1 DEF SetUpStopsAtItsFailure
      <4> QED
        BY <3>1, <4>2, <4>3
    <3>10. FixedAreListed'
      BY <2>2, SetUpBookkeeping DEF LeakInv, FixedAreListed
    <3>11. FilesAreCleaned'
      BY <2>2, SetUpStep DEF FilesAreCleaned
    <3> QED
      BY <3>5, <3>6, <3>7, <3>8, <3>9, <3>10, <3>11 DEF LeakInv
  <2>3. CASE CleanUp
    <3>1. /\ pc \notin {"setup", "wait"} /\ pc' \notin {"setup", "wait"}
          /\ UNCHANGED <<plan, at, listed, created>>
          /\ faults' = faults \/ faults' = faults + 1
          /\ faults' = 0 => faults = 0
          /\ faults # 0 => faults' # 0
      BY <2>1, <2>3, CleanUpStep
    <3>2. \A i \in DOMAIN plan : Called(i) => Called(i)'
      BY <3>1, CalledStaysCalled
    <3>3. CallsHadTheirEffect'
      BY <3>1 DEF LeakInv, CallsHadTheirEffect
    <3>4. ExistingWereCreated'
      BY <2>3, <3>1, <3>2, CleanUpStep DEF LeakInv, ExistingWereCreated
    <3>5. FilesWereWritten'
      <4>1. staged' \cup secrets' \subseteq staged \cup secrets
        BY <2>3, CleanUpStep
      <4> QED
        BY <3>1, <3>2, <4>1 DEF LeakInv, FilesWereWritten
    <3>6. NetworksAreRecorded'
      BY <2>3, <3>1, CleanUpStep DEF LeakInv, NetworksAreRecorded
    <3>7. SetUpStopsAtItsFailure'
      BY <2>3, <3>1, CleanUpStep DEF LeakInv, SetUpStopsAtItsFailure
    <3>8. FilesAreCleaned'
      <4>1. CASE SkipContainer \/ RemoveContainer \/ RemoveContainerFails
        BY <4>1
        DEF SkipContainer, RemoveContainer, RemoveContainerFails, NextContainer, FilesAreCleaned
      <4>2. CASE SkipNetwork \/ RemoveNetwork \/ RemoveNetworkFails
        BY <4>2
        DEF SkipNetwork, RemoveNetwork, RemoveNetworkFails, NextNetwork, FilesAreCleaned
      <4>3. CASE CopyLogFiles \/ SaveState \/ SaveStateRaises \/ StopContainer \/ NotStopped
                   \/ CleanUpInterrupted \/ PrintErrors \/ FileCleanUpRaises
        BY <4>3
        DEF CopyLogFiles, SaveState, SaveStateRaises, StopContainer, NotStopped, LeaveCleanUp,
            CleanUpInterrupted, PrintErrors, FileCleanUpRaises, FilesAreCleaned
      <4>4. CASE CleanUpRunDirectory \/ CleanUpSecretsFiles \/ CleanUpStagedSources
        BY <4>4
        DEF CleanUpRunDirectory, CleanUpSecretsFiles, CleanUpStagedSources, Tracked,
            LeakInv, FilesAreCleaned
      <4> QED
        BY <2>3, <4>1, <4>2, <4>3, <4>4 DEF CleanUp
    <3> QED
      BY <3>1, <3>3, <3>4, <3>5, <3>6, <3>7, <3>8 DEF LeakInv, FixedAreListed
  <2>4. CASE Environment \/ ProcessReturns \/ WaitInterrupted
    <3>1. /\ UNCHANGED <<plan, at, listed, created, netCreated, networks, staged, secrets, scratch>>
          /\ faults' = faults \/ faults' = faults + 1
          /\ faults' = 0 => faults = 0
          /\ faults # 0 => faults' # 0
          /\ \/ UNCHANGED <<pc, outcome>>
             \/ pc = "wait" /\ pc' = "copy" /\ outcome' \in {"returned", "raised"}
          /\ \A c \in Container : docker'[c] # "absent" <=> docker[c] # "absent"
      BY <2>1, <2>4, OtherStep
    <3>2. \A i \in DOMAIN plan : Called(i) => Called(i)'
      BY <3>1, CalledStaysCalled
    <3>3. CallsHadTheirEffect' /\ FixedAreListed' /\ NetworksAreRecorded'
      BY <3>1 DEF LeakInv, CallsHadTheirEffect, FixedAreListed, NetworksAreRecorded
    <3>4. ExistingWereCreated' /\ FilesWereWritten'
      BY <3>1, <3>2 DEF LeakInv, ExistingWereCreated, FilesWereWritten
    <3>5. SetUpStopsAtItsFailure' /\ FilesAreCleaned'
      BY <3>1 DEF LeakInv, SetUpStopsAtItsFailure, FilesAreCleaned, Tracked
    <3> QED
      BY <3>3, <3>4, <3>5 DEF LeakInv
  <2>5. CASE UNCHANGED vars
    BY <2>5
    DEF vars, control, daemon, Called, LeakInv, CallsHadTheirEffect, ExistingWereCreated,
        FilesWereWritten, NetworksAreRecorded, SetUpStopsAtItsFailure, FixedAreListed,
        FilesAreCleaned, Tracked
  <2> QED
    BY <2>2, <2>3, <2>4, <2>5 DEF Next, Finished
<1>3. QED
  BY <1>1, <1>2, TypeCorrect, OwnInvariance, PTL DEF Spec

(* A container whose calls are not all behind the call index is the        *)
(* subject of the call at the index, which is one of those that make and   *)
(* record a container.                                                     *)
LEMMA UnrecordedIsAtIndex ==
  ASSUME TypeOK, LeakInv, NEW i \in DOMAIN plan, Called(i),
         plan[i].op \in {"stage", "seal", "create"}, plan[i].on \notin created
  PROVE  /\ at \in DOMAIN plan /\ plan[at].on = plan[i].on /\ plan[at].op \in Creation
         /\ i <= at /\ (faults = 0 => i < at)
<1>1. plan \in Seq(Step) /\ at \in Nat
  BY PlanFacts DEF TypeOK
<1>2. PICK j \in DOMAIN plan : /\ i < j /\ plan[j].op = "record"
                               /\ \A k \in i..j : plan[k].op \in Creation /\ plan[k].on = plan[i].on
  BY PlanFacts DEF CreationsAreRecorded
<1>3. plan[j].on = plan[i].on
  BY <1>1, <1>2
<1>4. ~(j < at)
  BY <1>2, <1>3 DEF LeakInv, CallsHadTheirEffect
<1>5. at \in i..j /\ (faults = 0 => i < at)
  BY <1>1, <1>2, <1>4 DEF Called
<1> QED
  BY <1>1, <1>2, <1>5

(* An LLM server that the clean-up's list lacks belongs to the batch that  *)
(* the call at the index makes.                                            *)
LEMMA UnlistedIsInBatch ==
  ASSUME TypeOK, LeakInv, NEW i \in DOMAIN plan, Called(i),
         plan[i].op \in {"stage", "seal", "create"}, plan[i].on \notin listed
  PROVE  /\ at \in DOMAIN plan /\ plan[i].on \in LlmServer /\ plan[i].op = "create"
         /\ plan[at].op \in Creation \cup {"extend"}
<1>1. plan \in Seq(Step) /\ at \in Nat
  BY PlanFacts DEF TypeOK
<1>2. plan[i].on \in LlmServer
  <2>1. plan[i] \in Step
    BY <1>1
  <2> QED
    BY <2>1 DEF LeakInv, FixedAreListed, Step
<1>3. plan[i].op = "create"
  BY <1>2, PlanFacts DEF LlmServersAreListed
<1>4. PICK j \in DOMAIN plan : /\ i < j /\ plan[j].op = "extend"
                               /\ \A k \in i..j : plan[k].op \in Creation \cup {"extend"}
  BY <1>2, <1>3, PlanFacts DEF LlmServersAreListed
<1>5. ~(j < at)
  BY <1>2, <1>4 DEF LeakInv, CallsHadTheirEffect
<1>6. at \in i..j
  BY <1>1, <1>4, <1>5 DEF Called
<1> QED
  BY <1>1, <1>2, <1>3, <1>4, <1>6

(* After a clean-up that no exception cut short, what is left without      *)
(* being named belongs to the one call that failed, or to the batch of LLM *)
(* servers that call was part of.                                          *)
THEOREM LeaksAreConfined == Spec => []LeakIsConfined
<1>1. TypeOK /\ LeakInv /\ ResidueInv => LeakIsConfined
  <2> SUFFICES ASSUME TypeOK, LeakInv, ResidueInv, pc = "done", outcome # "cleanup_raised"
               PROVE  /\ \A c \in Container :
                           docker[c] # "absent" /\ c \notin printed =>
                             \E call \in FailedCall : c = call.on \/ c \in LlmServer \ listed
                      /\ \A n \in networks \ printed : \E call \in FailedCall : n = call.net
                      /\ \A c \in staged \cup secrets : \E call \in FailedCall : c = call.on
                      /\ ~scratch
    BY DEF LeakIsConfined, CleanUpWasComplete
  <2>1. /\ \A c \in Tracked : docker[c] = "absent" \/ c \in printed
        /\ netCreated \subseteq printed
    BY DEF ResidueInv, ContainersHandled, NetworksHandled, ErrorsPrinted, CleaningFiles, Handled
  <2>2. at \in DOMAIN plan => FailedCall = {plan[at]}
    BY DEF LeakInv, SetUpStopsAtItsFailure, FailedCall
  <2>3. ASSUME NEW c \in Container, docker[c] # "absent", c \notin printed
        PROVE  \E call \in FailedCall : c = call.on \/ c \in LlmServer \ listed
    <3>1. PICK i \in DOMAIN plan : Called(i) /\ plan[i].op = "create" /\ plan[i].on = c
      BY <2>3 DEF LeakInv, ExistingWereCreated
    <3>2. c \notin created \/ c \notin listed
      BY <2>1, <2>3 DEF Tracked
    <3> QED
      BY <2>2, <3>1, <3>2, UnrecordedIsAtIndex, UnlistedIsInBatch
  <2>4. ASSUME NEW n \in networks \ printed
        PROVE  \E call \in FailedCall : n = call.net
    BY <2>1, <2>2, <2>4 DEF LeakInv, NetworksAreRecorded
  <2>5. ASSUME NEW c \in staged \cup secrets
        PROVE  \E call \in FailedCall : c = call.on
    <3>1. PICK i \in DOMAIN plan : Called(i) /\ plan[i].op \in {"stage", "seal"} /\ plan[i].on = c
      BY <2>5 DEF LeakInv, FilesWereWritten
    <3>2. c \notin created \/ c \notin listed
      BY <2>5 DEF LeakInv, FilesAreCleaned, Tracked
    <3>3. c \in listed
      BY <3>1, UnlistedIsInBatch
    <3> QED
      BY <2>2, <3>1, <3>2, <3>3, UnrecordedIsAtIndex
  <2> QED
    BY <2>3, <2>4, <2>5 DEF LeakInv, FilesAreCleaned
<1>2. QED
  BY <1>1, TypeCorrect, LeakInvariance, ResidueInvariance, PTL

-----------------------------------------------------------------------------
(* Runs without a fault.                                                   *)

StartedWereRunning ==
  \A c \in started :
    docker[c] # "created" /\ (pc \in {"setup", "wait"} => docker[c] # "absent")

StoppedIsNotRunning ==
  stopped =>
    /\ pc \notin {"setup", "wait", "copy", "state", "stop"}
    /\ pc = "remove" => docker[Target] \notin {"created", "running"}

NoErrorBeforeRemoval == pc \in {"setup", "wait"} => errors = {}

(* Nobody interrupts, no call fails for a reason of its own, and the       *)
(* set-up did not stop in front of a docker create.                        *)
FaultFree == faults = 0 /\ (at \in DOMAIN plan => plan[at].op # "create")

NothingGoesWrong == FaultFree => errors = {} /\ outcome # "cleanup_raised"

FaultFreeInv ==
  StartedWereRunning /\ StoppedIsNotRunning /\ NoErrorBeforeRemoval /\ NothingGoesWrong

(* A set-up that stops without a fault stops between two containers: all   *)
(* that it has built is on the clean-up's lists.                           *)
LEMMA FaultFreeIsTracked ==
  ASSUME TypeOK, LeakInv, FaultFree, pc \notin {"setup", "wait"},
         NEW c \in Container, docker[c] # "absent" \/ c \in staged \cup secrets
  PROVE  c \in Tracked
<1>1. PICK i \in DOMAIN plan :
        Called(i) /\ plan[i].op \in {"stage", "seal", "create"} /\ plan[i].on = c
  BY DEF LeakInv, ExistingWereCreated, FilesWereWritten
<1>2. at \in DOMAIN plan => plan[at].op \notin Creation \cup {"extend"}
  BY DEF LeakInv, SetUpStopsAtItsFailure, FaultFree
<1>3. c \in created
  BY <1>1, <1>2, UnrecordedIsAtIndex
<1>4. c \in listed
  BY <1>1, <1>2, UnlistedIsInBatch
<1> QED
  BY <1>3, <1>4 DEF Tracked

(* Without a fault no removal fails and no exception leaves the clean-up.  *)
LEMMA FaultFreeInvariance == Spec => []FaultFreeInv
<1>1. Init => FaultFreeInv
  BY DEF Init, NothingCalled, FaultFreeInv, StartedWereRunning, StoppedIsNotRunning,
         NoErrorBeforeRemoval, NothingGoesWrong
<1>2. TypeOK /\ OwnInv /\ LeakInv /\ ResidueInv /\ FaultFreeInv /\ [Next]_vars => FaultFreeInv'
  <2> SUFFICES ASSUME TypeOK, OwnInv, LeakInv, ResidueInv, FaultFreeInv, [Next]_vars
               PROVE  FaultFreeInv'
    OBVIOUS
  <2>1. /\ faults \in Nat /\ started \subseteq Container
        /\ docker \in [Container -> {"absent", "created", "running", "exited"}]
    BY DEF TypeOK
  <2>2. CASE SetUp
    <3>1. /\ pc = "setup" /\ errors = {} /\ outcome = "running" /\ ~stopped
          /\ errors' = errors /\ stopped' = stopped
          /\ pc' \in {"setup", "wait", "copy"} /\ outcome' \in {"running", "raised"}
      BY <2>2, SetUpStep
      DEF cleaning, FaultFreeInv, NoErrorBeforeRemoval, StoppedIsNotRunning, LeakInv,
          SetUpStopsAtItsFailure
    <3>2. ASSUME NEW c \in started' PROVE docker'[c] \notin {"absent", "created"}
      <4>1. c \in Container
        BY <2>2, <2>1, SetUpStep, PlanFacts
        DEF TypeOK, Step, bookkeeping, daemon, SetUp, CreateNetwork, StageSource,
            SealSecrets, CreateContainer, ConnectContainer, SetCreated, ExtendContainers,
            StartContainer, CheckHealth, Verify, ProvisionSecrets, StartAttached,
            AwaitRunning, SetUpRaises, Subject
      <4>2. CASE c \in started
        BY <2>2, <3>1, <4>1, <4>2, SetUpDocker DEF FaultFreeInv, StartedWereRunning
      <4> QED
        BY <2>2, <4>1, <4>2, SetUpDocker
    <3> QED
      BY <3>1, <3>2
      DEF FaultFreeInv, StartedWereRunning, StoppedIsNotRunning, NoErrorBeforeRemoval,
          NothingGoesWrong
  <2>3. CASE CleanUp
    <3>1. /\ pc \notin {"setup", "wait"} /\ pc' \notin {"setup", "wait"}
          /\ UNCHANGED <<plan, at, started>>
          /\ faults' = 0 => faults = 0 /\ faults' = faults
          /\ \A c \in Container : docker'[c] = "created" => docker[c] = "created"
      BY <2>1, <2>3, CleanUpStep
    <3>2. StartedWereRunning' /\ NoErrorBeforeRemoval'
      BY <2>1, <3>1 DEF FaultFreeInv, StartedWereRunning, NoErrorBeforeRemoval
    <3>3. ASSUME FaultFree'
          PROVE  FaultFree /\ faults' # faults + 1 /\ errors = {} /\ outcome # "cleanup_raised"
      BY <2>1, <3>1, <3>3 DEF FaultFree, FaultFreeInv, NothingGoesWrong
    <3> SUFFICES StoppedIsNotRunning' /\ NothingGoesWrong'
      BY <3>2 DEF FaultFreeInv
    <3>4. CASE SkipContainer \/ RemoveContainer
      BY <3>3, <3>4
      DEF SkipContainer, RemoveContainer, NextContainer, FaultFreeInv, NothingGoesWrong,
          StoppedIsNotRunning, FaultFree
    <3>5. CASE RemoveContainerFails
      <4>1. Exists(Target) /\ Removable
        BY <3>5, TargetExists
        DEF RemoveContainerFails, Exists, Removable, FaultFreeInv, StoppedIsNotRunning
      <4>2. ~FaultFree' /\ ~stopped'
        BY <3>3, <3>5, <4>1 DEF RemoveContainerFails, Fault, NextContainer
      <4> QED
        BY <4>2 DEF NothingGoesWrong, StoppedIsNotRunning
    <3>6. CASE CopyLogFiles \/ SaveState \/ NotStopped
      BY <3>3, <3>6
      DEF CopyLogFiles, SaveState, NotStopped, Interrupt, Fault, cleaning, FaultFree,
          FaultFreeInv, NothingGoesWrong, StoppedIsNotRunning
    <3>7. CASE StopContainer
      <4>1. docker'[Target] \notin {"created", "running"}
        <5>1. Target \in Container
          BY <3>7, OrdersAssumption DEF StopContainer, TypeOK, Target
        <5> QED
          BY <2>1, <3>7, <5>1 DEF StopContainer, FaultFreeInv, StartedWereRunning
      <4> QED
        BY <3>3, <3>7, <4>1
        DEF StopContainer, FaultFree, NothingGoesWrong, StoppedIsNotRunning, Target
    <3>8. CASE SaveStateRaises
      <4>1. faults' = faults + 1 /\ pc' = "run_directory"
        BY <3>8, TargetExists DEF SaveStateRaises, Exists, Fault, LeaveCleanUp
      <4> QED
        BY <3>3, <4>1 DEF StoppedIsNotRunning, NothingGoesWrong
    <3>9. CASE CleanUpInterrupted \/ FileCleanUpRaises
      <4>1. faults' = faults + 1 /\ pc' \in {"run_directory", "done"}
        BY <3>9 DEF CleanUpInterrupted, LeaveCleanUp, FileCleanUpRaises, Interrupt, Fault
      <4> QED
        BY <3>3, <4>1 DEF StoppedIsNotRunning, NothingGoesWrong
    <3>10. CASE SkipNetwork \/ RemoveNetwork \/ RemoveNetworkFails
      <4>1. pc = "networks" /\ pc' \in {"networks", "report"} /\ outcome' = outcome
        BY <3>10
        DEF SkipNetwork, RemoveNetwork, RemoveNetworkFails, NextNetwork
      <4>2. ASSUME FaultFree', RemoveNetworkFails PROVE FALSE
        <5>1. InUse(TargetNet)
          BY <3>3, <4>2 DEF RemoveNetworkFails, Fault
        <5>2. PICK c \in Container : docker[c] = "running"
          BY <5>1 DEF InUse
        <5>3. c \in Tracked
          BY <3>1, <3>3, <4>2, <5>2, FaultFreeIsTracked
        <5> QED
          BY <3>3, <4>1, <4>2, <5>2, <5>3 DEF ResidueInv, ContainersHandled, Handled
      <4>3. FaultFree' => errors' = errors
        BY <3>10, <4>2 DEF SkipNetwork, RemoveNetwork
      <4> QED
        BY <3>3, <4>1, <4>3, <3>10
        DEF SkipNetwork, RemoveNetwork, RemoveNetworkFails, NothingGoesWrong, StoppedIsNotRunning
    <3>11. CASE PrintErrors \/ CleanUpRunDirectory \/ CleanUpSecretsFiles
                  \/ CleanUpStagedSources
      BY <3>3, <3>11
      DEF PrintErrors, CleanUpRunDirectory, CleanUpSecretsFiles, CleanUpStagedSources,
          cleaning, FaultFreeInv, NothingGoesWrong, StoppedIsNotRunning
    <3> QED
      BY <2>3, <3>4, <3>5, <3>6, <3>7, <3>8, <3>9, <3>10, <3>11 DEF CleanUp
  <2>4. CASE Environment \/ ProcessReturns \/ WaitInterrupted
    <3>1. /\ UNCHANGED <<plan, at, cursor, stopped, errors, started>>
          /\ faults' = 0 => faults = 0
          /\ \/ UNCHANGED <<pc, outcome>>
             \/ pc = "wait" /\ pc' = "copy" /\ outcome' \in {"returned", "raised"}
          /\ \A c \in Container :
               /\ docker'[c] # "absent" <=> docker[c] # "absent"
               /\ docker'[c] = docker[c] \/ docker'[c] \in {"running", "exited"}
               /\ docker[c] \notin {"created", "running"} => docker'[c] = docker[c]
      BY <2>1, <2>4, OtherStep DEF cleaning, bookkeeping
    <3>2. pc = "remove" => Target \in Container
      BY OrdersAssumption DEF TypeOK, Target
    <3>3. StartedWereRunning'
      BY <2>1, <3>1 DEF FaultFreeInv, StartedWereRunning
    <3>4. StoppedIsNotRunning'
      BY <3>1, <3>2 DEF FaultFreeInv, StoppedIsNotRunning, Target
    <3>5. NoErrorBeforeRemoval' /\ NothingGoesWrong'
      BY <3>1 DEF FaultFreeInv, NoErrorBeforeRemoval, NothingGoesWrong, FaultFree
    <3> QED
      BY <3>3, <3>4, <3>5 DEF FaultFreeInv
  <2>5. CASE UNCHANGED vars
    BY <2>5
    DEF vars, control, cleaning, bookkeeping, daemon, FaultFreeInv, StartedWereRunning,
        StoppedIsNotRunning, NoErrorBeforeRemoval, NothingGoesWrong, FaultFree, Target
  <2> QED
    BY <2>2, <2>3, <2>4, <2>5 DEF Next, Finished
<1>3. QED
  BY <1>1, <1>2, TypeCorrect, OwnInvariance, LeakInvariance, ResidueInvariance, PTL DEF Spec

(* Containers that exit and waits that time out leave no residue behind.   *)
THEOREM FaultFreeRunsAreClean == Spec => []FaultFreeRunIsClean
<1>1. TypeOK /\ LeakInv /\ ResidueInv /\ FaultFreeInv => FaultFreeRunIsClean
  <2> SUFFICES ASSUME TypeOK, LeakInv, ResidueInv, FaultFreeInv, pc = "done", FaultFree
               PROVE  /\ \A c \in Container : docker[c] = "absent"
                      /\ networks = {} /\ staged = {} /\ secrets = {} /\ ~scratch
                      /\ printed = {} /\ outcome # "cleanup_raised"
    BY DEF FaultFreeRunIsClean, FaultFree
  <2>1. /\ errors = {} /\ outcome # "cleanup_raised"
        /\ printed = {} /\ netCreated = {}
        /\ \A c \in Tracked : docker[c] = "absent"
    BY DEF FaultFreeInv, NothingGoesWrong, ResidueInv, ContainersHandled, NetworksHandled,
           ErrorsPrinted, CleaningFiles, Handled
  <2>2. /\ \A c \in Container : docker[c] = "absent"
    BY <2>1, FaultFreeIsTracked
  <2>3. networks = {}
    BY <2>1 DEF FaultFree, LeakInv, NetworksAreRecorded
  <2>4. staged \cup secrets = {} /\ ~scratch
    <3>1. \A c \in staged \cup secrets : c \in Tracked
      BY FaultFreeIsTracked DEF TypeOK, FaultFree, LeakInv, FilesWereWritten
    <3> QED
      BY <2>1, <3>1 DEF LeakInv, FilesAreCleaned
  <2> QED
    BY <2>1, <2>2, <2>3, <2>4
<1>2. QED
  BY <1>1, TypeCorrect, LeakInvariance, ResidueInvariance, FaultFreeInvariance, PTL

=============================================================================
