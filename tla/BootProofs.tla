----------------------------- MODULE BootProofs -----------------------------
(***************************************************************************)
(* Proofs about the start of the workload.  Of WorkloadBoot, for every     *)
(* number of probe groups: its types, the invariant that keeps the key     *)
(* file whole and the workload behind its gates, and that it implements    *)
(* StartupSequence.  Of ConfinedBoot: its steps are steps of WorkloadBoot, *)
(* so what is proved of that holds of it too, and with the roles of the    *)
(* interpreters and the passed checks the workload runs confined, whatever *)
(* set of controls its container lacks.                                    *)
(***************************************************************************)
EXTENDS ConfinedBoot, TLAPS

(* Every variable of WorkloadBoot has its type in every reachable state:   *)
(* among others the runner never counts past the last probe group.         *)
THEOREM BootTypes == Spec => []TypeOK
<1>1. Init => TypeOK
  <2> SUFFICES ASSUME Init PROVE TypeOK
    OBVIOUS
  <2>1. probeAt \in 1..ProbeGroups + 1
    BY ProbeGroupsAssumption, SMT DEF Init
  <2> QED
    BY <2>1, Zenon DEF Init, TypeOK, Content
<1>2. TypeOK /\ [Next]_vars => TypeOK'
  <2> SUFFICES ASSUME TypeOK, [Next]_vars PROVE TypeOK'
    OBVIOUS
  <2> USE DEF TypeOK, bootVars, receiverVars, hostVars
  <2>a. ASSUME NEW result \in {"ok", "failed"}, Exit(result) PROVE TypeOK'
    BY <2>a DEF Exit
  <2>1. CASE Bootstrap
    BY <2>1, <2>a DEF Bootstrap, LoadSpecification, FindKey, MissKey, PollAgain,
      WaitTimesOut, ApplyLandlock, BootstrapFails, Becomes
  <2>2. CASE DeadlinePasses
    BY <2>2 DEF DeadlinePasses
  <2>3. CASE Runner
    <3>1. CASE \E passed \in BOOLEAN : RunProbeGroup(passed)
      <4>1. PICK passed \in BOOLEAN : RunProbeGroup(passed)
        BY <3>1
      <4>2. probeAt' \in 1..ProbeGroups + 1
        BY <4>1, ProbeGroupsAssumption, SMT DEF RunProbeGroup
      <4>3. success' \in BOOLEAN
        BY <4>1, Zenon DEF RunProbeGroup
      <4>4. failed' \subseteq 1..ProbeGroups
        BY <4>1, ProbeGroupsAssumption, SMT DEF RunProbeGroup
      <4> QED
        BY <4>1, <4>2, <4>3, <4>4, Zenon DEF RunProbeGroup
    <3>2. CASE StartProbes
      <4>1. probeAt' \in 1..ProbeGroups + 1
        BY <3>2, ProbeGroupsAssumption, SMT DEF StartProbes
      <4> QED
        BY <3>2, <4>1, Zenon DEF StartProbes, Becomes
    <3>3. CASE ProbesSucceed \/ ExecuteWorkload
      BY <3>3 DEF ProbesSucceed, ExecuteWorkload, Becomes
    <3>4. CASE ProbesFail \/ ExecutionFails
      BY <3>4, <2>a DEF ProbesFail, ExecutionFails
    <3> QED
      BY <2>3, <3>1, <3>2, <3>3, <3>4 DEF Runner
  <2>4. CASE WorkloadEnds
    BY <2>4, <2>a DEF WorkloadEnds
  <2>5. CASE Receiver
    <3>1. CASE ReadKey \/ ReadShortKey \/ RejectKey \/ PublishingFails \/ UnlinkFails
      BY <3>1 DEF ReadKey, ReadShortKey, RejectKey, PublishingFails, UnlinkFails,
        ReceiverStep
    <3>2. CASE ValidateKey \/ WriteTemporary \/ LinkKey \/ UnlinkTemporary
      BY <3>2 DEF ValidateKey, WriteTemporary, LinkKey, UnlinkTemporary,
        ReceiverStep, Content
    <3> QED
      BY <2>5, <3>1, <3>2 DEF Receiver
  <2>6. CASE Host
    <3>1. CASE StopContainer
      BY <3>1 DEF StopContainer, HostStep
    <3>2. CASE ProvisioningTimesOut
      BY <3>2, Zenon DEF ProvisioningTimesOut, HostStep
    <3>3. CASE \/ StartReceiver \/ ContainerWasGone \/ ProvisioningSucceeds
               \/ ProvisioningFails \/ WorkloadIsOver
      BY <3>3 DEF StartReceiver, ContainerWasGone, ProvisioningSucceeds,
        ProvisioningFails, WorkloadIsOver, HostStep
    <3> QED
      BY <2>6, <3>1, <3>2, <3>3 DEF Host
  <2>7. CASE HostIsKilled
    BY <2>7, SMT DEF HostIsKilled
  <2>8. CASE UNCHANGED vars
    BY <2>8 DEF vars
  <2> QED
    BY <2>1, <2>2, <2>3, <2>4, <2>5, <2>6, <2>7, <2>8 DEF Next, Finished
<1> QED
  BY <1>1, <1>2, PTL DEF Spec

-----------------------------------------------------------------------------
(* The key is linked into place after it has been written, and nothing     *)
(* takes it away again; a stage of the first process remembers what the    *)
(* stages before it established; the receiver runs only in a container     *)
(* that runs.                                                              *)

KeyInv ==
  /\ keyFile \in {"none", "complete"}
  /\ receiver = "linking" => temporary = "complete"
  /\ receiver \in {"unlinking", "succeeded"} => keyFile = "complete"

StageInv ==
  /\ boot \in {"confining", "runner", "probing", "probed", "workload"} =>
       keyFile = "complete"
  /\ boot \in {"runner", "probing", "probed", "workload"} => restricted = TRUE
  /\ boot \in {"probed", "workload"} => failed = {} /\ probeAt = ProbeGroups + 1
  /\ boot \in {"probing", "probed"} /\ success => failed = {}

HostInv ==
  /\ host = "awaiting" => receiver = "absent"
  /\ host = "waiting" => receiver = "succeeded"
  /\ host = "gone" => boot = "exited"
  /\ ReceiverRuns => boot # "exited"

BootInv == KeyInv /\ StageInv /\ HostInv

(* BootInv holds in every reachable state.                                 *)
LEMMA BootInvariant == Spec => []BootInv
<1>1. Init => BootInv
  BY SMT DEF Init, BootInv, KeyInv, StageInv, HostInv, ReceiverRuns
<1>2. TypeOK /\ BootInv /\ [Next]_vars => BootInv'
  <2> SUFFICES ASSUME TypeOK, BootInv, [Next]_vars PROVE BootInv'
    OBVIOUS
  <2> USE DEF BootInv, KeyInv, StageInv, HostInv, ReceiverRuns, bootVars,
        receiverVars, hostVars
  <2>1. CASE Bootstrap
    BY <2>1, SMT DEF Bootstrap, LoadSpecification, FindKey, MissKey, PollAgain,
      WaitTimesOut, ApplyLandlock, BootstrapFails, Becomes, Exit
  <2>2. CASE DeadlinePasses
    BY <2>2, SMT DEF DeadlinePasses
  <2>3. CASE Runner
    <3>1. ASSUME NEW passed \in BOOLEAN, RunProbeGroup(passed) PROVE BootInv'
      <4>1. success' => success /\ passed
        BY <3>1, Zenon DEF RunProbeGroup
      <4>2. success' => failed' = failed
        BY <3>1, <4>1 DEF RunProbeGroup
      <4>3. boot' = "probing" /\ boot = "probing"
        BY <3>1 DEF RunProbeGroup
      <4> QED
        BY <3>1, <4>1, <4>2, <4>3, SMT DEF RunProbeGroup
    <3>2. CASE StartProbes \/ ProbesSucceed \/ ExecuteWorkload
      BY <3>2, SMT DEF StartProbes, ProbesSucceed, ExecuteWorkload, Becomes
    <3>3. CASE ProbesFail \/ ExecutionFails
      BY <3>3, SMT DEF ProbesFail, ExecutionFails, Exit
    <3> QED
      BY <2>3, <3>1, <3>2, <3>3 DEF Runner
  <2>4. CASE WorkloadEnds
    BY <2>4, SMT DEF WorkloadEnds, Exit
  <2>5. CASE Receiver
    BY <2>5, SMT DEF Receiver, ReadKey, ReadShortKey, ValidateKey, RejectKey,
      WriteTemporary, LinkKey, PublishingFails, UnlinkTemporary, UnlinkFails,
      ReceiverStep
  <2>6. CASE Host
    BY <2>6, SMT DEF Host, StartReceiver, ContainerWasGone, ProvisioningSucceeds,
      ProvisioningFails, ProvisioningTimesOut, WorkloadIsOver, StopContainer,
      HostStep
  <2>7. CASE HostIsKilled
    BY <2>7, SMT DEF HostIsKilled
  <2>8. CASE UNCHANGED vars
    BY <2>8, SMT DEF vars
  <2> QED
    BY <2>1, <2>2, <2>3, <2>4, <2>5, <2>6, <2>7, <2>8 DEF Next, Finished
<1> QED
  BY <1>1, <1>2, BootTypes, PTL DEF Spec

(* What bootstrap finds at the path of the key file is never half a key,   *)
(* however its polling interleaves with the receiver.                      *)
THEOREM KeyIsWhole == Spec => []KeyIsWholeOrAbsent
<1>1. BootInv => KeyIsWholeOrAbsent
  BY SMT DEF BootInv, KeyInv, KeyIsWholeOrAbsent
<1> QED
  BY <1>1, BootInvariant, PTL

(* The workload runs only with its key, under Landlock and after every     *)
(* probe group has passed, for every number of groups.                     *)
THEOREM WorkloadGuarded == Spec => []WorkloadIsGuarded
<1>1. BootInv => WorkloadIsGuarded
  BY SMT DEF BootInv, StageInv, WorkloadIsGuarded
<1> QED
  BY <1>1, BootInvariant, PTL

(* The host waits for the workload only when the key is in place, and      *)
(* leaves nothing running behind it.                                       *)
THEOREM HostAgrees == Spec => []HostAgreesWithContainer
<1>1. BootInv => HostAgreesWithContainer
  BY SMT DEF BootInv, KeyInv, HostInv, HostAgreesWithContainer
<1> QED
  BY <1>1, BootInvariant, PTL

-----------------------------------------------------------------------------
(* WorkloadBoot implements StartupSequence: every step of the three        *)
(* processes is a step from one gate to the next, an end, or invisible.    *)
THEOREM BootImplementsSequence == Spec => StartupIsSequenced
<1>1. Init => Abstract!Init
  BY SMT DEF Init, Abstract!Init, stage
<1>2. TypeOK /\ [Next]_vars => [Abstract!Next]_(Abstract!gate)
  <2> SUFFICES ASSUME TypeOK, [Next]_vars PROVE [Abstract!Next]_(Abstract!gate)
    OBVIOUS
  <2> USE DEF Abstract!gate, stage, bootVars, hostVars
  <2>1. ASSUME NEW result, Exit(result), boot # "exited"
        PROVE  Abstract!End(result)
    <3>1. stage # "ended" /\ stage' = "ended"
      BY <2>1, SMT DEF TypeOK, Exit
    <3> QED
      BY <2>1, <3>1 DEF Exit, Abstract!End
  <2>2. ASSUME boot \notin {"workload", "exited"}, Exit("failed")
        PROVE  Abstract!Refused
    BY <2>1, <2>2, SMT DEF Abstract!Refused
  <2>3. CASE Bootstrap
    <3>1. CASE FindKey
      BY <3>1, SMT DEF FindKey, Becomes, Abstract!Next,
        Abstract!SecretsProvisioned, Abstract!Pass
    <3>2. CASE ApplyLandlock
      BY <3>2, SMT DEF ApplyLandlock, Becomes, Abstract!Next,
        Abstract!LandlockApplied, Abstract!Pass
    <3>3. CASE WaitTimesOut \/ BootstrapFails
      BY <3>3, <2>2, SMT DEF WaitTimesOut, BootstrapFails, Abstract!Next
    <3>4. CASE LoadSpecification \/ MissKey \/ PollAgain
      BY <3>4, SMT DEF LoadSpecification, MissKey, PollAgain, Becomes
    <3> QED
      BY <2>3, <3>1, <3>2, <3>3, <3>4 DEF Bootstrap
  <2>4. CASE Runner
    <3>1. CASE ExecuteWorkload
      BY <3>1, SMT DEF ExecuteWorkload, Becomes, Abstract!Next,
        Abstract!ProbesPassed, Abstract!Pass
    <3>2. CASE ProbesFail \/ ExecutionFails
      BY <3>2, <2>2, SMT DEF ProbesFail, ExecutionFails, Abstract!Next
    <3>3. CASE StartProbes \/ ProbesSucceed \/ \E passed \in BOOLEAN : RunProbeGroup(passed)
      BY <3>3, SMT DEF StartProbes, ProbesSucceed, RunProbeGroup, Becomes
    <3> QED
      BY <2>4, <3>1, <3>2, <3>3 DEF Runner
  <2>5. CASE WorkloadEnds
    BY <2>5, <2>1, SMT DEF WorkloadEnds, Abstract!Next, Abstract!WorkloadEnds
  <2>6. CASE Host
    <3>1. CASE StopContainer
      <4>1. boot = "exited" => UNCHANGED <<stage, status>>
        BY <3>1, SMT DEF StopContainer
      <4>2. boot # "exited" => Abstract!Killed
        BY <3>1, SMT DEF StopContainer, TypeOK, Abstract!Killed, Abstract!End
      <4> QED
        BY <4>1, <4>2 DEF Abstract!Next
    <3>2. CASE \/ StartReceiver \/ ContainerWasGone \/ ProvisioningSucceeds
               \/ ProvisioningFails \/ ProvisioningTimesOut \/ WorkloadIsOver
      BY <3>2, SMT DEF StartReceiver, ContainerWasGone, ProvisioningSucceeds,
        ProvisioningFails, ProvisioningTimesOut, WorkloadIsOver
    <3> QED
      BY <2>6, <3>1, <3>2 DEF Host
  <2>7. CASE Receiver \/ DeadlinePasses \/ HostIsKilled \/ UNCHANGED vars
    BY <2>7, SMT DEF Receiver, ReadKey, ReadShortKey, ValidateKey, RejectKey,
      WriteTemporary, LinkKey, PublishingFails, UnlinkTemporary, UnlinkFails,
      ReceiverStep, DeadlinePasses, HostIsKilled, vars
  <2> QED
    BY <2>3, <2>4, <2>5, <2>6, <2>7 DEF Next, Finished
<1> QED
  BY <1>1, <1>2, BootTypes, PTL DEF Spec, StartupIsSequenced, Abstract!Spec

-----------------------------------------------------------------------------

(* Confinement only adds to the start of the workload: every behaviour of  *)
(* ConfinedBoot is one of WorkloadBoot.                                    *)
THEOREM ConfinedImplementsBoot == ConfinedSpec => Spec
<1>1. ConfinedInit => Init
  BY DEF ConfinedInit
<1>2. [ConfinedNext]_confinedVars => [Next]_vars
  <2>1. ConfinedNext => Next
    BY DEF ConfinedNext, ConfinedBootstrap, ConfinedDeadline, ConfinedRunner,
      ConfinedReceiver, ConfinedHost, StartProbing, RunGroup, FinishProbing,
      RunWorkload, Next, Runner
  <2>2. UNCHANGED confinedVars => UNCHANGED vars
    BY DEF confinedVars
  <2> QED
    BY <2>1, <2>2
<1> QED
  BY <1>1, <1>2, PTL DEF ConfinedSpec, Spec

-----------------------------------------------------------------------------
(* What a group that has passed leaves behind: of every check one control  *)
(* that is in place, or Landlock.                                          *)
Established(group) ==
  \A check \in ChecksInOrder[group] : \E c \in check : c = "landlock" \/ c \in controls

Stages == {"probing", "probed", "workload"}

RoleInv ==
  /\ boot \in {"starting", "polling", "missed", "confining", "runner"} =>
       role = "landlock" /\ prober = "none"
  /\ boot = "probing" => role = "runner" /\ prober = "probes"
  /\ boot = "probed" => role = "runner" /\ prober = "none" /\ exported = "workload"
  /\ boot = "workload" => role = "workload" /\ prober = "none"

CheckInv ==
  /\ boot \in Stages \cup {"runner"} => restricted
  /\ boot \in Stages =>
       \A group \in 1..ProbeGroups : group < probeAt /\ group \notin failed => Established(group)

ConfinedInv == RoleInv /\ CheckInv

(* A check that passes in the probes process shows a control in place.     *)
LEMMA PassedGroups ==
  ASSUME NEW group, GroupPasses(group) PROVE Established(group)
<1> SUFFICES ASSUME NEW check \in ChecksInOrder[group], NEW c \in check, InForce(c)
             PROVE  c = "landlock" \/ c \in controls
  BY DEF GroupPasses, Established
<1> QED
  BY DEF InForce, MaySpawn, MayReplaceItself, Guards

(* The steps that change neither where the first process is nor what the   *)
(* probes found.                                                           *)
LEMMA OtherSteps ==
  ASSUME ConfinedInv, RolesStay,
         boot' = "exited" \/ UNCHANGED <<boot, restricted, probeAt, failed>>
  PROVE  ConfinedInv'
<1>1. CASE boot' = "exited"
  BY <1>1 DEF ConfinedInv, RoleInv, CheckInv, Stages
<1>2. CASE boot' # "exited"
  BY <1>2 DEF ConfinedInv, RoleInv, CheckInv, Stages, RolesStay, roleVars, Established
<1> QED
  BY <1>1, <1>2

LEMMA ConfinedStep == TypeOK /\ ConfinedInv /\ [ConfinedNext]_confinedVars => ConfinedInv'
<1> SUFFICES ASSUME TypeOK, ConfinedInv, [ConfinedNext]_confinedVars PROVE ConfinedInv'
  OBVIOUS
<1>a. ASSUME NEW result, Exit(result), RolesStay PROVE ConfinedInv'
  BY <1>a, OtherSteps DEF Exit
<1>1. CASE ConfinedBootstrap
  <2>1. CASE WaitTimesOut \/ BootstrapFails
    BY <1>1, <2>1, <1>a DEF ConfinedBootstrap, WaitTimesOut, BootstrapFails
  <2>2. CASE LoadSpecification \/ FindKey \/ MissKey \/ PollAgain \/ ApplyLandlock
    BY <1>1, <2>2 DEF ConfinedBootstrap, LoadSpecification, FindKey, MissKey, PollAgain,
      ApplyLandlock, Becomes, RolesStay, roleVars, ConfinedInv, RoleInv, CheckInv, Stages
  <2> QED
    BY <1>1, <2>1, <2>2 DEF ConfinedBootstrap, Bootstrap
<1>2. CASE ConfinedRunner
  <2>1. CASE StartProbing
    <3>1. probeAt' = 1 /\ boot = "runner" /\ boot' = "probing" /\ restricted' = restricted
      BY <2>1 DEF StartProbing, StartProbes, Becomes
    <3>2. RoleInv'
      BY <2>1, <3>1 DEF StartProbing, RoleInv
    <3>3. \A group \in 1..ProbeGroups : ~(group < probeAt')
      BY <3>1, ProbeGroupsAssumption, SMT
    <3> QED
      BY <3>1, <3>2, <3>3 DEF ConfinedInv, CheckInv, Stages
  <2>2. CASE \E passed \in BOOLEAN : RunGroup(passed)
    <3>1. PICK passed \in BOOLEAN : RunGroup(passed)
      BY <2>2
    <3>2. boot = "probing" /\ UNCHANGED <<boot, restricted>>
      BY <3>1 DEF RunGroup, RunProbeGroup
    <3>3. UNCHANGED controls /\ UNCHANGED roleVars
      BY <3>1, <3>2 DEF RunGroup, RolesStay
    <3>4. RoleInv'
      BY <3>2, <3>3 DEF ConfinedInv, RoleInv, roleVars
    <3>5. ASSUME NEW group \in 1..ProbeGroups, group < probeAt', group \notin failed'
          PROVE  Established(group)
      <4>1. group \notin failed /\ probeAt' = probeAt + 1
        BY <3>1, <3>5 DEF RunGroup, RunProbeGroup
      <4>2. CASE group < probeAt
        BY <3>2, <3>5, <4>1, <4>2 DEF ConfinedInv, CheckInv, Stages
      <4>3. CASE group = probeAt
        <5>1. passed
          BY <3>1, <3>5, <4>3 DEF RunGroup, RunProbeGroup
        <5> QED
          BY <3>1, <4>3, <5>1, PassedGroups DEF RunGroup
      <4> QED
        BY <3>5, <4>1, <4>2, <4>3, ProbeGroupsAssumption, SMT DEF TypeOK
    <3>6. \A group : Established(group) => Established(group)'
      BY <3>3 DEF Established
    <3> QED
      BY <3>2, <3>4, <3>5, <3>6 DEF ConfinedInv, CheckInv, Stages
  <2>3. CASE FinishProbing
    BY <2>3 DEF FinishProbing, ProbesSucceed, Becomes, ConfinedInv, RoleInv, CheckInv,
      Stages, Established
  <2>4. CASE RunWorkload
    BY <2>4 DEF RunWorkload, ExecuteWorkload, Becomes, ConfinedInv, RoleInv, CheckInv,
      Stages, Established
  <2>5. CASE (ProbesFail \/ ExecutionFails) /\ RolesStay
    BY <2>5, <1>a DEF ProbesFail, ExecutionFails
  <2> QED
    BY <1>2, <2>1, <2>2, <2>3, <2>4, <2>5 DEF ConfinedRunner
<1>3. CASE ConfinedHost
  <2>1. CASE StopContainer
    BY <1>3, <2>1, OtherSteps DEF ConfinedHost, StopContainer
  <2>2. CASE ~StopContainer
    BY <1>3, <2>2, OtherSteps DEF ConfinedHost, Host, StartReceiver, ContainerWasGone,
      ProvisioningSucceeds, ProvisioningFails, ProvisioningTimesOut, WorkloadIsOver, bootVars
  <2> QED
    BY <2>1, <2>2
<1>4. CASE ConfinedReceiver
  BY <1>4, OtherSteps DEF ConfinedReceiver, Receiver, ReadKey, ReadShortKey, ValidateKey,
    RejectKey, WriteTemporary, LinkKey, PublishingFails, UnlinkTemporary, UnlinkFails,
    ReceiverStep, bootVars
<1>5. CASE WorkloadEnds /\ RolesStay
  BY <1>5, <1>a DEF WorkloadEnds
<1>6. CASE ConfinedDeadline \/ ((HostIsKilled \/ Finished) /\ RolesStay)
  BY <1>6, OtherSteps DEF ConfinedDeadline, DeadlinePasses, HostIsKilled, Finished, vars, bootVars
<1>7. CASE UNCHANGED confinedVars
  BY <1>7 DEF confinedVars, vars, bootVars, roleVars, ConfinedInv, RoleInv, CheckInv, Stages,
    Established
<1> QED
  BY <1>1, <1>2, <1>3, <1>4, <1>5, <1>6, <1>7 DEF ConfinedNext

LEMMA ConfinedInvariant == ConfinedSpec => [](ConfinedInv /\ WorkloadIsGuarded)
<1>1. ConfinedInit => ConfinedInv
  BY DEF ConfinedInit, Init, ConfinedInv, RoleInv, CheckInv, Stages
<1> QED
  BY <1>1, ConfinedStep, ConfinedImplementsBoot, BootTypes, WorkloadGuarded, PTL DEF ConfinedSpec

-----------------------------------------------------------------------------
(* At the workload every group has passed.                                 *)
LEMMA AllGroupsPassed ==
  ASSUME ConfinedInv, WorkloadIsGuarded, boot = "workload"
  PROVE  \A group \in 1..21 : Established(group)
<1>1. ProbeGroups = 21
  BY ProbeGroupsAreChecked DEF ChecksInOrder
<1> QED
  BY <1>1, SMT DEF ConfinedInv, CheckInv, Stages, WorkloadIsGuarded

(* A check that a single control lets pass shows that control in place.    *)
LEMMA SingleControl ==
  ASSUME NEW group, Established(group), NEW c, {c} \in ChecksInOrder[group], c # "landlock"
  PROVE  c \in controls
BY DEF Established

LEMMA ControlsInPlace ==
  ASSUME \A group \in 1..21 : Established(group)
  PROVE  Controls \ Unnoticed \subseteq controls
<1>1. /\ ChecksInOrder[2] = DockerChecks          /\ ChecksInOrder[4] = FilesystemChecks
      /\ ChecksInOrder[5] = IdentityChecks        /\ ChecksInOrder[9] = SystemCommandChecks
      /\ ChecksInOrder[10] = SystemPackageChecks  /\ ChecksInOrder[11] = LandlockChecks
      /\ ChecksInOrder[12] = CapabilityChecks     /\ ChecksInOrder[13] = KernelNetworkChecks
      /\ ChecksInOrder[15] = ResourceChecks       /\ ChecksInOrder[16] = SeccompChecks
      /\ ChecksInOrder[18] = HardwareChecks       /\ ChecksInOrder[19] = PythonChecks
      /\ ChecksInOrder[20] = ProcessChecks        /\ ChecksInOrder[21] = SocketChecks
  BY DEF ChecksInOrder
<1>0. ASSUME NEW group \in 1..21, NEW checks, ChecksInOrder[group] = checks,
            NEW c, {c} \in checks, c # "landlock"
      PROVE  c \in controls
  BY <1>0, SingleControl
<1>2. {"no_host_channels", "cgroup_namespace", "init"}
        \subseteq controls
  <2>1. \A c \in {"no_host_channels", "cgroup_namespace", "init"} :
          {c} \in DockerChecks /\ c # "landlock"
    BY DEF DockerChecks
  <2>2. 2 \in 1..21 /\ ChecksInOrder[2] = DockerChecks
    BY <1>1
  <2> QED
    BY <2>1, <2>2, <1>0
<1>3. {"staged_source", "masked_paths", "read_only", "output_rw", "work_tmpfs",
       "tmp_tmpfs"}
        \subseteq controls
  <2>1. \A c \in {"staged_source", "masked_paths", "read_only", "output_rw",
                    "work_tmpfs", "tmp_tmpfs"} :
          {c} \in FilesystemChecks /\ c # "landlock"
    BY DEF FilesystemChecks, SourceChecks, SystemChecks, MountChecks
  <2>2. 4 \in 1..21 /\ ChecksInOrder[4] = FilesystemChecks
    BY <1>1
  <2> QED
    BY <2>1, <2>2, <1>0
<1>4. {"user", "nologin"}
        \subseteq controls
  <2>1. \A c \in {"user", "nologin"} :
          {c} \in IdentityChecks /\ c # "landlock"
    BY DEF IdentityChecks
  <2>2. 5 \in 1..21 /\ ChecksInOrder[5] = IdentityChecks
    BY <1>1
  <2> QED
    BY <2>1, <2>2, <1>0
<1>5. {"no_commands"}
        \subseteq controls
  <2>1. \A c \in {"no_commands"} :
          {c} \in SystemCommandChecks /\ c # "landlock"
    BY DEF SystemCommandChecks
  <2>2. 9 \in 1..21 /\ ChecksInOrder[9] = SystemCommandChecks
    BY <1>1
  <2> QED
    BY <2>1, <2>2, <1>0
<1>6. {"no_packages"}
        \subseteq controls
  <2>1. \A c \in {"no_packages"} :
          {c} \in SystemPackageChecks /\ c # "landlock"
    BY DEF SystemPackageChecks
  <2>2. 10 \in 1..21 /\ ChecksInOrder[10] = SystemPackageChecks
    BY <1>1
  <2> QED
    BY <2>1, <2>2, <1>0
<1>7. {"canary"}
        \subseteq controls
  <2>1. \A c \in {"canary"} :
          {c} \in LandlockChecks /\ c # "landlock"
    BY DEF LandlockChecks
  <2>2. 11 \in 1..21 /\ ChecksInOrder[11] = LandlockChecks
    BY <1>1
  <2> QED
    BY <2>1, <2>2, <1>0
<1>8. {"cap_drop"}
        \subseteq controls
  <2>1. \A c \in {"cap_drop"} :
          {c} \in CapabilityChecks /\ c # "landlock"
    BY DEF CapabilityChecks
  <2>2. 12 \in 1..21 /\ ChecksInOrder[12] = CapabilityChecks
    BY <1>1
  <2> QED
    BY <2>1, <2>2, <1>0
<1>9. {"port_start"}
        \subseteq controls
  <2>1. \A c \in {"port_start"} :
          {c} \in KernelNetworkChecks /\ c # "landlock"
    BY DEF KernelNetworkChecks
  <2>2. 13 \in 1..21 /\ ChecksInOrder[13] = KernelNetworkChecks
    BY <1>1
  <2> QED
    BY <2>1, <2>2, <1>0
<1>10. {"pids", "memory", "memory_swap", "cpus", "open_files", "user_processes",
       "file_size"}
        \subseteq controls
  <2>1. \A c \in {"pids", "memory", "memory_swap", "cpus", "open_files",
                    "user_processes", "file_size"} :
          {c} \in ResourceChecks /\ c # "landlock"
    BY DEF ResourceChecks
  <2>2. 15 \in 1..21 /\ ChecksInOrder[15] = ResourceChecks
    BY <1>1
  <2> QED
    BY <2>1, <2>2, <1>0
<1>11. {"seccomp"}
        \subseteq controls
  <2>1. \A c \in {"seccomp"} :
          {c} \in SeccompChecks /\ c # "landlock"
    BY DEF SeccompChecks
  <2>2. 16 \in 1..21 /\ ChecksInOrder[16] = SeccompChecks
    BY <1>1
  <2> QED
    BY <2>1, <2>2, <1>0
<1>12. {"hardware_guard"}
        \subseteq controls
  <2>1. \A c \in {"hardware_guard"} :
          {c} \in HardwareChecks /\ c # "landlock"
    BY DEF HardwareChecks
  <2>2. 18 \in 1..21 /\ ChecksInOrder[18] = HardwareChecks
    BY <1>1
  <2> QED
    BY <2>1, <2>2, <1>0
<1>13. {"virtual_environment", "sitecustomize", "denied_imports",
       "writable_imports", "file_location_imports", "writable_scripts",
       "input_guard", "no_packaging"}
        \subseteq controls
  <2>1. \A c \in {"virtual_environment", "sitecustomize", "denied_imports",
                    "writable_imports", "file_location_imports", "writable_scripts",
                    "input_guard", "no_packaging"} :
          {c} \in PythonChecks /\ c # "landlock"
    BY DEF PythonChecks, PythonImportChecks, PythonInputChecks, PythonPackagingChecks
  <2>2. 19 \in 1..21 /\ ChecksInOrder[19] = PythonChecks
    BY <1>1
  <2> QED
    BY <2>1, <2>2, <1>0
<1>14. {"spawn_guard", "replace_guard"}
        \subseteq controls
  <2>1. \A c \in {"spawn_guard", "replace_guard"} :
          {c} \in ProcessChecks /\ c # "landlock"
    BY DEF ProcessChecks
  <2>2. 20 \in 1..21 /\ ChecksInOrder[20] = ProcessChecks
    BY <1>1
  <2> QED
    BY <2>1, <2>2, <1>0
<1>15. {"socket_guard"}
        \subseteq controls
  <2>1. \A c \in {"socket_guard"} :
          {c} \in SocketChecks /\ c # "landlock"
    BY DEF SocketChecks
  <2>2. 21 \in 1..21 /\ ChecksInOrder[21] = SocketChecks
    BY <1>1
  <2> QED
    BY <2>1, <2>2, <1>0
<1> QED
  BY <1>2, <1>3, <1>4, <1>5, <1>6, <1>7, <1>8, <1>9, <1>10, <1>11, <1>12,
    <1>13, <1>14, <1>15 DEF Controls, HardeningArguments, Mounts, StagedSource,
    ImageContents, StartupGuards, ImportGuards,
    ProcessGuards, SocketGuards, InputGuards, DockerDefaults, Unnoticed

(* Whatever controls a container lacks, its workload runs only if those    *)
(* are ones no check can tell, and always under Landlock.                  *)
THEOREM RunsConfined == ConfinedSpec => []WorkloadRunsConfined
<1>1. ConfinedInv /\ WorkloadIsGuarded => WorkloadRunsConfined
  BY AllGroupsPassed, ControlsInPlace DEF WorkloadRunsConfined, WorkloadIsGuarded
<1> QED
  BY <1>1, ConfinedInvariant, PTL

(* Whatever controls a container lacks, no Python process that is running  *)
(* beside the workload, or the workload itself, can start Python again.    *)
THEOREM CannotStartPython == ConfinedSpec => []WorkloadCannotStartPython
<1>1. ConfinedInv /\ WorkloadIsGuarded => WorkloadCannotStartPython
  <2> SUFFICES ASSUME ConfinedInv, WorkloadIsGuarded, boot = "workload", NEW r \in PythonRoles
               PROVE  /\ ~MayReplaceItself(r)
                      /\ \A permitted \in Permits(r) : ~MaySpawn(r, "python", permitted)
    BY DEF WorkloadCannotStartPython
  <2>1. {"sitecustomize", "spawn_guard", "replace_guard"} \subseteq controls
    BY AllGroupsPassed, ControlsInPlace DEF Controls, StartupGuards, ProcessGuards, Unnoticed
  <2>2. r \in {"workload", "provisioner"}
    BY DEF ConfinedInv, RoleInv, PythonRoles
  <2> QED
    BY <2>1, <2>2 DEF MayReplaceItself, MaySpawn, Permits, Guards
<1> QED
  BY <1>1, ConfinedInvariant, PTL

=============================================================================
