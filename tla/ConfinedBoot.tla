---------------------------- MODULE ConfinedBoot ----------------------------
(***************************************************************************)
(* The start of the workload together with what confines it: the controls  *)
(* that the docker arguments, the image, bootstrap and sitecustomize put   *)
(* in place, the role each Python interpreter of the container takes over  *)
(* from its environment, and the probe groups that look at the container   *)
(* alone.  A container may start without some control, because a daemon    *)
(* ignores an argument or an image is stale, and the probes decide whether *)
(* the workload meets it.  The groups that look at networks and services   *)
(* are in ProbedSandbox; here they pass.                                   *)
(***************************************************************************)
EXTENDS WorkloadBoot, Sequences

CONSTANT
  Shortfalls    \* the sets of controls that a container may start without

VARIABLES
  controls,     \* the controls in place in the container
  role,         \* _RUNTIME_ROLE of the first process's interpreter
  exported,     \* METISA_RUNTIME_ROLE as a child or the next program inherits it
  prober        \* _RUNTIME_ROLE of the probes process

roleVars     == <<role, exported, prober>>
confinedVars == <<vars, controls, roleVars>>

-----------------------------------------------------------------------------
(* The controls, by what puts them in place                                *)

HardeningArguments ==
  { "read_only", "cgroup_namespace", "user", "no_new_privileges", "cap_drop",
    "cpus", "memory", "memory_swap", "open_files", "init", "pids",
    "user_processes", "file_size", "port_start", "seccomp" }

Mounts == {"source_ro", "output_rw", "work_tmpfs", "tmp_tmpfs", "secrets_tmpfs"}

(* Of the modules that are staged, none brings development files along.    *)
StagedSource == {"staged_source"}

ImageContents ==
  {"virtual_environment", "no_packages", "no_commands", "no_packaging", "nologin", "canary"}

ImportGuards ==
  {"denied_imports", "writable_imports", "file_location_imports", "writable_scripts"}
ProcessGuards == {"hardware_guard", "spawn_guard", "replace_guard"}
SocketGuards  == {"socket_guard"}
InputGuards   == {"input_guard"}

StartupGuards == ImportGuards \cup ProcessGuards \cup SocketGuards \cup InputGuards

(* What docker does unasked: it conceals parts of /proc and /sys, and hands *)
(* no socket, agent or desktop of the host into a container.               *)
DockerDefaults == {"masked_paths", "no_host_channels"}

Controls ==
  HardeningArguments \cup Mounts \cup StagedSource \cup ImageContents
    \cup {"sitecustomize"} \cup StartupGuards \cup DockerDefaults

ASSUME ShortfallsAssumption == Shortfalls \subseteq SUBSET Controls

-----------------------------------------------------------------------------
(* sitecustomize: what an interpreter of a given role may do               *)

ValidRuntimeRoles == {"landlock", "runner", "probes", "workload", "provisioner"}

Guards(guard) == {"sitecustomize", guard} \subseteq controls

(* permit_probe_process_spawn opens its scope for the probes only.         *)
Permits(r) == IF r = "probes" THEN BOOLEAN ELSE {FALSE}

(* _is_allowed_process_spawn.                                              *)
MaySpawn(r, command, permitted) ==
  \/ ~Guards("spawn_guard")
  \/ r = "runner" /\ command = "probes"
  \/ r = "probes" /\ permitted
  \/ r = "workload" /\ command = "browser"

(* os.execv; the rest of the exec family and fork are denied to every role. *)
MayReplaceItself(r) == ~Guards("replace_guard") \/ r \in {"landlock", "runner"}

-----------------------------------------------------------------------------
(* The probes.  A check is the set of controls each of which, on its own,  *)
(* lets it pass.                                                           *)

BrowserChecks     == {{"no_host_channels"}}
DockerChecks      == {{"no_host_channels"}, {"cgroup_namespace"}, {"init"}}
EnvironmentChecks == {{"no_host_channels"}}

(* Landlock's rules let the source be read only: a write is denied with or *)
(* without the mount's ro.                                                 *)
SourceChecks == {{"source_ro", "landlock"}, {"staged_source"}}
HomeChecks   == {{"read_only", "landlock"}}
SystemChecks == {{"masked_paths"}, {"read_only", "landlock", "user"}}
MountChecks  == {{"read_only"}, {"output_rw"}, {"work_tmpfs"}, {"tmp_tmpfs"}}

FilesystemChecks == SourceChecks \cup HomeChecks \cup SystemChecks \cup MountChecks

IdentityChecks      == {{"user"}, {"nologin"}}
SystemCommandChecks == {{"no_commands"}}
SystemPackageChecks == {{"no_packages"}}
LandlockChecks      == {{"landlock"}, {"canary"}}
CapabilityChecks    == {{"cap_drop"}}
KernelNetworkChecks == {{"port_start"}}

(* Landlock's restriction sets NoNewPrivs as well.                         *)
PrivilegeChecks == {{"no_new_privileges", "landlock"}}

(* Mutation: the swap limit is not read.                                   *)
ResourceChecksWithoutSwap ==
  {{"pids"}, {"memory"}, {"cpus"}, {"open_files"}, {"user_processes"}, {"file_size"}}

ResourceChecks ==
  { {"pids"}, {"memory"}, {"memory_swap"}, {"cpus"}, {"open_files"},
    {"user_processes"}, {"file_size"} }

SeccompChecks  == {{"seccomp"}}
HardwareChecks == {{"hardware_guard"}, {"hardware_guard", "landlock"}, {"spawn_guard"}}

PythonImportChecks ==
  {{"denied_imports"}, {"writable_imports"}, {"file_location_imports"}, {"writable_scripts"}}
PythonInputChecks     == {{"input_guard"}}
PythonPackagingChecks == {{"no_packaging"}}
PythonChecks ==
  {{"virtual_environment"}, {"sitecustomize"}}
    \cup PythonImportChecks \cup PythonInputChecks \cup PythonPackagingChecks

ProcessChecks == {{"spawn_guard"}, {"replace_guard"}}
SocketChecks  == {{"socket_guard"}}

(* The order of the runner; network, MCP, LLM and diagnostic have no check *)
(* of a control.                                                           *)
ChecksInOrder ==
  << BrowserChecks, DockerChecks, EnvironmentChecks, FilesystemChecks, IdentityChecks,
     {}, {}, {}, SystemCommandChecks, SystemPackageChecks, LandlockChecks,
     CapabilityChecks, KernelNetworkChecks, PrivilegeChecks, ResourceChecks,
     SeccompChecks, {}, HardwareChecks, PythonChecks, ProcessChecks, SocketChecks >>

ASSUME ProbeGroupsAreChecked == ProbeGroups = Len(ChecksInOrder)

(* What a check finds.  It runs in the probes process; replacing a process *)
(* and running a script are tried by a child of the workload's role, which *)
(* the probes may start while their scope is open.                         *)
InForce(c) ==
  CASE c = "landlock"         -> restricted
    [] c = "spawn_guard"      -> ~MaySpawn(prober, "python", FALSE)
    [] c = "replace_guard"    -> MaySpawn(prober, "python", TRUE) /\ ~MayReplaceItself("workload")
    [] c = "writable_scripts" -> MaySpawn(prober, "python", TRUE) /\ Guards(c)
    [] c \in StartupGuards \ {"spawn_guard", "replace_guard", "writable_scripts"} -> Guards(c)
    [] OTHER                  -> c \in controls

GroupPasses(group) ==
  \A check \in ChecksInOrder[group] : \E c \in check : InForce(c)

-----------------------------------------------------------------------------
(* The environment of the container gives its first interpreter its role.  *)
ConfinedInit ==
  /\ Init
  /\ \E missing \in Shortfalls : controls = Controls \ missing
  /\ role = "landlock" /\ exported = "none" /\ prober = "none"

RolesStay ==
  /\ UNCHANGED controls
  /\ IF boot' = "exited"
     THEN role' = "none" /\ exported' = "none" /\ prober' = "none"
     ELSE UNCHANGED roleVars

(* Every interpreter removes the variable from its environment; bootstrap  *)
(* sets it for the runner, and the runner for the probes.                  *)
StartProbing ==
  /\ StartProbes
  /\ MayReplaceItself(role)
  /\ MaySpawn("runner", "probes", FALSE)
  /\ role' = "runner" /\ exported' = "probes" /\ prober' = "probes"
  /\ UNCHANGED controls

(* A probe may fail without reason.  Bound: once, in a container that      *)
(* lacks nothing.                                                          *)
RunGroup(passed) ==
  /\ RunProbeGroup(passed)
  /\ IF passed
     THEN GroupPasses(probeAt)
     ELSE ~GroupPasses(probeAt) \/ (controls = Controls /\ failed = {})
  /\ RolesStay

(* Mutation: the role of the probes is handed on to the workload.          *)
FinishProbingAsBefore ==
  /\ ProbesSucceed
  /\ prober' = "none"
  /\ UNCHANGED <<controls, role, exported>>

FinishProbing ==
  /\ ProbesSucceed
  /\ exported' = "workload" /\ prober' = "none"
  /\ UNCHANGED <<controls, role>>

(* An interpreter without a valid role ends at once.                       *)
RunWorkload ==
  /\ ExecuteWorkload
  /\ MayReplaceItself(role)
  /\ exported \in ValidRuntimeRoles
  /\ role' = exported /\ exported' = "none"
  /\ UNCHANGED <<controls, prober>>

ConfinedBootstrap == Bootstrap /\ RolesStay

ConfinedRunner ==
  \/ StartProbing \/ (\E passed \in BOOLEAN : RunGroup(passed)) \/ FinishProbing
  \/ RunWorkload \/ ((ProbesFail \/ ExecutionFails) /\ RolesStay)

ConfinedReceiver == Receiver /\ RolesStay
ConfinedHost     == Host /\ RolesStay
ConfinedDeadline == DeadlinePasses /\ RolesStay

ConfinedNext ==
  \/ ConfinedBootstrap \/ ConfinedDeadline \/ ConfinedRunner
  \/ ConfinedReceiver \/ ConfinedHost
  \/ ((WorkloadEnds \/ HostIsKilled \/ Finished) /\ RolesStay)

ConfinedFairness ==
  /\ WF_confinedVars(ConfinedBootstrap) /\ WF_confinedVars(ConfinedDeadline)
  /\ WF_confinedVars(ConfinedRunner) /\ WF_confinedVars(ConfinedReceiver)
  /\ WF_confinedVars(ConfinedHost)

ConfinedSpec == ConfinedInit /\ [][ConfinedNext]_confinedVars
ConfinedFairSpec == ConfinedSpec /\ ConfinedFairness

-----------------------------------------------------------------------------
(* Properties.                                                             *)

(* No check can tell: Landlock makes up for the first two, and nobody      *)
(* looks at the mount of the secrets.                                      *)
Unnoticed == {"source_ro", "no_new_privileges", "secrets_tmpfs"}

(* A container that lacks a control does not get to its workload: what a   *)
(* probe finds, in its own process and role, is there for the workload.    *)
(* The exceptions are those no check can tell, and of these two are only   *)
(* doubled by Landlock, which does bind the workload.                      *)
WorkloadRunsConfined ==
  boot = "workload" => Controls \ controls \subseteq Unnoticed /\ restricted

(* The roles of the interpreters that are running.                         *)
PythonRoles ==
  ({role, prober} \cup (IF ReceiverRuns THEN {"provisioner"} ELSE {})) \ {"none"}

(* Once the workload runs, no Python process of the container can start    *)
(* another one or become one: the runner's and the probes' privileges have *)
(* ended with their roles.                                                 *)
WorkloadCannotStartPython ==
  boot = "workload" => \A r \in PythonRoles :
    /\ ~MayReplaceItself(r)
    /\ \A permitted \in Permits(r) : ~MaySpawn(r, "python", permitted)

=============================================================================
