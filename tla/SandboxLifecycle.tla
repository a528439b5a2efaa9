-------------------------- MODULE SandboxLifecycle --------------------------
(***************************************************************************)
(* One run of run_metisa_container_workload_in_sandbox: the try body makes *)
(* the calls of a plan one after the other, the finally block removes what *)
(* the run built.  Beside the host process move the Docker daemon and the  *)
(* containers: a container may exit on its own, and the workload is        *)
(* started by a `docker start --attach` child that runs concurrently with  *)
(* the host.                                                               *)
(*                                                                         *)
(* Every docker or file-system call may fail without an effect, and every  *)
(* call may raise after its effect: the docker client is told nothing of   *)
(* a result the daemon reached, the 10 s limit of the provisioning call    *)
(* expires, or the user interrupts the host between the call and the       *)
(* bookkeeping that follows it.                                            *)
(***************************************************************************)
EXTENDS Naturals, Sequences, FiniteSets

CONSTANTS
  Container,       \* containers a run may create
  Network,         \* networks a run may create
  NoNetwork,       \* `docker create --network none`
  Workload,        \* the container that runs the user's package
  LlmServer,       \* containers of [llm_server].models
  CleanUpOrder,    \* all_containers, the LLM servers at its end
  NetworkOrder,    \* all_networks
  Plans,           \* the possible try bodies, sequences of Step
  Crashable,       \* containers that may exit on their own
  FixedName,       \* containers that are named alike in every run
  MaxFaults,       \* bound on failed calls and interrupts in one run
  Interruptible    \* calls may raise after their effect, the user may interrupt

(* "refuse" is the check for a missing table with which a create function  *)
(* begins; no action performs it.                                          *)
Operation ==
  { "network", "refuse", "stage", "seal", "create", "connect", "record",
    "extend", "start", "health", "verify", "provision", "attach", "await" }

Step ==
  [op : Operation, on : Container, net : Network \cup {NoNetwork}]

(* What every plan has in common: the workload is started by an attached   *)
(* client and by nothing else, after the last call that concerns a         *)
(* sidecar; every sidecar created is checked for health, and every sidecar *)
(* whose secrets were sealed is given its key; set_created comes after the *)
(* docker create of the same container.                                    *)
AttachComesLast(p) ==
  \A i, j \in DOMAIN p :
    /\ p[i].op = "start" => p[i].on # Workload
    /\ p[i].op = "attach" /\ p[j].op \in {"health", "provision"} /\ p[j].on # Workload
         => j < i

EverySidecarIsChecked(p) ==
  \A i \in DOMAIN p :
    p[i].on # Workload =>
      /\ p[i].op = "create" =>
           \E j \in DOMAIN p : p[j].op = "health" /\ p[j].on = p[i].on
      /\ p[i].op = "seal" =>
           \E j \in DOMAIN p : p[j].op = "provision" /\ p[j].on = p[i].on

RecordsFollowCreation(p) ==
  \A i \in DOMAIN p :
    p[i].op = "record" => \E j \in DOMAIN p : j < i /\ p[j].op = "create" /\ p[j].on = p[i].on

(* What a container needs is staged, made and recorded without a call in   *)
(* between; it joins no network that the plan has not made.                *)
Creation == {"stage", "seal", "create", "connect", "record"}

CreationsAreRecorded(p) ==
  \A i \in DOMAIN p :
    p[i].op \in {"stage", "seal", "create"} =>
      \E j \in DOMAIN p :
        /\ i < j /\ p[j].op = "record"
        /\ \A k \in i..j : p[k].op \in Creation /\ p[k].on = p[i].on

ConnectionsArePrepared(p) ==
  \A i \in DOMAIN p :
    p[i].op = "connect" =>
      /\ \E j \in DOMAIN p : j < i /\ p[j].op = "create" /\ p[j].on = p[i].on
      /\ \E j \in DOMAIN p : j < i /\ p[j].op = "network" /\ p[j].net = p[i].net

(* The LLM servers have no source and no secrets of their own; once they   *)
(* are all created and recorded, the clean-up's list is extended by them.  *)
LlmServersAreListed(p) ==
  \A i \in DOMAIN p :
    p[i].on \in LlmServer =>
      /\ p[i].op \notin {"stage", "seal"}
      /\ p[i].op = "create" =>
           \E j \in DOMAIN p :
             /\ i < j /\ p[j].op = "extend"
             /\ \A k \in i..j : p[k].op \in Creation \cup {"extend"}

ASSUME ContainersAssumption ==
  /\ Workload \in Container \ LlmServer
  /\ LlmServer \subseteq Container
  /\ Crashable \subseteq Container /\ FixedName \subseteq Container
  /\ NoNetwork \notin Network
  /\ MaxFaults \in Nat /\ Interruptible \in BOOLEAN

ASSUME OrdersAssumption ==
  /\ CleanUpOrder \in Seq(Container)
  /\ NetworkOrder \in Seq(Network)
  /\ \A c \in Container : \E i \in DOMAIN CleanUpOrder : CleanUpOrder[i] = c
  /\ \A n \in Network : \E i \in DOMAIN NetworkOrder : NetworkOrder[i] = n
  /\ CleanUpOrder # <<>> /\ NetworkOrder # <<>>
  /\ \A i, j \in DOMAIN CleanUpOrder : CleanUpOrder[i] = CleanUpOrder[j] => i = j

ASSUME PlansAssumption ==
  \A p \in Plans :
    /\ p \in Seq(Step) /\ p # <<>>
    /\ AttachComesLast(p)
    /\ EverySidecarIsChecked(p)
    /\ RecordsFollowCreation(p)
    /\ CreationsAreRecorded(p)
    /\ ConnectionsArePrepared(p)
    /\ LlmServersAreListed(p)

VARIABLES
  plan,         \* the calls of this run's try body
  at,           \* index of the call being made
  pc,           \* where the host process is
  cursor,       \* index into all_containers or all_networks while cleaning up
  stopped,      \* container_stopped of the container being removed
  outcome,      \* how the function will end
  faults,       \* failed calls and interrupts so far
  listed,       \* members of all_containers
  created,      \* containers with is_created
  started,      \* containers with is_started
  netCreated,   \* networks with is_created
  errors,       \* containers and networks named by a removal error
  printed,      \* the errors that reached the terminal
  docker,       \* state of each container at the daemon
  attached,     \* networks each container is a member of
  networks,     \* networks that exist at the daemon
  attachCli,    \* the `docker start --attach` child
  published,    \* containers whose key file exists
  foreign,      \* names that a container of another run bears
  staged,       \* containers with a staged source directory on the host
  secrets,      \* containers with an encrypted secrets file on the host
  scratch       \* the run's scratch directory exists

control     == <<plan, at, pc, outcome, faults>>
cleaning    == <<cursor, stopped, errors, printed>>
bookkeeping == <<listed, created, started, netCreated>>
daemon      == <<docker, attached, networks, attachCli, published, foreign>>
files       == <<staged, secrets, scratch>>
vars        == <<control, cleaning, bookkeeping, daemon, files>>

TypeOK ==
  /\ plan \in Plans
  /\ at \in 1..Len(plan) + 1
  /\ pc \in { "setup", "wait", "copy", "state", "stop", "remove", "networks",
              "report", "run_directory", "secrets", "staged", "done" }
  /\ pc = "setup" => at \in DOMAIN plan
  /\ cursor \in Nat
  /\ pc \in {"setup", "wait"} => cursor = 1
  /\ pc \in {"copy", "state", "stop", "remove"} => cursor \in DOMAIN CleanUpOrder
  /\ pc = "networks" => cursor \in DOMAIN NetworkOrder
  /\ stopped \in BOOLEAN
  /\ outcome \in {"running", "returned", "raised", "cleanup_raised"}
  /\ faults \in Nat
  /\ listed \subseteq Container /\ created \subseteq Container
  /\ started \subseteq Container /\ netCreated \subseteq Network
  /\ errors \subseteq Container \cup Network
  /\ printed \subseteq Container \cup Network
  /\ docker \in [Container -> {"absent", "created", "running", "exited"}]
  /\ attached \in [Container -> SUBSET Network]
  /\ networks \subseteq Network
  /\ attachCli \in {"idle", "pending", "streaming", "ended"}
  /\ published \subseteq Container /\ foreign \subseteq FixedName
  /\ staged \subseteq Container /\ secrets \subseteq Container
  /\ scratch \in BOOLEAN

(* create_sandbox_context has made the run directory; no call of the try   *)
(* body has been made.                                                     *)
NothingCalled ==
  /\ at = 1
  /\ pc = "setup"
  /\ cursor = 1
  /\ stopped = FALSE
  /\ outcome = "running"
  /\ faults = 0
  /\ listed = Container \ LlmServer
  /\ created = {} /\ started = {} /\ netCreated = {}
  /\ errors = {} /\ printed = {}
  /\ docker = [c \in Container |-> "absent"]
  /\ attached = [c \in Container |-> {}]
  /\ networks = {}
  /\ attachCli = "idle"
  /\ published = {}
  /\ staged = {} /\ secrets = {}
  /\ scratch = TRUE

(* Another run may be under way, or have left its container behind.        *)
Init == plan \in Plans /\ NothingCalled /\ foreign \in SUBSET FixedName

-----------------------------------------------------------------------------
(* The try body.                                                           *)

Subject == plan[at].on
Net     == plan[at].net

Calling(op) == pc = "setup" /\ plan[at].op = op

(* Docker knows a container by its name.                                   *)
Exists(c) == docker[c] # "absent" \/ c \in foreign

Fault == faults < MaxFaults /\ faults' = faults + 1

Interrupt == Interruptible /\ Fault

Raise == outcome' = "raised" /\ pc' = "copy" /\ UNCHANGED <<plan, at>>

Proceed ==
  /\ at' = at + 1
  /\ pc' = IF at = Len(plan) THEN "wait" ELSE "setup"
  /\ UNCHANGED <<plan, outcome, faults>>

(* The call has had its effect; the next statement is reached, or not.     *)
ProceedOrRaise == Proceed \/ (Interrupt /\ Raise)

CreateNetwork ==
  /\ Calling("network")
  /\ Net \in Network \ networks
  /\ networks' = networks \cup {Net}
  /\ \/ Proceed /\ netCreated' = netCreated \cup {Net}
     \/ Interrupt /\ Raise /\ UNCHANGED netCreated
  /\ UNCHANGED << cleaning, listed, created, started,
                  docker, attached, attachCli, published, foreign, files >>

(* mkdir, then copytree: a copy that fails leaves the directory behind.    *)
StageSource ==
  /\ Calling("stage")
  /\ staged' = staged \cup {Subject}
  /\ Proceed \/ (Fault /\ Raise)
  /\ UNCHANGED <<cleaning, bookkeeping, daemon, secrets, scratch>>

SealSecrets ==
  /\ Calling("seal")
  /\ secrets' = secrets \cup {Subject}
  /\ ProceedOrRaise
  /\ UNCHANGED <<cleaning, bookkeeping, daemon, staged, scratch>>

(* Mutation: the name is in use, which counts as created.                  *)
CreateContainerUnlessItExists ==
  /\ Calling("create")
  /\ docker[Subject] = "absent"
  /\ Net \in networks \cup {NoNetwork}
  /\ IF Subject \in foreign
     THEN UNCHANGED <<docker, attached>>
     ELSE /\ docker' = [docker EXCEPT ![Subject] = "created"]
          /\ attached' = [attached EXCEPT ![Subject] = {Net} \ {NoNetwork}]
  /\ ProceedOrRaise
  /\ UNCHANGED << cleaning, bookkeeping, networks, attachCli, published,
                  foreign, files >>

CreateContainer ==
  /\ Calling("create")
  /\ ~Exists(Subject)
  /\ Net \in networks \cup {NoNetwork}
  /\ docker' = [docker EXCEPT ![Subject] = "created"]
  /\ attached' = [attached EXCEPT ![Subject] = {Net} \ {NoNetwork}]
  /\ ProceedOrRaise
  /\ UNCHANGED << cleaning, bookkeeping, networks, attachCli, published,
                  foreign, files >>

ConnectContainer ==
  /\ Calling("connect")
  /\ docker[Subject] # "absent"
  /\ Net \in networks
  /\ attached' = [attached EXCEPT ![Subject] = @ \cup {Net}]
  /\ ProceedOrRaise
  /\ UNCHANGED << cleaning, bookkeeping, docker, networks, attachCli,
                  published, foreign, files >>

(* SandboxContainer.set_created.                                           *)
SetCreated ==
  /\ Calling("record")
  /\ created' = created \cup {Subject}
  /\ Proceed
  /\ UNCHANGED <<cleaning, listed, started, netCreated, daemon, files>>

(* all_containers.extend(llm_server_containers)                            *)
ExtendContainers ==
  /\ Calling("extend")
  /\ listed' = listed \cup LlmServer
  /\ Proceed
  /\ UNCHANGED <<cleaning, created, started, netCreated, daemon, files>>

StartContainer ==
  /\ Calling("start")
  /\ docker[Subject] = "created"
  /\ attached[Subject] \subseteq networks
  /\ docker' = [docker EXCEPT ![Subject] = "running"]
  /\ ProceedOrRaise
  /\ UNCHANGED << cleaning, bookkeeping, attached, networks, attachCli,
                  published, foreign, files >>

(* Mutation: the health poll gives up without an error.                    *)
CheckHealthGivesUp ==
  /\ Calling("health")
  /\ started' = IF docker[Subject] = "running" THEN started \cup {Subject} ELSE started
  /\ Proceed
  /\ UNCHANGED <<cleaning, listed, created, netCreated, daemon, files>>

(* inspect_docker_container saw "healthy"; set_started.                    *)
CheckHealth ==
  /\ Calling("health")
  /\ docker[Subject] = "running"
  /\ started' = started \cup {Subject}
  /\ Proceed
  /\ UNCHANGED <<cleaning, listed, created, netCreated, daemon, files>>

(* The calls that only look into a running container: its address, the     *)
(* HAProxy configuration, the Postgres schema.                             *)
Verify ==
  /\ Calling("verify")
  /\ docker[Subject] = "running"
  /\ Proceed
  /\ UNCHANGED <<cleaning, bookkeeping, daemon, files>>

(* `docker exec` of secrets_receiver, which links the key file into place  *)
(* and never replaces one.                                                 *)
ProvisionSecrets ==
  /\ Calling("provision")
  /\ docker[Subject] = "running"
  /\ Subject \notin published
  /\ published' = published \cup {Subject}
  /\ ProceedOrRaise
  /\ UNCHANGED << cleaning, bookkeeping, docker, attached, networks,
                  attachCli, foreign, files >>

(* Popen returns before the daemon has started the container.              *)
StartAttached ==
  /\ Calling("attach")
  /\ attachCli' = "pending"
  /\ ProceedOrRaise
  /\ UNCHANGED << cleaning, bookkeeping, docker, attached, networks,
                  published, foreign, files >>

AwaitRunning ==
  /\ Calling("await")
  /\ docker[Subject] = "running"
  /\ started' = started \cup {Subject}
  /\ Proceed
  /\ UNCHANGED <<cleaning, listed, created, netCreated, daemon, files>>

(* The state in which a call can succeed.                                  *)
CanSucceed ==
  LET op == plan[at].op IN
  /\ op # "refuse"
  /\ op = "network" => Net \in Network \ networks
  /\ op = "create" => ~Exists(Subject) /\ Net \in networks \cup {NoNetwork}
  /\ op = "connect" => docker[Subject] # "absent" /\ Net \in networks
  /\ op = "start" => docker[Subject] = "created" /\ attached[Subject] \subseteq networks
  /\ op \in {"health", "verify", "await"} => docker[Subject] = "running"
  /\ op = "provision" => docker[Subject] = "running" /\ Subject \notin published

(* Mutation: the health poll has no deadline.                              *)
HealthIsPolledForEver ==
  /\ pc = "setup"
  /\ IF plan[at].op = "health"
     THEN UNCHANGED vars
     ELSE /\ IF CanSucceed THEN Fault ELSE UNCHANGED faults
          /\ Raise
          /\ UNCHANGED <<cleaning, bookkeeping, daemon, files>>

(* A call raises without an effect, because it had to, because a timeout   *)
(* expired, or because it failed for a reason of its own.                  *)
SetUpRaises ==
  /\ pc = "setup"
  /\ IF CanSucceed THEN Fault ELSE UNCHANGED faults
  /\ Raise
  /\ UNCHANGED <<cleaning, bookkeeping, daemon, files>>

(* Mutation: the host waits for the container to be gone.                  *)
WaitForRemoval ==
  /\ pc = "wait"
  /\ IF docker[Workload] = "absent"
     THEN /\ outcome' = "returned"
          /\ pc' = "copy"
          /\ UNCHANGED <<plan, at, faults, cleaning, bookkeeping, daemon, files>>
     ELSE UNCHANGED vars

(* process.wait                                                            *)
ProcessReturns ==
  /\ pc = "wait"
  /\ attachCli = "ended"
  /\ outcome' = "returned"
  /\ pc' = "copy"
  /\ UNCHANGED <<plan, at, faults, cleaning, bookkeeping, daemon, files>>

WaitInterrupted ==
  /\ pc = "wait"
  /\ Interrupt
  /\ Raise
  /\ UNCHANGED <<cleaning, bookkeeping, daemon, files>>

-----------------------------------------------------------------------------
(* Docker and the containers.                                              *)

AttachedStart ==
  /\ attachCli = "pending"
  /\ docker[Workload] = "created"
  /\ attached[Workload] \subseteq networks
  /\ docker' = [docker EXCEPT ![Workload] = "running"]
  /\ attachCli' = "streaming"
  /\ UNCHANGED << control, cleaning, bookkeeping, attached, networks,
                  published, foreign, files >>

AttachedStartFails ==
  /\ attachCli = "pending"
  /\ IF docker[Workload] = "created" /\ attached[Workload] \subseteq networks
     THEN Fault ELSE UNCHANGED faults
  /\ attachCli' = "ended"
  /\ UNCHANGED << plan, at, pc, outcome, cleaning, bookkeeping, docker,
                  attached, networks, published, foreign, files >>

(* The client ends with its container; it may also lose the daemon.        *)
AttachedEnds ==
  /\ attachCli = "streaming"
  /\ IF docker[Workload] = "running" THEN Fault ELSE UNCHANGED faults
  /\ attachCli' = "ended"
  /\ UNCHANGED << plan, at, pc, outcome, cleaning, bookkeeping, docker,
                  attached, networks, published, foreign, files >>

ContainerExits ==
  \E c \in Crashable :
    /\ docker[c] = "running"
    /\ docker' = [docker EXCEPT ![c] = "exited"]
    /\ UNCHANGED << control, cleaning, bookkeeping, attached, networks,
                    attachCli, published, foreign, files >>

(* Another run creates its container of that name, or removes it.          *)
OtherRun ==
  \E c \in FixedName :
    /\ docker[c] = "absent"
    /\ foreign' = IF c \in foreign THEN foreign \ {c} ELSE foreign \cup {c}
    /\ UNCHANGED << control, cleaning, bookkeeping, docker, attached, networks,
                    attachCli, published, files >>

-----------------------------------------------------------------------------
(* The finally block: containers.                                          *)

Target  == CleanUpOrder[cursor]
Tracked == listed \cap created

NextContainer ==
  /\ stopped' = FALSE
  /\ IF outcome = "cleanup_raised"
     THEN pc' = "run_directory" /\ UNCHANGED cursor
     ELSE IF cursor < Len(CleanUpOrder)
          THEN pc' = "copy" /\ cursor' = cursor + 1
          ELSE pc' = "networks" /\ cursor' = 1

(* An exception leaves the inner try: its finally runs next.               *)
LeaveCleanUp ==
  /\ outcome' = "cleanup_raised"
  /\ pc' = "run_directory"
  /\ UNCHANGED <<plan, at, cleaning, bookkeeping, daemon, files>>

(* Mutation: a container that has exited counts as removed.                *)
SkipExitedContainer ==
  /\ pc = "copy"
  /\ Target \notin Tracked \/ docker[Target] = "exited"
  /\ NextContainer
  /\ UNCHANGED << plan, at, outcome, faults, errors, printed, bookkeeping,
                  daemon, files >>

SkipContainer ==
  /\ pc = "copy"
  /\ Target \notin Tracked
  /\ NextContainer
  /\ UNCHANGED << plan, at, outcome, faults, errors, printed, bookkeeping,
                  daemon, files >>

(* Mutation: the staged source goes as soon as the logs are copied.        *)
CopyLogFilesAndUnstage ==
  /\ pc = "copy"
  /\ Target \in Tracked
  /\ pc' = "state"
  /\ staged' = staged \ {Target}
  /\ UNCHANGED << plan, at, outcome, faults, cleaning, bookkeeping, daemon,
                  secrets, scratch >>

(* _save_files_from_container.  An exception is noted and dropped; an      *)
(* interrupt still lets the finally clause finish this container.          *)
CopyLogFiles ==
  /\ pc = "copy"
  /\ Target \in Tracked
  /\ pc' = "state"
  /\ \/ UNCHANGED <<outcome, faults>>
     \/ Interrupt /\ outcome' = "cleanup_raised"
  /\ UNCHANGED <<plan, at, cleaning, bookkeeping, daemon, files>>

SaveState ==
  /\ pc = "state"
  /\ Exists(Target)
  /\ pc' = "stop"
  /\ UNCHANGED <<plan, at, outcome, faults, cleaning, bookkeeping, daemon, files>>

(* _save_container_state is called outside any try.                        *)
SaveStateRaises ==
  /\ pc = "state"
  /\ IF Exists(Target) THEN Fault ELSE UNCHANGED faults
  /\ LeaveCleanUp

StopContainer ==
  /\ pc = "stop"
  /\ Target \in started
  /\ Exists(Target)
  /\ docker' = [docker EXCEPT ![Target] = IF @ = "running" THEN "exited" ELSE @]
  /\ stopped' = TRUE
  /\ pc' = "remove"
  /\ UNCHANGED << plan, at, outcome, faults, cursor, errors, printed,
                  bookkeeping, attached, networks, attachCli, published, foreign, files >>

(* The container was never found running, or the stop failed: the removal  *)
(* is forced.                                                              *)
NotStopped ==
  /\ pc = "stop"
  /\ IF Target \in started THEN Fault ELSE UNCHANGED faults
  /\ pc' = "remove"
  /\ UNCHANGED <<plan, at, outcome, cleaning, bookkeeping, daemon, files>>

(* Mutation: docker rm is never forced.                                    *)
RemovableUnlessRunning == docker[Target] # "running"

Removable == docker[Target] = "running" => ~stopped

RemoveContainer ==
  /\ pc = "remove"
  /\ Exists(Target)
  /\ Removable
  /\ docker' = [docker EXCEPT ![Target] = "absent"]
  /\ attached' = [attached EXCEPT ![Target] = {}]
  /\ foreign' = foreign \ {Target}
  /\ NextContainer
  /\ UNCHANGED << plan, at, outcome, faults, errors, printed, bookkeeping,
                  networks, attachCli, published, files >>

(* Mutation: the error of a removal is dropped.                            *)
RemovalErrorIsDropped ==
  /\ pc = "remove"
  /\ IF Exists(Target) /\ Removable THEN Fault ELSE UNCHANGED faults
  /\ NextContainer
  /\ UNCHANGED <<plan, at, outcome, errors, printed, bookkeeping, daemon, files>>

RemoveContainerFails ==
  /\ pc = "remove"
  /\ IF Exists(Target) /\ Removable THEN Fault ELSE UNCHANGED faults
  /\ errors' = errors \cup {Target}
  /\ NextContainer
  /\ UNCHANGED <<plan, at, outcome, printed, bookkeeping, daemon, files>>

(* A KeyboardInterrupt is no Exception: nothing in the helpers catches it. *)
CleanUpInterrupted ==
  /\ pc \in {"stop", "remove", "networks", "report"}
  /\ Interrupt
  /\ LeaveCleanUp

-----------------------------------------------------------------------------
(* The finally block: networks and files.                                  *)

TargetNet == NetworkOrder[cursor]

NextNetwork ==
  IF cursor < Len(NetworkOrder)
  THEN pc' = "networks" /\ cursor' = cursor + 1
  ELSE pc' = "report" /\ UNCHANGED cursor

InUse(n) == \E c \in Container : docker[c] = "running" /\ n \in attached[c]

SkipNetwork ==
  /\ pc = "networks"
  /\ TargetNet \notin netCreated
  /\ NextNetwork
  /\ UNCHANGED << plan, at, outcome, faults, stopped, errors, printed,
                  bookkeeping, daemon, files >>

RemoveNetwork ==
  /\ pc = "networks"
  /\ TargetNet \in netCreated
  /\ ~InUse(TargetNet)
  /\ networks' = networks \ {TargetNet}
  /\ netCreated' = netCreated \ {TargetNet}
  /\ NextNetwork
  /\ UNCHANGED << plan, at, outcome, faults, stopped, errors, printed,
                  listed, created, started, docker, attached, attachCli,
                  published, foreign, files >>

RemoveNetworkFails ==
  /\ pc = "networks"
  /\ TargetNet \in netCreated
  /\ IF InUse(TargetNet) THEN UNCHANGED faults ELSE Fault
  /\ errors' = errors \cup {TargetNet}
  /\ NextNetwork
  /\ UNCHANGED <<plan, at, outcome, stopped, printed, bookkeeping, daemon, files>>

PrintErrors ==
  /\ pc = "report"
  /\ printed' = errors
  /\ pc' = "run_directory"
  /\ UNCHANGED << plan, at, outcome, faults, cursor, stopped, errors,
                  bookkeeping, daemon, files >>

CleanUpRunDirectory ==
  /\ pc = "run_directory"
  /\ scratch' = FALSE
  /\ pc' = "secrets"
  /\ UNCHANGED << plan, at, outcome, faults, cleaning, bookkeeping, daemon,
                  staged, secrets >>

CleanUpSecretsFiles ==
  /\ pc = "secrets"
  /\ secrets' = secrets \ Tracked
  /\ pc' = "staged"
  /\ UNCHANGED << plan, at, outcome, faults, cleaning, bookkeeping, daemon,
                  staged, scratch >>

(* The secrets files lie inside the staged directories.                    *)
CleanUpStagedSources ==
  /\ pc = "staged"
  /\ staged' = staged \ Tracked
  /\ secrets' = secrets \ Tracked
  /\ pc' = "done"
  /\ UNCHANGED << plan, at, outcome, faults, cleaning, bookkeeping, daemon,
                  scratch >>

(* A log destination that exists already, an unlink or an rmtree that      *)
(* fails: whatever was still to be cleaned up stays.                       *)
FileCleanUpRaises ==
  /\ pc \in {"run_directory", "secrets", "staged"}
  /\ Fault
  /\ \E k \in 0..Len(CleanUpOrder) :
       LET cleared == {CleanUpOrder[i] : i \in 1..k} \cap Tracked IN
       /\ secrets' = IF pc = "run_directory" THEN secrets ELSE secrets \ cleared
       /\ staged' = IF pc = "staged" THEN staged \ cleared ELSE staged
  /\ outcome' = "cleanup_raised"
  /\ pc' = "done"
  /\ UNCHANGED <<plan, at, cleaning, bookkeeping, daemon, scratch>>

Finished == pc = "done" /\ UNCHANGED vars

-----------------------------------------------------------------------------

SetUp ==
  \/ CreateNetwork \/ StageSource \/ SealSecrets \/ CreateContainer
  \/ ConnectContainer \/ SetCreated \/ ExtendContainers \/ StartContainer
  \/ CheckHealth \/ Verify \/ ProvisionSecrets \/ StartAttached
  \/ AwaitRunning \/ SetUpRaises

CleanUp ==
  \/ SkipContainer \/ CopyLogFiles \/ SaveState \/ SaveStateRaises
  \/ StopContainer \/ NotStopped \/ RemoveContainer \/ RemoveContainerFails
  \/ CleanUpInterrupted \/ SkipNetwork \/ RemoveNetwork \/ RemoveNetworkFails
  \/ PrintErrors \/ CleanUpRunDirectory \/ CleanUpSecretsFiles
  \/ CleanUpStagedSources \/ FileCleanUpRaises

Environment ==
  AttachedStart \/ AttachedStartFails \/ AttachedEnds \/ ContainerExits \/ OtherRun

Next ==
  SetUp \/ ProcessReturns \/ WaitInterrupted \/ CleanUp \/ Environment \/ Finished

(* The host's calls return or time out, and the attached client ends with  *)
(* its container.  Nobody promises that a container exits, or a failure.   *)
Fairness ==
  /\ WF_vars(SetUp)
  /\ WF_vars(ProcessReturns)
  /\ WF_vars(CleanUp)
  /\ WF_vars(AttachedStart \/ AttachedStartFails)
  /\ WF_vars(AttachedEnds)

Spec == Init /\ [][Next]_vars
FairSpec == Spec /\ Fairness

-----------------------------------------------------------------------------
(* Safety.                                                                 *)

PlannedOn(op) == {plan[i].on : i \in {j \in DOMAIN plan : plan[j].op = op}}

(* The workload's container runs only when every sidecar of the plan has   *)
(* been seen healthy and every sidecar with secrets has its key, although  *)
(* the daemon starts it at a time the host does not control.               *)
WorkloadStartsLast ==
  docker[Workload] \in {"running", "exited"} =>
    /\ PlannedOn("create") \ {Workload} \subseteq started
    /\ PlannedOn("seal") \ {Workload} \subseteq published

CleanUpWasComplete == pc = "done" /\ outcome # "cleanup_raised"

(* After a clean-up that no exception cut short, every container and       *)
(* network the host had recorded is gone or was named on the terminal,     *)
(* whatever call failed and whenever a container exited.                   *)
TrackedResidueIsReported ==
  CleanUpWasComplete =>
    /\ \A c \in Tracked : docker[c] = "absent" \/ c \in printed
    /\ \A n \in netCreated : n \in printed

FailedCall == IF outcome = "raised" /\ at \in DOMAIN plan THEN {plan[at]} ELSE {}

(* What such a clean-up leaves behind without naming it belongs to the one *)
(* call that failed, or to the batch of LLM servers that call was part of: *)
(* a run that returns a status leaves nothing.                             *)
LeakIsConfined ==
  CleanUpWasComplete =>
    /\ \A c \in Container :
         docker[c] # "absent" /\ c \notin printed =>
           \E call \in FailedCall : c = call.on \/ c \in LlmServer \ listed
    /\ \A n \in networks \ printed : \E call \in FailedCall : n = call.net
    /\ \A c \in staged \cup secrets : \E call \in FailedCall : c = call.on
    /\ ~scratch

(* When no call fails for a reason of its own and nobody interrupts,       *)
(* containers that exit and waits that time out are no reason for residue: *)
(* the forced removal and the order containers, networks, files suffice.   *)
(* A create that cannot succeed, because the plan never made its network,  *)
(* is left out: it leaves its staged source (SetUpErrorLeavesNothing).     *)
FaultFreeRunIsClean ==
  pc = "done" /\ faults = 0 /\ (at \in DOMAIN plan => plan[at].op # "create") =>
    /\ \A c \in Container : docker[c] = "absent"
    /\ networks = {} /\ staged = {} /\ secrets = {} /\ ~scratch
    /\ printed = {} /\ outcome # "cleanup_raised"

(* A staged directory is bound into its container: the clean-up deletes it *)
(* only when the container is gone, its removal has failed, or an          *)
(* exception has cut the removal short.                                    *)
FilesOutliveContainers ==
  [][ \A c \in staged \ staged' :
        docker[c] = "absent" \/ c \in errors \/ outcome' = "cleanup_raised" ]_vars

(* A database server has the storage for itself, and the clean-up stops    *)
(* and removes by its name only what this run has created: a run that      *)
(* meets another one, or the remains of one, leaves them alone.            *)
OtherRunsAreLeftAlone ==
  /\ \A c \in foreign : docker[c] = "absent"
  /\ pc \in {"state", "stop", "remove"} => Target \notin foreign

-----------------------------------------------------------------------------
(* Liveness.                                                               *)

(* The set-up ends, with a workload or with a clean-up that is gone        *)
(* through: no call blocks the host for ever.                              *)
SetUpSettles == (pc = "setup") ~> (pc \in {"wait", "done"})

(* Once the workload has exited the run ends and its clean-up is through,  *)
(* even when the exit overtakes the wait for the container to be running.  *)
WorkloadExitEndsRun == (docker[Workload] = "exited") ~> (pc = "done")

-----------------------------------------------------------------------------
(* What the documentation says of a run whose set-up raises an error.      *)

SetUpErrorOnly == pc = "done" /\ outcome = "raised" /\ faults <= 1

(* "Normal cleanup removes containers, networks, staged source and secret  *)
(* files, and scratch storage ... Cleanup also runs when setup or          *)
(* execution raises an error" (README.md): after one failed call, what is  *)
(* left has at least been named.                                           *)
SetUpErrorLeavesNothing ==
  SetUpErrorOnly =>
    /\ \A c \in Container : docker[c] = "absent" \/ c \in printed
    /\ staged = {} /\ secrets = {}

(* "Stop and remove all specified sandbox containers", with the failures   *)
(* of single containers collected in cleanup_errors.                       *)
EveryContainerIsHandled ==
  pc = "done" /\ outcome # "running" =>
    \A c \in Tracked : docker[c] = "absent" \/ c \in errors

=============================================================================
