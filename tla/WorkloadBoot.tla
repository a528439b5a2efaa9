---------------------------- MODULE WorkloadBoot ----------------------------
(***************************************************************************)
(* The start of the workload inside its container, from the moment docker  *)
(* reports it running.  Three processes: the host, which provisions the    *)
(* secrets key and waits; secrets_receiver, which the host's `docker exec` *)
(* starts in the container; and the container's first process, which is in *)
(* turn metisa_landlock.bootstrap, metisa_runner and the workload.  They   *)
(* share the key file on the container's tmpfs.                            *)
(***************************************************************************)
EXTENDS Naturals

CONSTANT
  ProbeGroups    \* number of probe groups of metisa_probes.runner

ASSUME ProbeGroupsAssumption == ProbeGroups \in Nat \ {0}

VARIABLES
  boot,         \* where the container's first process is
  expired,      \* the 30 s deadline of wait_for_secrets has passed
  restricted,   \* the Landlock rules bind the first process
  probeAt,      \* the probe group that runs next
  success,      \* no probe group has failed, as the runner remembers it
  failed,       \* the groups that failed, kept for the properties
  status,       \* how the container ended
  receiver,     \* where secrets_receiver is
  temporary,    \* its temporary file
  keyFile,      \* SECRETS_KEY_FILE
  host,         \* where the host is
  clientGone    \* the docker exec client was killed by its 10 s timeout

bootVars     == <<boot, expired, restricted, probeAt, success, failed, status>>
receiverVars == <<receiver, temporary, keyFile>>
hostVars     == <<host, clientGone>>
vars         == <<bootVars, receiverVars, hostVars>>

Content == {"none", "partial", "complete"}

TypeOK ==
  /\ boot \in { "starting", "polling", "missed", "confining", "runner",
                "probing", "probed", "workload", "exited" }
  /\ expired \in BOOLEAN /\ restricted \in BOOLEAN
  /\ probeAt \in 1..ProbeGroups + 1 /\ success \in BOOLEAN
  /\ failed \subseteq 1..ProbeGroups
  /\ status \in {"none", "ok", "failed", "killed"}
  /\ receiver \in { "absent", "reading", "validating", "writing", "linking",
                    "unlinking", "giving_up", "succeeded", "failed", "killed" }
  /\ temporary \in Content /\ keyFile \in Content
  /\ host \in {"awaiting", "provisioning", "waiting", "cleaning", "gone", "killed"}
  /\ clientGone \in BOOLEAN

Init ==
  /\ boot = "starting" /\ expired = FALSE /\ restricted = FALSE
  /\ probeAt = 1 /\ success = TRUE /\ failed = {} /\ status = "none"
  /\ receiver = "absent" /\ temporary = "none" /\ keyFile = "none"
  /\ host = "awaiting" /\ clientGone = FALSE

-----------------------------------------------------------------------------
(* The container ends with its first process; an exec'ed process dies.     *)

ReceiverRuns ==
  receiver \in { "reading", "validating", "writing", "linking", "unlinking",
                 "giving_up" }

Exit(result) ==
  /\ boot' = "exited"
  /\ status' = result
  /\ receiver' = IF ReceiverRuns THEN "killed" ELSE receiver
  /\ UNCHANGED <<expired, restricted, probeAt, success, failed, temporary, keyFile, hostVars>>

Becomes(from, to) == boot = from /\ boot' = to

-----------------------------------------------------------------------------
(* metisa_landlock.bootstrap                                               *)

LoadSpecification ==
  /\ Becomes("starting", "polling")
  /\ UNCHANGED <<expired, restricted, probeAt, success, failed, status, receiverVars, hostVars>>

(* Mutation: the runner is executed without Landlock.                      *)
FindKeySkipsLandlock ==
  /\ Becomes("polling", "runner")
  /\ keyFile # "none"
  /\ UNCHANGED <<expired, restricted, probeAt, success, failed, status, receiverVars, hostVars>>

(* wait_for_secrets looks at the file first, at the clock afterwards.      *)
FindKey ==
  /\ Becomes("polling", "confining")
  /\ keyFile # "none"
  /\ UNCHANGED <<expired, restricted, probeAt, success, failed, status, receiverVars, hostVars>>

MissKey ==
  /\ Becomes("polling", "missed")
  /\ keyFile = "none"
  /\ UNCHANGED <<expired, restricted, probeAt, success, failed, status, receiverVars, hostVars>>

(* Mutation: the deadline is never compared with the clock.                *)
PollForEver ==
  /\ Becomes("missed", "polling")
  /\ UNCHANGED <<expired, restricted, probeAt, success, failed, status, receiverVars, hostVars>>

PollAgain ==
  /\ Becomes("missed", "polling")
  /\ ~expired
  /\ UNCHANGED <<expired, restricted, probeAt, success, failed, status, receiverVars, hostVars>>

WaitTimesOut ==
  /\ boot = "missed"
  /\ expired
  /\ Exit("failed")

DeadlinePasses ==
  /\ boot \in {"polling", "missed"}
  /\ ~expired
  /\ expired' = TRUE
  /\ UNCHANGED <<boot, restricted, probeAt, success, failed, status, receiverVars, hostVars>>

(* apply_landlock_rules: restrict_self, then the log file; an exception of *)
(* either, before or after the restriction, ends the container.            *)
ApplyLandlock ==
  /\ Becomes("confining", "runner")
  /\ restricted' = TRUE
  /\ UNCHANGED <<expired, probeAt, success, failed, status, receiverVars, hostVars>>

(* Until the runner is executed an error is answered with exit code 1.     *)
BootstrapFails ==
  /\ boot \in {"starting", "confining", "runner"}
  /\ Exit("failed")

-----------------------------------------------------------------------------
(* metisa_runner and the probes it waits for                               *)

StartProbes ==
  /\ Becomes("runner", "probing")
  /\ probeAt' = 1 /\ success' = TRUE /\ failed' = {}
  /\ UNCHANGED <<expired, restricted, status, receiverVars, hostVars>>

(* Mutation: the last group alone decides.                                 *)
LastProbeGroupWins(passed) ==
  /\ boot = "probing"
  /\ probeAt <= ProbeGroups
  /\ probeAt' = probeAt + 1
  /\ success' = passed
  /\ failed' = failed \cup (IF passed THEN {} ELSE {probeAt})
  /\ UNCHANGED <<boot, expired, restricted, status, receiverVars, hostVars>>

(* Every group runs, whether or not an earlier one failed.                 *)
RunProbeGroup(passed) ==
  /\ boot = "probing"
  /\ probeAt <= ProbeGroups
  /\ probeAt' = probeAt + 1
  /\ success' = (success /\ passed)
  /\ failed' = failed \cup (IF passed THEN {} ELSE {probeAt})
  /\ UNCHANGED <<boot, expired, restricted, status, receiverVars, hostVars>>

ProbesSucceed ==
  /\ Becomes("probing", "probed")
  /\ probeAt = ProbeGroups + 1
  /\ success
  /\ UNCHANGED <<expired, restricted, probeAt, success, failed, status, receiverVars, hostVars>>

(* A failed group, or a probes process that dies, has an exit code that    *)
(* the runner hands on.                                                    *)
ProbesFail ==
  /\ boot = "probing"
  /\ probeAt = ProbeGroups + 1 => ~success
  /\ Exit("failed")

ExecuteWorkload ==
  /\ Becomes("probed", "workload")
  /\ UNCHANGED <<expired, restricted, probeAt, success, failed, status, receiverVars, hostVars>>

ExecutionFails ==
  /\ boot = "probed"
  /\ Exit("failed")

WorkloadEnds ==
  /\ boot = "workload"
  /\ \E result \in {"ok", "failed"} : Exit(result)

-----------------------------------------------------------------------------
(* metisa_common.secrets_receiver                                          *)

ReceiverStep(from, to) ==
  /\ receiver = from
  /\ receiver' = to
  /\ UNCHANGED <<bootVars, hostVars>>

(* The key arrives whole, unless the client that sends it is gone.         *)
ReadKey ==
  /\ ReceiverStep("reading", "validating")
  /\ UNCHANGED <<temporary, keyFile>>

ReadShortKey ==
  /\ clientGone
  /\ ReceiverStep("reading", "failed")
  /\ UNCHANGED <<temporary, keyFile>>

(* Mutation: the key is written in place.                                  *)
ValidateKeyInPlace ==
  /\ ReceiverStep("validating", "writing")
  /\ temporary' = "partial"
  /\ keyFile' = "partial"

(* decrypt_secrets, then mkstemp.                                          *)
ValidateKey ==
  /\ ReceiverStep("validating", "writing")
  /\ temporary' = "partial"
  /\ UNCHANGED keyFile

RejectKey ==
  /\ ReceiverStep("validating", "failed")
  /\ UNCHANGED <<temporary, keyFile>>

WriteTemporary ==
  /\ ReceiverStep("writing", "linking")
  /\ temporary' = "complete"
  /\ UNCHANGED keyFile

(* os.link                                                                 *)
LinkKey ==
  /\ keyFile = "none"
  /\ ReceiverStep("linking", "unlinking")
  /\ keyFile' = temporary
  /\ UNCHANGED temporary

(* A failed write or link: the finally clause still unlinks.               *)
PublishingFails ==
  /\ receiver \in {"writing", "linking"}
  /\ ReceiverStep(receiver, "giving_up")
  /\ UNCHANGED <<temporary, keyFile>>

UnlinkTemporary ==
  /\ \/ ReceiverStep("unlinking", "succeeded")
     \/ ReceiverStep("giving_up", "failed")
  /\ temporary' = "none"
  /\ UNCHANGED keyFile

UnlinkFails ==
  /\ receiver \in {"unlinking", "giving_up"}
  /\ ReceiverStep(receiver, "failed")
  /\ UNCHANGED <<temporary, keyFile>>

-----------------------------------------------------------------------------
(* The host                                                                *)

HostStep(from, to) == host = from /\ host' = to

(* wait_until_container_running has seen the container running, and        *)
(* provision_container_secrets starts the receiver in it.                  *)
StartReceiver ==
  /\ HostStep("awaiting", "provisioning")
  /\ boot # "exited"
  /\ receiver' = "reading"
  /\ UNCHANGED <<bootVars, temporary, keyFile, clientGone>>

(* The container ended before the receiver could be started.               *)
ContainerWasGone ==
  /\ HostStep("awaiting", "cleaning")
  /\ boot = "exited"
  /\ UNCHANGED <<bootVars, receiverVars, clientGone>>

ProvisioningSucceeds ==
  /\ HostStep("provisioning", "waiting")
  /\ receiver = "succeeded"
  /\ UNCHANGED <<bootVars, receiverVars, clientGone>>

(* A non-zero return code: RuntimeError.                                   *)
ProvisioningFails ==
  /\ HostStep("provisioning", "cleaning")
  /\ receiver \in {"failed", "killed"}
  /\ UNCHANGED <<bootVars, receiverVars, clientGone>>

(* Mutation: a timeout is taken for success.                               *)
TimeoutIsIgnored ==
  /\ HostStep("provisioning", "waiting")
  /\ clientGone' = TRUE
  /\ UNCHANGED <<bootVars, receiverVars>>

(* Mutation: a timeout is answered with another attempt.                   *)
ProvisioningIsRetried ==
  /\ HostStep("provisioning", "awaiting")
  /\ clientGone' = TRUE
  /\ UNCHANGED <<bootVars, receiverVars>>

(* subprocess.TimeoutExpired: the client is killed, the process it started *)
(* in the container is not.                                                *)
ProvisioningTimesOut ==
  /\ HostStep("provisioning", "cleaning")
  /\ clientGone' = TRUE
  /\ UNCHANGED <<bootVars, receiverVars>>

(* process.wait returns the container's status.                            *)
WorkloadIsOver ==
  /\ HostStep("waiting", "cleaning")
  /\ boot = "exited"
  /\ UNCHANGED <<bootVars, receiverVars, clientGone>>

(* The clean-up stops the container, if it has not ended, and removes it.  *)
StopContainer ==
  /\ HostStep("cleaning", "gone")
  /\ boot' = "exited"
  /\ status' = IF boot = "exited" THEN status ELSE "killed"
  /\ receiver' = IF ReceiverRuns THEN "killed" ELSE receiver
  /\ UNCHANGED <<expired, restricted, probeAt, success, failed, temporary, keyFile, clientGone>>

(* The manager's process is killed: its docker exec client goes with it,   *)
(* the container stays.                                                    *)
HostIsKilled ==
  /\ host \notin {"gone", "killed"}
  /\ host' = "killed"
  /\ clientGone' = TRUE
  /\ UNCHANGED <<bootVars, receiverVars>>

-----------------------------------------------------------------------------

Bootstrap ==
  \/ LoadSpecification \/ FindKey \/ MissKey \/ PollAgain \/ WaitTimesOut
  \/ ApplyLandlock \/ BootstrapFails

Runner ==
  \/ StartProbes \/ (\E passed \in BOOLEAN : RunProbeGroup(passed))
  \/ ProbesSucceed \/ ProbesFail \/ ExecuteWorkload \/ ExecutionFails

Receiver ==
  \/ ReadKey \/ ReadShortKey \/ ValidateKey \/ RejectKey \/ WriteTemporary
  \/ LinkKey \/ PublishingFails \/ UnlinkTemporary \/ UnlinkFails

Host ==
  \/ StartReceiver \/ ContainerWasGone \/ ProvisioningSucceeds
  \/ ProvisioningFails \/ ProvisioningTimesOut \/ WorkloadIsOver
  \/ StopContainer

Finished ==
  host \in {"gone", "killed"} /\ boot = "exited" /\ UNCHANGED vars

Next ==
  \/ Bootstrap \/ DeadlinePasses \/ Runner \/ WorkloadEnds
  \/ Receiver \/ Host \/ HostIsKilled \/ Finished

(* Every process keeps running and time passes.  The workload may run for  *)
(* as long as it likes.                                                    *)
Fairness ==
  /\ WF_vars(Bootstrap) /\ WF_vars(DeadlinePasses)
  /\ WF_vars(Runner) /\ WF_vars(Receiver) /\ WF_vars(Host)

Spec == Init /\ [][Next]_vars
FairSpec == Spec /\ Fairness

-----------------------------------------------------------------------------
(* Properties.                                                             *)

stage ==
  CASE boot \in {"starting", "polling", "missed"} -> "secrets"
    [] boot = "confining"                         -> "landlock"
    [] boot \in {"runner", "probing", "probed"}   -> "probes"
    [] boot = "workload"                          -> "workload"
    [] OTHER                                      -> "ended"

Abstract == INSTANCE StartupSequence

(* The container goes through secrets, Landlock, probes and workload in    *)
(* this order and skips none, while the host may kill it at any point.     *)
StartupIsSequenced == Abstract!Spec

(* Bootstrap polls for the key file while the receiver writes it: what it  *)
(* finds is never a key half written.                                      *)
KeyIsWholeOrAbsent == keyFile # "partial"

(* The workload runs with its key published, under Landlock, and after     *)
(* every probe group has run and passed.                                   *)
WorkloadIsGuarded ==
  boot = "workload" =>
    keyFile = "complete" /\ restricted /\ failed = {} /\ probeAt = ProbeGroups + 1

(* The host goes on to wait for the workload only when the key is there    *)
(* for bootstrap to find, and after the run nothing is left that could     *)
(* still start the workload.                                               *)
HostAgreesWithContainer ==
  /\ host = "waiting" => keyFile = "complete" /\ receiver = "succeeded"
  /\ host = "gone" => boot = "exited" /\ ~ReceiverRuns

(* The container decides: the workload runs or the container has ended,    *)
(* even if no key ever arrives because the host that would bring it, or    *)
(* stop the container, was killed.                                         *)
BootDecides == <>(boot \in {"workload", "exited"})

(* A host that provisions ends up waiting for the workload or cleaning up, *)
(* unless it is killed.                                                    *)
ProvisioningEnds == (host = "provisioning") ~> (host \in {"waiting", "cleaning", "killed"})

(* "Failed secrets provisioning ... prevents the workload from starting"   *)
(* (README.md): a receiver that printed "Secrets provisioning failed" has  *)
(* left nothing behind from which the workload could start.                *)
FailedProvisioningPreventsWorkload == receiver = "failed" => boot # "workload"

=============================================================================
