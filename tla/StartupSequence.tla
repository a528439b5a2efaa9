--------------------------- MODULE StartupSequence ---------------------------
(***************************************************************************)
(* What the workload container promises about its start, abstractly:       *)
(* secrets, then Landlock, then the probes, then the workload.  A stage    *)
(* is left for the next one or for good; nothing is skipped and nothing    *)
(* is entered twice.  WorkloadBoot implements this.                        *)
(***************************************************************************)

VARIABLES
  stage,    \* the gate the container has reached
  status    \* how the container ended

gate == <<stage, status>>

Init == stage = "secrets" /\ status = "none"

Pass(from, to) == stage = from /\ stage' = to /\ UNCHANGED status

SecretsProvisioned == Pass("secrets", "landlock")
LandlockApplied    == Pass("landlock", "probes")
ProbesPassed       == Pass("probes", "workload")

End(result) == stage # "ended" /\ stage' = "ended" /\ status' = result

Refused      == stage # "workload" /\ End("failed")
WorkloadEnds == stage = "workload" /\ \E result \in {"ok", "failed"} : End(result)
Killed       == End("killed")

Next ==
  \/ SecretsProvisioned \/ LandlockApplied \/ ProbesPassed
  \/ Refused \/ WorkloadEnds \/ Killed

Spec == Init /\ [][Next]_gate

=============================================================================
