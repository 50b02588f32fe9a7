------------------------------ MODULE Cluster ------------------------------
(***************************************************************************)
(* The Kubernetes plugin's work on workloads, jobs, autoscalers, pods and  *)
(* nodes: api/plugins/k8s/adapter.py and helper.py.                        *)
(*                                                                         *)
(* Several dispatches work on one cluster while its controllers, and other *)
(* people, change it.  Every call to the API server is a step of its own;  *)
(* a read that fails counts as an object that is not there (the helper     *)
(* swallows the exception), any other call that fails ends the dispatch as *)
(* errored.  A dispatch ends with its outcome in the receipt, which is all *)
(* that poll ever looks at; nothing is retried and nothing can be          *)
(* cancelled.  PrometheusRule resources are module AlertRules.             *)
(***************************************************************************)
EXTENDS Naturals

CONSTANTS
  Dispatches,       \* dispatches of the plugin under way
  MaxGeneration,    \* bound: generations of the workload
  MaxReplicas       \* bound: replicas an autoscaler is asked for

ASSUME ClusterAssumption ==
  /\ MaxGeneration \in Nat
  /\ MaxReplicas \in Nat \ {0}

VARIABLES
  workload,         \* a Deployment, StatefulSet or DaemonSet
  autoscaler,       \* a HorizontalPodAutoscaler
  batchJob,         \* a Job
  dispatches        \* what each dispatch does

clusterVars == << workload, autoscaler, batchJob, dispatches >>

Generations == 0 .. MaxGeneration
AnySize == MaxReplicas + 1   \* a bound that is not asked for
Asked == 0 .. AnySize

(* generation: of its spec; observed: what its controller has seen of it;  *)
(* rolled: the spec all its pods follow, which its status counts against.  *)
WorkloadState == [generation : Generations, observed : Generations, rolled : Generations]

JobState == [failedPods : 0 .. 1, condition : {"running", "complete", "failed", "gone"}]

(* The operations that take more than one step; the others only read.     *)
Changes == {"rollout_restart", "scale", "delete_pod", "cleanup", "patch_hpa_bounds"}
Rollouts == {"controller_rollout_status", "deployment_rollout_status"}
ClusterOperations == Changes \cup Rollouts

Outcomes == {"succeeded", "failed", "errored"}

Dispatch == [ op : ClusterOperations \cup {"none"}, at : {"ready", "checked"} \cup Outcomes,
              min : Asked, max : Asked, given : SUBSET {"min", "max"} ]

ClusterTypeOK ==
  /\ workload \in WorkloadState
  /\ autoscaler \in [min : 0 .. MaxReplicas, max : 1 .. MaxReplicas]
  /\ batchJob \in JobState
  /\ dispatches \in [Dispatches -> Dispatch]

Unused == [op |-> "none", at |-> "succeeded", min |-> AnySize, max |-> AnySize, given |-> {}]

ClusterInit ==
  /\ workload = [generation |-> 0, observed |-> 0, rolled |-> 0]
  /\ autoscaler = [min |-> 1, max |-> 1]
  /\ batchJob = [failedPods |-> 0, condition |-> "running"]
  /\ dispatches = [d \in Dispatches |-> Unused]

-----------------------------------------------------------------------------
(* The cluster. *)
ControllerObserves ==
  /\ workload.observed # workload.generation
  /\ workload' = [workload EXCEPT !.observed = workload.generation]
  /\ UNCHANGED << autoscaler, batchJob, dispatches >>

PodsFollow ==
  /\ workload.rolled # workload.observed
  /\ workload' = [workload EXCEPT !.rolled = workload.observed]
  /\ UNCHANGED << autoscaler, batchJob, dispatches >>

JobMoves ==
  /\ batchJob.condition = "running"
  /\ \/ batchJob' = [batchJob EXCEPT !.failedPods = 1]
     \/ batchJob' = [batchJob EXCEPT !.condition = "complete"]
     \/ batchJob' = [batchJob EXCEPT !.condition = "failed"]
  /\ UNCHANGED << workload, autoscaler, dispatches >>

JobIsCreated ==
  /\ batchJob.condition = "gone"
  /\ batchJob' = [failedPods |-> 0, condition |-> "running"]
  /\ UNCHANGED << workload, autoscaler, dispatches >>

-----------------------------------------------------------------------------
(* validate: what the operation asks for is there.  An autoscaler needs at *)
(* least one bound, and the minimum at most the maximum if both are given. *)
BoundsGiven(min, max) ==
  /\ min # AnySize \/ max # AnySize
  /\ max # 0
  /\ (min # AnySize /\ max # AnySize) => min <= max

StartDispatch(d) ==
  /\ dispatches[d].at \in Outcomes
  /\ \E op \in ClusterOperations, min, max \in Asked :
       /\ IF op = "patch_hpa_bounds" THEN BoundsGiven(min, max) ELSE min = AnySize /\ max = AnySize
       /\ dispatches' = [dispatches EXCEPT ![d] =
            [Unused EXCEPT !.op = op, !.at = "ready", !.min = min, !.max = max]]
  /\ UNCHANGED << workload, autoscaler, batchJob >>

(* dispatch turns the result into an outcome, and the outcome into the     *)
(* receipt: success unless the helper says otherwise, errored if it raised.*)
EndsWith(d, outcome) ==
  dispatches' = [dispatches EXCEPT ![d] =
                   IF outcome \in Outcomes THEN [Unused EXCEPT !.at = outcome]
                   ELSE [@ EXCEPT !.at = outcome]]

Doing(d, ops) == dispatches[d].at = "ready" /\ dispatches[d].op \in ops

CallFails(d) ==
  /\ dispatches[d].at \in {"ready", "checked"}
  /\ EndsWith(d, "errored")
  /\ UNCHANGED << workload, autoscaler, batchJob >>

(* An operation that only reads is one step: it changes nothing, and what  *)
(* it found is not looked at again.                                        *)
Reads(d, outcomes) ==
  /\ dispatches[d].at \in Outcomes
  /\ \E outcome \in outcomes : EndsWith(d, outcome)
  /\ UNCHANGED << workload, autoscaler, batchJob >>

(* The diagnostics: one object first, which must be there, then its pods,  *)
(* logs and events, none of which has to be.                               *)
Found == {"succeeded", "failed"}
PodDiagnostics(d) == Reads(d, Found)
WorkloadStatus(d) == Reads(d, Found)
JobDiagnostics(d) == Reads(d, Found)
NodeDiagnostics(d) == Reads(d, Found)
NodeCapacity(d) == Reads(d, Found)
NodePressure(d) == Reads(d, Found)
PvcDiagnostics(d) == Reads(d, Found)
ServiceDiagnostics(d) == Reads(d, Found)
PdbHpaDiagnostics(d) == Reads(d, Found)
ConfigDiagnostics(d) == Reads(d, Found)
CertificateDiagnostics(d) == Reads(d, Found)

(* The service, then its port and an endpoint, then the probe itself.      *)
ServiceProbe(d) == Reads(d, Found \cup {"errored"})

(* A listing succeeds, with nothing in it if nothing matches, unless the   *)
(* call fails; only the logs of a pod that a selector names need a pod.    *)
PodLogs(d) == Reads(d, Outcomes)
ListObjects(d) == Reads(d, {"succeeded", "errored"})

-----------------------------------------------------------------------------
(* rollout_restart_controller and rollout_restart_deployment stamp the pod *)
(* template, scale_deployment sets the replicas.                           *)
Patch(d) ==
  /\ Doing(d, {"rollout_restart", "scale"})
  /\ workload.generation < MaxGeneration
  /\ workload' = [workload EXCEPT !.generation = @ + 1]
  /\ EndsWith(d, "succeeded")
  /\ UNCHANGED << autoscaler, batchJob >>

(* remediate_resource_pressure_with_deployment_scale looks first.          *)
PatchMissing(d) ==
  /\ Doing(d, {"scale"})
  /\ EndsWith(d, "failed")
  /\ UNCHANGED << workload, autoscaler, batchJob >>

(* _controller_rollout_summary: the counts of the status agree, and they   *)
(* are about this generation.  deployment_rollout_status only counts.      *)
CountsAgree == workload.rolled = workload.observed
RolledOut == CountsAgree /\ workload.observed = workload.generation

(* A rollout that is not over is an outcome too: success is false, so the  *)
(* dispatch has failed.                                                    *)
ControllerRollout(d) ==
  /\ Doing(d, {"controller_rollout_status"})
  /\ \E found \in BOOLEAN :
       EndsWith(d, IF found /\ RolledOut THEN "succeeded" ELSE "failed")
  /\ UNCHANGED << workload, autoscaler, batchJob >>

DeploymentRollout(d) ==
  /\ Doing(d, {"deployment_rollout_status"})
  /\ \E found \in BOOLEAN :
       EndsWith(d, IF found /\ CountsAgree THEN "succeeded" ELSE "failed")
  /\ UNCHANGED << workload, autoscaler, batchJob >>

(* cleanup_failed_job reads the job, its pods, logs and events, and then   *)
(* deletes it by name.  A job with one failed pod counts as failed.        *)
JobFailed == batchJob.failedPods > 0 \/ batchJob.condition = "failed"

ReadJob(d) ==
  /\ Doing(d, {"cleanup"})
  /\ \E found \in BOOLEAN : EndsWith(d, IF found /\ JobFailed THEN "checked" ELSE "failed")
  /\ UNCHANGED << workload, autoscaler, batchJob >>

DeleteJob(d) ==
  /\ dispatches[d].op = "cleanup" /\ dispatches[d].at = "checked"
  /\ batchJob.condition # "gone"
  /\ batchJob' = [failedPods |-> 0, condition |-> "gone"]
  /\ EndsWith(d, "succeeded")
  /\ UNCHANGED << workload, autoscaler >>

DeletePod(d) ==
  /\ Doing(d, {"delete_pod"})
  /\ EndsWith(d, "succeeded")
  /\ UNCHANGED << workload, autoscaler, batchJob >>

(* remediate_resource_pressure_with_hpa_patch reads the autoscaler, fills  *)
(* in the bound it was not given, and patches both.                        *)
Wanted(asked, current) == IF asked = AnySize THEN current ELSE asked

ReadAutoscaler(d) ==
  LET low == Wanted(dispatches[d].min, autoscaler.min)
      high == Wanted(dispatches[d].max, autoscaler.max)
  IN  /\ Doing(d, {"patch_hpa_bounds"})
      /\ dispatches' = [dispatches EXCEPT ![d] =
           IF low <= high
           THEN [@ EXCEPT !.at = "checked", !.min = low, !.max = high,
                          !.given = {b \in {"min", "max"} : dispatches[d][b] # AnySize}]
           ELSE [Unused EXCEPT !.at = "failed"]]
      /\ UNCHANGED << workload, autoscaler, batchJob >>

(* PatchAsked would send the bounds that were asked for and no other.      *)
PatchAsked(x) == [b \in DOMAIN autoscaler |-> IF b \in x.given THEN x[b] ELSE autoscaler[b]]
PatchBoth(x) == [b \in DOMAIN autoscaler |-> x[b]]

AutoscalerMissing(d) ==
  /\ Doing(d, {"patch_hpa_bounds"})
  /\ EndsWith(d, "failed")
  /\ UNCHANGED << workload, autoscaler, batchJob >>

PatchAutoscaler(d) ==
  /\ dispatches[d].op = "patch_hpa_bounds" /\ dispatches[d].at = "checked"
  /\ autoscaler' = PatchBoth(dispatches[d])
  /\ EndsWith(d, "succeeded")
  /\ UNCHANGED << workload, batchJob >>

ClusterNext ==
  \/ ControllerObserves
  \/ PodsFollow
  \/ JobMoves
  \/ JobIsCreated
  \/ \E d \in Dispatches :
       \/ StartDispatch(d)
       \/ CallFails(d)
       \/ PodDiagnostics(d)
       \/ WorkloadStatus(d)
       \/ JobDiagnostics(d)
       \/ NodeDiagnostics(d)
       \/ NodeCapacity(d)
       \/ NodePressure(d)
       \/ PvcDiagnostics(d)
       \/ ServiceDiagnostics(d)
       \/ PdbHpaDiagnostics(d)
       \/ ConfigDiagnostics(d)
       \/ CertificateDiagnostics(d)
       \/ ServiceProbe(d)
       \/ PodLogs(d)
       \/ ListObjects(d)
       \/ Patch(d)
       \/ PatchMissing(d)
       \/ ControllerRollout(d)
       \/ DeploymentRollout(d)
       \/ ReadJob(d)
       \/ DeleteJob(d)
       \/ DeletePod(d)
       \/ ReadAutoscaler(d)
       \/ AutoscalerMissing(d)
       \/ PatchAutoscaler(d)

ClusterSpec == ClusterInit /\ [][ClusterNext]_clusterVars

-----------------------------------------------------------------------------
(* A rollout_status step succeeds only once every restart that was asked   *)
(* for before it has reached all pods (controller_rollout_status).         *)
RolloutTold ==
  \A d \in Dispatches :
    (/\ dispatches[d].op = "controller_rollout_status"
     /\ dispatches[d].at = "ready"
     /\ dispatches'[d].at = "succeeded")
      => workload.rolled = workload.generation

(* Two dispatches that each move one bound of an autoscaler never leave it *)
(* with a minimum above its maximum.                                       *)
BoundsOrdered == autoscaler.min <= autoscaler.max

(* All of it, with the types: what the plugin tells of the cluster, and    *)
(* what it does to it.                                                     *)
ClusterKept == [](ClusterTypeOK /\ BoundsOrdered) /\ [][RolloutTold]_clusterVars
=============================================================================
