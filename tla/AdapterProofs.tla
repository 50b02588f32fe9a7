--------------------------- MODULE AdapterProofs -----------------------------
(***************************************************************************)
(* Proofs about the adapters to what PoundCake acts on, for any number of  *)
(* dispatches that overlap: the cluster, its alert rules, the repository   *)
(* they and the recipes are proposed to, and StackStorm.                   *)
(***************************************************************************)
EXTENDS Cluster, AlertRules, StackStorm, Proposals, TLAPS, SequenceTheorems

-----------------------------------------------------------------------------
(* The cluster: bounds of an autoscaler and rollouts.                      *)

(* What an autoscaler may have, and a dispatch may send.                   *)
Sizes == [min : 0 .. MaxReplicas, max : 1 .. MaxReplicas]

SoundDispatch ==
  {x \in Dispatch :
     x.op = "patch_hpa_bounds" =>
       /\ x.at = "ready" => x.max # 0
       /\ x.at = "checked" => x.min <= x.max /\ x.max \in 1 .. MaxReplicas}

(* A dispatch that read the autoscaler will send bounds that are in order, *)
(* both of them, whatever the autoscaler is by then.                       *)
ClusterInv ==
  /\ autoscaler \in Sizes
  /\ dispatches \in [Dispatches -> SoundDispatch]
  /\ BoundsOrdered

(* One dispatch goes on; a rollout is told over only when it is.           *)
Goes(d, x) ==
  /\ x \in SoundDispatch
  /\ dispatches' = [dispatches EXCEPT ![d] = x]
  /\ (/\ dispatches[d].op = "controller_rollout_status" /\ dispatches[d].at = "ready"
      /\ x.at = "succeeded") => RolledOut

(* A dispatch that ends.                                                   *)
LEMMA DispatchEnds ==
  ASSUME ClusterInv, NEW d \in Dispatches, NEW outcome \in Outcomes, EndsWith(d, outcome),
         (/\ dispatches[d].op = "controller_rollout_status" /\ dispatches[d].at = "ready"
          /\ outcome = "succeeded") => RolledOut
  PROVE  \E x : Goes(d, x)
<1>1. PICK x : x = [Unused EXCEPT !.at = outcome]
  OBVIOUS
<1>2. AnySize \in Nat
  BY ClusterAssumption DEF AnySize
<1>3. x \in SoundDispatch /\ x.at = outcome
  BY <1>1, <1>2, ClusterAssumption DEF Unused, SoundDispatch, Dispatch, Asked, AnySize, ClusterOperations
<1>4. dispatches' = [dispatches EXCEPT ![d] = x]
  BY <1>1 DEF EndsWith
<1> QED
  BY <1>3, <1>4 DEF Goes

(* A dispatch that starts.                                                 *)
LEMMA DispatchStarts ==
  ASSUME ClusterInv, NEW d \in Dispatches, StartDispatch(d)
  PROVE  \E x : Goes(d, x)
<1>1. PICK op \in ClusterOperations, min \in Asked, max \in Asked :
        /\ IF op = "patch_hpa_bounds" THEN BoundsGiven(min, max) ELSE min = AnySize /\ max = AnySize
        /\ dispatches' = [dispatches EXCEPT ![d] =
             [Unused EXCEPT !.op = op, !.at = "ready", !.min = min, !.max = max]]
  BY DEF StartDispatch
<1>2. PICK x : x = [Unused EXCEPT !.op = op, !.at = "ready", !.min = min, !.max = max]
  OBVIOUS
<1>3. op = "patch_hpa_bounds" => max # 0
  BY <1>1 DEF BoundsGiven
<1>4. x \in SoundDispatch /\ x.at = "ready"
  BY <1>2, <1>3 DEF Unused, SoundDispatch, Dispatch
<1> QED
  BY <1>1, <1>2, <1>4 DEF Goes

(* A dispatch that has looked at its job or its autoscaler.                *)
LEMMA DispatchChecks ==
  ASSUME ClusterInv, NEW d \in Dispatches, ReadJob(d) \/ ReadAutoscaler(d)
  PROVE  \E x : Goes(d, x)
<1>0. /\ dispatches[d] \in SoundDispatch /\ dispatches[d].at = "ready"
      /\ dispatches[d].op # "controller_rollout_status"
  BY DEF ClusterInv, ReadJob, ReadAutoscaler, Doing
<1>1. CASE ReadJob(d)
  <2>1. CASE EndsWith(d, "failed")
    BY <1>0, <2>1, DispatchEnds DEF Outcomes
  <2>2. CASE EndsWith(d, "checked") /\ dispatches[d].op = "cleanup"
    <3>1. PICK x : x = [dispatches[d] EXCEPT !.at = "checked"]
      OBVIOUS
    <3>2. x \in SoundDispatch
      BY <1>0, <2>2, <3>1 DEF SoundDispatch, Dispatch
    <3>3. dispatches' = [dispatches EXCEPT ![d] = x]
      BY <2>2, <3>1 DEF EndsWith, Outcomes
    <3> QED
      BY <1>0, <3>2, <3>3 DEF Goes
  <2> QED
    BY <1>1, <2>1, <2>2 DEF ReadJob, Doing
<1>2. CASE ReadAutoscaler(d)
  <2> DEFINE low == Wanted(dispatches[d].min, autoscaler.min)
             high == Wanted(dispatches[d].max, autoscaler.max)
             given == {b \in {"min", "max"} : dispatches[d][b] # AnySize}
  <2>1. low \in 0 .. AnySize /\ high \in 1 .. MaxReplicas
    <3>1. dispatches[d].max # 0 /\ dispatches[d].min \in 0 .. AnySize /\ dispatches[d].max \in 0 .. AnySize
      BY <1>0, <1>2 DEF SoundDispatch, Dispatch, Asked, ReadAutoscaler, Doing
    <3>2. /\ autoscaler.min \in 0 .. AnySize /\ autoscaler.max \in 1 .. MaxReplicas
          /\ AnySize \in Nat /\ AnySize = MaxReplicas + 1 /\ MaxReplicas \in Nat
      BY ClusterAssumption DEF ClusterInv, Sizes, AnySize
    <3> QED
      BY <3>1, <3>2 DEF Wanted
  <2>2. dispatches' = [dispatches EXCEPT ![d] =
           IF low <= high
           THEN [@ EXCEPT !.at = "checked", !.min = low, !.max = high, !.given = given]
           ELSE [Unused EXCEPT !.at = "failed"]]
    BY <1>2 DEF ReadAutoscaler
  <2>3. given \in SUBSET {"min", "max"}
    OBVIOUS
  <2> HIDE DEF low, high, given
  <2>4. CASE low <= high
    <3>1. PICK x : x = [dispatches[d] EXCEPT !.at = "checked", !.min = low, !.max = high, !.given = given]
      OBVIOUS
    <3>2. low \in Asked /\ high \in Asked
      BY <2>1, ClusterAssumption DEF Asked, AnySize
    <3>3. x \in SoundDispatch
      BY <1>0, <2>1, <2>3, <2>4, <3>1, <3>2 DEF SoundDispatch, Dispatch
    <3> QED
      BY <1>0, <2>2, <2>4, <3>1, <3>3 DEF Goes
  <2>5. CASE ~ (low <= high)
    <3>1. EndsWith(d, "failed")
      BY <2>2, <2>5 DEF EndsWith, Outcomes
    <3> QED
      BY <1>0, <3>1, DispatchEnds DEF Outcomes
  <2> QED
    BY <2>4, <2>5
<1> QED
  BY <1>1, <1>2

(* What each step of a dispatch does to it.                                *)
LEMMA DispatchGoes ==
  ASSUME ClusterInv, NEW d \in Dispatches,
         \/ CallFails(d) \/ PodDiagnostics(d) \/ WorkloadStatus(d) \/ JobDiagnostics(d)
         \/ NodeDiagnostics(d) \/ NodeCapacity(d) \/ NodePressure(d) \/ PvcDiagnostics(d)
         \/ ServiceDiagnostics(d) \/ PdbHpaDiagnostics(d) \/ ConfigDiagnostics(d)
         \/ CertificateDiagnostics(d) \/ ServiceProbe(d) \/ PodLogs(d) \/ ListObjects(d)
         \/ Patch(d) \/ PatchMissing(d) \/ ControllerRollout(d) \/ DeploymentRollout(d)
         \/ DeleteJob(d) \/ DeletePod(d) \/ AutoscalerMissing(d) \/ PatchAutoscaler(d)
  PROVE  \E x : Goes(d, x)
<1>1. CASE CallFails(d)
  BY <1>1, DispatchEnds DEF CallFails, Outcomes
<1>2. CASE \E outcomes \in SUBSET Outcomes : Reads(d, outcomes)
  <2>1. PICK outcome \in Outcomes : EndsWith(d, outcome) /\ dispatches[d].at \in Outcomes
    BY <1>2 DEF Reads
  <2>2. dispatches[d].at # "ready"
    BY <2>1 DEF Outcomes
  <2> QED
    BY <2>1, <2>2, DispatchEnds
<1>3. CASE \E ops : /\ Doing(d, ops) /\ "controller_rollout_status" \notin ops
                    /\ \E outcome \in Outcomes : EndsWith(d, outcome)
  BY <1>3, DispatchEnds DEF Doing
<1>4. CASE ControllerRollout(d)
  BY <1>4, DispatchEnds DEF ControllerRollout, Outcomes
<1>5. CASE dispatches[d].at = "checked" /\ \E outcome \in Outcomes : EndsWith(d, outcome)
  BY <1>5, DispatchEnds
<1>6. /\ Found \in SUBSET Outcomes /\ Found \cup {"errored"} \in SUBSET Outcomes
      /\ Outcomes \in SUBSET Outcomes /\ {"succeeded", "errored"} \in SUBSET Outcomes
  BY DEF Found, Outcomes
<1>7. ASSUME Patch(d) \/ PatchMissing(d) \/ DeploymentRollout(d) \/ DeletePod(d) \/ AutoscalerMissing(d)
      PROVE  \E ops : /\ Doing(d, ops) /\ "controller_rollout_status" \notin ops
                      /\ \E outcome \in Outcomes : EndsWith(d, outcome)
  <2>1. "succeeded" \in Outcomes /\ "failed" \in Outcomes
    BY DEF Outcomes
  <2>2. CASE Patch(d)
    BY <2>1, <2>2 DEF Patch
  <2>3. CASE PatchMissing(d)
    BY <2>1, <2>3 DEF PatchMissing
  <2>4. CASE DeploymentRollout(d)
    BY <2>1, <2>4 DEF DeploymentRollout
  <2>5. CASE DeletePod(d)
    BY <2>1, <2>5 DEF DeletePod
  <2>6. CASE AutoscalerMissing(d)
    BY <2>1, <2>6 DEF AutoscalerMissing
  <2> QED
    BY <1>7, <2>2, <2>3, <2>4, <2>5, <2>6
<1>8. ASSUME DeleteJob(d) \/ PatchAutoscaler(d)
      PROVE  dispatches[d].at = "checked" /\ \E outcome \in Outcomes : EndsWith(d, outcome)
  BY <1>8 DEF DeleteJob, PatchAutoscaler, Outcomes
<1>9. ASSUME \/ PodDiagnostics(d) \/ WorkloadStatus(d) \/ JobDiagnostics(d)
             \/ NodeDiagnostics(d) \/ NodeCapacity(d) \/ NodePressure(d) \/ PvcDiagnostics(d)
             \/ ServiceDiagnostics(d) \/ PdbHpaDiagnostics(d) \/ ConfigDiagnostics(d)
             \/ CertificateDiagnostics(d) \/ ServiceProbe(d) \/ PodLogs(d) \/ ListObjects(d)
      PROVE  \E outcomes \in SUBSET Outcomes : Reads(d, outcomes)
  BY <1>6, <1>9
     DEF PodDiagnostics, WorkloadStatus, JobDiagnostics, NodeDiagnostics, NodeCapacity, NodePressure,
         PvcDiagnostics, ServiceDiagnostics, PdbHpaDiagnostics, ConfigDiagnostics,
         CertificateDiagnostics, ServiceProbe, PodLogs, ListObjects
<1> QED
  BY <1>1, <1>2, <1>3, <1>4, <1>5, <1>7, <1>8, <1>9

(* What a dispatch, alone, does to the autoscaler.                         *)
LEMMA BoundsStay ==
  ASSUME ClusterInv, NEW d \in Dispatches,
         UNCHANGED autoscaler \/ PatchAutoscaler(d)
  PROVE  autoscaler' \in Sizes /\ BoundsOrdered'
<1>1. CASE UNCHANGED autoscaler
  BY <1>1 DEF ClusterInv, BoundsOrdered
<1>2. CASE PatchAutoscaler(d)
  <2>1. /\ dispatches[d] \in SoundDispatch /\ dispatches[d].op = "patch_hpa_bounds"
        /\ dispatches[d].at = "checked" /\ DOMAIN autoscaler = {"min", "max"}
    BY <1>2 DEF PatchAutoscaler, ClusterInv, Sizes
  <2>2. autoscaler' = [b \in {"min", "max"} |-> dispatches[d][b]]
    BY <1>2, <2>1 DEF PatchAutoscaler, PatchBoth
  <2>3. /\ dispatches[d].min \in 0 .. AnySize /\ dispatches[d].max \in 1 .. MaxReplicas
        /\ dispatches[d].min <= dispatches[d].max
    BY <2>1 DEF SoundDispatch, Dispatch, Asked
  <2> QED
    BY <2>2, <2>3, ClusterAssumption DEF BoundsOrdered, Sizes, AnySize
<1> QED
  BY <1>1, <1>2

(* Every step keeps the bounds and tells a rollout as it is.               *)
LEMMA ClusterStep ==
  ASSUME ClusterInv, [ClusterNext]_clusterVars
  PROVE  ClusterInv' /\ RolloutTold
<1>1. ASSUME UNCHANGED << autoscaler, dispatches >> PROVE ClusterInv' /\ RolloutTold
  BY <1>1 DEF ClusterInv, BoundsOrdered, RolloutTold
<1>2. ASSUME NEW d \in Dispatches, NEW x, Goes(d, x), UNCHANGED autoscaler \/ PatchAutoscaler(d)
      PROVE ClusterInv' /\ RolloutTold
  <2>1. dispatches' \in [Dispatches -> SoundDispatch]
    BY <1>2 DEF Goes, ClusterInv
  <2>2. \A e \in Dispatches : dispatches'[e] = IF e = d THEN x ELSE dispatches[e]
    BY <1>2 DEF Goes, ClusterInv
  <2>3. RolledOut => workload.rolled = workload.generation
    BY DEF RolledOut, CountsAgree
  <2>4. RolloutTold
    BY <1>2, <2>2, <2>3 DEF Goes, RolloutTold
  <2>5. ClusterInv'
    BY <1>2, <2>1, BoundsStay DEF ClusterInv
  <2> QED
    BY <2>4, <2>5
<1>3. ASSUME NEW d \in Dispatches,
             \/ CallFails(d) \/ PodDiagnostics(d) \/ WorkloadStatus(d) \/ JobDiagnostics(d)
             \/ NodeDiagnostics(d) \/ NodeCapacity(d) \/ NodePressure(d) \/ PvcDiagnostics(d)
             \/ ServiceDiagnostics(d) \/ PdbHpaDiagnostics(d) \/ ConfigDiagnostics(d)
             \/ CertificateDiagnostics(d) \/ ServiceProbe(d) \/ PodLogs(d) \/ ListObjects(d)
             \/ Patch(d) \/ PatchMissing(d) \/ ControllerRollout(d) \/ DeploymentRollout(d)
             \/ DeleteJob(d) \/ DeletePod(d) \/ AutoscalerMissing(d) \/ PatchAutoscaler(d)
      PROVE ClusterInv' /\ RolloutTold
  <2>1. UNCHANGED autoscaler \/ PatchAutoscaler(d)
    BY <1>3
       DEF CallFails, PodDiagnostics, WorkloadStatus, JobDiagnostics, NodeDiagnostics, NodeCapacity,
           NodePressure, PvcDiagnostics, ServiceDiagnostics, PdbHpaDiagnostics, ConfigDiagnostics,
           CertificateDiagnostics, ServiceProbe, PodLogs, ListObjects, Reads, Patch, PatchMissing,
           ControllerRollout, DeploymentRollout, DeleteJob, DeletePod, AutoscalerMissing
  <2> QED
    BY <1>2, <1>3, <2>1, DispatchGoes
<1>4. ASSUME NEW d \in Dispatches, StartDispatch(d) \/ ReadJob(d) \/ ReadAutoscaler(d)
      PROVE ClusterInv' /\ RolloutTold
  <2>1. UNCHANGED autoscaler
    BY <1>4 DEF StartDispatch, ReadJob, ReadAutoscaler
  <2> QED
    BY <1>2, <1>4, <2>1, DispatchStarts, DispatchChecks
<1>5. ASSUME ControllerObserves \/ PodsFollow \/ JobMoves \/ JobIsCreated \/ UNCHANGED clusterVars
      PROVE UNCHANGED << autoscaler, dispatches >>
  BY <1>5 DEF ControllerObserves, PodsFollow, JobMoves, JobIsCreated, clusterVars
<1> QED
  BY <1>1, <1>3, <1>4, <1>5 DEF ClusterNext

(* The workload and the job, whoever moves them.                           *)
LEMMA ClusterMoves ==
  ASSUME workload \in WorkloadState, batchJob \in JobState, [ClusterNext]_clusterVars
  PROVE  workload' \in WorkloadState /\ batchJob' \in JobState
<1>1. ASSUME UNCHANGED << workload, batchJob >>
      PROVE  workload' \in WorkloadState /\ batchJob' \in JobState
  BY <1>1
<1>2. CASE ControllerObserves \/ PodsFollow
  BY <1>2 DEF ControllerObserves, PodsFollow, WorkloadState
<1>3. CASE JobMoves \/ JobIsCreated
  BY <1>3 DEF JobMoves, JobIsCreated, JobState
<1>4. ASSUME NEW d \in Dispatches, Patch(d) \/ DeleteJob(d)
      PROVE  workload' \in WorkloadState /\ batchJob' \in JobState
  BY <1>4, ClusterAssumption DEF Patch, DeleteJob, WorkloadState, Generations, JobState
<1>5. ASSUME NEW d \in Dispatches,
             \/ StartDispatch(d) \/ CallFails(d) \/ PodDiagnostics(d) \/ WorkloadStatus(d)
             \/ JobDiagnostics(d) \/ NodeDiagnostics(d) \/ NodeCapacity(d) \/ NodePressure(d)
             \/ PvcDiagnostics(d) \/ ServiceDiagnostics(d) \/ PdbHpaDiagnostics(d)
             \/ ConfigDiagnostics(d) \/ CertificateDiagnostics(d) \/ ServiceProbe(d) \/ PodLogs(d)
             \/ ListObjects(d) \/ PatchMissing(d) \/ ControllerRollout(d) \/ DeploymentRollout(d)
             \/ ReadJob(d) \/ DeletePod(d) \/ ReadAutoscaler(d) \/ AutoscalerMissing(d)
             \/ PatchAutoscaler(d)
      PROVE  UNCHANGED << workload, batchJob >>
  BY <1>5
     DEF StartDispatch, CallFails, PodDiagnostics, WorkloadStatus, JobDiagnostics, NodeDiagnostics,
         NodeCapacity, NodePressure, PvcDiagnostics, ServiceDiagnostics, PdbHpaDiagnostics,
         ConfigDiagnostics, CertificateDiagnostics, ServiceProbe, PodLogs, ListObjects, Reads,
         PatchMissing, ControllerRollout, DeploymentRollout, ReadJob, DeletePod, ReadAutoscaler,
         AutoscalerMissing, PatchAutoscaler
<1> QED
  BY <1>1, <1>2, <1>3, <1>4, <1>5 DEF ClusterNext, clusterVars

(* _controller_rollout_summary and                                         *)
(* remediate_resource_pressure_with_hpa_patch: for any number of           *)
(* dispatches, no rollout is told over that is not, and the bounds of an   *)
(* autoscaler that several of them move stay in order.                     *)
THEOREM ClusterIsTold == ClusterSpec => ClusterKept
<1> DEFINE Inv == ClusterInv /\ workload \in WorkloadState /\ batchJob \in JobState
<1>1. ClusterInit => Inv
  <2> SUFFICES ASSUME ClusterInit PROVE Inv
    OBVIOUS
  <2>1. AnySize \in Asked
    BY ClusterAssumption DEF AnySize, Asked
  <2>2. Unused \in SoundDispatch
    BY <2>1 DEF Unused, SoundDispatch, Dispatch, Outcomes
  <2>3. autoscaler \in Sizes /\ workload \in WorkloadState
    BY ClusterAssumption DEF ClusterInit, Sizes, WorkloadState, Generations
  <2> QED
    BY <2>2, <2>3 DEF ClusterInit, ClusterInv, BoundsOrdered, JobState
<1>2. Inv /\ [ClusterNext]_clusterVars => Inv' /\ RolloutTold
  BY ClusterStep, ClusterMoves
<1>3. Inv => ClusterTypeOK /\ BoundsOrdered
  BY DEF ClusterInv, Sizes, SoundDispatch, ClusterTypeOK
<1> QED
  BY <1>1, <1>2, <1>3, PTL DEF ClusterSpec, ClusterKept

-----------------------------------------------------------------------------
(* The alert rules: rule objects and their files.                          *)

(* An object, or a copy of one, in which a rule as the repository has it   *)
(* names its file.                                                         *)
SoundObject(q) ==
  /\ q.version \in Nat /\ q.version <= clock
  /\ q.rules \in [Rules -> Content]
  /\ \A r \in Rules : q.rules[r] = "repo" => r \in q.sources

(* What a dispatch has read: as long as the object has that version, it    *)
(* has those rules.                                                        *)
UpToDateCopy(x) ==
  /\ SoundObject(x.seen)
  /\ object[x.object] # NoObject /\ object[x.object].version = x.seen.version =>
       object[x.object].rules = x.seen.rules

SoundWriter(x) ==
  x.at # "idle" =>
    /\ DOMAIN x = {"at", "rule", "object", "content", "sourced", "seen"}
    /\ x.at \in {"patching", "creating", "dropping"}
    /\ x.object \in Rules => UpToDateCopy(x)
    /\ x.rule \in Rules => x.content \in Content
    /\ x.content = "repo" => x.sourced = TRUE

RulesInv ==
  /\ clock \in Nat
  /\ DOMAIN object = Rules /\ \A o \in Rules : SoundObject(object[o])
  /\ DOMAIN writer = RuleWriters /\ \A w \in RuleWriters : SoundWriter(writer[w])
  /\ file \in Files /\ fileRead \in Files /\ proposal \in Files

(* A rule's object that is not there has no rules.                         *)
LEMMA NoObjectSound ==
  ASSUME clock \in Nat
  PROVE  SoundObject(NoObject) /\ NoObject.rules = NoRules /\ NoRules \in [Rules -> Content]
BY DEF SoundObject, NoObject, NoRules, Content

(* A dispatch reads; the objects stay as they are.                         *)
LEMMA RuleReadSteps ==
  ASSUME RulesInv, NEW w \in RuleWriters, NEW at \in {"patching", "creating", "dropping"},
         NEW r, NEW o, NEW content, NEW sourced \in BOOLEAN,
         r \in Rules => content \in Content, content = "repo" => sourced = TRUE,
         Turn(w, at, r, o, content, sourced), UNCHANGED << object, clock >>,
         file' \in Files, fileRead' \in Files, proposal' \in Files
  PROVE  RulesInv'
<1>1. PICK x : x = [at |-> at, rule |-> r, object |-> o, content |-> content,
                    sourced |-> sourced, seen |-> object[o]]
  OBVIOUS
<1>2. writer' = [writer EXCEPT ![w] = x]
  BY <1>1 DEF Turn
<1>3. /\ x.at = at /\ x.rule = r /\ x.object = o /\ x.content = content /\ x.sourced = sourced
      /\ x.seen = object[o] /\ DOMAIN x = {"at", "rule", "object", "content", "sourced", "seen"}
  BY <1>1
<1>4. SoundWriter(x)
  BY <1>3 DEF SoundWriter, UpToDateCopy, RulesInv
<1>5. \A u \in RuleWriters : writer'[u] = IF u = w THEN x ELSE writer[u]
  BY <1>2 DEF RulesInv
<1>6. \A u \in RuleWriters : SoundWriter(writer'[u])
  BY <1>4, <1>5 DEF RulesInv
<1>7. \A u \in RuleWriters : SoundWriter(writer[u])'
  BY <1>6 DEF SoundWriter, UpToDateCopy, SoundObject
<1>8. \A p \in Rules : SoundObject(object[p])'
  BY DEF RulesInv, SoundObject
<1> QED
  BY <1>2, <1>7, <1>8 DEF RulesInv

(* A dispatch ends, with the objects as they are.                          *)
LEMMA RuleEndSteps ==
  ASSUME RulesInv, NEW w \in RuleWriters, writer[w].at # "idle", Ends(w)
  PROVE  /\ DOMAIN writer' = RuleWriters /\ writer'[w].at = "idle"
         /\ \A u \in RuleWriters \ {w} : writer'[u] = writer[u]
BY DEF RulesInv, SoundWriter, Ends

(* A write gives one object a version that nobody has seen.                *)
LEMMA RuleWriteSteps ==
  ASSUME RulesInv, NEW w \in RuleWriters, writer[w].at # "idle", Ends(w),
         NEW q, NEW o, object' = [object EXCEPT ![o] = q], SoundObject(q)',
         \/ q = NoObject /\ UNCHANGED clock
         \/ q.version = clock + 1 /\ clock' = clock + 1,
         UNCHANGED << file, fileRead, proposal >>
  PROVE  RulesInv'
<1>1. clock' \in Nat /\ clock <= clock'
  BY DEF RulesInv
<1>2. DOMAIN object' = Rules /\ \A p \in Rules : object'[p] = IF p = o THEN q ELSE object[p]
  BY DEF RulesInv
<1>3. ASSUME NEW p, SoundObject(p) PROVE SoundObject(p)'
  BY <1>1, <1>3 DEF SoundObject, RulesInv
<1>4. ASSUME NEW p \in Rules PROVE SoundObject(object[p])'
  <2>1. PICK c : c = object[p]
    OBVIOUS
  <2>2. SoundObject(c)'
    BY <1>3, <2>1 DEF RulesInv
  <2>3. object'[p] = IF p = o THEN q ELSE c
    BY <1>2, <2>1
  <2> QED
    BY <2>2, <2>3 DEF SoundObject
<1>5. ASSUME NEW u \in RuleWriters PROVE SoundWriter(writer[u])'
  <2>1. CASE u = w
    BY <2>1, RuleEndSteps DEF SoundWriter
  <2>2. CASE u # w
    <3>1. PICK x : x = writer[u]
      OBVIOUS
    <3>2. writer'[u] = x /\ SoundWriter(x)
      BY <2>2, <3>1, RuleEndSteps DEF RulesInv
    <3>3. ASSUME x.at # "idle", x.object \in Rules PROVE UpToDateCopy(x)'
      <4>1. SoundObject(x.seen) /\ UpToDateCopy(x)
        BY <3>2, <3>3 DEF SoundWriter, UpToDateCopy
      <4>2. PICK s : s = x.seen
        OBVIOUS
      <4>3. SoundObject(s)'
        BY <1>3, <4>1, <4>2
      <4>4. s.version \in Nat /\ s.version <= clock
        BY <4>1, <4>2 DEF SoundObject
      <4>5. object'[x.object] = IF x.object = o THEN q ELSE object[x.object]
        BY <1>2, <3>3
      <4>6. q = NoObject \/ q.version # s.version
        BY <4>4 DEF RulesInv
      <4> QED
        BY <4>1, <4>2, <4>3, <4>5, <4>6 DEF UpToDateCopy, SoundObject
    <3> QED
      BY <3>2, <3>3 DEF SoundWriter, UpToDateCopy, SoundObject
  <2> QED
    BY <2>1, <2>2
<1> QED
  BY <1>1, <1>2, <1>4, <1>5, RuleEndSteps DEF RulesInv

(* Operators and the content sync read.                                    *)
LEMMA RuleStartStep ==
  ASSUME RulesInv,
         \/ \E w \in RuleDispatches : StartEdit(w) \/ StartDelete(w)
         \/ SyncRule
  PROVE  RulesInv' /\ UNCHANGED object
<1>0. /\ UNCHANGED << object, clock, file, fileRead, proposal >>
      /\ file' \in Files /\ fileRead' \in Files /\ proposal' \in Files
  BY DEF StartEdit, StartDelete, SyncRule, RulesInv
<1>1. ASSUME NEW w \in RuleDispatches, StartEdit(w) PROVE RulesInv'
  <2>1. PICK r \in Rules, o \in Rules : ReadToApply(w, r, o, "edited", FALSE)
    BY <1>1 DEF StartEdit
  <2>2. PICK h : Turn(w, "patching", r, h, "edited", FALSE) \/ Turn(w, "creating", r, h, "edited", FALSE)
    BY <2>1 DEF ReadToApply
  <2>3. w \in RuleWriters /\ "edited" \in Content
    BY DEF RuleWriters, Content
  <2> QED
    BY <1>0, <2>2, <2>3, RuleReadSteps
<1>2. ASSUME NEW w \in RuleDispatches, StartDelete(w) PROVE RulesInv'
  <2>1. PICK r \in Rules, o \in Rules, at \in {"patching", "dropping"} : Turn(w, at, r, o, "none", FALSE)
    BY <1>2 DEF StartDelete
  <2>2. w \in RuleWriters /\ "none" \in Content
    BY DEF RuleWriters, Content
  <2> QED
    BY <1>0, <2>1, <2>2, RuleReadSteps
<1>3. CASE SyncRule
  <2>1. PICK r : ReadToApply(ContentSync, r, r, fileRead[r], TRUE)
    BY <1>3 DEF SyncRule
  <2>2. PICK h : Turn(ContentSync, "patching", r, h, fileRead[r], TRUE) \/ Turn(ContentSync, "creating", r, h, fileRead[r], TRUE)
    BY <2>1 DEF ReadToApply
  <2>3. ContentSync \in RuleWriters /\ (r \in Rules => fileRead[r] \in Content)
    BY DEF RuleWriters, RulesInv, Files
  <2> QED
    BY <1>0, <2>2, <2>3, RuleReadSteps
<1> QED
  BY <1>0, <1>1, <1>2, <1>3

(* The sources that an object is written with: those of the other rules,   *)
(* and the rule's own if it comes from the repository.                     *)
SourcesFor(x, sources) ==
  /\ \A r \in Rules : r \in x.seen.sources /\ (r # x.rule \/ x.content # "none") => r \in sources
  /\ x.sourced = TRUE => x.rule \in sources

(* The sources of an object that is written.                               *)
LEMMA AppliedSound ==
  ASSUME clock \in Nat, NEW x, SoundWriter(x), x.at # "idle", SoundObject(x.seen),
         NEW sources, NEW q, q = Applied(x, sources), clock' = clock + 1,
         SourcesFor(x, sources)
  PROVE  /\ SoundObject(q)' /\ q.version = clock + 1
         /\ \A r \in Rules : r # x.rule => q.rules[r] = x.seen.rules[r]
<1>1. /\ q.version = clock + 1 /\ q.rules = [x.seen.rules EXCEPT ![x.rule] = x.content]
      /\ q.sources = sources
  BY DEF Applied
<1>2. x.seen.rules \in [Rules -> Content] /\ (x.rule \in Rules => x.content \in Content)
  BY DEF SoundObject, SoundWriter
<1>3. /\ q.rules \in [Rules -> Content]
      /\ \A r \in Rules : q.rules[r] = IF r = x.rule THEN x.content ELSE x.seen.rules[r]
  BY <1>1, <1>2
<1>4. ASSUME NEW r \in Rules, q.rules[r] = "repo" PROVE r \in sources
  <2>1. CASE r = x.rule
    BY <1>3, <1>4, <2>1 DEF SoundWriter, SourcesFor
  <2>2. CASE r # x.rule
    BY <1>3, <1>4, <2>2 DEF SoundObject, SourcesFor
  <2> QED
    BY <2>1, <2>2
<1>5. q.version \in Nat /\ q.version <= clock'
  BY <1>1
<1>6. SoundObject(q)'
  BY <1>1, <1>3, <1>4, <1>5 DEF SoundObject
<1>7. \A r \in Rules : r # x.rule => q.rules[r] = x.seen.rules[r]
  BY <1>3
<1> QED
  BY <1>1, <1>6, <1>7

(* A dispatch writes what it has read with its own rule changed, or deletes*)
(* an object; nobody else's rule changes, but for a deletion.              *)
LEMMA PatchStep ==
  ASSUME RulesInv, NEW w \in RuleWriters, PatchObject(w) \/ CreateObject(w)
  PROVE  RulesInv' /\ OwnRuleOnly
<1>1. PICK x : x = writer[w]
  OBVIOUS
<1>2. /\ SoundWriter(x) /\ x.at \in {"patching", "creating"} /\ x.at # "idle" /\ clock \in Nat
      /\ clock' = clock + 1 /\ Ends(w) /\ UNCHANGED << file, fileRead, proposal >>
  BY <1>1 DEF RulesInv, PatchObject, CreateObject
<1>3. PICK q : /\ object' = [object EXCEPT ![x.object] = q]
               /\ SoundObject(q)' \/ x.object \notin Rules
               /\ q.version = clock + 1
               /\ x.object \in Rules => \A r \in Rules : r # x.rule => q.rules[r] = object[x.object].rules[r]
  <2>1. CASE PatchObject(w)
    <3>1. PICK q : q = Applied(x, Sources(x))
      OBVIOUS
    <3>2. object' = [object EXCEPT ![x.object] = q] /\ q.version = clock + 1
      BY <1>1, <2>1, <3>1 DEF PatchObject, Applied
    <3>3. ASSUME x.object \in Rules
          PROVE  SoundObject(q)' /\ \A r \in Rules : r # x.rule => q.rules[r] = object[x.object].rules[r]
      <4>1. UpToDateCopy(x) /\ SoundObject(x.seen)
        BY <1>2, <3>3 DEF SoundWriter, UpToDateCopy
      <4>2. object[x.object].rules = x.seen.rules
        BY <1>1, <2>1, <3>3, <4>1 DEF PatchObject, UpToDate, UpToDateCopy
      <4>3. PICK sources : sources = Sources(x)
        OBVIOUS
      <4>4. SourcesFor(x, sources)
        BY <4>3 DEF Sources, SourcesFor
      <4>5. q = Applied(x, sources)
        BY <3>1, <4>3
      <4>6. SoundObject(q)' /\ \A r \in Rules : r # x.rule => q.rules[r] = x.seen.rules[r]
        BY <1>2, <4>1, <4>4, <4>5, AppliedSound
      <4> QED
        BY <4>2, <4>6
    <3> QED
      BY <3>2, <3>3
  <2>2. CASE CreateObject(w)
    <3>1. PICK y : y = [x EXCEPT !.seen = NoObject]
      OBVIOUS
    <3>2. /\ y.at = x.at /\ y.rule = x.rule /\ y.object = x.object /\ y.content = x.content
          /\ y.sourced = x.sourced /\ y.seen = NoObject /\ DOMAIN y = DOMAIN x
      BY <1>2, <3>1 DEF SoundWriter
    <3>3. PICK sources : sources = IF x.sourced THEN {x.rule} ELSE {}
      OBVIOUS
    <3>4. PICK q : q = Applied(y, sources)
      OBVIOUS
    <3>5. object' = [object EXCEPT ![x.object] = q] /\ q.version = clock + 1
      BY <1>1, <2>2, <3>1, <3>3, <3>4 DEF CreateObject, Applied
    <3>6. object[x.object] = NoObject
      BY <1>1, <2>2 DEF CreateObject
    <3>7. SoundObject(NoObject) /\ NoObject.sources = {}
      BY <1>2, NoObjectSound DEF NoObject
    <3>8. ASSUME x.object \in Rules PROVE SoundWriter(y)
      <4>1. UpToDateCopy(y)
        BY <3>2, <3>6, <3>7 DEF UpToDateCopy
      <4> QED
        BY <1>2, <3>2, <4>1 DEF SoundWriter
    <3>9. ASSUME x.object \in Rules
          PROVE  SoundObject(q)' /\ \A r \in Rules : r # x.rule => q.rules[r] = NoObject.rules[r]
      <4>1. SourcesFor(y, sources)
        BY <3>2, <3>3, <3>7 DEF SourcesFor
      <4>2. SoundObject(y.seen) /\ y.at # "idle" /\ SoundWriter(y)
        BY <1>2, <3>2, <3>7, <3>8, <3>9
      <4>3. SoundObject(q)' /\ \A r \in Rules : r # y.rule => q.rules[r] = y.seen.rules[r]
        BY <1>2, <3>4, <4>1, <4>2, AppliedSound
      <4> QED
        BY <3>2, <4>3
    <3> QED
      BY <3>5, <3>6, <3>9
  <2> QED
    BY <2>1, <2>2
<1>4. writer'[w].at = "idle"
  BY <1>1, <1>2, RuleEndSteps
<1>5. OwnRuleOnly
  <2>1. ASSUME NEW o \in Rules, NEW r \in Rules, object'[o].rules[r] # object[o].rules[r]
        PROVE  o = x.object /\ r = x.rule
    <3>1. o = x.object
      BY <1>3, <2>1 DEF RulesInv
    <3>2. object'[o] = q
      BY <1>3, <3>1 DEF RulesInv
    <3> QED
      BY <1>3, <2>1, <3>1, <3>2
  <2> QED
    BY <1>1, <1>2, <1>4, <2>1 DEF OwnRuleOnly
<1>6. CASE x.object \in Rules
  <2>1. SoundObject(q)' /\ object' = [object EXCEPT ![x.object] = q] /\ q.version = clock + 1
    BY <1>3, <1>6
  <2>2. writer[w].at # "idle"
    BY <1>1, <1>2
  <2>3. PICK o : o = x.object
    OBVIOUS
  <2>4. object' = [object EXCEPT ![o] = q]
    BY <2>1, <2>3
  <2>5. RulesInv'
    BY <1>2, <2>1, <2>2, <2>4, RuleWriteSteps
  <2> QED
    BY <1>5, <2>5
<1>7. CASE x.object \notin Rules
  <2>1. PICK p : p = [NoObject EXCEPT !.version = clock + 1]
    OBVIOUS
  <2>2. p.version = clock + 1 /\ p.rules = NoObject.rules /\ p.sources = NoObject.sources
    BY <2>1 DEF NoObject
  <2>3. SoundObject(p)'
    BY <1>2, <2>2, NoObjectSound DEF SoundObject, NoObject, NoRules
  <2>4. object' = [object EXCEPT ![x.object] = p]
    BY <1>3, <1>7 DEF RulesInv
  <2>5. writer[w].at # "idle"
    BY <1>1, <1>2
  <2>6. PICK o : o = x.object
    OBVIOUS
  <2>7. object' = [object EXCEPT ![o] = p]
    BY <2>4, <2>6
  <2>8. RulesInv'
    BY <1>2, <2>2, <2>3, <2>5, <2>7, RuleWriteSteps
  <2> QED
    BY <1>5, <2>8
<1> QED
  BY <1>5, <1>6, <1>7

(* An object is deleted whatever it holds, and a write that fails writes   *)
(* nothing.                                                                *)
LEMMA DropStep ==
  ASSUME RulesInv, NEW w \in RuleWriters, DropObject(w) \/ WriteFails(w)
  PROVE  RulesInv' /\ OwnRuleOnly
<1>1. /\ writer[w].at # "idle" /\ Ends(w) /\ UNCHANGED << clock, file, fileRead, proposal >>
  BY DEF DropObject, WriteFails
<1>2. writer'[w].at = "idle"
  BY <1>1, RuleEndSteps
<1>3. CASE DropObject(w)
  <2>1. PICK o : o = writer[w].object
    OBVIOUS
  <2>2. object' = [object EXCEPT ![o] = NoObject] /\ writer[w].at = "dropping"
    BY <1>3, <2>1 DEF DropObject
  <2>3. SoundObject(NoObject)'
    BY <1>1, NoObjectSound DEF RulesInv, SoundObject
  <2>4. RulesInv'
    BY <1>1, <2>2, <2>3, RuleWriteSteps
  <2>5. \A p \in Rules : p # o => object'[p] = object[p]
    BY <2>2 DEF RulesInv
  <2> QED
    BY <1>2, <2>1, <2>2, <2>4, <2>5 DEF OwnRuleOnly
<1>4. CASE WriteFails(w)
  <2>1. UNCHANGED object
    BY <1>4 DEF WriteFails
  <2>2. \A p \in Rules : SoundObject(object[p])'
    BY <1>1, <2>1 DEF RulesInv, SoundObject
  <2>3. ASSUME NEW u \in RuleWriters PROVE SoundWriter(writer[u])'
    <3>1. CASE u = w
      BY <1>2, <3>1 DEF SoundWriter
    <3>2. CASE u # w
      <4>1. writer'[u] = writer[u]
        BY <1>1, <3>2, RuleEndSteps
      <4> QED
        BY <1>1, <2>1, <4>1 DEF RulesInv, SoundWriter, UpToDateCopy, SoundObject
    <3> QED
      BY <3>1, <3>2
  <2> QED
    BY <1>1, <2>1, <2>2, <2>3, RuleEndSteps DEF RulesInv, OwnRuleOnly
<1> QED
  BY <1>3, <1>4

(* The repository.                                                         *)
LEMMA RepositoryStep ==
  ASSUME RulesInv, StartContentSync \/ ExportRules \/ MergeProposal \/ UNCHANGED ruleVars
  PROVE  RulesInv' /\ UNCHANGED object
<1>1. UNCHANGED << object, clock, writer >>
  BY DEF StartContentSync, ExportRules, MergeProposal, ruleVars
<1>2. file' \in Files /\ fileRead' \in Files /\ proposal' \in Files
  <2>1. NoRules \in Files
    BY DEF NoRules, Files, Content
  <2> QED
    BY <2>1 DEF RulesInv, StartContentSync, ExportRules, MergeProposal, ruleVars
<1> QED
  BY <1>1, <1>2 DEF RulesInv, SoundObject, SoundWriter, UpToDateCopy

(* The types.  A dispatch reads an object of its rule, or of a rule's name. *)
LEMMA RuleReadTypes ==
  ASSUME RulesTypeOK, NEW w \in RuleWriters, NEW at \in {"patching", "creating", "dropping"},
         NEW r \in Rules, NEW o \in Rules, NEW content \in Content, NEW sourced \in BOOLEAN,
         Turn(w, at, r, o, content, sourced)
  PROVE  writer' \in [RuleWriters -> RuleWriter]
<1>1. object[o] \in RuleObject /\ writer \in [RuleWriters -> RuleWriter]
  BY DEF RulesTypeOK
<1>2. [at |-> at, rule |-> r, object |-> o, content |-> content,
       sourced |-> sourced, seen |-> object[o]] \in RuleWriter
  BY <1>1 DEF RuleWriter
<1> QED
  BY <1>1, <1>2 DEF Turn

LEMMA ReadToApplyTypes ==
  ASSUME RulesTypeOK, NEW w \in RuleWriters, NEW r \in Rules, NEW o \in Rules,
         NEW content \in Content, NEW sourced \in BOOLEAN,
         ReadToApply(w, r, o, content, sourced)
  PROVE  writer' \in [RuleWriters -> RuleWriter]
<1>1. PICK h \in Rules : \/ Turn(w, "patching", r, h, content, sourced)
                        \/ Turn(w, "creating", r, h, content, sourced)
  BY DEF ReadToApply, Holding
<1> QED
  BY <1>1, RuleReadTypes

(* A dispatch that ends has let go of what it read.                        *)
LEMMA RuleEndTypes ==
  ASSUME RulesTypeOK, NEW w \in RuleWriters, Ends(w)
  PROVE  writer' \in [RuleWriters -> RuleWriter]
<1>1. NoObject \in RuleObject
  BY RulesAssumption DEF NoObject, NoRules, RuleObject, Files, Content
<1> QED
  BY <1>1 DEF RulesTypeOK, RuleWriter, Ends

(* What is written: the next version, with rules and sources.              *)
LEMMA AppliedTypes ==
  ASSUME clock \in 0 .. MaxVersion, clock < MaxVersion, NEW x \in RuleWriter,
         NEW sources \in SUBSET Rules
  PROVE  Applied(x, sources) \in RuleObject
<1>1. clock + 1 \in 0 .. MaxVersion
  BY RulesAssumption
<1>2. x.seen.rules \in [Rules -> Content] /\ x.rule \in Rules /\ x.content \in Content
  BY DEF RuleWriter, RuleObject, Files
<1>3. [x.seen.rules EXCEPT ![x.rule] = x.content] \in [Rules -> Content]
  BY <1>2
<1> QED
  BY <1>1, <1>3 DEF Applied, RuleObject, Files

LEMMA RuleWriteTypes ==
  ASSUME RulesTypeOK, NEW w \in RuleWriters, PatchObject(w) \/ CreateObject(w)
  PROVE  RulesTypeOK'
<1> DEFINE x == writer[w]
<1>1. x \in RuleWriter /\ clock \in 0 .. MaxVersion /\ clock < MaxVersion /\ clock' = clock + 1
  BY DEF RulesTypeOK, PatchObject, CreateObject
<1>2. x.object \in Rules /\ x.rule \in Rules /\ x.seen \in RuleObject
  BY <1>1 DEF RuleWriter
<1>3. NoObject \in RuleObject
  BY RulesAssumption DEF NoObject, NoRules, RuleObject, Files, Content
<1>4. PICK q \in RuleObject : object' = [object EXCEPT ![x.object] = q]
  <2>1. CASE PatchObject(w)
    <3>1. Sources(x) \in SUBSET Rules
      BY <1>2 DEF Sources, RuleObject
    <3>2. Applied(x, Sources(x)) \in RuleObject
      BY <1>1, <3>1, AppliedTypes
    <3> QED
      BY <2>1, <3>2 DEF PatchObject
  <2>2. CASE CreateObject(w)
    <3> DEFINE y == [x EXCEPT !.seen = NoObject]
               sources == IF x.sourced THEN {x.rule} ELSE {}
    <3>1. y \in RuleWriter
      BY <1>1, <1>3 DEF RuleWriter
    <3>2. sources \in SUBSET Rules
      BY <1>2
    <3>3. Applied(y, sources) \in RuleObject
      <4> HIDE DEF y, sources
      <4> QED
        BY <1>1, <3>1, <3>2, AppliedTypes
    <3> QED
      BY <2>2, <3>3 DEF CreateObject
  <2> QED
    BY <2>1, <2>2
<1>5. object' \in [Rules -> RuleObject]
  BY <1>4 DEF RulesTypeOK
<1>6. clock' \in 0 .. MaxVersion
  BY <1>1, RulesAssumption
<1>7. writer' \in [RuleWriters -> RuleWriter]
  BY RuleEndTypes DEF PatchObject, CreateObject
<1>8. unsynced' \subseteq DOMAIN Catalog
  BY DEF RulesTypeOK, PatchObject, CreateObject, AfterThis
<1>9. UNCHANGED << file, fileRead, proposal >>
  BY DEF PatchObject, CreateObject
<1> QED
  BY <1>5, <1>6, <1>7, <1>8, <1>9 DEF RulesTypeOK

LEMMA RulesTypeStep ==
  ASSUME RulesTypeOK, [RulesNext]_ruleVars
  PROVE  RulesTypeOK'
<1>1. NoObject \in RuleObject /\ NoRules \in Files
  BY RulesAssumption DEF NoObject, NoRules, RuleObject, Files, Content
<1>2. ASSUME NEW w \in RuleDispatches, StartEdit(w) PROVE RulesTypeOK'
  <2>1. w \in RuleWriters /\ "edited" \in Content
    BY DEF RuleWriters, Content
  <2>2. writer' \in [RuleWriters -> RuleWriter]
    BY <1>2, <2>1, ReadToApplyTypes DEF StartEdit
  <2> QED
    BY <1>2, <2>2 DEF RulesTypeOK, StartEdit
<1>3. ASSUME NEW w \in RuleDispatches, StartDelete(w) PROVE RulesTypeOK'
  <2>1. w \in RuleWriters /\ "none" \in Content
    BY DEF RuleWriters, Content
  <2>2. PICK r \in Rules, o \in Rules, at \in {"patching", "dropping"} : Turn(w, at, r, o, "none", FALSE)
    BY <1>3 DEF StartDelete
  <2>3. writer' \in [RuleWriters -> RuleWriter]
    BY <2>1, <2>2, RuleReadTypes
  <2> QED
    BY <1>3, <2>3 DEF RulesTypeOK, StartDelete
<1>4. ASSUME NEW w \in RuleWriters, DropObject(w) \/ WriteFails(w) PROVE RulesTypeOK'
  <2>1. writer' \in [RuleWriters -> RuleWriter]
    BY <1>4, RuleEndTypes DEF DropObject, WriteFails
  <2>2. object' \in [Rules -> RuleObject]
    BY <1>1, <1>4 DEF RulesTypeOK, DropObject, WriteFails
  <2> QED
    BY <1>4, <2>1, <2>2 DEF RulesTypeOK, DropObject, WriteFails
<1>5. CASE SyncRule
  <2>1. PICK i \in unsynced : ReadToApply(ContentSync, Catalog[i], Catalog[i], fileRead[Catalog[i]], TRUE)
    BY <1>5 DEF SyncRule
  <2>2. Catalog[i] \in Rules
    BY <2>1, RulesAssumption, ElementOfSeq, LenProperties DEF RulesTypeOK
  <2>3. ContentSync \in RuleWriters /\ fileRead[Catalog[i]] \in Content
    BY <2>2 DEF RuleWriters, RulesTypeOK, Files
  <2>4. writer' \in [RuleWriters -> RuleWriter]
    BY <2>1, <2>2, <2>3, ReadToApplyTypes
  <2> QED
    BY <1>5, <2>4 DEF RulesTypeOK, SyncRule
<1>6. CASE StartContentSync
  BY <1>6 DEF RulesTypeOK, StartContentSync
<1>7. CASE ExportRules
  BY <1>7 DEF RulesTypeOK, ExportRules
<1>8. CASE MergeProposal
  BY <1>1, <1>8 DEF RulesTypeOK, MergeProposal
<1>9. CASE UNCHANGED ruleVars
  BY <1>9 DEF RulesTypeOK, ruleVars
<1> QED
  BY <1>2, <1>3, <1>4, <1>5, <1>6, <1>7, <1>8, <1>9, RuleWriteTypes DEF RulesNext

(* create_or_update_rule, delete_rule and the content sync: for any rules, *)
(* objects and dispatches that overlap, a write changes no rule but its    *)
(* own unless it deletes the object, a rule as the repository has it names *)
(* its file, and every object, copy and file keeps its type.               *)
THEOREM RulesAreKept == RulesSpec => RulesKept
<1>1. RulesInit => RulesInv
  <2> SUFFICES ASSUME RulesInit PROVE RulesInv
    OBVIOUS
  <2>1. clock \in Nat /\ clock = 0
    BY DEF RulesInit
  <2>2. NoRules \in Files /\ file \in Files
    BY DEF RulesInit, NoRules, Files, Content
  <2>3. \A o \in Rules : SoundObject(object[o])
    BY <2>1, NoObjectSound DEF RulesInit
  <2>4. DOMAIN writer = RuleWriters /\ \A w \in RuleWriters : SoundWriter(writer[w])
    BY DEF RulesInit, SoundWriter, Unoccupied
  <2> QED
    BY <2>1, <2>2, <2>3, <2>4 DEF RulesInit, RulesInv
<1>2. RulesInv /\ [RulesNext]_ruleVars => RulesInv' /\ OwnRuleOnly
  <2> SUFFICES ASSUME RulesInv, [RulesNext]_ruleVars PROVE RulesInv' /\ OwnRuleOnly
    OBVIOUS
  <2>1. ASSUME UNCHANGED object PROVE OwnRuleOnly
    BY <2>1 DEF OwnRuleOnly
  <2> QED
    BY <2>1, RuleStartStep, PatchStep, DropStep, RepositoryStep DEF RulesNext
<1>3. RulesInv => SourceKnown
  BY DEF RulesInv, SoundObject, SourceKnown
<1>4. RulesInit => RulesTypeOK
  <2> SUFFICES ASSUME RulesInit PROVE RulesTypeOK
    OBVIOUS
  <2>1. NoRules \in Files /\ NoObject \in RuleObject
    BY RulesAssumption DEF NoObject, NoRules, RuleObject, Files, Content
  <2>2. Unoccupied \in RuleWriter
    BY <2>1, RulesAssumption DEF Unoccupied, RuleWriter, Content
  <2>3. file \in Files
    BY DEF RulesInit, Files, Content
  <2> QED
    BY <2>1, <2>2, <2>3, RulesAssumption DEF RulesInit, RulesTypeOK
<1>5. RulesTypeOK /\ [RulesNext]_ruleVars => RulesTypeOK'
  BY RulesTypeStep
<1> QED
  BY <1>1, <1>2, <1>3, <1>4, <1>5, PTL DEF RulesSpec, RulesKept

-----------------------------------------------------------------------------
(* StackStorm: jobs, executions and the sync of the shipped actions.       *)

(* A row without an answer has no receipt, one that is polled has, and one *)
(* that succeeded names an execution that did.                             *)
SoundJob(r) ==
  /\ r \in Job
  /\ r.at \in {"planned", "posting"} => r.receipt = NoExecution
  /\ r.at = "polling" => r.receipt \in ExecutionIds
  /\ r.status = "succeeded" => r.receipt \in ExecutionIds /\ executions[r.receipt].status = "succeeded"

JobsSound ==
  /\ executions \in Seq(Execution)
  /\ jobs \in [Jobs -> Job] /\ \A j \in Jobs : SoundJob(jobs[j])
  /\ HeardOnce

(* What a sync has been through is as shipped.                             *)
SyncSound ==
  /\ definitions \in [ShippedActions -> Definitions]
  /\ contentSync \in SyncPhase
  /\ contentSync.at \in {"visiting", "succeeded"} =>
       \A x \in ShippedActions \ contentSync.todo : definitions[x] = "shipped"
  /\ contentSync.at \in Definitions =>
       \A x \in ShippedActions \ contentSync.todo : x # contentSync.now => definitions[x] = "shipped"
  /\ contentSync.at = "shipped" => definitions[contentSync.now] = "shipped"
  /\ contentSync.at = "succeeded" => contentSync.todo = {}

StackStormInv == JobsSound /\ SyncSound

(* Executions are of rows.                                                 *)
LEMMA ExecutionOfJob ==
  ASSUME JobsSound, NEW e \in ExecutionIds
  PROVE  executions[e] \in Execution /\ executions[e].job \in Jobs
<1>1. executions[e] \in Execution
  BY ElementOfSeq, LenProperties DEF JobsSound, ExecutionIds
<1> QED
  BY <1>1 DEF Execution

(* A row that reports a status, or goes on without an answer.              *)
LEMMA ReportedRecord ==
  ASSUME NEW q \in Job,
         NEW status \in {"pending", "dispatched", "running", "succeeded", "failed", "errored", "canceled"}
  PROVE  /\ Reported(q, status) \in Job /\ Reported(q, status).receipt = q.receipt
         /\ Reported(q, status).status = status /\ Reported(q, status).at \in {"polling", "ended"}
         /\ status = "errored" => Reported(q, status).at = "ended"
BY DEF Reported, Job

(* A request that is sent again, or given up.                              *)
LEMMA ResentRecord ==
  ASSUME NEW q, SoundJob(q), q.at = "posting", NEW r \in {Repeated(q), Resent(q)}
  PROVE  SoundJob(r) /\ r.receipt = q.receipt
<1>0. q \in Job /\ MaxTries \in Nat /\ MaxPosts \in Nat
  BY StackStormAssumption DEF SoundJob
<1>1. /\ q.tries < MaxTries => q.tries + 1 \in 0 .. MaxTries
      /\ q.posts < MaxPosts => q.posts + 1 \in 0 .. MaxPosts
      /\ 1 \in 0 .. MaxPosts
  BY <1>0, StackStormAssumption DEF Job
<1>2. CASE q.tries < MaxTries /\ r = [q EXCEPT !.tries = @ + 1, !.posts = 1]
  <2>1. r = [q EXCEPT !.tries = q.tries + 1, !.posts = 1]
    BY <1>2
  <2>2. /\ r \in Job /\ r.at = q.at /\ r.receipt = q.receipt /\ r.status = q.status
    BY <1>0, <1>1, <1>2, <2>1 DEF Job
  <2> QED
    BY <2>2 DEF SoundJob
<1>3. CASE r = Reported(q, "errored")
  <2>1. /\ r \in Job /\ r.receipt = q.receipt /\ r.at = "ended" /\ r.status = "errored"
    BY <1>0, <1>3, ReportedRecord
  <2> QED
    BY <2>1 DEF SoundJob
<1>4. CASE q.posts < MaxPosts /\ r = [q EXCEPT !.posts = @ + 1]
  <2>1. r = [q EXCEPT !.posts = q.posts + 1]
    BY <1>4
  <2>2. /\ r \in Job /\ r.at = q.at /\ r.receipt = q.receipt /\ r.status = q.status
    BY <1>0, <1>1, <1>4, <2>1 DEF Job
  <2> QED
    BY <2>2 DEF SoundJob
<1> QED
  BY <1>2, <1>3, <1>4 DEF Repeated, Resent

(* Executions that only begin and never come back from their end.          *)
Further ==
  /\ ExecutionIds \subseteq ExecutionIds'
  /\ \A e \in ExecutionIds : executions[e].status = "succeeded" => executions'[e].status = "succeeded"

(* A sound row remains one as the executions go on.                        *)
LEMMA SoundStays ==
  ASSUME Further, NEW r, SoundJob(r)
  PROVE  SoundJob(r)'
BY DEF Further, SoundJob

(* One row changes and hears of nothing new.                               *)
LEMMA OneJobMoves ==
  ASSUME JobsSound, executions' \in Seq(Execution), Further, HeardOnce',
         NEW j \in Jobs, NEW r, SoundJob(r)', jobs' = [jobs EXCEPT ![j] = r]
  PROVE  JobsSound'
<1>1. jobs' \in [Jobs -> Job]
  BY DEF JobsSound, SoundJob
<1>2. ASSUME NEW i \in Jobs PROVE SoundJob(jobs[i])'
  <2>1. PICK q : q = jobs[i]
    OBVIOUS
  <2>2. SoundJob(q)'
    BY <2>1, SoundStays DEF JobsSound
  <2>3. jobs'[i] = IF i = j THEN r ELSE q
    BY <1>2, <2>1 DEF JobsSound
  <2> QED
    BY <2>2, <2>3 DEF SoundJob
<1> QED
  BY <1>1, <1>2 DEF JobsSound

(* One row changes and keeps its receipt.                                  *)
LEMMA OneJobAlone ==
  ASSUME JobsSound, NEW j \in Jobs, NEW r, SoundJob(r), r.receipt = jobs[j].receipt,
         jobs' = [jobs EXCEPT ![j] = r], UNCHANGED executions
  PROVE  JobsSound'
<1>1. Further /\ executions' \in Seq(Execution)
  BY DEF Further, JobsSound, ExecutionIds
<1>2. SoundJob(r)'
  BY DEF SoundJob, ExecutionIds
<1>3. HeardOnce'
  <2>1. \A i \in Jobs : jobs'[i].receipt = jobs[i].receipt
    BY DEF JobsSound
  <2>2. \A e \in ExecutionIds : executions[e].job \in Jobs
    BY ExecutionOfJob
  <2> QED
    BY <2>1, <2>2 DEF JobsSound, HeardOnce, ExecutionIds
<1> QED
  BY <1>1, <1>2, <1>3, OneJobMoves

(* A dispatch begins; a request gets lost or is refused.                   *)
LEMMA SendStep ==
  ASSUME JobsSound, NEW j \in Jobs, DispatchJob(j) \/ PostFails(j) \/ PostRefused(j)
  PROVE  JobsSound'
<1>1. PICK q : q = jobs[j]
  OBVIOUS
<1>2. SoundJob(q) /\ q \in Job
  BY <1>1 DEF JobsSound, SoundJob
<1>3. CASE DispatchJob(j)
  <2>1. PICK r : r = [q EXCEPT !.at = "posting", !.posts = 1, !.tries = 1]
    OBVIOUS
  <2>2. r \in Job /\ r.receipt = q.receipt /\ r.at = "posting" /\ r.status = q.status
    <3>1. 1 \in 0 .. MaxPosts /\ 1 \in 0 .. MaxTries
      BY StackStormAssumption
    <3> QED
      BY <1>2, <2>1, <3>1 DEF Job
  <2>3. SoundJob(r)
    BY <1>1, <1>2, <1>3, <2>2 DEF SoundJob, DispatchJob
  <2>4. jobs' = [jobs EXCEPT ![j] = r] /\ UNCHANGED executions
    BY <1>1, <1>3, <2>1 DEF DispatchJob, JobsSound
  <2> QED
    BY <1>1, <2>2, <2>3, <2>4, OneJobAlone
<1>4. CASE PostFails(j) \/ PostRefused(j)
  <2>1. PICK r \in {Repeated(q), Resent(q)} : jobs' = [jobs EXCEPT ![j] = r]
    BY <1>1, <1>4 DEF PostFails, PostRefused
  <2>2. q.at = "posting" /\ UNCHANGED executions
    BY <1>1, <1>4 DEF PostFails, PostRefused
  <2> QED
    BY <1>1, <1>2, <2>1, <2>2, ResentRecord, OneJobAlone
<1> QED
  BY <1>3, <1>4

(* StackStorm starts an execution, and its answer arrives or not.          *)
LEMMA PostStep ==
  ASSUME JobsSound, NEW j \in Jobs, PostAnswered(j) \/ PostUnheard(j)
  PROVE  JobsSound'
<1>1. PICK q : q = jobs[j]
  OBVIOUS
<1>2. SoundJob(q) /\ q \in Job /\ q.at = "posting" /\ q.receipt = NoExecution
  BY <1>1 DEF JobsSound, SoundJob, PostAnswered, PostUnheard
<1>3. PICK raw \in {"requested", "delayed"}, heard \in BOOLEAN :
        /\ executions' = Append(executions, [job |-> j, heard |-> heard, status |-> raw])
        /\ heard => jobs' = [jobs EXCEPT ![j] = Replied(q, Len(executions) + 1, raw)]
        /\ ~ heard => jobs' = [jobs EXCEPT ![j] = Resent(q)]
        /\ Len(executions) < MaxExecutions
  BY <1>1 DEF PostAnswered, PostUnheard
<1>4. PICK e : e = [job |-> j, heard |-> heard, status |-> raw]
  OBVIOUS
<1>5. e \in Execution /\ e.job = j /\ (e.heard <=> heard)
  BY <1>4 DEF Execution
<1>6. PICK n : n = Len(executions) + 1
  OBVIOUS
<1>7. executions \in Seq(Execution) /\ Len(executions) \in Nat /\ ExecutionIds = 1 .. Len(executions)
  BY LenProperties DEF JobsSound, ExecutionIds
<1>8. /\ executions' \in Seq(Execution) /\ ExecutionIds' = 1 .. n
      /\ executions'[n] = e /\ \A i \in ExecutionIds : executions'[i] = executions[i]
  <2>1. executions' = Append(executions, e)
    BY <1>3, <1>4
  <2>2. /\ executions' \in Seq(Execution) /\ Len(executions') = n
        /\ executions'[n] = e /\ \A i \in 1 .. Len(executions) : executions'[i] = executions[i]
    BY <1>5, <1>6, <1>7, <2>1, AppendProperties
  <2> QED
    BY <1>7, <2>2, LenProperties DEF ExecutionIds
<1>9. Further /\ ExecutionIds' = ExecutionIds \cup {n} /\ n \in Nat \ {NoExecution} /\ n \notin ExecutionIds
  BY <1>6, <1>7, <1>8 DEF Further, NoExecution
<1>10. PICK r : /\ jobs' = [jobs EXCEPT ![j] = r] /\ SoundJob(r)'
                /\ IF heard THEN r.receipt = n ELSE r.receipt = q.receipt
  <2>1. CASE heard
    <3>1. PICK p : p = [q EXCEPT !.receipt = n]
      OBVIOUS
    <3>2. p \in Job /\ p.receipt = n
      BY <1>2, <1>3, <1>6, <1>7, <3>1 DEF Job, MaxExecutions
    <3>3. PICK status \in {"dispatched", "errored"} : status = MapStackStormStatus(raw)
      BY DEF MapStackStormStatus
    <3>4. PICK r : r = Reported(p, status)
      OBVIOUS
    <3>5. r \in Job /\ r.receipt = n /\ r.status = status /\ r.at \in {"polling", "ended"}
      BY <3>2, <3>4, ReportedRecord
    <3>6. SoundJob(r)'
      BY <1>9, <3>5 DEF SoundJob
    <3>7. jobs' = [jobs EXCEPT ![j] = r]
      BY <1>3, <1>6, <2>1, <3>1, <3>3, <3>4 DEF Replied
    <3> QED
      BY <2>1, <3>5, <3>6, <3>7
  <2>2. CASE ~ heard
    <3>1. PICK r : r = Resent(q)
      OBVIOUS
    <3>2. SoundJob(r) /\ r.receipt = q.receipt
      BY <1>2, <3>1, ResentRecord
    <3>3. SoundJob(r)'
      BY <1>9, <3>2, SoundStays
    <3> QED
      BY <1>3, <2>2, <3>1, <3>2, <3>3
  <2> QED
    BY <2>1, <2>2
<1>11. HeardOnce'
  <2>1. \A i \in Jobs : jobs'[i].receipt = IF i = j THEN r.receipt ELSE jobs[i].receipt
    BY <1>10 DEF JobsSound
  <2>2. ASSUME NEW i \in ExecutionIds, executions[i].heard
        PROVE  executions[i].job \in Jobs \ {j} /\ jobs[executions[i].job].receipt = i
    <3>1. executions[i].job \in Jobs
      BY ExecutionOfJob
    <3>2. jobs[executions[i].job].receipt = i
      BY <2>2 DEF JobsSound, HeardOnce
    <3>3. i # NoExecution
      BY <1>7, <2>2 DEF NoExecution
    <3> QED
      BY <1>1, <1>2, <3>1, <3>2, <3>3
  <2>3. ASSUME NEW i \in ExecutionIds, executions'[i].heard PROVE jobs'[executions'[i].job].receipt = i
    BY <1>8, <2>1, <2>2, <2>3
  <2>4. executions'[n].heard => jobs'[executions'[n].job].receipt = n
    BY <1>5, <1>8, <1>10, <2>1
  <2> QED
    BY <1>9, <2>3, <2>4 DEF HeardOnce
<1> QED
  BY <1>8, <1>9, <1>10, <1>11, OneJobMoves

(* A row is polled or canceled, and executions go on.                      *)
LEMMA ExecutionStep ==
  ASSUME JobsSound,
         \/ \E j \in Jobs : PollJob(j) \/ CancelJob(j)
         \/ \E e \in ExecutionIds : ExecutionMoves(e)
  PROVE  JobsSound'
<1>0. executions \in Seq(Execution) /\ ExecutionIds = 1 .. Len(executions) /\ Len(executions) \in Nat
  BY LenProperties DEF JobsSound, ExecutionIds
<1>1. ASSUME NEW e \in ExecutionIds, NEW x,
             x \in Execution, x.job = executions[e].job, x.heard = executions[e].heard,
             executions[e].status = "succeeded" => x.status = "succeeded",
             executions' = [executions EXCEPT ![e] = x]
      PROVE  /\ Further /\ executions' \in Seq(Execution) /\ ExecutionIds' = ExecutionIds
             /\ \A i \in ExecutionIds : /\ executions'[i].job = executions[i].job
                                        /\ executions'[i].heard = executions[i].heard
  <2>1. /\ executions' \in Seq(Execution) /\ Len(executions') = Len(executions)
        /\ \A i \in 1 .. Len(executions) : executions'[i] = IF i = e THEN x ELSE executions[i]
    BY <1>0, <1>1, ExceptSeq
  <2>2. ExecutionIds' = ExecutionIds
    BY <1>0, <2>1, LenProperties DEF ExecutionIds
  <2> QED
    BY <1>0, <1>1, <2>1, <2>2 DEF Further
<1>2. ASSUME NEW e \in ExecutionIds, ExecutionMoves(e) PROVE JobsSound'
  <2>1. PICK status \in Finished \cup {"running", "paused"} :
          executions' = [executions EXCEPT ![e].status = status]
    BY <1>2 DEF ExecutionMoves
  <2>2. PICK x : x = [executions[e] EXCEPT !.status = status]
    OBVIOUS
  <2>3. executions[e] \in Execution
    BY <1>0
  <2>4. x \in Execution /\ x.job = executions[e].job /\ x.heard = executions[e].heard
    BY <2>1, <2>2, <2>3 DEF Execution, Finished
  <2>5. executions[e].status # "succeeded"
    BY <1>2 DEF ExecutionMoves, Finished
  <2>6. executions' = [executions EXCEPT ![e] = x]
    BY <2>1, <2>2
  <2>7. /\ Further /\ executions' \in Seq(Execution) /\ ExecutionIds' = ExecutionIds
        /\ \A i \in ExecutionIds : /\ executions'[i].job = executions[i].job
                                   /\ executions'[i].heard = executions[i].heard
    BY <1>1, <2>4, <2>5, <2>6
  <2>8. HeardOnce' /\ UNCHANGED jobs
    BY <1>2, <2>7 DEF ExecutionMoves, JobsSound, HeardOnce
  <2>9. ASSUME NEW i \in Jobs PROVE SoundJob(jobs[i])'
    <3>1. PICK q : q = jobs[i]
      OBVIOUS
    <3>2. SoundJob(q)'
      BY <2>7, <3>1, SoundStays DEF JobsSound
    <3> QED
      BY <2>8, <3>1, <3>2 DEF SoundJob
  <2> QED
    BY <2>7, <2>8, <2>9 DEF JobsSound
<1>3. ASSUME NEW j \in Jobs, PollJob(j) PROVE JobsSound'
  <2>1. PICK q : q = jobs[j]
    OBVIOUS
  <2>2. SoundJob(q) /\ q \in Job /\ q.receipt \in ExecutionIds
    BY <1>3, <2>1 DEF JobsSound, SoundJob, PollJob
  <2>3. PICK status \in GetExecution(q.receipt) : jobs' = [jobs EXCEPT ![j] = Reported(q, status)]
    BY <1>3, <2>1 DEF PollJob
  <2>4. executions[q.receipt] \in Execution
    BY <1>0, <2>2
  <2>5. /\ status \in {"dispatched", "running", "succeeded", "failed", "errored", "canceled"}
        /\ status = "succeeded" => executions[q.receipt].status = "succeeded"
    BY <2>3, <2>4 DEF GetExecution, MapStackStormStatus, Execution
  <2>6. PICK r : r = Reported(q, status)
    OBVIOUS
  <2>7. r \in Job /\ r.receipt = q.receipt /\ r.status = status /\ r.at \in {"polling", "ended"}
    BY <2>2, <2>5, <2>6, ReportedRecord
  <2>8. SoundJob(r)
    BY <2>2, <2>5, <2>7 DEF SoundJob
  <2> QED
    BY <1>3, <2>1, <2>3, <2>6, <2>7, <2>8, OneJobAlone DEF PollJob
<1>4. ASSUME NEW j \in Jobs, CancelJob(j) PROVE JobsSound'
  <2>1. PICK q : q = jobs[j]
    OBVIOUS
  <2>2. SoundJob(q) /\ q \in Job /\ q.receipt \in ExecutionIds
    BY <1>4, <2>1 DEF JobsSound, SoundJob, CancelJob
  <2>3. PICK status \in {"canceled", "errored"} :
          /\ jobs' = [jobs EXCEPT ![j] = Reported(q, status)]
          /\ UNCHANGED executions \/ CancelExecution(q.receipt)
    BY <1>4, <2>1 DEF CancelJob
  <2>4. PICK r : r = Reported(q, status)
    OBVIOUS
  <2>5. r \in Job /\ r.receipt = q.receipt /\ r.status = status /\ r.at \in {"polling", "ended"}
    BY <2>2, <2>4, ReportedRecord
  <2>6. SoundJob(r)
    BY <2>2, <2>5 DEF SoundJob
  <2>7. CASE UNCHANGED executions
    BY <2>1, <2>3, <2>4, <2>5, <2>6, <2>7, OneJobAlone
  <2>8. CASE CancelExecution(q.receipt)
    <3>1. PICK x : x = [executions[q.receipt] EXCEPT !.status =
                          IF executions[q.receipt].status \in Finished
                          THEN executions[q.receipt].status ELSE "canceling"]
      OBVIOUS
    <3>2. executions[q.receipt] \in Execution
      BY <1>0, <2>2
    <3>3. /\ x \in Execution /\ x.job = executions[q.receipt].job
          /\ x.heard = executions[q.receipt].heard
          /\ executions[q.receipt].status = "succeeded" => x.status = "succeeded"
      BY <3>1, <3>2 DEF Execution, Finished
    <3>4. executions' = [executions EXCEPT ![q.receipt] = x]
      BY <2>8, <3>1 DEF CancelExecution
    <3>5. /\ Further /\ executions' \in Seq(Execution) /\ ExecutionIds' = ExecutionIds
          /\ \A i \in ExecutionIds : /\ executions'[i].job = executions[i].job
                                     /\ executions'[i].heard = executions[i].heard
      BY <1>1, <2>2, <3>3, <3>4
    <3>6. HeardOnce'
      <4>1. \A i \in Jobs : jobs'[i].receipt = jobs[i].receipt
        BY <2>1, <2>3, <2>4, <2>5 DEF JobsSound
      <4>2. \A e \in ExecutionIds : executions[e].job \in Jobs
        BY ExecutionOfJob
      <4> QED
        BY <3>5, <4>1, <4>2 DEF JobsSound, HeardOnce
    <3>7. SoundJob(r)'
      BY <2>6, <3>5, SoundStays
    <3> QED
      BY <2>3, <2>4, <3>5, <3>6, <3>7, OneJobMoves
  <2> QED
    BY <2>3, <2>7, <2>8
<1> QED
  BY <1>2, <1>3, <1>4

(* A sync goes through the shipped actions, and people edit them when none *)
(* runs.                                                                   *)
LEMMA SyncStep ==
  ASSUME SyncSound,
         \/ BeginSync \/ ActionMatches \/ SyncRaises
         \/ \E x \in ShippedActions : LookUpAction(x) \/ WriteAction(x) \/ ActionEdited(x)
  PROVE  SyncSound'
<1> USE DEF SyncSound, SyncPhase, Definitions
<1>1. CASE BeginSync
  BY <1>1 DEF BeginSync
<1>2. CASE ActionMatches
  <2>1. contentSync' = [contentSync EXCEPT !.now = NoAction,
                    !.at = IF contentSync.todo = {} THEN "succeeded" ELSE "visiting"]
    BY <1>2 DEF ActionMatches, Visited
  <2>2. /\ contentSync' \in SyncPhase /\ contentSync'.todo = contentSync.todo
        /\ contentSync'.at = IF contentSync.todo = {} THEN "succeeded" ELSE "visiting"
    BY <2>1
  <2>3. contentSync.at = "shipped" /\ UNCHANGED definitions
    BY <1>2 DEF ActionMatches, LeftAlone
  <2> QED
    BY <2>2, <2>3
<1>3. CASE SyncRaises
  BY <1>3 DEF SyncRaises
<1>4. ASSUME NEW x \in ShippedActions, LookUpAction(x) PROVE SyncSound'
  BY <1>4 DEF LookUpAction
<1>5. ASSUME NEW x \in ShippedActions, WriteAction(x) PROVE SyncSound'
  <2>1. contentSync' = [contentSync EXCEPT !.now = NoAction,
                    !.at = IF contentSync.todo = {} THEN "succeeded" ELSE "visiting"]
    BY <1>5 DEF WriteAction, Visited
  <2>2. /\ contentSync' \in SyncPhase /\ contentSync'.todo = contentSync.todo
        /\ contentSync'.at = IF contentSync.todo = {} THEN "succeeded" ELSE "visiting"
    BY <2>1
  <2>3. /\ contentSync.at \in {"absent", "changed"} /\ contentSync.now = x
        /\ definitions' = [definitions EXCEPT ![x] = "shipped"]
    BY <1>5 DEF WriteAction
  <2> QED
    BY <2>2, <2>3
<1>6. ASSUME NEW x \in ShippedActions, ActionEdited(x) PROVE SyncSound'
  BY <1>6 DEF ActionEdited
<1> QED
  BY <1>1, <1>2, <1>3, <1>4, <1>5, <1>6

(* dispatch, poll, cancel and sync_action_definitions: for any number of   *)
(* rows, repetitions and shipped actions, an execution that answered is not*)
(* started again, a row that says succeeded tells the truth, and a sync    *)
(* that succeeded leaves every action as shipped.                          *)
THEOREM ExecutionsAreTold == StackStormSpec => []ExecutionsKept
<1>1. StackStormInit => StackStormInv
  <2> SUFFICES ASSUME StackStormInit PROVE StackStormInv
    OBVIOUS
  <2>1. executions = << >> /\ executions \in Seq(Execution) /\ HeardOnce
    BY EmptySeq DEF StackStormInit, HeardOnce, ExecutionIds
  <2>2. jobs \in [Jobs -> Job] /\ \A j \in Jobs : SoundJob(jobs[j])
    BY StackStormAssumption DEF StackStormInit, SoundJob, Job, NoExecution, MaxExecutions
  <2>3. SyncSound
    BY DEF StackStormInit, SyncSound, SyncPhase, Definitions
  <2> QED
    BY <2>1, <2>2, <2>3 DEF StackStormInv, JobsSound
<1>2. StackStormInv /\ [StackStormNext]_stackStormVars => StackStormInv'
  <2> SUFFICES ASSUME StackStormInv, [StackStormNext]_stackStormVars PROVE StackStormInv'
    OBVIOUS
  <2> USE DEF StackStormInv
  <2>1. CASE UNCHANGED stackStormVars
    BY <2>1 DEF stackStormVars, JobsSound, SyncSound, SoundJob, HeardOnce, ExecutionIds
  <2>2. ASSUME NEW j \in Jobs,
               \/ DispatchJob(j) \/ PostAnswered(j) \/ PostUnheard(j) \/ PostFails(j)
               \/ PostRefused(j) \/ PollJob(j) \/ CancelJob(j)
        PROVE  StackStormInv'
    <3>1. JobsSound'
      BY <2>2, SendStep, PostStep, ExecutionStep
    <3>2. UNCHANGED << definitions, contentSync >>
      BY <2>2 DEF DispatchJob, PostAnswered, PostUnheard, PostFails, PostRefused, PollJob, CancelJob
    <3> QED
      BY <3>1, <3>2 DEF SyncSound
  <2>3. ASSUME NEW e \in ExecutionIds, ExecutionMoves(e) PROVE StackStormInv'
    <3>1. JobsSound'
      BY <2>3, ExecutionStep
    <3> QED
      BY <2>3, <3>1 DEF ExecutionMoves, SyncSound
  <2>4. ASSUME \/ BeginSync \/ ActionMatches \/ SyncRaises
               \/ \E x \in ShippedActions : LookUpAction(x) \/ WriteAction(x) \/ ActionEdited(x)
        PROVE  StackStormInv'
    <3>1. SyncSound'
      BY <2>4, SyncStep
    <3>2. UNCHANGED << jobs, executions >>
      BY <2>4 DEF BeginSync, ActionMatches, SyncRaises, LookUpAction, WriteAction, ActionEdited
    <3> QED
      BY <3>1, <3>2 DEF JobsSound, SoundJob, HeardOnce, ExecutionIds
  <2> QED
    BY <2>1, <2>2, <2>3, <2>4 DEF StackStormNext
<1>3. StackStormInv => ExecutionsKept
  BY DEF StackStormInv, JobsSound, SyncSound, SoundJob, StackStormTypeOK, ExecutionsKept, SuccessEarned,
         SyncedWhole
<1> QED
  BY <1>1, <1>2, <1>3, PTL DEF StackStormSpec

-----------------------------------------------------------------------------
(* Proposals: branches and commits.                                        *)

(* Commits are numbered as they are made, after their parents; one that    *)
(* was made through GitHub changes the dispatch's own files.               *)
OwnFiles(graph, x) ==
  x.by \in GitHubDispatches =>
    \A p \in x.parents : x.tree = graph[p].tree \cup {x.by}

CommitGraph(graph) ==
  /\ graph \in Seq([parents : SUBSET Nat, tree : SUBSET (ProposalDispatches),
                    by : ProposalDispatches \cup {Someone}])
  /\ \A c \in DOMAIN graph : /\ graph[c].parents \subseteq 1 .. (c - 1)
                             /\ OwnFiles(graph, graph[c])

(* Branches, dispatches and the working directory name commits there are;  *)
(* the base branch and the branch that is checked out have one.            *)
ProposalsInv ==
  /\ CommitGraph(commits)
  /\ refs \in [Refs -> 0 .. Len(commits)] /\ refs[BaseBranch] # 0
  /\ \A d \in GitHubDispatches :
       /\ proposer[d] \in [at : {"idle", "based", "branched", "committed", "proposing",
                                 "succeeded", "failed"},
                           branch : Branches, base : 0 .. Len(commits), commit : 0 .. Len(commits)]
       /\ proposer[d].at \in {"based", "branched"} => proposer[d].base # 0
  /\ DOMAIN proposer = GitHubDispatches
  /\ clone \in [there : BOOLEAN, head : Refs, refs : [Refs -> 0 .. Len(commits)]]
  /\ clone.there => clone.refs[clone.head] # 0
  /\ pulls \subseteq Branches /\ \A b \in pulls : refs[b] # 0

(* A commit is in its own history, and a new commit's history has its      *)
(* parents'.                                                               *)
LEMMA OwnHistory ==
  ASSUME NEW graph, NEW c \in Nat \ {0}
  PROVE  c \in HistoryIn(graph, c)
BY DEF HistoryIn, Lineages

LEMMA ParentHistory ==
  ASSUME NEW graph, NEW next, NEW n \in Nat, NEW p \in 1 .. n, NEW x \in HistoryIn(graph, p),
         \A c \in 1 .. n : next[c] = graph[c] /\ graph[c].parents \subseteq 1 .. (c - 1),
         p \in next[n + 1].parents
  PROVE  x \in HistoryIn(next, n + 1)
<1>1. x \in 1 .. p /\ \A S \in Lineages(graph, p) : x \in S
  BY DEF HistoryIn
<1>2. ASSUME NEW S \in Lineages(next, n + 1) PROVE x \in S
  <2>1. /\ S \subseteq 1 .. (n + 1) /\ n + 1 \in S
        /\ \A y \in S : next[y].parents \subseteq S
    BY <1>2 DEF Lineages
  <2>2. p \in S
    BY <2>1
  <2>3. \A y \in S \cap (1 .. p) : graph[y].parents \subseteq S \cap (1 .. p)
    <3> SUFFICES ASSUME NEW y \in S \cap (1 .. p)
                 PROVE  graph[y].parents \subseteq S \cap (1 .. p)
      OBVIOUS
    <3>1. y \in 1 .. n /\ y \in Nat /\ y <= p
      OBVIOUS
    <3>2. next[y].parents \subseteq S /\ next[y] = graph[y] /\ graph[y].parents \subseteq 1 .. (y - 1)
      BY <2>1, <3>1
    <3>3. 1 .. (y - 1) \subseteq 1 .. p
      BY <3>1
    <3> QED
      BY <3>2, <3>3
  <2>4. S \cap (1 .. p) \in Lineages(graph, p)
    BY <2>2, <2>3 DEF Lineages
  <2> QED
    BY <1>1, <2>4
<1>3. x \in 1 .. (n + 1)
  BY <1>1
<1> QED
  BY <1>2, <1>3 DEF HistoryIn

(* A commit is added; the others stay as they are.                         *)
LEMMA CommitAdded ==
  ASSUME CommitGraph(commits), NEW parents \in SUBSET (1 .. Len(commits)),
         NEW tree \in SUBSET ProposalDispatches, NEW by \in ProposalDispatches \cup {Someone},
         NewCommit(parents, tree, by),
         by \in GitHubDispatches => \A p \in parents : tree = Tree(p) \cup {by}
  PROVE  /\ CommitGraph(commits)' /\ Len(commits') = Fresh
         /\ Len(commits) \in Nat /\ 0 .. Len(commits) \subseteq 0 .. Fresh /\ Fresh \in 1 .. Fresh
         /\ \A p \in parents : \A x \in History(p) : x \in HistoryIn(commits', Fresh)
<1>1. PICK n : n = Len(commits)
  OBVIOUS
<1>2. n \in Nat /\ DOMAIN commits = 1 .. n
  BY <1>1 DEF CommitGraph
<1>3. PICK x : x = [parents |-> parents, tree |-> tree, by |-> by]
  OBVIOUS
<1>4. /\ commits' = Append(commits, x) /\ x.parents = parents /\ x.tree = tree /\ x.by = by
      /\ x \in [parents : SUBSET Nat, tree : SUBSET (ProposalDispatches),
                by : ProposalDispatches \cup {Someone}]
  BY <1>1, <1>2, <1>3 DEF NewCommit
<1>5. /\ commits' \in Seq([parents : SUBSET Nat, tree : SUBSET (ProposalDispatches),
                           by : ProposalDispatches \cup {Someone}])
      /\ Len(commits') = n + 1 /\ DOMAIN commits' = 1 .. (n + 1)
      /\ commits'[n + 1] = x /\ \A c \in 1 .. n : commits'[c] = commits[c]
  BY <1>1, <1>2, <1>4 DEF CommitGraph
<1>6. ASSUME NEW c \in 1 .. (n + 1)
      PROVE  /\ commits'[c].parents \subseteq 1 .. (c - 1)
             /\ OwnFiles(commits', commits'[c])
  <2>1. CASE c = n + 1
    <3>1. commits'[c].parents \subseteq 1 .. (c - 1)
      BY <1>1, <1>2, <1>4, <1>5, <2>1
    <3>2. \A p \in parents : commits'[p] = commits[p]
      BY <1>1, <1>2, <1>5
    <3>3. OwnFiles(commits', x)
      BY <1>4, <3>2 DEF OwnFiles, Tree
    <3> QED
      BY <1>5, <2>1, <3>1, <3>3
  <2>2. CASE c # n + 1
    <3>1. c \in 1 .. n /\ c \in Nat
      BY <1>2, <1>6, <2>2
    <3>2. /\ commits'[c] = commits[c] /\ commits[c].parents \subseteq 1 .. (c - 1)
          /\ OwnFiles(commits, commits[c])
      BY <1>2, <1>5, <3>1 DEF CommitGraph
    <3>3. \A p \in 1 .. (c - 1) : commits'[p] = commits[p]
      BY <1>2, <1>5, <3>1
    <3>4. OwnFiles(commits', commits[c])
      BY <3>2, <3>3 DEF OwnFiles
    <3> QED
      BY <3>2, <3>4
  <2> QED
    BY <2>1, <2>2
<1>7. CommitGraph(commits')
  BY <1>5, <1>6 DEF CommitGraph
<1>8. ASSUME NEW p \in parents, NEW y \in History(p) PROVE y \in HistoryIn(commits', n + 1)
  <2>1. \A c \in 1 .. n : commits'[c] = commits[c] /\ commits[c].parents \subseteq 1 .. (c - 1)
    BY <1>2, <1>5 DEF CommitGraph
  <2>2. p \in 1 .. n /\ p \in commits'[n + 1].parents /\ y \in HistoryIn(commits, p)
    BY <1>1, <1>4, <1>5, <1>8 DEF History
  <2> QED
    BY <1>2, <2>1, <2>2, ParentHistory
<1> QED
  BY <1>1, <1>2, <1>5, <1>7, <1>8 DEF CommitGraph, Fresh

(* A commit's tree. *)
LEMMA TreeOfCommit ==
  ASSUME CommitGraph(commits), NEW c \in 1 .. Len(commits)
  PROVE  Tree(c) \subseteq ProposalDispatches
<1>1. PICK set : /\ set = [parents : SUBSET Nat, tree : SUBSET (ProposalDispatches),
                            by : ProposalDispatches \cup {Someone}]
                 /\ commits \in Seq(set)
  BY DEF CommitGraph
<1>2. commits[c] \in set
  BY <1>1, ElementOfSeq
<1>3. commits[c].tree \subseteq ProposalDispatches
  BY <1>1, <1>2
<1> QED
  BY <1>3 DEF Tree

(* What the properties say of a branch that did not move.                  *)
LEMMA BranchStays ==
  ASSUME ProposalsInv, NEW b \in Refs, refs'[b] = refs[b], refs[b] # 0
  PROVE  refs[b] \in HistoryIn(commits', refs'[b])
BY OwnHistory DEF ProposalsInv

(* The calls of a dispatch of the github plugin.                           *)
LEMMA GitHubStep ==
  ASSUME ProposalsInv, NEW d \in GitHubDispatches,
         \/ ReadBase(d) \/ CreateBranch(d) \/ MakeCommit(d)
         \/ MoveBranch(d) \/ OpenPull(d) \/ ProposalFails(d)
  PROVE  ProposalsInv' /\ NothingOverwritten
<1> DEFINE Ids == 0 .. Len(commits)
           Places == {"idle", "based", "branched", "committed", "proposing", "succeeded", "failed"}
           Record == [at : Places, branch : Branches, base : Ids, commit : Ids]
<1>1. PICK x : x = proposer[d]
  OBVIOUS
<1>2. /\ x \in Record /\ (x.at \in {"based", "branched"} => x.base # 0)
      /\ BaseBranch \in Refs /\ x.branch \in Refs /\ Len(commits) \in Nat
  BY <1>1 DEF ProposalsInv, Refs, CommitGraph
<1>3. ASSUME NEW a \in Places
      PROVE  \E y \in Record : y = [x EXCEPT !.at = a] /\ y.at = a /\ y.base = x.base
  <2>1. /\ [x EXCEPT !.at = a] \in Record /\ [x EXCEPT !.at = a].at = a
        /\ [x EXCEPT !.at = a].base = x.base
    BY <1>2
  <2> QED
    BY <2>1
<1>4. UNCHANGED clone
  BY DEF ReadBase, CreateBranch, MakeCommit, MoveBranch, OpenPull, ProposalFails
<1>5. CASE MakeCommit(d)
  <2>1. /\ x.at = "branched" /\ UNCHANGED refs /\ NewCommit({x.base}, Tree(x.base) \cup {d}, d)
        /\ proposer' = [proposer EXCEPT ![d] = [x EXCEPT !.at = "committed", !.commit = Fresh]]
    BY <1>1, <1>5 DEF MakeCommit, ProposedTree, Proposes
  <2>2. x.base \in 1 .. Len(commits) /\ x.base \in DOMAIN commits /\ CommitGraph(commits)
    BY <1>2, <2>1 DEF ProposalsInv, CommitGraph
  <2>3. Tree(x.base) \in SUBSET ProposalDispatches /\ d \in ProposalDispatches
    BY <2>2, TreeOfCommit DEF ProposalDispatches
  <2>4. {x.base} \in SUBSET (1 .. Len(commits))
    BY <2>2
  <2>5. (Tree(x.base) \cup {d}) \in SUBSET ProposalDispatches /\ d \in ProposalDispatches \cup {Someone}
    BY <2>3
  <2>6. /\ CommitGraph(commits)' /\ Len(commits') = Fresh /\ Len(commits) \in Nat
        /\ 0 .. Len(commits) \subseteq 0 .. Fresh /\ Fresh \in 1 .. Fresh
    BY <2>1, <2>2, <2>4, <2>5, CommitAdded
  <2>7. PICK y : y = [x EXCEPT !.at = "committed", !.commit = Fresh]
    OBVIOUS
  <2>8. y \in [at : Places, branch : Branches, base : 0 .. Fresh, commit : 0 .. Fresh] /\ y.at = "committed"
    <3>1. y = [at |-> "committed", branch |-> x.branch, base |-> x.base, commit |-> Fresh]
      BY <1>2, <2>7
    <3>2. x.base \in 0 .. Fresh /\ Fresh \in 0 .. Fresh /\ x.branch \in Branches
      BY <1>2, <2>6
    <3> QED
      BY <3>1, <3>2
  <2>9. \A e \in GitHubDispatches : proposer'[e] = IF e = d THEN y ELSE proposer[e]
    BY <2>1, <2>7 DEF ProposalsInv
  <2>10. ASSUME NEW e \in GitHubDispatches
         PROVE  /\ proposer'[e] \in [at : Places, branch : Branches, base : 0 .. Fresh, commit : 0 .. Fresh]
                /\ proposer'[e].at \in {"based", "branched"} => proposer'[e].base # 0
    <3>1. CASE e = d
      BY <2>8, <2>9, <3>1
    <3>2. CASE e # d
      <4>1. PICK z : z = proposer[e]
        OBVIOUS
      <4>2. z \in Record /\ (z.at \in {"based", "branched"} => z.base # 0) /\ proposer'[e] = z
        BY <2>9, <3>2, <4>1 DEF ProposalsInv
      <4>3. z \in [at : Places, branch : Branches, base : 0 .. Fresh, commit : 0 .. Fresh]
        BY <2>6, <4>2
      <4> QED
        BY <4>2, <4>3
    <3> QED
      BY <3>1, <3>2
  <2>11. refs \in [Refs -> 0 .. Fresh] /\ clone \in [there : BOOLEAN, head : Refs, refs : [Refs -> 0 .. Fresh]]
    BY <2>6 DEF ProposalsInv
  <2>12. ProposalsInv'
    <3>1. pulls' = pulls /\ DOMAIN proposer' = GitHubDispatches
      BY <1>5, <2>1 DEF MakeCommit, ProposalsInv
    <3> QED
      BY <1>4, <2>1, <2>6, <2>10, <2>11, <3>1 DEF ProposalsInv
  <2> QED
    BY <2>1, <2>12, BranchStays DEF NothingOverwritten
<1>6. CASE ~ MakeCommit(d)
  <2>1. UNCHANGED commits
    BY <1>6 DEF ReadBase, CreateBranch, MoveBranch, OpenPull, ProposalFails
  <2>2. PICK y \in Record : /\ proposer' = [proposer EXCEPT ![d] = y]
                            /\ y.at \in {"based", "branched"} => y.base # 0
    <3>1. CASE ReadBase(d)
      <4>1. PICK base \in Ids :
              /\ base # 0 /\ "based" \in Places
              /\ proposer' = [proposer EXCEPT ![d] = [x EXCEPT !.at = "based", !.base = base]]
        BY <1>1, <1>2, <3>1 DEF ReadBase, Proposes, ProposalsInv
      <4>2. PICK y : y = [x EXCEPT !.at = "based", !.base = base]
        OBVIOUS
      <4>3. y.base = base /\ y \in Record
        BY <1>2, <4>1, <4>2
      <4> QED
        BY <4>1, <4>2, <4>3
    <3>2. CASE CreateBranch(d)
      <4>1. /\ x.base # 0 /\ "branched" \in Places /\ x.base \in Ids
            /\ proposer' = [proposer EXCEPT ![d] = [x EXCEPT !.at = "branched"]]
        BY <1>1, <1>2, <3>2 DEF CreateBranch, Proposes
      <4>2. PICK y \in Record : y = [x EXCEPT !.at = "branched"] /\ y.base = x.base
        BY <1>3, <4>1
      <4> QED
        BY <4>1, <4>2
    <3>3. ASSUME MoveBranch(d) \/ OpenPull(d) \/ ProposalFails(d)
          PROVE  \E y \in Record : /\ proposer' = [proposer EXCEPT ![d] = y]
                                   /\ y.at \in {"based", "branched"} => y.base # 0
      <4>1. PICK a \in {"proposing", "succeeded", "failed"} :
              proposer' = [proposer EXCEPT ![d] = [x EXCEPT !.at = a]]
        BY <1>1, <3>3 DEF MoveBranch, OpenPull, ProposalFails, Proposes
      <4>2. a \in Places /\ a \notin {"based", "branched"} /\ x.base \in Ids
        BY <1>2
      <4> QED
        BY <1>3, <4>1, <4>2
    <3> QED
      BY <1>6, <3>1, <3>2, <3>3
  <2>3. PICK c \in Ids : /\ refs' = [refs EXCEPT ![x.branch] = c]
                         /\ \/ c = refs[x.branch]
                            \/ refs[x.branch] = 0 /\ x.base = c /\ x.base # 0
                            \/ refs[x.branch] # 0 /\ refs[x.branch] \in HistoryIn(commits, c) /\ c = x.commit
    <3>0. refs[x.branch] \in Ids /\ refs = [refs EXCEPT ![x.branch] = refs[x.branch]]
      BY <1>2 DEF ProposalsInv
    <3>1. CASE CreateBranch(d)
      BY <1>1, <1>2, <3>0, <3>1 DEF CreateBranch
    <3>2. CASE MoveBranch(d)
      <4>1. refs' = [refs EXCEPT ![x.branch] = x.commit] /\ x.commit \in Ids /\ refs[x.branch] # 0
        BY <1>1, <1>2, <3>2 DEF MoveBranch, MovesForward
      <4>2. refs[x.branch] \in HistoryIn(commits, x.commit)
        BY <1>1, <3>2, <4>1 DEF MoveBranch, MovesForward, Ancestor, History
      <4> QED
        BY <4>1, <4>2
    <3>3. CASE UNCHANGED refs
      BY <3>0, <3>3
    <3> QED
      BY <1>6, <3>1, <3>2, <3>3 DEF ReadBase, OpenPull, ProposalFails
  <2>4. \A b \in Refs : refs'[b] = IF b = x.branch THEN c ELSE refs[b]
    BY <2>3 DEF ProposalsInv
  <2>5. NothingOverwritten
    <3> SUFFICES ASSUME NEW b \in Refs, refs[b] # 0, refs'[b] # 0
                 PROVE  refs[b] \in HistoryIn(commits', refs'[b])
      BY DEF NothingOverwritten
    <3>1. CASE refs'[b] = refs[b]
      BY <3>1, BranchStays
    <3>2. CASE refs'[b] # refs[b]
      BY <2>1, <2>3, <2>4, <3>2
    <3> QED
      BY <3>1, <3>2
  <2>6. refs' \in [Refs -> Ids] /\ refs'[BaseBranch] # 0
    <3>1. x.branch # BaseBranch
      BY <1>2, ProposalsAssumption
    <3> QED
      BY <1>2, <2>3, <3>1 DEF ProposalsInv
  <2>7. \A e \in GitHubDispatches : proposer'[e] = IF e = d THEN y ELSE proposer[e]
    BY <2>2 DEF ProposalsInv
  <2>8. CommitGraph(commits)'
    BY <2>1 DEF ProposalsInv, CommitGraph
  <2>9. pulls' \subseteq Branches /\ \A p \in pulls' : refs'[p] # 0
    <3>1. c # 0 \/ refs[x.branch] = 0
      BY <2>3 DEF HistoryIn
    <3>2. \A p \in Branches : refs[p] # 0 => refs'[p] # 0
      BY <2>4, <3>1 DEF Refs
    <3>3. pulls' = pulls \/ (pulls' = pulls \cup {x.branch} /\ refs[x.branch] # 0)
      BY <1>1, <1>6 DEF ReadBase, CreateBranch, MoveBranch, OpenPull, ProposalFails
    <3>4. pulls' \subseteq Branches /\ \A p \in pulls' : refs[p] # 0
      BY <1>2, <3>3 DEF ProposalsInv
    <3> QED
      BY <3>2, <3>4
  <2>10. DOMAIN proposer' = GitHubDispatches
    BY <2>2 DEF ProposalsInv
  <2>11. ProposalsInv'
    BY <1>4, <2>1, <2>2, <2>6, <2>7, <2>8, <2>9, <2>10 DEF ProposalsInv
  <2> QED
    BY <2>5, <2>11
<1> QED
  BY <1>5, <1>6

(* What a pull leaves in the working directory: it is there, with a commit *)
(* checked out.                                                            *)
LEMMA PulledClone ==
  ASSUME ProposalsInv, NEW ref \in Refs, refs[ref] # 0, NEW p, p = Pulled(ref)
  PROVE  /\ p \in [there : BOOLEAN, head : Refs, refs : [Refs -> 0 .. Len(commits)]]
         /\ p.there = TRUE /\ p.refs[p.head] # 0
<1>1. Len(commits) \in Nat /\ BaseBranch \in Refs /\ refs[ref] \in 0 .. Len(commits)
  BY DEF ProposalsInv, CommitGraph, Refs
<1>2. CASE ~ clone.there
  <2>1. NoClone.refs \in [Refs -> 0 .. Len(commits)]
    BY <1>1 DEF NoClone
  <2>2. p = [there |-> TRUE, head |-> ref, refs |-> [NoClone.refs EXCEPT ![ref] = refs[ref]]]
    BY <1>2 DEF Pulled
  <2>3. [NoClone.refs EXCEPT ![ref] = refs[ref]] \in [Refs -> 0 .. Len(commits)]
    BY <1>1, <2>1
  <2> QED
    BY <1>1, <2>1, <2>2, <2>3
<1>3. CASE clone.there
  <2>1. PICK f, h, e : f = clone.refs /\ h = clone.head
                       /\ e = IF Ancestor(f[h], refs[ref]) THEN refs[ref] ELSE f[h]
    OBVIOUS
  <2>2. /\ f \in [Refs -> 0 .. Len(commits)] /\ h \in Refs /\ f[h] # 0
        /\ e \in 0 .. Len(commits) /\ e # 0
    BY <1>1, <1>3, <2>1 DEF ProposalsInv
  <2>3. p = [clone EXCEPT !.refs[h] = e]
    BY <1>3, <2>1 DEF Pulled
  <2>4. p.there = TRUE /\ p.head = h /\ p.refs = [f EXCEPT ![h] = e]
    BY <1>3, <2>1, <2>3 DEF ProposalsInv
  <2>5. p.refs \in [Refs -> 0 .. Len(commits)] /\ p.refs[h] = e
    BY <2>2, <2>4
  <2>6. p = [there |-> TRUE, head |-> h, refs |-> p.refs]
    BY <1>3, <2>1, <2>3, <2>4 DEF ProposalsInv
  <2> QED
    BY <2>2, <2>4, <2>5, <2>6
<1> QED
  BY <1>2, <1>3

(* The working directory and the commands that only pull.                  *)
LEMMA CloneStep ==
  ASSUME ProposalsInv, GitRead \/ LoseClone
  PROVE  ProposalsInv' /\ NothingOverwritten
<1>1. UNCHANGED << commits, refs, pulls, proposer >>
  BY DEF GitRead, LoseClone
<1>2. /\ clone' \in [there : BOOLEAN, head : Refs, refs : [Refs -> 0 .. Len(commits)]]
      /\ clone'.there => clone'.refs[clone'.head] # 0
  <2>1. CASE GitRead
    <3>1. PICK ref \in Refs : refs[ref] # 0 /\ clone' = Pulled(ref)
      BY <2>1 DEF GitRead, CanPull
    <3> QED
      BY <3>1, PulledClone
  <2>2. CASE LoseClone
    <3>1. Len(commits) \in Nat /\ BaseBranch \in Refs
      BY DEF ProposalsInv, CommitGraph, Refs
    <3> QED
      BY <2>2, <3>1 DEF LoseClone, NoClone
  <2> QED
    BY <2>1, <2>2
<1>3. ProposalsInv'
  BY <1>1, <1>2 DEF ProposalsInv, CommitGraph
<1> QED
  BY <1>1, <1>3, BranchStays DEF NothingOverwritten

(* A commit by no dispatch of the github plugin is added, and one branch,  *)
(* if any, moves to it from one of the commit's ancestors.                 *)
LEMMA CommitSteps ==
  ASSUME ProposalsInv, NEW parents \in SUBSET (1 .. Len(commits)),
         NEW tree \in SUBSET ProposalDispatches,
         NEW by \in (ProposalDispatches \cup {Someone}) \ GitHubDispatches,
         NewCommit(parents, tree, by),
         NEW b \in Refs,
         \/ UNCHANGED refs
         \/ /\ refs' = [refs EXCEPT ![b] = Fresh]
            /\ refs[b] = 0 \/ \E p \in parents : refs[b] \in History(p),
         clone' \in [there : BOOLEAN, head : Refs, refs : [Refs -> 0 .. Fresh]],
         clone'.there => clone'.refs[clone'.head] # 0,
         UNCHANGED proposer, pulls' \subseteq pulls
  PROVE  ProposalsInv' /\ NothingOverwritten
<1>1. /\ CommitGraph(commits)' /\ Len(commits') = Fresh /\ Len(commits) \in Nat
      /\ 0 .. Len(commits) \subseteq 0 .. Fresh /\ Fresh \in 1 .. Fresh
      /\ \A p \in parents : \A x \in History(p) : x \in HistoryIn(commits', Fresh)
  <2>1. CommitGraph(commits) /\ by \in ProposalDispatches \cup {Someone} /\ by \notin GitHubDispatches
    BY DEF ProposalsInv
  <2> QED
    BY <2>1, CommitAdded
<1>2. refs' \in [Refs -> 0 .. Fresh] /\ refs'[BaseBranch] # 0
  <2>1. /\ refs \in [Refs -> 0 .. Fresh] /\ refs[BaseBranch] # 0
        /\ Fresh \in 0 .. Fresh /\ Fresh # 0 /\ BaseBranch \in Refs
    BY <1>1 DEF ProposalsInv, Refs
  <2> QED
    BY <2>1
<1>3. ASSUME NEW d \in GitHubDispatches
      PROVE  /\ proposer'[d] \in [at : {"idle", "based", "branched", "committed", "proposing",
                                        "succeeded", "failed"},
                                  branch : Branches, base : 0 .. Fresh, commit : 0 .. Fresh]
             /\ proposer'[d].at \in {"based", "branched"} => proposer'[d].base # 0
  <2>1. PICK z : z = proposer[d] /\ z = proposer'[d]
    OBVIOUS
  <2>2. /\ z \in [at : {"idle", "based", "branched", "committed", "proposing",
                        "succeeded", "failed"},
                  branch : Branches, base : 0 .. Len(commits), commit : 0 .. Len(commits)]
        /\ z.at \in {"based", "branched"} => z.base # 0
    BY <2>1 DEF ProposalsInv
  <2> QED
    BY <1>1, <2>1, <2>2
<1>4. ProposalsInv'
  <2>1. \A p \in Branches : refs[p] # 0 => refs'[p] # 0
    BY <1>1 DEF ProposalsInv, Refs
  <2> QED
    BY <1>1, <1>2, <1>3, <2>1 DEF ProposalsInv
<1>5. NothingOverwritten
  <2> SUFFICES ASSUME NEW c \in Refs, refs[c] # 0, refs'[c] # 0
               PROVE  refs[c] \in HistoryIn(commits', refs'[c])
    BY DEF NothingOverwritten
  <2>1. CASE refs'[c] = refs[c]
    BY <2>1, BranchStays
  <2>2. CASE refs'[c] # refs[c]
    <3>1. c = b /\ refs'[c] = Fresh /\ \E p \in parents : refs[c] \in History(p)
      BY <2>2 DEF ProposalsInv
    <3> QED
      BY <1>1, <3>1
  <2> QED
    BY <2>1, <2>2
<1> QED
  BY <1>4, <1>5

(* commit_files of the git plugin.                                         *)
LEMMA GitStep ==
  ASSUME ProposalsInv, NEW d \in GitDispatches, GitCommit(d)
  PROVE  ProposalsInv' /\ NothingOverwritten
<1>1. PICK pulled : pulled = Pulled(BaseBranch)
  OBVIOUS
<1>2. BaseBranch \in Refs /\ refs[BaseBranch] # 0 /\ Len(commits) \in Nat
  BY DEF ProposalsInv, Refs, CommitGraph
<1>3. /\ pulled \in [there : BOOLEAN, head : Refs, refs : [Refs -> 0 .. Len(commits)]]
      /\ pulled.there = TRUE /\ pulled.refs[pulled.head] # 0
  BY <1>1, <1>2, PulledClone
<1>4. PICK b, on :
        /\ b \in Branches
        /\ on = IF pulled.refs[b] # 0 THEN pulled.refs[b] ELSE pulled.refs[pulled.head]
        /\ IF d \in Tree(on)
           THEN /\ clone' = [pulled EXCEPT !.refs[b] = on]
                /\ UNCHANGED << commits, refs >>
           ELSE /\ NewCommit({on}, Tree(on) \cup {d}, d)
                /\ \/ /\ refs[b] \in {0} \cup History(on)
                      /\ refs' = [refs EXCEPT ![b] = Fresh]
                      /\ clone' = [pulled EXCEPT !.refs[b] = Fresh]
                   \/ /\ clone' = [[pulled EXCEPT !.refs[b] = Fresh] EXCEPT !.head = b]
                      /\ UNCHANGED refs
                   \/ /\ clone' = [pulled EXCEPT !.refs[b] = Fresh]
                      /\ UNCHANGED refs
  BY <1>1 DEF GitCommit
<1>5. UNCHANGED << proposer, pulls >>
  BY DEF GitCommit
<1>6. on \in 1 .. Len(commits) /\ b \in Refs
  BY <1>2, <1>3, <1>4 DEF Refs
<1>7. ASSUME NEW n \in Nat, NEW c \in 1 .. n, Len(commits) <= n, NEW h \in Refs,
             h = pulled.head \/ h = b, NEW q,
             q = [pulled EXCEPT !.refs[b] = c, !.head = h]
      PROVE  q \in [there : BOOLEAN, head : Refs, refs : [Refs -> 0 .. n]] /\ q.refs[q.head] # 0
  <2>1. PICK f : f = pulled.refs
    OBVIOUS
  <2>2. f \in [Refs -> 0 .. n] /\ f[pulled.head] # 0 /\ pulled.head \in Refs
    BY <1>2, <1>3, <1>7, <2>1
  <2>3. q = [there |-> TRUE, head |-> h, refs |-> [f EXCEPT ![b] = c]]
    BY <1>3, <1>7, <2>1
  <2>4. [f EXCEPT ![b] = c] \in [Refs -> 0 .. n] /\ [f EXCEPT ![b] = c][h] # 0
    BY <1>6, <1>7, <2>2
  <2> QED
    BY <2>3, <2>4
<1>8. CASE d \in Tree(on)
  <2>1. /\ clone' = [pulled EXCEPT !.refs[b] = on, !.head = pulled.head]
        /\ UNCHANGED << commits, refs >>
    BY <1>3, <1>4, <1>8
  <2>2. pulled.head \in Refs /\ Len(commits) <= Len(commits)
    BY <1>2, <1>3
  <2>3. /\ clone' \in [there : BOOLEAN, head : Refs, refs : [Refs -> 0 .. Len(commits)]]
        /\ clone'.refs[clone'.head] # 0
    BY <1>2, <1>6, <1>7, <2>1, <2>2
  <2>4. ProposalsInv'
    BY <1>5, <2>1, <2>3 DEF ProposalsInv, CommitGraph
  <2> QED
    BY <2>1, <2>4, BranchStays DEF NothingOverwritten
<1>9. CASE d \notin Tree(on)
  <2>1. Fresh \in Nat /\ Fresh \in 1 .. Fresh /\ Len(commits) <= Fresh
    BY <1>2 DEF Fresh
  <2>2. PICK h \in {pulled.head, b} : clone' = [pulled EXCEPT !.refs[b] = Fresh, !.head = h]
    BY <1>3, <1>4, <1>9
  <2>3. h \in Refs
    BY <1>3, <1>6
  <2>4. PICK n : n = Fresh
    OBVIOUS
  <2>5. /\ clone' \in [there : BOOLEAN, head : Refs, refs : [Refs -> 0 .. Fresh]]
        /\ clone'.refs[clone'.head] # 0
    BY <1>7, <2>1, <2>2, <2>3, <2>4
  <2>6. /\ NewCommit({on}, Tree(on) \cup {d}, d)
        /\ \/ UNCHANGED refs
           \/ /\ refs' = [refs EXCEPT ![b] = Fresh]
              /\ refs[b] = 0 \/ \E p \in {on} : refs[b] \in History(p)
    BY <1>4, <1>9
  <2>7. Tree(on) \subseteq ProposalDispatches
    BY <1>6, TreeOfCommit DEF ProposalsInv
  <2>8. /\ {on} \in SUBSET (1 .. Len(commits)) /\ (Tree(on) \cup {d}) \in SUBSET ProposalDispatches
        /\ d \in (ProposalDispatches \cup {Someone}) \ GitHubDispatches
    BY <1>6, <2>7, ProposalsAssumption DEF ProposalDispatches
  <2> QED
    BY <1>5, <1>6, <2>5, <2>6, <2>8, CommitSteps
<1> QED
  BY <1>8, <1>9

(* Others merge a pull request or delete a branch.                         *)
LEMMA OthersStep ==
  ASSUME ProposalsInv, NEW b \in Branches, GitPropose(b) \/ MergePull(b) \/ DeleteBranch(b)
  PROVE  ProposalsInv' /\ NothingOverwritten
<1>1. b \in Refs /\ BaseBranch \in Refs /\ b # BaseBranch /\ Len(commits) \in Nat
  BY ProposalsAssumption DEF Refs, ProposalsInv, CommitGraph
<1>2. CASE MergePull(b)
  <2>1. /\ NewCommit({refs[BaseBranch], refs[b]}, Tree(refs[BaseBranch]) \cup Tree(refs[b]), Someone)
        /\ refs' = [refs EXCEPT ![BaseBranch] = Fresh] /\ UNCHANGED << proposer, clone >>
        /\ pulls' \subseteq pulls
    BY <1>2 DEF MergePull
  <2>2. CASE refs[b] # 0
    <3>1. refs[BaseBranch] \in 1 .. Len(commits) /\ refs[b] \in 1 .. Len(commits)
      BY <1>1, <2>2 DEF ProposalsInv
    <3>2. Tree(refs[BaseBranch]) \subseteq ProposalDispatches /\ Tree(refs[b]) \subseteq ProposalDispatches
      BY <3>1, TreeOfCommit DEF ProposalsInv
    <3>3. refs[BaseBranch] \in History(refs[BaseBranch])
      BY <3>1, OwnHistory DEF History
    <3>4. clone' \in [there : BOOLEAN, head : Refs, refs : [Refs -> 0 .. Fresh]]
      <4>1. 0 .. Len(commits) \subseteq 0 .. Fresh
        BY <1>1 DEF Fresh
      <4> QED
        BY <2>1, <4>1 DEF ProposalsInv
    <3>5. clone'.there => clone'.refs[clone'.head] # 0
      BY <2>1 DEF ProposalsInv
    <3>6. /\ {refs[BaseBranch], refs[b]} \in SUBSET (1 .. Len(commits))
          /\ (Tree(refs[BaseBranch]) \cup Tree(refs[b])) \in SUBSET ProposalDispatches
          /\ Someone \in (ProposalDispatches \cup {Someone}) \ GitHubDispatches
      BY <3>1, <3>2, ProposalsAssumption
    <3>7. \E p \in {refs[BaseBranch], refs[b]} : refs[BaseBranch] \in History(p)
      BY <3>3
    <3>8. PICK parents, tree : /\ parents = {refs[BaseBranch], refs[b]}
                               /\ tree = Tree(refs[BaseBranch]) \cup Tree(refs[b])
      OBVIOUS
    <3>9. /\ parents \in SUBSET (1 .. Len(commits)) /\ tree \in SUBSET ProposalDispatches
          /\ NewCommit(parents, tree, Someone)
          /\ \E p \in parents : refs[BaseBranch] \in History(p)
      BY <2>1, <3>6, <3>7, <3>8
    <3> QED
      BY <1>1, <2>1, <3>4, <3>5, <3>6, <3>9, CommitSteps
  <2> QED
    BY <1>2, <2>2 DEF MergePull, ProposalsInv
<1>3. CASE GitPropose(b)
  <2>1. UNCHANGED << commits, refs, proposer, clone >>
    BY <1>3 DEF GitPropose
  <2>2. pulls' \subseteq Branches /\ \A p \in pulls' : refs'[p] # 0
    BY <1>3 DEF GitPropose, ProposalsInv
  <2>3. ProposalsInv'
    BY <2>1, <2>2 DEF ProposalsInv, CommitGraph
  <2> QED
    BY <2>1, <2>3, BranchStays DEF NothingOverwritten
<1>4. CASE DeleteBranch(b)
  <2>1. UNCHANGED << commits, proposer, clone >> /\ refs' = [refs EXCEPT ![b] = 0]
    BY <1>4 DEF DeleteBranch
  <2>2. refs' \in [Refs -> 0 .. Len(commits)] /\ refs'[BaseBranch] # 0
    BY <1>1, <2>1 DEF ProposalsInv
  <2>3. pulls' \subseteq Branches /\ \A p \in pulls' : refs'[p] # 0
    BY <1>4 DEF DeleteBranch, ProposalsInv, Refs
  <2>4. ProposalsInv'
    BY <2>1, <2>2, <2>3 DEF ProposalsInv, CommitGraph
  <2>5. \A c \in Refs : refs'[c] # 0 => refs'[c] = refs[c]
    BY <2>1 DEF ProposalsInv
  <2> QED
    BY <2>4, <2>5, BranchStays DEF NothingOverwritten
<1> QED
  BY <1>2, <1>3, <1>4

(* How many commits there are, and that dispatches are a function, which   *)
(* is what the invariant leaves out of the types.                          *)
ProposalsFit ==
  /\ Len(commits) <= MaxCommits
  /\ proposer = [d \in GitHubDispatches |-> proposer[d]]

LEMMA ProposalsStayFit ==
  ASSUME ProposalsInv, ProposalsFit, [ProposalsNext]_proposalVars
  PROVE  ProposalsFit'
<1>1. Len(commits') <= MaxCommits
  <2>1. CASE UNCHANGED commits
    BY <2>1 DEF ProposalsFit
  <2>2. ASSUME NEW parents, NEW tree, NEW by, NewCommit(parents, tree, by)
        PROVE  Len(commits') <= MaxCommits
    <3>1. PICK n, x : /\ n = Len(commits) /\ n < MaxCommits /\ commits' = Append(commits, x)
      BY <2>2 DEF NewCommit
    <3>2. n \in Nat /\ Len(commits') = n + 1
      BY <3>1 DEF ProposalsInv, CommitGraph
    <3> QED
      BY <3>1, <3>2, ProposalsAssumption
  <2> QED
    BY <2>1, <2>2
    DEF ProposalsNext, proposalVars, ReadBase, CreateBranch, MakeCommit, MoveBranch, OpenPull,
        ProposalFails, GitRead, GitCommit, LoseClone, GitPropose, MergePull, DeleteBranch
<1>2. proposer' = [d \in GitHubDispatches |-> proposer'[d]]
  <2>1. CASE UNCHANGED proposer
    BY <2>1 DEF ProposalsFit
  <2>2. ASSUME NEW d \in GitHubDispatches, NEW to, Proposes(d, to)
        PROVE  proposer' = [e \in GitHubDispatches |-> proposer'[e]]
    <3>1. PICK f : f = [e \in GitHubDispatches |-> proposer[e]]
      OBVIOUS
    <3>2. proposer = f
      BY <3>1 DEF ProposalsFit
    <3>3. proposer' = [f EXCEPT ![d] = to]
      BY <2>2, <3>2 DEF Proposes
    <3>4. [f EXCEPT ![d] = to] = [e \in GitHubDispatches |-> IF e = d THEN to ELSE f[e]]
      BY <3>1
    <3>5. PICK g : g = [e \in GitHubDispatches |-> IF e = d THEN to ELSE f[e]]
      OBVIOUS
    <3>6. proposer' = g /\ g = [e \in GitHubDispatches |-> g[e]]
      BY <3>3, <3>4, <3>5
    <3> QED
      BY <3>6
  <2> QED
    BY <2>1, <2>2
    DEF ProposalsNext, proposalVars, ReadBase, CreateBranch, MakeCommit, MoveBranch, OpenPull,
        ProposalFails, GitRead, GitCommit, LoseClone, GitPropose, MergePull, DeleteBranch
<1> QED
  BY <1>1, <1>2 DEF ProposalsFit

LEMMA ProposalsHaveTypes ==
  ASSUME ProposalsInv, ProposalsFit
  PROVE  ProposalsTypeOK
<1>1. PICK n : n = Len(commits)
  OBVIOUS
<1>2. n \in Nat /\ DOMAIN commits = 1 .. n /\ 0 .. n \subseteq CommitIds /\ n <= MaxCommits
  BY <1>1, ProposalsAssumption DEF ProposalsInv, CommitGraph, ProposalsFit, CommitIds
<1>3. ASSUME NEW c \in DOMAIN commits PROVE commits[c] \in Commit
  <2>1. PICK set : /\ set = [parents : SUBSET Nat, tree : SUBSET (ProposalDispatches),
                              by : ProposalDispatches \cup {Someone}]
                   /\ commits \in Seq(set)
    <3>1. CommitGraph(commits)
      BY DEF ProposalsInv
    <3> QED
      BY <3>1 DEF CommitGraph
  <2>2. PICK x : x = commits[c] /\ x \in set
    BY <1>1, <1>2, <1>3, <2>1, ElementOfSeq
  <2>3. x.parents \subseteq 1 .. (c - 1)
    BY <1>3, <2>2 DEF ProposalsInv, CommitGraph
  <2>4. c \in Nat /\ 1 .. (c - 1) \subseteq 1 .. MaxCommits
    BY <1>2, ProposalsAssumption
  <2>5. x.parents \subseteq 1 .. MaxCommits
    BY <2>3, <2>4
  <2> QED
    BY <2>1, <2>2, <2>5 DEF Commit
<1>4. refs \in [Refs -> CommitIds]
  BY <1>1, <1>2 DEF ProposalsInv
<1>5. clone \in Clone
  BY <1>1, <1>2 DEF ProposalsInv, Clone
<1>6. proposer \in [GitHubDispatches -> Proposer]
  <2>1. ASSUME NEW d \in GitHubDispatches PROVE proposer[d] \in Proposer
    BY <1>1, <1>2 DEF ProposalsInv, Proposer
  <2> QED
    BY <2>1 DEF ProposalsFit
<1> QED
  BY <1>3, <1>4, <1>5, <1>6 DEF ProposalsTypeOK, ProposalsInv

(* GitHubClient.commit_and_pr and GitClient.commit_files: for any number   *)
(* of dispatches that overlap on a branch, no branch loses a commit, a     *)
(* proposal changes nothing but its own files, and all keeps its type.     *)
THEOREM NothingIsOverwritten == ProposalsSpec => ProposalsKept
<1>1. ProposalsInit => ProposalsInv
  <2> SUFFICES ASSUME ProposalsInit PROVE ProposalsInv
    OBVIOUS
  <2>1. PICK x : x = [parents |-> {}, tree |-> {}, by |-> Someone]
    OBVIOUS
  <2>2. /\ commits = << x >> /\ x.parents = {} /\ x.by = Someone
        /\ x \in [parents : SUBSET Nat, tree : SUBSET (ProposalDispatches),
                  by : ProposalDispatches \cup {Someone}]
    BY <2>1 DEF ProposalsInit
  <2>3. Len(commits) = 1 /\ DOMAIN commits = {1} /\ commits[1] = x
    BY <2>2
  <2>4. CommitGraph(commits)
    BY <2>2, <2>3 DEF CommitGraph, OwnFiles
  <2>5. BaseBranch \in Refs /\ 0 \in 0 .. 1 /\ 1 \in 0 .. 1
    BY DEF Refs
  <2>6. refs \in [Refs -> 0 .. 1] /\ refs[BaseBranch] # 0
    BY <2>5 DEF ProposalsInit
  <2>7. clone \in [there : BOOLEAN, head : Refs, refs : [Refs -> 0 .. 1]] /\ ~ clone.there
    BY <2>5 DEF ProposalsInit, NoClone
  <2>8. \A d \in GitHubDispatches :
          /\ proposer[d] \in [at : {"idle"}, branch : Branches, base : {0}, commit : {0}]
          /\ proposer[d].at = "idle"
    BY DEF ProposalsInit
  <2>9. [at : {"idle"}, branch : Branches, base : {0}, commit : {0}]
          \subseteq [at : {"idle", "based", "branched", "committed", "proposing", "succeeded", "failed"},
                     branch : Branches, base : 0 .. 1, commit : 0 .. 1]
    BY <2>5
  <2>10. DOMAIN proposer = GitHubDispatches /\ pulls = {}
    BY DEF ProposalsInit
  <2> QED
    BY <2>3, <2>4, <2>6, <2>7, <2>8, <2>9, <2>10 DEF ProposalsInv
<1>2. ProposalsInv /\ [ProposalsNext]_proposalVars => ProposalsInv' /\ (NothingOverwritten \/ UNCHANGED proposalVars)
  <2>1. CASE UNCHANGED proposalVars
    BY <2>1 DEF proposalVars, ProposalsInv, CommitGraph
  <2> QED
    BY <2>1, GitHubStep, CloneStep, GitStep, OthersStep DEF ProposalsNext
<1>3. ProposalsInv => OwnFilesOnly
  BY DEF ProposalsInv, CommitGraph, OwnFiles, OwnFilesOnly, Tree
<1>4. ProposalsInit => ProposalsFit
  <2> SUFFICES ASSUME ProposalsInit PROVE ProposalsFit
    OBVIOUS
  <2>1. Len(commits) = 1
    BY DEF ProposalsInit
  <2>2. proposer = [d \in GitHubDispatches |-> proposer[d]]
    BY DEF ProposalsInit
  <2> QED
    BY <2>1, <2>2, ProposalsAssumption DEF ProposalsFit
<1>5. ProposalsInv /\ ProposalsFit /\ [ProposalsNext]_proposalVars => ProposalsFit'
  BY ProposalsStayFit
<1>6. ProposalsInv /\ ProposalsFit => ProposalsTypeOK
  BY ProposalsHaveTypes
<1> QED
  BY <1>1, <1>2, <1>3, <1>4, <1>5, <1>6, PTL DEF ProposalsSpec, ProposalsKept
=============================================================================
