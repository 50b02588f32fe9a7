--------------------------- MODULE PlatformProofs ----------------------------
(***************************************************************************)
(* Proofs about the platform that the dishes run on.  For any number of    *)
(* Dishwashers, runs and addons: a scheduled task runs once at a time, a   *)
(* plugin an operator disabled runs nothing, and a startup shows the       *)
(* plugins that failed.  For any number of replicas, retries, browsers and *)
(* sessions: a signed call is run once, and a session is honoured as long  *)
(* as it is one.                                                           *)
(***************************************************************************)
EXTENDS PluginHealth, Startup, ControlCall, Sessions, TLAPS, FiniteSetTheorems

-----------------------------------------------------------------------------
(* The health check of a plugin and its scheduled task.                    *)

NothingOut == carries = {} /\ RunsOut = {}

(* Of the Dishwashers that hold the task and the orders that are open for  *)
(* it there is one at most, and none while the task may be claimed.        *)
OneOut ==
  /\ \A d, e \in carries : d = e
  /\ \A r, s \in RunsOut : r = s
  /\ carries = {} \/ RunsOut = {}

TaskInv ==
  /\ SchedTypeOK
  /\ ~ Registered => NothingOut
  /\ ~ overruled => OneOut /\ (task.status = "idle" => NothingOut)
  /\ QueuedIsOut
  /\ EnabledHasNextRun

(* A disabled plugin stays so until bootstrap or an operator enables it,   *)
(* and an enabled one has an enabled task unless the history says why.     *)
PluginInv ==
  /\ plugin \in [enabled : BOOLEAN,
                 health : {"absent", "unknown", "initializing", "healthy", "failed", "disabled"}]
  /\ verdict \in [Orders -> {"none"} \cup ProbeResults]
  /\ stopped => ~ plugin.enabled
  /\ Registered /\ ~ unwatched /\ ~ stopped => task.enabled

HealthInv == TaskInv /\ PluginInv

(* What a registered task is.                                              *)
TaskRecord == [enabled : BOOLEAN, status : {"idle", "queued", "disabled"},
               next : {"never", "later", "due"}]

(* A registered task that is written stays registered.                     *)
LEMMA RegisteredTask ==
  ASSUME SchedTypeOK
  PROVE  /\ Registered => task \in TaskRecord
         /\ task' \in TaskRecord => Registered'
BY DEF SchedTypeOK, Registered, NoTask, TaskRecord

(* The task's steps without its plugin.                                    *)
LEMMA TaskAloneStep == TaskInv /\ SchedAlone => TaskInv'
<1> SUFFICES ASSUME TaskInv, SchedAlone PROVE TaskInv'
  OBVIOUS
<1> USE DEF TaskInv, SchedTypeOK, NothingOut, OneOut, QueuedIsOut, EnabledHasNextRun,
        Registered, OpenRuns, RunsOut, NoTask
<1>1. CASE RegisterTask
  BY <1>1 DEF RegisterTask, RestingStatus
<1>2. ASSUME NEW d \in Dishwashers, ClaimDue(d) PROVE TaskInv'
  BY <1>2 DEF ClaimDue, DueTask, ClaimedTask
<1>3. ASSUME NEW d \in Dishwashers, Enqueue(d) PROVE TaskInv'
  BY <1>3 DEF Enqueue, ClaimedTask
<1>4. ASSUME NEW d \in Dishwashers, EnqueueFails(d) PROVE TaskInv'
  BY <1>4 DEF EnqueueFails
<1>5. CASE ClaimAnswerLost
  BY <1>5 DEF ClaimAnswerLost, DueTask, ClaimedTask
<1>6. CASE BecomeDue
  BY <1>6 DEF BecomeDue
<1>7. CASE RunNow
  <2>1. Registered /\ task \in TaskRecord
    BY <1>7 DEF RunNow, TaskRecord
  <2>2. /\ task' \in TaskRecord /\ task'.status = task.status /\ task'.next = "due"
        /\ UNCHANGED << carries, run, dropped, stranded, overruled >>
    BY <1>7, <2>1 DEF RunNow, TaskRecord
  <2>3. Registered'
    BY <2>2, RegisteredTask DEF TaskInv
  <2>4. SchedTypeOK' /\ NothingOut' = NothingOut /\ OneOut' = OneOut
    BY <2>2 DEF TaskRecord
  <2>5. QueuedIsOut' /\ EnabledHasNextRun'
    BY <2>2
  <2> QED
    BY <2>2, <2>3, <2>4, <2>5
<1>8. CASE Enable
  <2>1. Registered /\ task \in TaskRecord
    BY <1>8, RegisteredTask DEF Enable
  <2>2. /\ task' \in TaskRecord /\ task'.status = "idle" /\ task'.next # "never"
        /\ UNCHANGED << carries, run >>
    BY <1>8, <2>1 DEF Enable, EnabledTask, TaskRecord
  <2>3. overruled' \in BOOLEAN /\ dropped' \in BOOLEAN /\ stranded' \in BOOLEAN
    BY <1>8 DEF Enable
  <2>4. ~ overruled' => carries = {} /\ RunsOut = {}
    BY <1>8 DEF Enable
  <2>5. Registered'
    BY <2>2, RegisteredTask DEF TaskInv
  <2>6. SchedTypeOK' /\ NothingOut' = NothingOut /\ OneOut' = OneOut
    BY <2>2, <2>3 DEF TaskRecord
  <2>7. ~ overruled' => OneOut /\ NothingOut
    BY <2>4, <2>1, <1>8 DEF Enable
  <2>8. QueuedIsOut' /\ EnabledHasNextRun'
    BY <2>2
  <2> QED
    BY <2>2, <2>5, <2>6, <2>7, <2>8
<1>9. CASE Disable
  <2>1. Registered /\ task \in TaskRecord
    BY <1>9, RegisteredTask DEF Disable
  <2>2. task' \in TaskRecord /\ task'.status = "disabled" /\ ~ task'.enabled
    BY <1>9, <2>1 DEF Disable, TaskRecord
  <2> QED
    BY <1>9, <2>1, <2>2 DEF Disable, TaskRecord
<1>10. ASSUME NEW r \in Runs, ReconcilerEndsRun(r) PROVE TaskInv'
  <2>1. RunsOut' = RunsOut /\ run' \in [Runs -> {"none", "open", "cut", "ended"}]
    BY <1>10 DEF ReconcilerEndsRun
  <2>2. UNCHANGED << task, carries, dropped, overruled >> /\ stranded'
    BY <1>10 DEF ReconcilerEndsRun
  <2> QED
    BY <2>1, <2>2
<1> QED
  BY <1>1, <1>2, <1>3, <1>4, <1>5, <1>6, <1>7, <1>8, <1>9, <1>10 DEF SchedAlone

(* Cook's end of a run, which frees the task unless the order is terminal. *)
LEMMA FinalizeStep == ASSUME TaskInv, NEW r \in Runs, FinalizeRun(r) PROVE TaskInv'
<1>1. r \in RunsOut
  BY DEF FinalizeRun, RunsOut
<1>2. Registered /\ task \in TaskRecord
  BY <1>1, RegisteredTask DEF TaskInv, NothingOut
<1>3. RunsOut' = RunsOut \ {r} /\ run' \in [Runs -> {"none", "open", "cut", "ended"}]
  BY DEF FinalizeRun, RunsOut, TaskInv, SchedTypeOK
<1>4. ~ overruled => NothingOut'
  BY <1>1, <1>3 DEF TaskInv, OneOut, NothingOut, FinalizeRun
<1>5. CASE run[r] = "open"
  <2>1. /\ task' \in TaskRecord
        /\ task'.status # "queued"
        /\ task'.enabled => task'.next = "later"
    BY <1>2, <1>5 DEF FinalizeRun, FreedTask, RestingStatus, NextAfterRun, TaskRecord
  <2>2. Registered'
    BY <2>1, RegisteredTask DEF TaskInv
  <2>3. stranded' = FALSE
    BY <1>5 DEF FinalizeRun
  <2> QED
    BY <1>2, <1>3, <1>4, <2>1, <2>2, <2>3
       DEF TaskInv, SchedTypeOK, TaskRecord, OneOut, NothingOut, QueuedIsOut, EnabledHasNextRun,
           FinalizeRun
<1>6. CASE run[r] = "cut"
  <2>1. OpenRuns' = OpenRuns
    BY <1>6 DEF FinalizeRun, OpenRuns, TaskInv, SchedTypeOK
  <2>2. UNCHANGED << task, stranded, carries, dropped, overruled >>
    BY <1>6 DEF FinalizeRun
  <2> QED
    BY <1>2, <1>3, <1>4, <2>1, <2>2
       DEF TaskInv, SchedTypeOK, OneOut, NothingOut, QueuedIsOut, EnabledHasNextRun, Registered
<1> QED
  BY <1>5, <1>6 DEF FinalizeRun

(* Every step, the plugin's too, keeps what the task promises.             *)
LEMMA TaskStepKeeps == TaskInv /\ [HealthNext]_healthVars => TaskInv'
<1> SUFFICES ASSUME TaskInv, [HealthNext]_healthVars PROVE TaskInv'
  OBVIOUS
<1>1. CASE UNCHANGED schedVars
  BY <1>1 DEF TaskInv, SchedTypeOK, NothingOut, OneOut, QueuedIsOut, EnabledHasNextRun,
              Registered, OpenRuns, RunsOut, schedVars
<1>2. CASE EnablePlugin
  <2>1. CASE Registered
    <3>1. /\ task' \in TaskRecord
          /\ task'.status = "idle" /\ task'.next = "later"
      BY <1>2, <2>1 DEF EnablePlugin, SetTask, RestingStatus, TaskRecord
    <3>2. Registered'
      BY <3>1, RegisteredTask DEF TaskInv
    <3>3. /\ UNCHANGED << carries, run >> /\ dropped' = FALSE
          /\ overruled' = (overruled \/ ~ NothingOut) /\ stranded' = FALSE
      BY <1>2 DEF EnablePlugin, NothingOut
    <3>4. RunsOut' = RunsOut
      BY <3>3 DEF RunsOut
    <3>5. SchedTypeOK'
      <4>1. overruled' \in BOOLEAN
        BY <3>3 DEF TaskInv, SchedTypeOK
      <4> QED
        BY <3>1, <3>3, <4>1 DEF TaskInv, SchedTypeOK, TaskRecord
    <3>6. NothingOut' = NothingOut /\ OneOut' = OneOut
      BY <3>3, <3>4 DEF NothingOut, OneOut
    <3>7. QueuedIsOut' /\ EnabledHasNextRun'
      BY <3>1 DEF QueuedIsOut, EnabledHasNextRun
    <3>8. ~ overruled' => OneOut' /\ NothingOut'
      BY <3>3, <3>6 DEF TaskInv
    <3> QED
      BY <3>2, <3>5, <3>7, <3>8 DEF TaskInv
  <2>2. CASE ~ Registered
    <3>1. /\ NothingOut /\ UNCHANGED << task, carries, run >>
          /\ dropped' = FALSE /\ stranded' = FALSE
      BY <1>2, <2>2 DEF EnablePlugin, SetTask, TaskInv
    <3>2. overruled' = overruled
      BY <1>2, <3>1 DEF EnablePlugin, NothingOut, TaskInv, SchedTypeOK
    <3>3. task.status = "absent"
      BY <2>2 DEF Registered, NoTask
    <3> QED
      BY <3>1, <3>2, <3>3
         DEF TaskInv, SchedTypeOK, NothingOut, OneOut, QueuedIsOut, EnabledHasNextRun,
             RunsOut, Registered
  <2> QED
    BY <2>1, <2>2
<1>3. CASE DisablePlugin
  BY <1>3 DEF DisablePlugin, SetTask, RestingStatus, TaskInv, SchedTypeOK, NothingOut, OneOut,
              QueuedIsOut, EnabledHasNextRun, Registered, OpenRuns, RunsOut, NoTask
<1>4. CASE SetInterval
  BY <1>4 DEF SetInterval, TaskInv, SchedTypeOK, NothingOut, OneOut,
              QueuedIsOut, EnabledHasNextRun, Registered, OpenRuns, RunsOut, NoTask
<1>5. ASSUME NEW r \in Runs, EndHealthRun(r) PROVE TaskInv'
  BY <1>5, FinalizeStep DEF EndHealthRun
<1>6. CASE TaskStep
  BY <1>6, TaskAloneStep DEF TaskStep
<1> QED
  BY <1>1, <1>2, <1>3, <1>4, <1>5, <1>6
     DEF HealthNext, healthVars, Bootstrap, TestConnection, Probe, EndTest

(* Every step keeps a disabled plugin from running, and an enabled one     *)
(* watched.                                                                *)
LEMMA PluginStep == HealthInv /\ [HealthNext]_healthVars => PluginInv'
<1> SUFFICES ASSUME HealthInv, [HealthNext]_healthVars PROVE PluginInv'
  OBVIOUS
<1> USE DEF HealthInv, TaskInv, PluginInv, Registered
<1>0. SchedTypeOK
  OBVIOUS
<1>1. CASE Bootstrap
  <2>1. Initialized \in {"initializing", "healthy", "failed"}
    <3>1. plugin.health \in {"absent", "unknown", "initializing", "healthy", "failed", "disabled"}
      OBVIOUS
    <3> QED
      BY <3>1 DEF Initialized
  <2>2. \E h \in {"initializing", "healthy", "failed"} : plugin' = [enabled |-> TRUE, health |-> h]
    <3>1. CASE plugin' = MarkedFailed
      BY <3>1 DEF MarkedFailed
    <3>2. ASSUME NEW result \in ProbeResults,
                 plugin' = [enabled |-> TRUE, health |-> Judged(Initialized, result)]
          PROVE  \E h \in {"initializing", "healthy", "failed"} :
                   plugin' = [enabled |-> TRUE, health |-> h]
      <4>1. Judged(Initialized, result) \in {"initializing", "healthy", "failed"}
        BY <2>1 DEF Judged, ProbeResults
      <4> QED
        BY <3>2, <4>1
    <3> QED
      BY <1>1, <3>1, <3>2 DEF Bootstrap
  <2> QED
    <3>1. /\ ~ stopped' /\ UNCHANGED << task, verdict >>
          /\ ~ unwatched' => ~ unwatched /\ ~ stopped
      BY <1>1 DEF Bootstrap, schedVars
    <3>2. plugin' \in [enabled : BOOLEAN, health : {"absent", "unknown", "initializing",
                                                     "healthy", "failed", "disabled"}]
      BY <2>2
    <3> QED
      BY <3>1, <3>2
<1>2. CASE EnablePlugin
  BY <1>2 DEF EnablePlugin, SetTask
<1>3. CASE DisablePlugin
  BY <1>3 DEF DisablePlugin
<1>4. CASE SetInterval
  BY <1>0, <1>4 DEF SetInterval, pluginVars, SchedTypeOK, NoTask
<1>5. CASE TestConnection
  BY <1>5 DEF TestConnection, schedVars
<1>6. ASSUME NEW o \in Orders, Probe(o) PROVE PluginInv'
  BY <1>6 DEF Probe, schedVars, ProbeResults
<1>7. ASSUME NEW o \in Orders, ApplyHealth(o)
      PROVE  /\ plugin' \in [enabled : BOOLEAN,
                             health : {"absent", "unknown", "initializing", "healthy", "failed",
                                       "disabled"}]
             /\ verdict' \in [Orders -> {"none"} \cup ProbeResults]
             /\ plugin'.enabled = plugin.enabled
  BY <1>7 DEF ApplyHealth, Judged, ProbeResults
<1>8. ASSUME NEW r \in Runs, EndHealthRun(r) PROVE PluginInv'
  <2>1. FinalizeRun(r) /\ ApplyHealth(r) /\ UNCHANGED << stopped, unwatched >>
    BY <1>8 DEF EndHealthRun
  <2>2. r \in Orders
    BY DEF Orders
  <2>3. Registered' => Registered /\ task'.enabled = task.enabled
    <3>1. Registered /\ task \in TaskRecord
      BY <1>0, <2>1, RegisteredTask DEF FinalizeRun, NothingOut, RunsOut
    <3>2. task' = task \/ task' = FreedTask
      BY <2>1 DEF FinalizeRun
    <3> QED
      BY <3>1, <3>2 DEF FreedTask, TaskRecord
  <2> QED
    BY <1>7, <2>1, <2>2, <2>3
<1>9. CASE EndTest
  <2>1. ApplyHealth(Test) /\ UNCHANGED << schedVars, stopped, unwatched >>
    BY <1>9 DEF EndTest
  <2>2. Test \in Orders
    BY DEF Orders
  <2> QED
    BY <1>7, <2>1, <2>2 DEF schedVars
<1>10. CASE TaskStep
  BY <1>10 DEF TaskStep
<1>11. CASE UNCHANGED healthVars
  BY <1>11 DEF healthVars, schedVars, pluginVars
<1> QED
  BY <1>1, <1>2, <1>3, <1>4, <1>5, <1>6, <1>8, <1>9, <1>10, <1>11 DEF HealthNext

(* The inductive invariant of the task and its plugin.                     *)
LEMMA HealthInvHolds == HealthSpec => []HealthInv
<1>1. HealthInit => HealthInv
  <2> SUFFICES ASSUME HealthInit PROVE HealthInv
    OBVIOUS
  <2>1. TaskInv
    BY DEF HealthInit, SchedInit, TaskInv, SchedTypeOK, NothingOut, OneOut, QueuedIsOut,
           EnabledHasNextRun, Registered, OpenRuns, RunsOut, NoTask
  <2>2. PluginInv
    BY DEF HealthInit, SchedInit, PluginInv, Registered, NoTask, NoPlugin
  <2> QED
    BY <2>1, <2>2 DEF HealthInv
<1>2. HealthInv /\ [HealthNext]_healthVars => HealthInv'
  BY TaskStepKeeps, PluginStep DEF HealthInv
<1> QED
  BY <1>1, <1>2, PTL DEF HealthSpec

(* A set whose elements are all equal has one element at most.             *)
LEMMA AtMostOneElement ==
  ASSUME NEW S, \A x, y \in S : x = y
  PROVE  Cardinality(S) \in {0, 1} /\ (S = {} => Cardinality(S) = 0)
<1>1. CASE S = {}
  BY <1>1, FS_EmptySet
<1>2. CASE S # {}
  <2>1. PICK x \in S : TRUE
    BY <1>2
  <2>2. S = {x}
    BY <2>1
  <2> QED
    BY <1>2, <2>2, FS_Singleton
<1> QED
  BY <1>1, <1>2

(* claim_due_scheduled_tasks, create_manual_order and Cook's finalization: *)
(* however many Dishwashers claim and post, a task has one run at a time,  *)
(* a queued one is on its way and an enabled one has a next run.           *)
THEOREM TasksRunOnce == HealthSpec => []TasksKept
<1>1. HealthInv => TasksKept
  <2> SUFFICES ASSUME HealthInv PROVE TasksKept
    OBVIOUS
  <2>1. QueuedIsOut /\ EnabledHasNextRun
    BY DEF HealthInv, TaskInv
  <2>2. ASSUME ~ overruled PROVE Cardinality(carries) + Cardinality(RunsOut) <= 1
    <3>1. OneOut
      BY <2>2 DEF HealthInv, TaskInv
    <3>2. /\ Cardinality(carries) \in {0, 1} /\ (carries = {} => Cardinality(carries) = 0)
          /\ Cardinality(RunsOut) \in {0, 1} /\ (RunsOut = {} => Cardinality(RunsOut) = 0)
      BY <3>1, AtMostOneElement DEF OneOut
    <3> QED
      BY <3>1, <3>2 DEF OneOut
  <2> QED
    BY <2>1, <2>2 DEF HealthInv, TaskInv, NothingOut, TasksKept, OneRunAtATime
<1> QED
  BY <1>1, HealthInvHolds, PTL

(* update_service_plugin and _apply_plugin_health_result: a plugin that an *)
(* operator disabled is not callable until an operator or a restart        *)
(* enables it, and an enabled plugin is watched.                           *)
THEOREM DisabledRunsNothing == HealthSpec => []PluginKept
<1>1. HealthInv => PluginKept
  BY DEF HealthInv, PluginInv, PluginKept, Callable
<1> QED
  BY <1>1, HealthInvHolds, PTL

(* What is written to the row of a plugin is one of its states.            *)
LEMMA HealthTypeStep ==
  ASSUME SchedTypeOK, HealthTypeOK, [HealthNext]_healthVars
  PROVE  HealthTypeOK'
<1> DEFINE Health == {"unknown", "initializing", "healthy", "failed", "disabled"}
           Rows == {NoPlugin} \cup [enabled : BOOLEAN, health : Health]
<1> USE DEF HealthTypeOK
<1>1. CASE Bootstrap
  <2>1. Initialized \in Health
    <3>1. PICK h \in Health \cup {"absent"} : plugin.health = h
      <4>1. CASE plugin = NoPlugin
        BY <4>1 DEF NoPlugin
      <4>2. CASE plugin # NoPlugin
        BY <4>2
      <4> QED
        BY <4>1, <4>2
    <3> QED
      BY <3>1 DEF Initialized
  <2>2. \A result \in ProbeResults : Judged(Initialized, result) \in Health
    BY <2>1 DEF Judged, ProbeResults
  <2>3. PICK h \in Health : plugin' = [enabled |-> TRUE, health |-> h]
    BY <1>1, <2>2 DEF Bootstrap, MarkedFailed
  <2> QED
    BY <1>1, <2>3 DEF Bootstrap
<1>2. CASE EnablePlugin \/ DisablePlugin
  <2>1. PICK e \in BOOLEAN, h \in {"unknown", "disabled"} : plugin' = [enabled |-> e, health |-> h]
    BY <1>2 DEF EnablePlugin, DisablePlugin
  <2> QED
    BY <1>2, <2>1 DEF EnablePlugin, DisablePlugin
<1>3. CASE SetInterval \/ UNCHANGED healthVars
  BY <1>3 DEF SetInterval, healthVars, pluginVars
<1>4. CASE TestConnection \/ TaskStep
  BY <1>4 DEF TestConnection, TaskStep
<1>5. ASSUME NEW o \in Orders, Probe(o) PROVE HealthTypeOK'
  BY <1>5 DEF Probe, ProbeResults
<1>6. ASSUME NEW o \in Orders, ApplyHealth(o)
      PROVE  plugin' \in Rows /\ verdict' \in [Orders -> {"none"} \cup ProbeResults]
  <2>1. CASE Known
    <3>1. PICK x \in [enabled : BOOLEAN, health : Health] : x = plugin
      BY <2>1 DEF Known
    <3>2. Judged(x.health, verdict[o]) \in Health
      BY <1>6, <3>1 DEF ApplyHealth, Judged, ProbeResults
    <3> QED
      BY <1>6, <2>1, <3>1, <3>2 DEF ApplyHealth
  <2>2. CASE ~ Known
    BY <1>6, <2>2 DEF ApplyHealth
  <2> QED
    BY <2>1, <2>2
<1>7. ASSUME NEW r \in Runs, EndHealthRun(r) PROVE HealthTypeOK'
  BY <1>6, <1>7 DEF EndHealthRun, Orders
<1>8. CASE EndTest
  BY <1>6, <1>8 DEF EndTest, Orders
<1> QED
  BY <1>1, <1>2, <1>3, <1>4, <1>5, <1>7, <1>8 DEF HealthNext

(* api/plugins.py, the health service and Cook's finalization together: a  *)
(* plugin and its task stay right under everything that writes either.     *)
THEOREM HealthStaysRight == HealthSpec => []HealthKept
<1>1. HealthInit => HealthTypeOK
  BY DEF HealthInit, HealthTypeOK
<1>2. HealthInv => SchedTypeOK
  BY DEF HealthInv, TaskInv
<1>3. SchedTypeOK /\ HealthTypeOK /\ [HealthNext]_healthVars => HealthTypeOK'
  BY HealthTypeStep
<1>4. SchedTypeOK /\ HealthTypeOK /\ TasksKept /\ PluginKept => HealthKept
  BY DEF HealthKept
<1> QED
  BY <1>1, <1>2, <1>3, <1>4, HealthInvHolds, TasksRunOnce, DisabledRunsNothing, PTL DEF HealthSpec

-----------------------------------------------------------------------------
(* The startup job.                                                        *)

RegistryRow == [health : {"absent", "initializing", "healthy", "failed"}, credential : {"unknown", "error"}]

(* The hooks still to run are of plugins that can be used, and none of     *)
(* them has failed yet.                                                    *)
HooksPending ==
  job.stage = "hooks" => job.left \subseteq Usable \ broken

(* From the end of the registration on, not only of the first job.         *)
ShownSinceRegistered ==
  job.stage \in {"hooks", "identities", "discovery", "credentials", "ended"} =>
    \A p \in EnabledAddons :
      (~Loads(p) \/ ((p \notin Usable \/ p \in broken) /\ p \notin checked)) =>
        registry[p].health = "failed"

StartupInv ==
  /\ registry \in [Addons -> RegistryRow] /\ EnabledAddons \subseteq Addons
  /\ job \in [stage : Stages, left : SUBSET Addons]
  /\ HooksPending /\ HooksAreHelped /\ ShownSinceRegistered

(* The plugins that load and that can be used are a matter of the manifests.*)
LEMMA SameManifests ==
  ASSUME UNCHANGED manifests
  PROVE  /\ Usable' = Usable /\ EnabledAddons' = EnabledAddons
         /\ \A p : (Loads(p)' <=> Loads(p)) /\ Handed(p)' = Handed(p)
<1>1. \A p : Loads(p)' <=> Loads(p)
  BY DEF Loads, Valid, OwnHelper, HookOnItsOwn, TemplatesSound, HealthIsWatched
<1>2. EnabledAddons' = EnabledAddons
  BY DEF EnabledAddons
<1>3. Loaded' = Loaded
  BY <1>1, <1>2 DEF Loaded
<1>4. \A p : Helped(p)' <=> Helped(p)
  BY <1>3 DEF Helped
<1>5. Usable' = Usable
  BY <1>3, <1>4 DEF Usable
<1>6. \A p : Handed(p)' = Handed(p)
  BY DEF Handed
<1> QED
  BY <1>1, <1>2, <1>5, <1>6

(* validate_service_plugin: a plugin that can be used requires no helper   *)
(* for its hook but its own, and has that one.                             *)
LEMMA UsableHook ==
  ASSUME NEW p \in Usable, manifests[p].hook
  PROVE  manifests[p].requires \subseteq Handed(p)
BY DEF Usable, Loaded, Loads, Valid, OwnHelper, HookOnItsOwn, Handed

(* What discovery fails, and what it leaves.                               *)
LEMMA DiscoveredRows ==
  ASSUME registry \in [Addons -> RegistryRow], NEW credential \in BOOLEAN
  PROVE  /\ Discovered(credential) \in [Addons -> RegistryRow]
         /\ \A p \in Addons : IF p \in EnabledAddons \ Usable
                              THEN Discovered(credential)[p].health = "failed"
                              ELSE Discovered(credential)[p] = registry[p]
<1>1. \A p \in Addons : /\ MarkFailed(registry[p], credential) \in RegistryRow
                        /\ MarkFailed(registry[p], credential).health = "failed"
  BY DEF MarkFailed, RegistryRow
<1> QED
  BY <1>1 DEF Discovered

(* The first job registers what discovery found.                           *)
LEMMA RegistryJobStep == StartupInv /\ RegistryJob => StartupInv'
<1> SUFFICES ASSUME StartupInv, RegistryJob PROVE StartupInv'
  OBVIOUS
<1>0. Usable \subseteq EnabledAddons /\ \A p \in EnabledAddons : p \in Usable => Loads(p)
  BY DEF Usable, Loaded
<1>1. PICK probe \in [Usable -> {"healthy", "failed", "incomplete"}] :
        registry' = [p \in Addons |->
          IF p \in Usable THEN RegisteredAs(p, probe[p]) ELSE Discovered(FALSE)[p]]
  BY DEF RegistryJob
<1>2. /\ job' = [stage |-> "hooks", left |-> {p \in Usable : manifests[p].hook}]
      /\ checked' = {} /\ broken' = {} /\ UNCHANGED manifests
  BY DEF RegistryJob
<1>3. /\ Discovered(FALSE) \in [Addons -> RegistryRow]
      /\ \A p \in Addons : p \in EnabledAddons \ Usable => Discovered(FALSE)[p].health = "failed"
  BY DiscoveredRows DEF StartupInv
<1>4. \A p \in Usable : RegisteredAs(p, probe[p]) \in RegistryRow
  BY <1>0, <1>1 DEF RegisteredAs, RegistryRow, StartupInv
<1>5. /\ registry' \in [Addons -> RegistryRow]
      /\ \A p \in EnabledAddons \ Usable : registry'[p].health = "failed"
  BY <1>1, <1>3, <1>4 DEF StartupInv
<1>6. /\ job'.stage = "hooks" /\ job'.left = {p \in Usable : manifests[p].hook}
      /\ job' \in [stage : Stages, left : SUBSET Addons]
  BY <1>0, <1>2 DEF StartupInv, Stages
<1>7. HooksPending' /\ HooksAreHelped'
  BY <1>2, <1>6, SameManifests, UsableHook DEF HooksPending, HooksAreHelped
<1>8. ShownSinceRegistered'
  BY <1>0, <1>2, <1>5, SameManifests DEF ShownSinceRegistered
<1> QED
  BY <1>2, <1>5, <1>6, <1>7, <1>8, SameManifests DEF StartupInv

(* A hook runs, well or badly.                                             *)
LEMMA HookRunStep == ASSUME StartupInv, NEW p \in Addons, RunHook(p) PROVE StartupInv'
<1>0. p \in job.left /\ job.stage = "hooks" /\ p \in Usable /\ p \notin broken /\ Loads(p)
  BY DEF RunHook, StartupInv, HooksPending, Usable, Loaded
<1>1. /\ job' = [job EXCEPT !.left = @ \ {p}] /\ checked' = checked \ {p} /\ UNCHANGED manifests
      /\ \/ UNCHANGED << registry, broken >>
         \/ /\ registry' = [registry EXCEPT ![p] = MarkFailed(@, FALSE)]
            /\ broken' = broken \cup {p}
  BY DEF RunHook
<1>2. /\ job' \in [stage : Stages, left : SUBSET Addons]
      /\ job'.stage = "hooks" /\ job'.left = job.left \ {p}
  BY <1>0, <1>1 DEF StartupInv
<1>3. MarkFailed(registry[p], FALSE) \in RegistryRow /\ MarkFailed(registry[p], FALSE).health = "failed"
  BY DEF MarkFailed, RegistryRow, StartupInv
<1>4. /\ registry' \in [Addons -> RegistryRow] /\ \A q \in Addons \ {p} : registry'[q] = registry[q]
      /\ broken' \subseteq broken \cup {p} /\ broken \subseteq broken'
      /\ p \in broken' => registry'[p].health = "failed"
  BY <1>0, <1>1, <1>3 DEF StartupInv
<1>5. HooksPending' /\ HooksAreHelped'
  BY <1>0, <1>1, <1>2, <1>4, SameManifests DEF StartupInv, HooksPending, HooksAreHelped
<1>6. ShownSinceRegistered'
  BY <1>0, <1>1, <1>4, SameManifests DEF StartupInv, ShownSinceRegistered
<1> QED
  BY <1>1, <1>2, <1>4, <1>5, <1>6, SameManifests DEF StartupInv

(* The later jobs, and those that end, die or start a deployment.          *)
LEMMA StartupJobStep ==
  ASSUME StartupInv,
         \/ RegistryJobEnds \/ IdentitiesJob \/ CredentialsJob \/ JobsEnd \/ JobDies
         \/ \E chosen \in PluginChoices : Deploy(chosen)
  PROVE  StartupInv'
<1> USE DEF StartupInv
<1>1. CASE RegistryJobEnds \/ IdentitiesJob \/ JobsEnd
  <2>1. /\ UNCHANGED << manifests, registry, checked, broken >>
        /\ job' \in [stage : Stages, left : SUBSET Addons] /\ job'.stage # "hooks"
        /\ job.stage \in {"hooks", "identities", "credentials"}
    BY <1>1 DEF RegistryJobEnds, IdentitiesJob, JobsEnd, NextJob, Stages
  <2> QED
    BY <2>1, SameManifests DEF HooksPending, HooksAreHelped, ShownSinceRegistered
<1>2. CASE CredentialsJob
  <2>0. Usable \subseteq EnabledAddons /\ \A p \in EnabledAddons : p \in Usable => Loads(p)
    BY DEF Usable, Loaded
  <2>1. /\ UNCHANGED << manifests, broken >> /\ registry' = Discovered(TRUE)
        /\ job' \in [stage : Stages, left : SUBSET Addons] /\ job'.stage = "credentials"
        /\ checked' = checked \ (EnabledAddons \ Usable)
        /\ job.stage = "discovery"
    BY <1>2, <2>0 DEF CredentialsJob, Stages
  <2>2. /\ registry' \in [Addons -> RegistryRow]
        /\ \A p \in Addons : IF p \in EnabledAddons \ Usable THEN registry'[p].health = "failed"
                                                             ELSE registry'[p] = registry[p]
    BY <2>1, DiscoveredRows
  <2>3. ShownSinceRegistered'
    BY <2>0, <2>1, <2>2, SameManifests DEF ShownSinceRegistered
  <2> QED
    BY <2>1, <2>2, <2>3, SameManifests DEF HooksPending, HooksAreHelped
<1>3. CASE JobDies
  <2>1. /\ UNCHANGED << manifests, registry, checked, broken >>
        /\ job' \in [stage : Stages, left : SUBSET Addons] /\ job'.stage # "hooks"
        /\ job'.stage \in {"identities", "discovery"} => job.stage \in {"identities", "discovery", "credentials"}
        /\ job'.stage \in {"registry", "identities", "discovery", "abandoned"}
    BY <1>3 DEF JobDies, Beginning, NextJob, Stages
  <2> QED
    BY <2>1, SameManifests DEF HooksPending, HooksAreHelped, ShownSinceRegistered
<1>4. ASSUME NEW chosen \in PluginChoices, Deploy(chosen) PROVE StartupInv'
  <2>1. /\ job' \in [stage : Stages, left : SUBSET Addons] /\ job'.stage = "registry"
        /\ UNCHANGED registry /\ manifests' = chosen
    BY <1>4 DEF Deploy, NextJob, Stages
  <2>2. EnabledAddons' \subseteq Addons
    BY <2>1 DEF EnabledAddons, PluginChoices
  <2> QED
    BY <2>1, <2>2 DEF HooksPending, HooksAreHelped, ShownSinceRegistered
<1> QED
  BY <1>1, <1>2, <1>3, <1>4

(* A credential that is missing, and a health check between the jobs.      *)
LEMMA CheckSteps ==
  ASSUME StartupInv, NEW p \in Addons, AskCredential(p) \/ HealthCheck(p)
  PROVE  StartupInv'
<1> USE DEF StartupInv
<1>1. CASE AskCredential(p)
  <2>1. /\ UNCHANGED << manifests, checked, broken >>
        /\ job' = [job EXCEPT !.left = @ \ {p}] /\ job.stage = "credentials"
        /\ UNCHANGED registry \/ registry' = [registry EXCEPT ![p].credential = "error"]
    BY <1>1 DEF AskCredential
  <2>2. job' \in [stage : Stages, left : SUBSET Addons] /\ job'.stage = "credentials"
    BY <2>1
  <2>3. registry' \in [Addons -> RegistryRow] /\ \A q \in Addons : registry'[q].health = registry[q].health
    BY <2>1 DEF RegistryRow
  <2> QED
    BY <2>1, <2>2, <2>3, SameManifests DEF HooksPending, HooksAreHelped, ShownSinceRegistered
<1>2. CASE HealthCheck(p)
  <2>1. PICK result \in IF AllLoad /\ p \in EnabledAddons THEN {"healthy", "failed"} ELSE {"failed"} :
          registry' = [registry EXCEPT ![p].health = result]
    BY <1>2 DEF HealthCheck
  <2>2. UNCHANGED << manifests, job, broken >> /\ checked' = checked \cup {p}
    BY <1>2 DEF HealthCheck
  <2>3. /\ registry' \in [Addons -> RegistryRow] /\ registry'[p].health = result
        /\ \A q \in Addons \ {p} : registry'[q].health = registry[q].health
    BY <2>1 DEF RegistryRow
  <2>4. p \in EnabledAddons /\ ~Loads(p) => result = "failed"
    BY <2>1 DEF AllLoad, Loaded
  <2>5. ShownSinceRegistered'
    BY <2>2, <2>3, <2>4, SameManifests DEF ShownSinceRegistered
  <2> QED
    BY <2>2, <2>3, <2>5, SameManifests DEF HooksPending, HooksAreHelped
<1> QED
  BY <1>1, <1>2

(* The rest of the types: a job dies a bounded number of times, internal   *)
(* services are those of the deployment.                                   *)
StartupCounts ==
  /\ crashes \in 0 .. MaxCrashes /\ deployments \in 1 .. MaxDeployments
  /\ internals \subseteq InternalServices /\ identities \subseteq InternalServices
  /\ checked \subseteq Addons /\ broken \subseteq Addons

LEMMA StartupCountsStep ==
  ASSUME StartupCounts, [StartupNext]_startupVars
  PROVE  StartupCounts'
<1> USE StartupAssumption DEF StartupCounts
<1>1. CASE RegistryJob
  BY <1>1 DEF RegistryJob, RegisterInternals
<1>2. CASE RegistryJobEnds \/ IdentitiesJob \/ JobsEnd
  <2>1. crashes' = 0 /\ UNCHANGED << deployments, internals, checked, broken >>
    BY <1>2 DEF RegistryJobEnds, IdentitiesJob, JobsEnd, NextJob
  <2>2. identities' \subseteq InternalServices
    BY <1>2 DEF RegistryJobEnds, IdentitiesJob, JobsEnd
  <2> QED
    BY <2>1, <2>2
<1>3. CASE CredentialsJob
  BY <1>3 DEF CredentialsJob
<1>7. CASE JobDies
  <2>1. UNCHANGED << deployments, internals, identities, checked, broken >>
    BY <1>7 DEF JobDies
  <2>2. crashes' = 0 \/ (crashes < MaxCrashes /\ crashes' = crashes + 1)
    BY <1>7 DEF JobDies, NextJob
  <2>3. crashes' \in 0 .. MaxCrashes
    BY <2>2
  <2> QED
    BY <2>1, <2>3
<1>4. ASSUME NEW p \in Addons, RunHook(p) \/ AskCredential(p) \/ HealthCheck(p)
      PROVE  StartupCounts'
  BY <1>4 DEF RunHook, AskCredential, HealthCheck
<1>5. ASSUME NEW chosen, Deploy(chosen) PROVE StartupCounts'
  BY <1>5 DEF Deploy, NextJob
<1>6. CASE UNCHANGED startupVars
  BY <1>6 DEF startupVars
<1> QED
  BY <1>1, <1>2, <1>3, <1>4, <1>5, <1>6, <1>7 DEF StartupNext

(* _discover_healthy_plugins, _run_plugin_bootstrap_hooks: for any plugins *)
(* and manifests, installs, upgrades, jobs that die and health checks in   *)
(* between, a hook has every helper it asks for and a plugin that cannot be*)
(* used is shown as failed.                                                *)
THEOREM StartupTellsFailures == StartupSpec => []StartupKept
<1>1. StartupInit => StartupInv
  <2> SUFFICES ASSUME StartupInit PROVE StartupInv
    OBVIOUS
  <2>1. EnabledAddons \subseteq Addons
    BY DEF StartupInit, EnabledAddons, PluginChoices
  <2>2. registry \in [Addons -> RegistryRow]
    BY DEF StartupInit, Unregistered, RegistryRow
  <2> QED
    BY <2>1, <2>2 DEF StartupInit, StartupInv, HooksPending, HooksAreHelped, ShownSinceRegistered, Stages
<1>2. StartupInv /\ [StartupNext]_startupVars => StartupInv'
  <2> SUFFICES ASSUME StartupInv, [StartupNext]_startupVars PROVE StartupInv'
    OBVIOUS
  <2>1. CASE UNCHANGED startupVars
    BY <2>1, SameManifests
       DEF startupVars, StartupInv, HooksPending, HooksAreHelped, ShownSinceRegistered
  <2> QED
    BY <2>1, RegistryJobStep, HookRunStep, StartupJobStep, CheckSteps DEF StartupNext
<1>3. StartupInit => StartupCounts
  BY StartupAssumption DEF StartupInit, StartupCounts
<1>4. StartupCounts /\ [StartupNext]_startupVars => StartupCounts'
  BY StartupCountsStep
<1>5. StartupInv /\ StartupCounts => StartupTypeOK
  BY DEF StartupInv, StartupCounts, StartupTypeOK, RegistryRow, EnabledAddons
<1>6. StartupInv /\ StartupTypeOK => StartupKept
  BY DEF StartupInv, ShownSinceRegistered, StartupKept, FailuresAreShown
<1> QED
  BY <1>1, <1>2, <1>3, <1>4, <1>5, <1>6, PTL DEF StartupSpec

-----------------------------------------------------------------------------
(* Signed calls: what a repeated request does and what its worker is told. *)

ControlTypes ==
  /\ identity \in [enabled : BOOLEAN, secret : Nat]
  /\ attempt \in Nat /\ inbox \subseteq Nat \X Replicas \X Nat
  /\ seen \subseteq Replicas
  /\ executed \in [Replicas -> Nat]

(* The secret is stored once and never changes, so that whoever read it,   *)
(* and what was signed with it, agrees with the registry.                  *)
SecretsAgree ==
  /\ cached # 0 => cached = identity.secret
  /\ call \in {"sending", "waiting"} => cached # 0
  /\ \A m \in inbox : m[3] # 0 /\ m[3] = identity.secret

(* A replica knows the nonce of the call only if it executed the call, and *)
(* executed it twice only if it forgot the nonce in between.               *)
NoncesCount ==
  /\ \A r \in seen : executed[r] > 0
  /\ \A r \in Replicas \ forgot : executed[r] <= 1 /\ (executed[r] > 0 => r \in seen)

(* Unless an operator paused the worker meanwhile, only the nonce refuses. *)
RefusedAfter ==
  ~ toggled =>
    /\ call \in {"sending", "waiting"} => identity.enabled
    /\ call = "refused" => \E r \in Replicas : executed[r] > 0

ControlInv == ControlTypes /\ SecretsAgree /\ NoncesCount /\ RefusedAfter

(* The identity and the worker, up to the message it sends.                *)
LEMMA WorkerStep ==
  ASSUME ControlInv,
         \/ BootstrapIdentity \/ Pause \/ StartWorker \/ StartRound \/ WorkerDies
         \/ Send \/ GiveUpWaiting \/ EndRound \/ UNCHANGED controlVars
  PROVE  ControlInv'
<1> USE DEF ControlInv, ControlTypes, SecretsAgree, NoncesCount, RefusedAfter
<1>1. CASE BootstrapIdentity
  <2>1. /\ identity'.enabled = identity.enabled
        /\ identity' \in [enabled : BOOLEAN, secret : Nat]
        /\ identity.secret # 0 => identity'.secret = identity.secret
    BY <1>1 DEF BootstrapIdentity, StoredSecret
  <2> QED
    BY <1>1, <2>1 DEF BootstrapIdentity
<1>2. CASE Pause
  BY <1>2 DEF Pause
<1>3. CASE StartWorker
  BY <1>3 DEF StartWorker
<1>4. CASE StartRound
  BY <1>4 DEF StartRound, Verifies
<1>5. CASE WorkerDies
  BY <1>5 DEF WorkerDies
<1>6. CASE Send
  <2>1. PICK r \in Replicas : inbox' = inbox \cup {<< attempt, r, cached >>}
    BY <1>6 DEF Send
  <2>2. cached # 0 /\ cached = identity.secret /\ cached \in Nat
    BY <1>6 DEF Send
  <2> QED
    BY <1>6, <2>1, <2>2 DEF Send
<1>7. CASE GiveUpWaiting
  BY <1>7 DEF GiveUpWaiting, Answered
<1>8. CASE EndRound
  BY <1>8 DEF EndRound
<1>9. CASE UNCHANGED controlVars
  BY <1>9 DEF controlVars
<1> QED
  BY <1>1, <1>2, <1>3, <1>4, <1>5, <1>6, <1>7, <1>8, <1>9

(* A replica handles a message, executes it or refuses it.                 *)
LEMMA HandleStep == ASSUME ControlInv, NEW m \in inbox, Handle(m) PROVE ControlInv'
<1> USE DEF ControlInv, ControlTypes
<1>1. m[2] \in Replicas /\ inbox' \subseteq inbox /\ UNCHANGED << identity, cached, forgot, toggled >>
  BY DEF Handle
<1>2. call' = call \/ (call = "waiting" /\ call' \in {"sending", "done", "failed", "refused"})
  BY DEF Handle, Answered
<1>a. attempt' \in Nat
  BY DEF Handle, Answered
<1>3. SecretsAgree'
  BY <1>1, <1>2 DEF SecretsAgree
<1>4. CASE Execute(m)
  <2>1. /\ m[2] \notin seen /\ seen' = seen \cup {m[2]}
        /\ executed' = [executed EXCEPT ![m[2]] = @ + 1]
    BY <1>4 DEF Execute, NonceFresh
  <2>2. ControlTypes'
    BY <1>1, <1>a, <2>1
  <2>3. NoncesCount'
    BY <1>1, <2>1 DEF NoncesCount
  <2>4. RefusedAfter'
    BY <1>1, <1>2, <2>1 DEF RefusedAfter
  <2> QED
    BY <1>3, <2>2, <2>3, <2>4
<1>5. CASE Refuse(m)
  <2>1. UNCHANGED << seen, executed >>
    BY <1>5 DEF Refuse
  <2>2. ControlTypes' /\ NoncesCount'
    BY <1>1, <1>a, <2>1 DEF NoncesCount
  <2>3. ASSUME ~ toggled, call = "waiting" PROVE executed[m[2]] > 0
    <3>1. Verifies(m[3])
      BY <2>3 DEF Verifies, RefusedAfter, SecretsAgree
    <3> QED
      BY <1>5, <3>1 DEF Refuse, NonceFresh, NoncesCount
  <2>4. RefusedAfter'
    BY <1>1, <1>2, <2>1, <2>3 DEF RefusedAfter
  <2> QED
    BY <1>3, <2>2, <2>4
<1> QED
  BY <1>4, <1>5 DEF Handle

(* A lost request and a restarted replica take no part of the invariant.   *)
LEMMA NetworkStep ==
  ASSUME ControlInv, (\E m \in inbox : LoseRequest(m)) \/ (\E r \in Replicas : RestartReplica(r))
  PROVE  ControlInv'
BY DEF ControlInv, ControlTypes, SecretsAgree, NoncesCount, RefusedAfter, LoseRequest,
       RestartReplica

(* The bounds of the types.  A call is sent as often as it is attempted,   *)
(* and an attempt is executed once: what a replica executed, and what is   *)
(* on its way to it, are no more than the attempts sent.                   *)
AttemptsSent == IF call = "sending" THEN attempt - 1 ELSE attempt
OnItsWay(r) == {m \in inbox : m[2] = r}

ControlFit ==
  /\ identity \in [enabled : BOOLEAN, secret : 0 .. 2]
  /\ cached \in 0 .. 2
  /\ call \in {"idle", "sending", "waiting", "done", "refused", "failed"}
  /\ attempt \in Attempts
  /\ inbox \subseteq Attempts \X Replicas \X (1 .. 2)
  /\ forgot \subseteq Replicas /\ toggled \in BOOLEAN

SendsCounted ==
  /\ IsFiniteSet(inbox)
  /\ \A r \in Replicas : executed[r] + Cardinality(OnItsWay(r)) <= AttemptsSent

(* The worker hears an answer, or gives up waiting for it.                 *)
LEMMA AnsweredCall ==
  ASSUME ControlFit, call = "waiting", NEW outcome \in {"done", "refused", "failed"},
         Answered(outcome)
  PROVE  /\ call' \in {"sending", "done", "refused", "failed"}
         /\ attempt' \in Attempts /\ AttemptsSent' = AttemptsSent
<1>1. attempt \in Nat /\ attempt >= 1 /\ attempt <= MaxRetries + 1 /\ MaxRetries \in Nat
  BY ControlAssumption DEF ControlFit, Attempts
<1> QED
  BY <1>1 DEF Answered, AttemptsSent, Attempts

LEMMA HandledCall ==
  ASSUME ControlFit, NEW m \in inbox, Handle(m)
  PROVE  /\ call' \in {"idle", "sending", "waiting", "done", "refused", "failed"}
         /\ attempt' \in Attempts /\ AttemptsSent' = AttemptsSent
<1>1. CASE UNCHANGED << call, attempt >>
  BY <1>1 DEF ControlFit, AttemptsSent
<1>2. CASE call = "waiting" /\ \E outcome \in {"done", "refused", "failed"} : Answered(outcome)
  BY <1>2, AnsweredCall
<1> QED
  BY <1>1, <1>2 DEF Handle

LEMMA ControlFitStep ==
  ASSUME ControlInv, ControlFit, [ControlNext]_controlVars
  PROVE  ControlFit'
<1> USE DEF ControlFit
<1>1. CASE BootstrapIdentity
  <2>1. PICK e \in BOOLEAN, s \in 0 .. 2 : identity = [enabled |-> e, secret |-> s]
    OBVIOUS
  <2>2. identity' = [enabled |-> e, secret |-> IF s = 0 THEN 1 ELSE s]
    BY <1>1, <2>1 DEF BootstrapIdentity, StoredSecret
  <2> QED
    BY <1>1, <2>2 DEF BootstrapIdentity
<1>2. CASE Pause
  BY <1>2 DEF Pause
<1>3. CASE StartWorker \/ WorkerDies \/ EndRound
  BY <1>3 DEF StartWorker, WorkerDies, EndRound
<1>4. CASE StartRound
  <2>1. 1 \in Attempts
    BY ControlAssumption DEF Attempts
  <2>2. identity' \in [enabled : BOOLEAN, secret : 0 .. 2] /\ inbox' \subseteq Attempts \X Replicas \X (1 .. 2)
    BY <1>4 DEF StartRound
  <2>3. cached' \in {0, cached} /\ call' \in {"sending", call} /\ attempt' \in {1, attempt}
    BY <1>4 DEF StartRound
  <2>4. forgot' \in {{}, forgot} /\ toggled' \in {FALSE, toggled}
    BY <1>4 DEF StartRound
  <2>5. cached' \in 0 .. 2 /\ attempt' \in Attempts
    BY <2>1, <2>3
  <2>6. call' \in {"idle", "sending", "waiting", "done", "refused", "failed"}
    BY <2>3
  <2>7. forgot' \subseteq Replicas /\ toggled' \in BOOLEAN
    BY <2>4
  <2> QED
    BY <2>2, <2>5, <2>6, <2>7
<1>5. CASE Send
  <2>1. PICK r \in Replicas : inbox' = inbox \cup {<< attempt, r, cached >>}
    BY <1>5 DEF Send
  <2>2. cached \in 1 .. 2
    BY <1>5 DEF Send, ControlInv, SecretsAgree
  <2>3. inbox' \subseteq Attempts \X Replicas \X (1 .. 2)
    BY <2>1, <2>2
  <2> QED
    BY <1>5, <2>3 DEF Send
<1>6. CASE GiveUpWaiting
  BY <1>6, AnsweredCall DEF GiveUpWaiting
<1>7. ASSUME NEW m \in inbox, Handle(m) PROVE ControlFit'
  BY <1>7, HandledCall DEF Handle
<1>8. ASSUME NEW m \in inbox, LoseRequest(m) PROVE ControlFit'
  BY <1>8 DEF LoseRequest
<1>9. ASSUME NEW r \in Replicas, RestartReplica(r) PROVE ControlFit'
  BY <1>9 DEF RestartReplica
<1>10. CASE UNCHANGED controlVars
  BY <1>10 DEF controlVars
<1> QED
  BY <1>1, <1>2, <1>3, <1>4, <1>5, <1>6, <1>7, <1>8, <1>9, <1>10 DEF ControlNext

(* A message less is one message less on its way to its replica.           *)
LEMMA OneLessOnItsWay ==
  ASSUME SendsCounted, NEW m \in inbox, inbox' = inbox \ {m}
  PROVE  /\ IsFiniteSet(inbox')
         /\ \A r \in Replicas :
              /\ Cardinality(OnItsWay(r)) \in Nat /\ Cardinality(OnItsWay(r)') \in Nat
              /\ Cardinality(OnItsWay(r)') = Cardinality(OnItsWay(r)) - (IF m[2] = r THEN 1 ELSE 0)
<1>1. IsFiniteSet(inbox')
  BY FS_Subset DEF SendsCounted
<1>2. ASSUME NEW r \in Replicas
      PROVE  /\ Cardinality(OnItsWay(r)) \in Nat /\ Cardinality(OnItsWay(r)') \in Nat
             /\ Cardinality(OnItsWay(r)') = Cardinality(OnItsWay(r)) - (IF m[2] = r THEN 1 ELSE 0)
  <2>1. IsFiniteSet(OnItsWay(r))
    BY FS_Subset DEF SendsCounted, OnItsWay
  <2>2. CASE m[2] = r
    <3>1. m \in OnItsWay(r) /\ OnItsWay(r)' = OnItsWay(r) \ {m}
      BY <2>2 DEF OnItsWay
    <3> QED
      BY <2>1, <2>2, <3>1, FS_RemoveElement, FS_CardinalityType
  <2>3. CASE m[2] # r
    <3>1. OnItsWay(r)' = OnItsWay(r)
      BY <2>3 DEF OnItsWay
    <3> QED
      BY <2>1, <2>3, <3>1, FS_CardinalityType
  <2> QED
    BY <2>2, <2>3
<1> QED
  BY <1>1, <1>2

LEMMA SendsCountedStep ==
  ASSUME ControlInv, ControlFit, SendsCounted, [ControlNext]_controlVars
  PROVE  SendsCounted'
<1>0. /\ attempt \in Nat /\ attempt >= 1
      /\ \A r \in Replicas : executed[r] \in Nat /\ Cardinality(OnItsWay(r)) \in Nat
      /\ \A r \in Replicas : IsFiniteSet(OnItsWay(r))
  BY ControlAssumption, FS_Subset, FS_CardinalityType
  DEF ControlInv, ControlTypes, ControlFit, SendsCounted, OnItsWay, Attempts
<1>1. ASSUME UNCHANGED << inbox, executed >>, AttemptsSent' \in Nat, AttemptsSent' >= AttemptsSent
      PROVE  SendsCounted'
  <2>1. \A r \in Replicas : OnItsWay(r)' = OnItsWay(r)
    BY <1>1 DEF OnItsWay
  <2>2. AttemptsSent \in Int
    BY <1>0 DEF AttemptsSent
  <2> QED
    BY <1>0, <1>1, <2>1, <2>2 DEF SendsCounted
<1>2. CASE BootstrapIdentity \/ Pause \/ StartWorker \/ UNCHANGED controlVars
            \/ \E r \in Replicas : RestartReplica(r)
  <2>1. UNCHANGED << inbox, executed, call, attempt >>
    BY <1>2 DEF BootstrapIdentity, Pause, StartWorker, controlVars, RestartReplica
  <2> QED
    BY <1>0, <1>1, <2>1 DEF AttemptsSent
<1>3. CASE WorkerDies \/ EndRound
  <2>1. UNCHANGED << inbox, executed, attempt >> /\ call' = "idle"
    BY <1>3 DEF WorkerDies, EndRound
  <2> QED
    BY <1>0, <1>1, <2>1 DEF AttemptsSent
<1>4. CASE StartRound
  <2>1. CASE UNCHANGED << call, attempt, executed >>
    BY <1>0, <1>1, <1>4, <2>1 DEF StartRound, AttemptsSent
  <2>2. CASE call' = "sending" /\ attempt' = 1 /\ executed' = [r \in Replicas |-> 0]
    <3>1. inbox' = {} /\ \A r \in Replicas : OnItsWay(r)' = {}
      BY <1>4 DEF StartRound, OnItsWay
    <3>2. IsFiniteSet({}) /\ Cardinality({}) = 0
      BY FS_EmptySet
    <3> QED
      BY <2>2, <3>1, <3>2 DEF SendsCounted, AttemptsSent
  <2> QED
    BY <1>4, <2>1, <2>2 DEF StartRound
<1>5. CASE Send
  <2>0. PICK to \in Replicas : inbox' = inbox \cup {<< attempt, to, cached >>}
    BY <1>5 DEF Send
  <2>1. PICK m : m = << attempt, to, cached >> /\ inbox' = inbox \cup {m}
    BY <2>0
  <2>2. AttemptsSent' = AttemptsSent + 1 /\ UNCHANGED executed /\ AttemptsSent \in Nat
    BY <1>0, <1>5 DEF Send, AttemptsSent
  <2>3. IsFiniteSet(inbox')
    BY <2>1, FS_AddElement DEF SendsCounted
  <2>4. ASSUME NEW r \in Replicas
        PROVE  /\ Cardinality(OnItsWay(r)') \in Nat
               /\ Cardinality(OnItsWay(r)') <= Cardinality(OnItsWay(r)) + 1
    <3>1. OnItsWay(r)' \in {OnItsWay(r), OnItsWay(r) \cup {m}}
      BY <2>1 DEF OnItsWay
    <3>2. CASE OnItsWay(r)' = OnItsWay(r)
      BY <1>0, <3>2
    <3>3. CASE OnItsWay(r)' = OnItsWay(r) \cup {m}
      <4>1. Cardinality(OnItsWay(r) \cup {m}) \in {Cardinality(OnItsWay(r)), Cardinality(OnItsWay(r)) + 1}
        BY <1>0, FS_AddElement
      <4> QED
        BY <1>0, <3>3, <4>1
    <3> QED
      BY <3>1, <3>2, <3>3
  <2> QED
    BY <1>0, <2>2, <2>3, <2>4 DEF SendsCounted
<1>6. CASE GiveUpWaiting
  <2>1. AttemptsSent' = AttemptsSent /\ UNCHANGED << inbox, executed >> /\ AttemptsSent \in Nat
    BY <1>0, <1>6, AnsweredCall DEF GiveUpWaiting, AttemptsSent
  <2> QED
    BY <1>1, <2>1
<1>7. ASSUME NEW m \in inbox, Handle(m) \/ LoseRequest(m) PROVE SendsCounted'
  <2>1. inbox' = inbox \ {m} /\ AttemptsSent' = AttemptsSent /\ AttemptsSent \in Nat
    BY <1>0, <1>7, HandledCall DEF Handle, LoseRequest, AttemptsSent
  <2>2. UNCHANGED executed \/ executed' = [executed EXCEPT ![m[2]] = @ + 1]
    BY <1>7 DEF Handle, Execute, Refuse, LoseRequest
  <2>3. \A r \in Replicas : executed'[r] \in {executed[r], IF m[2] = r THEN executed[r] + 1 ELSE executed[r]}
    BY <2>2 DEF ControlInv, ControlTypes
  <2>4. /\ IsFiniteSet(inbox')
        /\ \A r \in Replicas :
             /\ Cardinality(OnItsWay(r)') \in Nat
             /\ Cardinality(OnItsWay(r)') = Cardinality(OnItsWay(r)) - (IF m[2] = r THEN 1 ELSE 0)
    BY <2>1, OneLessOnItsWay
  <2>5. ASSUME NEW r \in Replicas PROVE executed'[r] + Cardinality(OnItsWay(r)') <= AttemptsSent
    <3>1. executed[r] + Cardinality(OnItsWay(r)) <= AttemptsSent
      BY DEF SendsCounted
    <3> QED
      BY <1>0, <2>1, <2>3, <2>4, <3>1
  <2> QED
    BY <2>1, <2>4, <2>5 DEF SendsCounted
<1> QED
  BY <1>2, <1>3, <1>4, <1>5, <1>6, <1>7 DEF ControlNext

(* _internal_hmac_context and request_with_retry: a replica that keeps its *)
(* memory executes a call once however often it is repeated, a retry that  *)
(* is refused was executed before, and a running worker holds the stored   *)
(* secret.                                                                 *)
THEOREM CallsRunOnce == ControlSpec => []ControlKept
<1>1. ControlInit => ControlInv
  BY DEF ControlInit, ControlInv, ControlTypes, SecretsAgree, NoncesCount, RefusedAfter
<1>2. ControlInv /\ [ControlNext]_controlVars => ControlInv'
  BY WorkerStep, HandleStep, NetworkStep DEF ControlNext
<1>3. ControlInit => ControlFit /\ SendsCounted
  <2> SUFFICES ASSUME ControlInit PROVE ControlFit /\ SendsCounted
    OBVIOUS
  <2>1. 1 \in Attempts
    BY ControlAssumption DEF Attempts
  <2>2. IsFiniteSet({}) /\ Cardinality({}) = 0 /\ \A r \in Replicas : OnItsWay(r) = {}
    BY FS_EmptySet DEF ControlInit, OnItsWay
  <2>3. ControlFit
    <3>1. identity \in [enabled : BOOLEAN, secret : 0 .. 2] /\ cached \in 0 .. 2
      BY DEF ControlInit
    <3> QED
      BY <2>1, <3>1 DEF ControlInit, ControlFit
  <2>4. AttemptsSent = 1 /\ IsFiniteSet(inbox) /\ \A r \in Replicas : executed[r] = 0
    BY <2>2 DEF ControlInit, AttemptsSent
  <2> QED
    BY <2>2, <2>3, <2>4 DEF SendsCounted
<1>4. /\ ControlInv /\ ControlFit /\ [ControlNext]_controlVars => ControlFit'
      /\ ControlInv /\ ControlFit /\ SendsCounted /\ [ControlNext]_controlVars => SendsCounted'
  BY ControlFitStep, SendsCountedStep
<1>5. ControlInv /\ ControlFit /\ SendsCounted => ControlTypeOK
  <2> SUFFICES ASSUME ControlInv, ControlFit, SendsCounted PROVE ControlTypeOK
    OBVIOUS
  <2>1. ASSUME NEW r \in Replicas PROVE executed[r] \in 0 .. MaxRetries + 1
    <3>1. IsFiniteSet(OnItsWay(r))
      BY FS_Subset DEF SendsCounted, OnItsWay
    <3>2. Cardinality(OnItsWay(r)) \in Nat /\ executed[r] \in Nat
      BY <3>1, FS_CardinalityType DEF ControlInv, ControlTypes
    <3>3. AttemptsSent \in Int /\ AttemptsSent <= MaxRetries + 1
      BY ControlAssumption DEF AttemptsSent, ControlFit, Attempts
    <3> QED
      BY <3>2, <3>3, ControlAssumption DEF SendsCounted
  <2> QED
    BY <2>1 DEF ControlInv, ControlTypes, ControlFit, ControlTypeOK
<1>6. ControlInv /\ ControlTypeOK => ControlKept
  BY DEF ControlInv, SecretsAgree, NoncesCount, RefusedAfter, ControlKept
<1> QED
  BY <1>1, <1>2, <1>3, <1>4, <1>5, <1>6, PTL DEF ControlSpec

-----------------------------------------------------------------------------
(* Sessions: who is let in, as what, and until when.                       *)

(* Sessions that were issued, and where they may be: one that ended is in  *)
(* nobody's hand.                                                          *)
SessionsPlaced ==
  /\ live \subseteq made /\ ended \subseteq made /\ ended \cap live = {}
  /\ \A q \in Requests : request[q] # NoSession => request[q] \in made \ ended

(* A browser login that is not spent has let nobody in yet.                *)
LoginsSpent ==
  /\ login \in [LoginStates -> {"unused", "pending", "spent"}]
  /\ entered \in [LoginStates -> 0 .. 1]
  /\ \A x \in LoginStates : login[x] # "spent" => entered[x] = 0

SessionsInv ==
  /\ request \in [Requests -> SessionIds \cup {NoSession}]
  /\ SessionsPlaced /\ LoginsSpent
  /\ served # "none" => served = CurrentRole
  /\ refused => principal

(* Whoever is let in gets a session that nobody had.                       *)
LEMMA EnterSteps ==
  ASSUME SessionsPlaced, Enter, UNCHANGED << request, ended >>
  PROVE  SessionsPlaced' /\ principal'
<1>1. CASE UNCHANGED storeVars
  BY <1>1 DEF storeVars, SessionsPlaced, Enter
<1>2. CASE \E s \in SessionIds \ made : live' = live \cup {s} /\ made' = made \cup {s}
  BY <1>2 DEF SessionsPlaced, Enter
<1> QED
  BY <1>1, <1>2 DEF Enter

(* Logging in.                                                             *)
LEMMA LoginSteps ==
  ASSUME SessionsInv,
         \/ PasswordLogin \/ DeviceStart \/ DeviceDecided \/ DevicePoll
         \/ \E x \in LoginStates : OidcLogin(x) \/ OidcCallback(x)
  PROVE  SessionsInv'
<1> USE DEF SessionsInv
<1>0. UNCHANGED << request, served, ended >> /\ CurrentRole' = CurrentRole
  BY DEF PasswordLogin, DeviceStart, DeviceDecided, DevicePoll, OidcLogin, OidcCallback,
         bindingVars, sessionHistory, CurrentRole
<1>1. CASE PasswordLogin \/ DevicePoll
  <2>1. SessionsPlaced' /\ principal'
    BY <1>0, <1>1, EnterSteps DEF PasswordLogin, DevicePoll
  <2>2. LoginsSpent'
    BY <1>1 DEF PasswordLogin, DevicePoll, flowVars, LoginsSpent
  <2> QED
    BY <1>0, <2>1, <2>2
<1>2. CASE DeviceStart \/ DeviceDecided
  BY <1>0, <1>2 DEF DeviceStart, DeviceDecided, storeVars, sessionHistory, SessionsPlaced, LoginsSpent
<1>3. ASSUME NEW x \in LoginStates, OidcLogin(x) PROVE SessionsInv'
  <2>1. LoginsSpent'
    BY <1>3 DEF OidcLogin, sessionHistory, LoginsSpent
  <2> QED
    BY <1>0, <1>3, <2>1 DEF OidcLogin, storeVars, sessionHistory, SessionsPlaced
<1>4. ASSUME NEW x \in LoginStates, OidcCallback(x) PROVE SessionsInv'
  <2>1. login[x] = "pending" /\ login' = [login EXCEPT ![x] = "spent"]
    BY <1>4 DEF OidcCallback, PoppedState
  <2>2. CASE Enter /\ entered' = [entered EXCEPT ![x] = IF @ < 2 THEN @ + 1 ELSE @]
    <3>1. SessionsPlaced' /\ principal'
      BY <1>0, <2>2, EnterSteps
    <3>2. entered[x] = 0
      BY <2>1 DEF LoginsSpent
    <3>3. entered' = [entered EXCEPT ![x] = 1]
      BY <2>2, <3>2
    <3>4. LoginsSpent'
      BY <2>1, <3>3 DEF LoginsSpent
    <3> QED
      BY <1>0, <3>1, <3>4
  <2>3. CASE UNCHANGED << principal, storeVars, refused, entered >>
    <3>1. LoginsSpent'
      BY <2>1, <2>3 DEF LoginsSpent
    <3> QED
      BY <1>0, <2>3, <3>1 DEF storeVars, SessionsPlaced
  <2> QED
    BY <1>4, <2>2, <2>3 DEF OidcCallback
<1> QED
  BY <1>1, <1>2, <1>3, <1>4

(* Using a session, with everything between reading it and writing it back.*)
LEMMA UseSteps ==
  ASSUME SessionsInv, NEW q \in Requests,
         \/ \E s \in SessionIds : Present(q, s)
         \/ Serve(q) \/ RefuseRequest(q) \/ Logout(q)
  PROVE  SessionsInv'
<1> USE DEF SessionsInv
<1>0. LoginsSpent' /\ CurrentRole' = CurrentRole /\ UNCHANGED << made, refused >>
  BY DEF Present, Serve, RefuseRequest, Logout, bindingVars, flowVars, storeVars, sessionHistory,
         LoginsSpent, CurrentRole
<1>1. ASSUME NEW s \in SessionIds, Present(q, s) PROVE SessionsInv'
  <2>1. request' \in [Requests -> SessionIds \cup {NoSession}] /\ SessionsPlaced'
    BY <1>1 DEF Present, storeVars, sessionHistory, SessionsPlaced
  <2> QED
    BY <1>0, <1>1, <2>1 DEF Present, sessionHistory
<1>2. CASE Serve(q)
  <2>1. request' \in [Requests -> SessionIds \cup {NoSession}] /\ SessionsPlaced'
    BY <1>0, <1>2 DEF Serve, Done, SessionsPlaced
  <2> QED
    BY <1>0, <1>2, <2>1 DEF Serve
<1>3. CASE RefuseRequest(q)
  <2>1. request' \in [Requests -> SessionIds \cup {NoSession}] /\ SessionsPlaced'
    BY <1>3 DEF RefuseRequest, Done, storeVars, sessionHistory, SessionsPlaced
  <2> QED
    BY <1>0, <1>3, <2>1 DEF RefuseRequest, sessionHistory
<1>4. CASE Logout(q)
  <2>1. request' \in [Requests -> SessionIds \cup {NoSession}]
    BY <1>4 DEF Logout, Done
  <2>2. SessionsPlaced'
    BY <1>0, <1>4 DEF Logout, Done, SessionsPlaced
  <2> QED
    BY <1>0, <1>4, <2>1, <2>2 DEF Logout
<1> QED
  BY <1>1, <1>2, <1>3, <1>4

(* A session expires, the process restarts, an admin changes bindings.     *)
LEMMA StoreSteps ==
  ASSUME SessionsInv, (\E s \in SessionIds : Expire(s)) \/ RestartApi \/ RebindUser \/ RebindGroups
  PROVE  SessionsInv'
<1> USE DEF SessionsInv
<1>1. ASSUME NEW s \in SessionIds, Expire(s) PROVE SessionsInv'
  BY <1>1 DEF Expire, bindingVars, flowVars, sessionHistory, SessionsPlaced, LoginsSpent, CurrentRole
<1>2. CASE RestartApi
  <2>1. LoginsSpent'
    BY <1>2 DEF RestartApi, sessionHistory, LoginsSpent
  <2>2. request' \in [Requests -> SessionIds \cup {NoSession}] /\ SessionsPlaced'
    BY <1>2 DEF RestartApi, sessionHistory, SessionsPlaced
  <2> QED
    BY <1>2, <2>1, <2>2 DEF RestartApi, bindingVars, sessionHistory, CurrentRole
<1>3. CASE RebindUser \/ RebindGroups
  BY <1>3 DEF RebindUser, RebindGroups, storeVars, flowVars, SessionsPlaced, LoginsSpent
<1> QED
  BY <1>1, <1>2, <1>3

(* The role of somebody bound through groups is one of the roles bound.    *)
LEMMA HighestIsBound ==
  ASSUME NEW roles \in SUBSET Roles, roles # {}
  PROVE  Highest(roles) \in roles
<1>1. \E role \in roles : \A other \in roles : Rank(role) >= Rank(other)
  <2>1. Rank("admin") = 3 /\ Rank("operator") = 2 /\ Rank("reader") = 1
    BY DEF Rank
  <2>2. CASE "admin" \in roles
    BY <2>1, <2>2 DEF Roles
  <2>3. CASE "admin" \notin roles /\ "operator" \in roles
    BY <2>1, <2>3 DEF Roles
  <2>4. CASE roles = {"reader"}
    BY <2>1, <2>4
  <2> QED
    BY <2>2, <2>3, <2>4 DEF Roles
<1> QED
  BY <1>1 DEF Highest

LEMMA RoleIsKnown ==
  ASSUME userRole \in Roles \cup {"none"}, groupRoles \subseteq Roles
  PROVE  CurrentRole \in Roles \cup {"none"}
BY HighestIsBound DEF CurrentRole, Highest

(* The rest of the types: the bindings, the user and the device login.     *)
BindingsFit ==
  /\ userRole \in Roles \cup {"none"} /\ groupRoles \subseteq Roles
  /\ served \in Roles \cup {"none"}
  /\ principal \in BOOLEAN /\ refused \in BOOLEAN
  /\ made \subseteq SessionIds
  /\ device \in {"unused", "pending", "approved", "spent"}

LEMMA BindingsFitStep ==
  ASSUME BindingsFit, [SessionsNext]_sessionVars
  PROVE  BindingsFit'
<1> USE DEF BindingsFit
<1>0. CurrentRole \in Roles \cup {"none"}
  BY RoleIsKnown
<1>1. CASE PasswordLogin \/ DevicePoll
  <2>1. /\ UNCHANGED << userRole, groupRoles, served >> /\ principal' = TRUE
        /\ device' \in {device, "spent"} /\ refused' \in {refused, TRUE}
        /\ made' = made \/ \E s \in SessionIds : made' = made \cup {s}
    BY <1>1 DEF PasswordLogin, DevicePoll, Enter, bindingVars, storeVars, flowVars
  <2> QED
    BY <2>1
<1>2. CASE DeviceStart \/ DeviceDecided
  BY <1>2 DEF DeviceStart, DeviceDecided, bindingVars, storeVars, sessionHistory
<1>3. ASSUME NEW x \in LoginStates, OidcLogin(x) PROVE BindingsFit'
  BY <1>3 DEF OidcLogin, bindingVars, storeVars, sessionHistory
<1>4. ASSUME NEW x \in LoginStates, OidcCallback(x) PROVE BindingsFit'
  <2>1. UNCHANGED << userRole, groupRoles, served, device >>
    BY <1>4 DEF OidcCallback, bindingVars
  <2>2. /\ principal' \in {principal, TRUE} /\ refused' \in {refused, TRUE}
        /\ made' = made \/ \E s \in SessionIds : made' = made \cup {s}
    BY <1>4 DEF OidcCallback, Enter, storeVars
  <2> QED
    BY <2>1, <2>2
<1>5. ASSUME NEW q \in Requests,
             (\E s \in SessionIds : Present(q, s)) \/ Serve(q) \/ RefuseRequest(q) \/ Logout(q)
      PROVE  BindingsFit'
  <2>1. /\ UNCHANGED << userRole, groupRoles, made, device, refused >>
        /\ principal' \in {principal, TRUE} /\ served' \in {served, CurrentRole}
    BY <1>5 DEF Present, Serve, RefuseRequest, Logout, bindingVars, storeVars, flowVars, sessionHistory
  <2> QED
    BY <1>0, <2>1
<1>6. CASE (\E s \in SessionIds : Expire(s)) \/ RestartApi
  BY <1>6 DEF Expire, RestartApi, bindingVars, flowVars, sessionHistory
<1>7. CASE RebindUser \/ RebindGroups
  BY <1>7 DEF RebindUser, RebindGroups, storeVars, flowVars
<1>8. CASE UNCHANGED sessionVars
  BY <1>8 DEF sessionVars, bindingVars, storeVars, flowVars, sessionHistory
<1> QED
  BY <1>1, <1>2, <1>3, <1>4, <1>5, <1>6, <1>7, <1>8 DEF SessionsNext

(* resolve_role_for_identity, build_login_context, pop_state and logout:   *)
(* for any number of sessions, requests and browser logins, bindings hold  *)
(* from the next request on, a refused user is recorded, a login state lets*)
(* its user in once and a session that ended stays out.                    *)
THEOREM SessionsAreHonest == SessionsSpec => []SessionsKept
<1>1. SessionsInit => SessionsInv
  BY DEF SessionsInit, SessionsInv, SessionsPlaced, LoginsSpent
<1>2. SessionsInv /\ [SessionsNext]_sessionVars => SessionsInv'
  <2> SUFFICES ASSUME SessionsInv, [SessionsNext]_sessionVars PROVE SessionsInv'
    OBVIOUS
  <2>1. CASE UNCHANGED sessionVars
    BY <2>1 DEF sessionVars, bindingVars, storeVars, flowVars, sessionHistory, SessionsInv,
                SessionsPlaced, LoginsSpent, CurrentRole
  <2> QED
    BY <2>1, LoginSteps, UseSteps, StoreSteps DEF SessionsNext
<1>3. SessionsInit => BindingsFit
  BY DEF SessionsInit, BindingsFit
<1>4. BindingsFit /\ [SessionsNext]_sessionVars => BindingsFit'
  BY BindingsFitStep
<1>5. SessionsInv /\ BindingsFit => SessionsTypeOK
  BY DEF SessionsInv, SessionsPlaced, LoginsSpent, BindingsFit, SessionsTypeOK
<1>6. SessionsInv /\ SessionsTypeOK => SessionsKept
  BY DEF SessionsInv, SessionsPlaced, LoginsSpent, SessionsKept, SessionsTypeOK
<1> QED
  BY <1>1, <1>2, <1>3, <1>4, <1>5, <1>6, PTL DEF SessionsSpec
==============================================================================
