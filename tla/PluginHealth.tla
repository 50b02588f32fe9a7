---------------------------- MODULE PluginHealth ----------------------------
(***************************************************************************)
(* The registry row of one external plugin, and the health check task that *)
(* watches it (a task of ScheduledTasks).                                  *)
(*                                                                         *)
(* Three parties write the row, each in one transaction and none with a    *)
(* look at what the others meant: bootstrap at every start of the          *)
(* deployment (plugin_bootstrap.py), operators (api/api/plugins.py), and   *)
(* Cook when a health check order ends (cook.py).  Whether work of the     *)
(* plugin may run is read from it by the Expediter.                        *)
(*                                                                         *)
(* healthy stands for healthy and degraded, the two callable states.  No   *)
(* message that bootstrap writes has a prefix that a later bootstrap looks *)
(* for (_is_bootstrap_failure_message), so messages decide nothing.        *)
(***************************************************************************)
EXTENDS ScheduledTasks

VARIABLES
  plugin,       \* the row: enabled, health_status; or NoPlugin
  test,         \* a test-connection order: none, open
  verdict,      \* what the probe of an open order answered
  stopped,      \* history: an operator disabled the plugin, and neither an
                \* operator nor a restart has enabled it since
  unwatched     \* history: a restart enabled a plugin an operator had disabled,
                \* or an operator disabled its task on its own

pluginVars == << plugin, test, verdict, stopped, unwatched >>
healthVars == << schedVars, pluginVars >>

NoPlugin == [enabled |-> FALSE, health |-> "absent"]
Test == "test"
Orders == Runs \cup {Test}
ProbeResults == {"healthy", "failed", "incomplete"}

HealthTypeOK ==
  /\ plugin \in {NoPlugin} \cup
       [enabled : BOOLEAN,
        health : {"unknown", "initializing", "healthy", "failed", "disabled"}]
  /\ test \in {"none", "open"}
  /\ verdict \in [Orders -> {"none"} \cup ProbeResults]
  /\ stopped \in BOOLEAN
  /\ unwatched \in BOOLEAN

HealthInit ==
  /\ SchedInit
  /\ plugin = NoPlugin
  /\ test = "none"
  /\ verdict = [o \in Orders |-> "none"]
  /\ stopped = FALSE
  /\ unwatched = FALSE

Known == plugin # NoPlugin

CallableByHealth == plugin.health = "healthy"

(* expediter_runner_adapter_callable; a health check only needs enabled.   *)
Callable == plugin.enabled /\ plugin.health = "healthy"

(* A probe that could not finish in its process leaves the health alone.   *)
JudgedAnyway(health, result) == result
Judged(health, result) == IF result = "incomplete" THEN health ELSE result

-----------------------------------------------------------------------------
(* Bootstrap.                                                              *)

(* _register_service_plugins: the row is enabled, whatever it was, and the *)
(* adapter is probed.                                                      *)
Initialized ==
  IF plugin.health \in {"absent", "unknown", "disabled"}
  THEN "initializing"
  ELSE plugin.health

(* The manifest does not load or lacks a helper, or the hook fails after   *)
(* the row was written: _mark_service_plugin_failed.                       *)
MarkedFailed == [enabled |-> TRUE, health |-> "failed"]

Bootstrap ==
  /\ \/ plugin' = MarkedFailed
     \/ \E result \in ProbeResults :
          plugin' = [enabled |-> TRUE, health |-> Judged(Initialized, result)]
  /\ stopped' = FALSE
  /\ unwatched' = (unwatched \/ stopped)
  /\ UNCHANGED << schedVars, test, verdict >>

-----------------------------------------------------------------------------
(* Operators: update_service_plugin.                                       *)

SetTask(enabled) ==
  IF Registered
  THEN [enabled |-> enabled, status |-> RestingStatus(enabled),
        next |-> IF enabled THEN "later" ELSE "never"]
  ELSE task

EnablePlugin ==
  /\ Known
  /\ plugin' = [enabled |-> TRUE, health |-> "unknown"]
  /\ task' = SetTask(TRUE)
  /\ overruled' = (overruled \/ carries # {} \/ RunsOut # {})
  /\ dropped' = FALSE
  /\ stranded' = FALSE
  /\ stopped' = FALSE
  /\ unwatched' = FALSE
  /\ UNCHANGED << carries, run, test, verdict >>

DisablePluginOnly ==
  /\ Known
  /\ plugin' = [enabled |-> FALSE, health |-> "disabled"]
  /\ stopped' = TRUE
  /\ UNCHANGED << schedVars, test, verdict, unwatched >>

DisablePlugin ==
  /\ Known
  /\ plugin' = [enabled |-> FALSE, health |-> "disabled"]
  /\ task' = SetTask(FALSE)
  /\ stopped' = TRUE
  /\ UNCHANGED << carries, run, dropped, stranded, overruled, test, verdict, unwatched >>

(* A new interval counts from now, unless the task is out.                 *)
SetInterval ==
  /\ Known
  /\ Registered
  /\ task.enabled
  /\ task.status = "idle"
  /\ task' = [task EXCEPT !.next = "later"]
  /\ UNCHANGED << carries, run, dropped, stranded, overruled, pluginVars >>

(* test_plugin_connection: an order like a health check, of no task.       *)
TestConnection ==
  /\ Known
  /\ test = "none"
  /\ test' = "open"
  /\ UNCHANGED << schedVars, plugin, verdict, stopped, unwatched >>

-----------------------------------------------------------------------------
(* The order of a health check.                                            *)

(* The dish of an order that the reconciler ended is worked all the same.  *)
DishOpen(o) == IF o = Test THEN test = "open" ELSE o \in RunsOut

(* The Expediter refuses the probe of a disabled plugin, which fails the   *)
(* row; otherwise the adapter answers.                                     *)
Probe(o) ==
  /\ DishOpen(o)
  /\ verdict[o] = "none"
  /\ \E result \in IF plugin.enabled THEN ProbeResults ELSE {"failed"} :
       verdict' = [verdict EXCEPT ![o] = result]
  /\ UNCHANGED << schedVars, plugin, test, stopped, unwatched >>

(* _apply_plugin_health_result does not ask whether the plugin is enabled. *)
ApplyHealth(o) ==
  /\ verdict[o] # "none"
  /\ verdict' = [verdict EXCEPT ![o] = "none"]
  /\ plugin' = IF Known
               THEN [plugin EXCEPT !.health = Judged(@, verdict[o])]
               ELSE plugin

(* _advance_dish applies the result of a dish before it looks at the order.*)
EndHealthRun(r) ==
  /\ FinalizeRun(r)
  /\ ApplyHealth(r)
  /\ UNCHANGED << test, stopped, unwatched >>

EndTest ==
  /\ test = "open"
  /\ test' = "none"
  /\ ApplyHealth(Test)
  /\ UNCHANGED << schedVars, stopped, unwatched >>

(* The task on its own.                                                    *)
TaskStep ==
  /\ SchedAlone
  /\ unwatched' = (unwatched \/ (Registered /\ task.enabled /\ ~ task'.enabled)
                             \/ (~ Registered /\ ~ task'.enabled)
                             \/ (~ Registered /\ Registered' /\ stopped))
  /\ UNCHANGED << plugin, test, verdict, stopped >>

HealthNext ==
  \/ Bootstrap
  \/ EnablePlugin \/ DisablePlugin \/ SetInterval \/ TestConnection
  \/ \E o \in Orders : Probe(o)
  \/ \E r \in Runs : EndHealthRun(r)
  \/ EndTest
  \/ TaskStep

HealthSpec == HealthInit /\ [][HealthNext]_healthVars

-----------------------------------------------------------------------------
(* A plugin an operator disabled runs nothing until an operator or a       *)
(* restart enables it, although results of orders still open may set its   *)
(* health back to healthy (Cook does not look at enabled).  An enabled one *)
(* has its health check enabled, except where a restart enabled a plugin   *)
(* without the task the operator had disabled with it.                     *)
PluginKept ==
  /\ stopped => ~ Callable
  /\ Known /\ plugin.enabled /\ Registered /\ ~ unwatched => task.enabled

(* The plugin with its health check: the tasks of every plugin and what the*)
(* handlers of api/plugins.py, the health service and Cook do to them.     *)
HealthKept == SchedTypeOK /\ HealthTypeOK /\ TasksKept /\ PluginKept
=============================================================================
