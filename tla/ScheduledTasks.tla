--------------------------- MODULE ScheduledTasks ---------------------------
(***************************************************************************)
(* One recurring task (a row of scheduled_tasks) and the orders Dishwasher *)
(* injects for it.                                                         *)
(*                                                                         *)
(* Dishwasher (kitchen/dishwasher.py) registers the task, claims it when   *)
(* it is due and posts an order; the order intake queues the task again    *)
(* with that order; Cook frees the task when the order ends.  Operators    *)
(* toggle it and ask for runs (api/api/scheduled_tasks.py).  Each handler  *)
(* reads and writes the row in one transaction; between its calls          *)
(* Dishwasher keeps the claimed row only in memory.                        *)
(*                                                                         *)
(* Bakery's incident reconciliation writes the orders too: it ends every   *)
(* active order that no alert of Prometheus matches, those of scheduled    *)
(* tasks included, and knows nothing of the task.                          *)
(*                                                                         *)
(* What reports and does not decide (last_status, consecutive_failures,    *)
(* messages) is left out, as is an admin who clears next_run_at by hand.   *)
(***************************************************************************)
EXTENDS Naturals, FiniteSets

CONSTANTS
  Dishwashers,  \* replicas of the worker
  Runs          \* orders that may be injected

VARIABLES
  task,         \* the row: is_enabled, status, next_run_at; or NoTask
  carries,      \* which Dishwashers hold the claimed task
  run,          \* each order: none; open; cut, ended by the reconciler while
                \* its dish may still run; ended, with its dish
  dropped,      \* history: a claim was lost before an order was made of it
  stranded,     \* history: the reconciler ended an order of the task, and
                \* nothing has freed the task since
  overruled     \* history: an operator enabled the task while it was out

schedVars == << task, carries, run, dropped, stranded, overruled >>

NoTask == [enabled |-> FALSE, status |-> "absent", next |-> "never"]

SchedTypeOK ==
  /\ task \in {NoTask} \cup
       [enabled : BOOLEAN, status : {"idle", "queued", "disabled"},
        next : {"never", "later", "due"}]
  /\ carries \subseteq Dishwashers
  /\ run \in [Runs -> {"none", "open", "cut", "ended"}]
  /\ dropped \in BOOLEAN
  /\ stranded \in BOOLEAN
  /\ overruled \in BOOLEAN

SchedInit ==
  /\ task = NoTask
  /\ carries = {}
  /\ run = [r \in Runs |-> "none"]
  /\ dropped = FALSE
  /\ stranded = FALSE
  /\ overruled = FALSE

Registered == task # NoTask
OpenRuns == {r \in Runs : run[r] = "open"}
RunsOut == {r \in Runs : run[r] \in {"open", "cut"}}
RestingStatus(enabled) == IF enabled THEN "idle" ELSE "disabled"

-----------------------------------------------------------------------------
(* Registration: Dishwasher's sync posts templates that are not there yet, *)
(* bootstrap registers them and rewrites the definition of those that are  *)
(* (never enabled, status or next_run_at), an admin posts definitions.     *)
(* A health check is due at once, other templates after an interval.       *)
RegisterTask ==
  /\ ~ Registered
  /\ \E en \in BOOLEAN, nx \in {"due", "later"} :
       task' = [enabled |-> en, status |-> RestingStatus(en), next |-> nx]
  /\ UNCHANGED << carries, run, dropped, stranded, overruled >>

(* claim_due_scheduled_tasks: rows another claim has locked are skipped.   *)
ClaimedTask == [task EXCEPT !.status = "queued"]

DueWhenEnabled == Registered /\ task.enabled /\ task.next = "due"

DueTask ==
  /\ Registered
  /\ task.enabled
  /\ task.status = "idle"
  /\ task.next = "due"

ClaimDue(d) ==
  /\ DueTask
  /\ d \notin carries
  /\ task' = ClaimedTask
  /\ carries' = carries \cup {d}
  /\ UNCHANGED << run, dropped, stranded, overruled >>

(* The answer of a claim is lost: the repeated GET finds nothing due.      *)
ClaimAnswerLost ==
  /\ DueTask
  /\ task' = ClaimedTask
  /\ dropped' = TRUE
  /\ UNCHANGED << carries, run, stranded, overruled >>

(* _enqueue_scheduled_task_order posts an order, create_manual_order       *)
(* inserts it and queues the task, whether it is still enabled or not.  A  *)
(* repeated post is refused by the unique active fingerprint.              *)
Enqueue(d) ==
  /\ d \in carries
  /\ \E r \in Runs :
       /\ run[r] = "none"
       /\ run' = [run EXCEPT ![r] = "open"]
  /\ task' = ClaimedTask
  /\ carries' = carries \ {d}
  /\ UNCHANGED << dropped, stranded, overruled >>

(* The post is refused, or Dishwasher dies: nobody holds the claim.        *)
EnqueueFails(d) ==
  /\ d \in carries
  /\ carries' = carries \ {d}
  /\ dropped' = TRUE
  /\ UNCHANGED << task, run, stranded, overruled >>

(* reconcile_active_orders, for an order no alert of Prometheus matches:   *)
(* resolving, and complete at once, as it has no ticket that is open.      *)
ReconcilerEndsRun(r) ==
  /\ run[r] = "open"
  /\ run' = [run EXCEPT ![r] = "cut"]
  /\ stranded' = TRUE
  /\ UNCHANGED << task, carries, dropped, overruled >>

(* _finalize_order_for_dish, when the dish of a run ends: an order that is *)
(* terminal is left alone, and with it its task; the end of another frees  *)
(* its task (_finalize_scheduled_task_for_order).                          *)
NeverAfterRun(enabled) == "never"

NextAfterRun(enabled) == IF enabled THEN "later" ELSE "never"

FreedTask == [task EXCEPT !.status = RestingStatus(task.enabled),
                          !.next = NextAfterRun(task.enabled)]

FinalizeRun(r) ==
  /\ \/ /\ run[r] = "open"
        /\ task' = FreedTask
        /\ stranded' = FALSE
     \/ /\ run[r] = "cut"
        /\ UNCHANGED << task, stranded >>
  /\ run' = [run EXCEPT ![r] = "ended"]
  /\ UNCHANGED << carries, dropped, overruled >>

(* Time passes. *)
BecomeDue ==
  /\ Registered
  /\ task.next = "later"
  /\ task' = [task EXCEPT !.next = "due"]
  /\ UNCHANGED << carries, run, dropped, stranded, overruled >>

-----------------------------------------------------------------------------
(* Operators. *)

(* request_scheduled_task_run_now: a queued task only gets a message, a    *)
(* disabled one is refused.                                                *)
RunNow ==
  /\ Registered
  /\ task.enabled
  /\ task.status = "idle"
  /\ task' = [task EXCEPT !.next = "due"]
  /\ UNCHANGED << carries, run, dropped, stranded, overruled >>

(* update_scheduled_task with is_enabled: the status is set to rest,       *)
(* whatever it was.  Without is_enabled nothing modelled changes.          *)
EnabledTaskOnly(t) == [t EXCEPT !.enabled = TRUE, !.status = "idle"]

EnabledTask(t) ==
  [t EXCEPT !.enabled = TRUE, !.status = "idle",
            !.next = IF @ = "never" THEN "later" ELSE @]

Enable ==
  /\ Registered
  /\ task' = EnabledTask(task)
  /\ overruled' = (overruled \/ carries # {} \/ RunsOut # {})
  /\ dropped' = FALSE
  /\ stranded' = FALSE
  /\ UNCHANGED << carries, run >>

(* update_scheduled_task with is_enabled false, disable_scheduled_task.    *)
Disable ==
  /\ Registered
  /\ task' = [task EXCEPT !.enabled = FALSE, !.status = "disabled"]
  /\ UNCHANGED << carries, run, dropped, stranded, overruled >>

-----------------------------------------------------------------------------
(* The steps a plugin's health does not take part in (see PluginHealth).   *)
SchedAlone ==
  \/ RegisterTask
  \/ \E d \in Dishwashers : ClaimDue(d) \/ Enqueue(d) \/ EnqueueFails(d)
  \/ ClaimAnswerLost
  \/ \E r \in Runs : ReconcilerEndsRun(r)
  \/ BecomeDue
  \/ RunNow \/ Enable \/ Disable

SchedNext == SchedAlone \/ \E r \in Runs : FinalizeRun(r)

SchedSpec == SchedInit /\ [][SchedNext]_schedVars

-----------------------------------------------------------------------------
(* However many Dishwashers claim and post, a task has one run at a time,  *)
(* and an idle one has none, be it only the dish of an order the reconciler*)
(* ended: only an operator who enables a task whose run is out can start a *)
(* second one beside it.                                                   *)
OneRunAtATime ==
  overruled \/ /\ Cardinality(carries) + Cardinality(RunsOut) <= 1
               /\ task.status = "idle" => carries = {} /\ RunsOut = {}

(* A queued task is on its way, so that its end will free it: a Dishwasher *)
(* has it or an order of it is open.  There are two exceptions, and the    *)
(* code has no timeout for either: the task stays queued until an operator *)
(* enables it again.  One is a claim that was lost before its order was    *)
(* made (lost answer, refused post, dead Dishwasher).  The other is an     *)
(* order that the incident reconciliation ended: when its dish ends, Cook  *)
(* returns before it reaches the task.                                     *)
QueuedIsOut ==
  task.status = "queued" => dropped \/ stranded \/ carries # {} \/ OpenRuns # {}

(* An enabled task always has a next run: disabling, running to the end    *)
(* and enabling, in any order, never leave it enabled and never due.       *)
EnabledHasNextRun == Registered /\ task.enabled => task.next # "never"

TasksKept == OneRunAtATime /\ QueuedIsOut /\ EnabledHasNextRun
=============================================================================
