----------------------------- MODULE StackStorm -----------------------------
(***************************************************************************)
(* Actions and workflows run by StackStorm: the adapter's dispatch, poll   *)
(* and cancel (api/plugins/stackstorm/adapter.py), the calls they make     *)
(* (service.py) under the orchestrator's repetition of a dispatch          *)
(* (api/services/plugin_orchestrator.py), and the synchronization of the   *)
(* shipped action definitions (content_sync.py).                           *)
(*                                                                         *)
(* Requests and answers get lost; POST /v1/executions carries no key by    *)
(* which StackStorm could know a repeated one.                             *)
(***************************************************************************)
EXTENDS Naturals, Sequences

CONSTANTS
  Jobs,          \* runtime rows of action and workflow executions
  ShippedActions,\* action definitions in the shipped content
  MaxPosts,      \* external_http_retries + 1
  MaxTries       \* retry_count + 1 of a row

ASSUME StackStormAssumption == MaxPosts \in Nat \ {0} /\ MaxTries \in Nat \ {0}

VARIABLES
  jobs,          \* the runtime rows
  executions,    \* StackStorm: the executions it started
  definitions,   \* StackStorm: the definition of each shipped action
  contentSync    \* the running content_sync dispatch

stackStormVars == << jobs, executions, definitions, contentSync >>

NoExecution == 0
ExecutionIds == DOMAIN executions
MaxExecutions == 3   \* bound: executions StackStorm starts

(* heard: the adapter got the answer that names the execution.             *)
Execution ==
  [ job : Jobs, heard : BOOLEAN,
    status : {"requested", "delayed", "running", "paused", "canceling",
              "succeeded", "failed", "abandoned", "canceled"} ]
Finished == {"succeeded", "failed", "abandoned", "canceled"}

Job ==
  [ at : {"planned", "posting", "polling", "ended"},
    posts : 0 .. MaxPosts, tries : 0 .. MaxTries, receipt : 0 .. MaxExecutions,
    status : {"pending", "dispatched", "running", "succeeded", "failed",
              "errored", "canceled"} ]

(* A definition: absent, as shipped, or changed in StackStorm.  A sync has *)
(* the actions it still has to visit, and the one it visits now: at says   *)
(* as what it was found.                                                   *)
Definitions == {"absent", "shipped", "changed"}
NoAction == "none"
SyncPhase ==
  [ at : {"idle", "visiting", "succeeded", "raised"} \cup Definitions,
    todo : SUBSET ShippedActions, now : ShippedActions \cup {NoAction} ]

StackStormTypeOK ==
  /\ jobs \in [Jobs -> Job]
  /\ executions \in Seq(Execution)
  /\ definitions \in [ShippedActions -> Definitions]
  /\ contentSync \in SyncPhase

StackStormInit ==
  /\ jobs = [j \in Jobs |-> [ at |-> "planned", posts |-> 0, tries |-> 0,
                              receipt |-> NoExecution, status |-> "pending" ]]
  /\ executions = << >>
  /\ definitions \in [ShippedActions -> Definitions]
  /\ contentSync = [at |-> "idle", todo |-> {}, now |-> NoAction]

-----------------------------------------------------------------------------
(* _map_stackstorm_status: a status it does not know is an error.          *)
MapStackStormStatus(raw) ==
  CASE raw = "requested" -> "dispatched"
    [] raw = "canceling" -> "canceled"
    [] raw \in {"delayed", "paused", "abandoned"} -> "errored"
    [] OTHER -> raw

(* The row takes over the mapped status; a final one ends it.              *)
Reported(job, status) ==
  [job EXCEPT !.status = status,
              !.at = IF status \in {"dispatched", "running"} THEN "polling" ELSE "ended"]

(* ExecutionOrchestrator.dispatch repeats a result that is bad and         *)
(* retryable; a StackStormError of execute_action is.                      *)
Repeated(job) ==
  IF job.tries < MaxTries
  THEN [job EXCEPT !.tries = @ + 1, !.posts = 1]
  ELSE Reported(job, "errored")

(* An answered execution is never retryable, whatever its status is.       *)
(* RepeatedIfBad looks at the status alone.                                *)
RepeatedIfBad(job, e, raw) ==
  LET answered == Reported([job EXCEPT !.receipt = e], MapStackStormStatus(raw))
  IN  IF answered.status \in {"failed", "errored"} THEN Repeated(job) ELSE answered

Replied(job, e, raw) ==
  Reported([job EXCEPT !.receipt = e], MapStackStormStatus(raw))

(* request_with_retry sends a failed request again.                        *)
Resent(job) ==
  IF job.posts < MaxPosts THEN [job EXCEPT !.posts = @ + 1] ELSE Repeated(job)

DispatchJob(j) ==
  /\ jobs[j].at = "planned"
  /\ jobs' = [jobs EXCEPT ![j].at = "posting", ![j].posts = 1, ![j].tries = 1]
  /\ UNCHANGED << executions, definitions, contentSync >>

(* StackStorm starts the execution and answers 201.  A concurrency policy  *)
(* of its own may delay it.                                                *)
PostAnswered(j) ==
  /\ jobs[j].at = "posting"
  /\ Len(executions) < MaxExecutions
  /\ \E raw \in {"requested", "delayed"} :
       /\ executions' = Append(executions, [job |-> j, heard |-> TRUE, status |-> raw])
       /\ jobs' = [jobs EXCEPT ![j] = Replied(@, Len(executions) + 1, raw)]
  /\ UNCHANGED << definitions, contentSync >>

(* It starts the execution and the answer is lost or late.                 *)
PostUnheard(j) ==
  /\ jobs[j].at = "posting"
  /\ Len(executions) < MaxExecutions
  /\ executions' = Append(executions, [job |-> j, heard |-> FALSE, status |-> "requested"])
  /\ jobs' = [jobs EXCEPT ![j] = Resent(@)]
  /\ UNCHANGED << definitions, contentSync >>

(* The request is lost, or refused with a status that is tried again.      *)
PostFails(j) ==
  /\ jobs[j].at = "posting"
  /\ jobs' = [jobs EXCEPT ![j] = Resent(@)]
  /\ UNCHANGED << executions, definitions, contentSync >>

(* Any other status than 201, or no credential: a StackStormError.         *)
PostRefused(j) ==
  /\ jobs[j].at = "posting"
  /\ jobs' = [jobs EXCEPT ![j] = Repeated(@)]
  /\ UNCHANGED << executions, definitions, contentSync >>

-----------------------------------------------------------------------------
(* get_execution: the execution's status, or a StackStormError for every   *)
(* answer but 200.                                                         *)
GetExecution(e) == {MapStackStormStatus(executions[e].status), "errored"}

(* An error ends the row, whatever the execution does.  A transport error  *)
(* leaves the row for the next poll.                                       *)
PollJob(j) ==
  /\ jobs[j].at = "polling"
  /\ \E status \in GetExecution(jobs[j].receipt) :
       jobs' = [jobs EXCEPT ![j] = Reported(@, status)]
  /\ UNCHANGED << executions, definitions, contentSync >>

(* cancel_execution: 200, 202 and 204 say only that StackStorm will stop   *)
(* the execution, if it has not ended.                                     *)
CancelExecution(e) ==
  executions' = [executions EXCEPT ![e].status = IF @ \in Finished THEN @ ELSE "canceling"]

(* The row counts as canceled at once.                                     *)
CancelJob(j) ==
  /\ jobs[j].at = "polling"
  /\ \/ /\ CancelExecution(jobs[j].receipt)
        /\ jobs' = [jobs EXCEPT ![j] = Reported(@, "canceled")]
     \/ /\ jobs' = [jobs EXCEPT ![j] = Reported(@, "errored")]
        /\ UNCHANGED executions
  /\ UNCHANGED << definitions, contentSync >>

ExecutionMoves(e) ==
  /\ executions[e].status \notin Finished
  /\ \E status \in Finished \cup {"running", "paused"} :
       executions' = [executions EXCEPT ![e].status = status]
  /\ UNCHANGED << jobs, definitions, contentSync >>

-----------------------------------------------------------------------------
(* sync_action_definitions looks at the shipped actions one by one ...     *)
BeginSync ==
  /\ contentSync.at \in {"idle", "succeeded", "raised"}
  /\ contentSync' = [at |-> "visiting", todo |-> ShippedActions, now |-> NoAction]
  /\ UNCHANGED << jobs, executions, definitions >>

(* ... get_action takes every status but 200 for an absent action ...      *)
LookUpAction(x) ==
  /\ contentSync.at = "visiting"
  /\ x \in contentSync.todo
  /\ \E found \in {definitions[x], "absent"} :
       contentSync' = [at |-> found, todo |-> contentSync.todo \ {x}, now |-> x]
  /\ UNCHANGED << jobs, executions, definitions >>

(* The next action; after the last one the sync has succeeded.             *)
Visited ==
  contentSync' = [contentSync EXCEPT !.now = NoAction,
                    !.at = IF contentSync.todo = {} THEN "succeeded" ELSE "visiting"]

(* ... one that matches is left alone, one that does not is written.       *)
(* LeftIfKnown writes only those that are absent.                          *)
LeftIfKnown == contentSync.at \in {"shipped", "changed"}
LeftAlone == contentSync.at = "shipped"

ActionMatches ==
  /\ LeftAlone
  /\ Visited
  /\ UNCHANGED << jobs, executions, definitions >>

(* create_action of an action that exists is refused, and so is            *)
(* update_action of one that is gone.                                      *)
WriteAction(x) ==
  /\ contentSync.now = x
  /\ \/ contentSync.at = "absent" /\ definitions[x] = "absent"
     \/ contentSync.at = "changed" /\ definitions[x] # "absent"
  /\ definitions' = [definitions EXCEPT ![x] = "shipped"]
  /\ Visited
  /\ UNCHANGED << jobs, executions >>

(* The first action that cannot be read or written raises out of dispatch. *)
SyncRaises ==
  /\ contentSync.at \in {"visiting", "absent", "changed"}
  /\ contentSync' = [at |-> "raised", todo |-> {}, now |-> NoAction]
  /\ UNCHANGED << jobs, executions, definitions >>

(* Somebody changes or removes an action; not during a sync.               *)
ActionEdited(x) ==
  /\ contentSync.at \in {"idle", "raised"}
  /\ definitions' \in {[definitions EXCEPT ![x] = d] : d \in {"absent", "changed"}}
  /\ UNCHANGED << jobs, executions, contentSync >>

StackStormNext ==
  \/ \E j \in Jobs :
       \/ DispatchJob(j)
       \/ PostAnswered(j)
       \/ PostUnheard(j)
       \/ PostFails(j)
       \/ PostRefused(j)
       \/ PollJob(j)
       \/ CancelJob(j)
  \/ \E e \in ExecutionIds : ExecutionMoves(e)
  \/ BeginSync
  \/ \E x \in ShippedActions :
       \/ LookUpAction(x)
       \/ WriteAction(x)
       \/ ActionEdited(x)
  \/ ActionMatches
  \/ SyncRaises

StackStormSpec == StackStormInit /\ [][StackStormNext]_stackStormVars

-----------------------------------------------------------------------------
(* Through two nested loops of repetition, an execution whose answer       *)
(* arrived is never started again: of a row's executions at most one was   *)
(* heard of, and the row's receipt names it.                               *)
HeardOnce ==
  \A e \in ExecutionIds : executions[e].heard => jobs[executions[e].job].receipt = e

(* A row that says succeeded tells of an execution that succeeded.         *)
SuccessEarned ==
  \A j \in Jobs : jobs[j].status = "succeeded" =>
    executions[jobs[j].receipt].status = "succeeded"

(* A content sync that nobody disturbed leaves every action as shipped.    *)
SyncedWhole ==
  contentSync.at = "succeeded" => \A x \in ShippedActions : definitions[x] = "shipped"

(* The three together, with the types.                                     *)
ExecutionsKept == StackStormTypeOK /\ HeardOnce /\ SuccessEarned /\ SyncedWhole
=============================================================================
