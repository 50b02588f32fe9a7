----------------------------- MODULE RuntimeRow -----------------------------
(***************************************************************************)
(* The life of dish_ingredients rows, from the moment Cook may mark them   *)
(* ready until their service execution status is terminal.                 *)
(*                                                                         *)
(* A row is shared by Cook (api/api/cook.py), any number of Expediter      *)
(* Runner replicas (kitchen/expediter_runner.py), any number of Timer      *)
(* replicas (kitchen/timer.py) and the claim, release and reconcile        *)
(* handlers of api/api/dishes.py.  Workers are synchronous programs that   *)
(* talk to the API over HTTP, so every handler is one step on the row and  *)
(* other workers interleave between two calls.  A claim carries only a     *)
(* timestamp that the code compares with lock_timeout_seconds: it is free, *)
(* fresh or stale, and nothing in it names the worker that holds it (the   *)
(* req_id written to service_exec_claimed_by is the row's own).            *)
(***************************************************************************)
EXTENDS Naturals, FiniteSets

CONSTANTS
  Rows,         \* runtime rows
  Runners,      \* Expediter Runner replicas
  Timers,       \* Timer replicas
  Timed,        \* rows with a service_exec_timeout
  Expecting,    \* rows with a service_exec_expected_outcome
  Idless,       \* rows whose adapter may answer non-terminal with no receipt
  NoRow         \* a worker that works on no row

ASSUME RuntimeRowAssumption ==
  /\ Runners \cap Timers = {}
  /\ Timed \subseteq Rows
  /\ Expecting \subseteq Rows
  /\ Idless \subseteq Rows
  /\ NoRow \notin Rows

VARIABLES
  status,       \* service_exec_status
  receipt,      \* service_exec_id: none, the runner's receipt, the provider's
  claim,        \* service_exec_claimed_at against lock_timeout_seconds
  overdue,      \* rows whose service_exec_timeout has passed since the start
  callable,     \* the service plugin is enabled and healthy or degraded
  dispatched,   \* history: orchestrator.dispatch ran 0, 1 or more (2) times
  lapsed,       \* history: rows on which a claim has become stale
  pc,           \* what each worker is about to do
  job,          \* the row it works on
  seen,         \* the receipt in the claim response it holds
  answer        \* the result it will post

vars == << status, receipt, claim, overdue, callable, dispatched, lapsed,
           pc, job, seen, answer >>

rowVars == << status, receipt, claim, overdue >>
workerVars == << pc, job, seen, answer >>
history == << dispatched, lapsed >>

Workers == Runners \cup Timers

Terminal == {"succeeded", "failed", "errored", "timeout", "canceled"}
Statuses == {"pending", "running"} \cup Terminal
Receipts == {"none", "runner", "provider"}

(* An answer is what a worker is about to reconcile: the status, whether   *)
(* it carries a provider receipt, and how its outcome compares with the    *)
(* expected one (or that there is no outcome to compare).                  *)
Answers == [status : Statuses, id : {"none", "provider"},
            outcome : {"absent", "match", "mismatch"}]
NoAnswer == [status |-> "pending", id |-> "none", outcome |-> "absent"]

TypeOK ==
  /\ status \in [Rows -> Statuses]
  /\ receipt \in [Rows -> Receipts]
  /\ claim \in [Rows -> {"free", "fresh", "stale"}]
  /\ overdue \subseteq Rows
  /\ callable \in BOOLEAN
  /\ dispatched \in [Rows -> {0, 1, 2}]
  /\ lapsed \subseteq Rows
  /\ pc \in [Workers -> {"idle", "claimed", "dispatching", "waiting",
                         "reconciling", "releasing", "cascading"}]
  /\ job \in [Workers -> Rows \cup {NoRow}]
  /\ seen \in [Workers -> Receipts]
  /\ answer \in [Workers -> Answers]

Init ==
  /\ status = [r \in Rows |-> "pending"]
  /\ receipt = [r \in Rows |-> "none"]
  /\ claim = [r \in Rows |-> "free"]
  /\ overdue = {}
  /\ callable = TRUE
  /\ dispatched = [r \in Rows |-> 0]
  /\ lapsed = {}
  /\ pc = [w \in Workers |-> "idle"]
  /\ job = [w \in Workers |-> NoRow]
  /\ seen = [w \in Workers |-> "none"]
  /\ answer = [w \in Workers |-> NoAnswer]

-----------------------------------------------------------------------------
(* The state machine of api/plugins/state.py. *)

(* Definitions whose names end in a bug are not part of the model: each is  *)
(* the neighbour that follows it with that bug, to try the properties on.  *)

MayBecomeAnyEnd(from, to) ==
  from = "pending" \/ to # "pending"

(* EXECUTION_STATUS_TRANSITIONS, without `dispatched`, which no path       *)
(* stores: Cook writes `running` and the runner turns an adapter's         *)
(* `dispatched` into `running`.                                            *)
MayBecome(from, to) ==
  \/ from = "pending"
  \/ from = "running" /\ to # "pending"
  \/ to = from

(* verdict_status: a terminal status other than canceled is replaced by    *)
(* the comparison of the actual outcome with the expected one.             *)
Verdict(r, a) ==
  IF /\ a.status \in Terminal \ {"canceled"}
     /\ r \in Expecting
     /\ a.outcome # "absent"
  THEN IF a.outcome = "match" THEN "succeeded" ELSE "failed"
  ELSE a.status

ApplyLosingReceipt(r, a) ==
  /\ MayBecome(status[r], a.status)
  /\ status' = [status EXCEPT ![r] = Verdict(r, a)]
  /\ claim' = [claim EXCEPT ![r] = IF Verdict(r, a) \in Terminal THEN "free" ELSE @]
  /\ UNCHANGED << receipt, overdue >>

(* _apply_dish_ingredient_update under the row lock. *)
Apply(r, a) ==
  /\ MayBecome(status[r], a.status)
  /\ status' = [status EXCEPT ![r] = Verdict(r, a)]
  /\ receipt' = [receipt EXCEPT ![r] = IF a.id = "none" THEN @ ELSE a.id]
  /\ claim' = [claim EXCEPT ![r] = IF Verdict(r, a) \in Terminal THEN "free" ELSE @]
  /\ UNCHANGED overdue

-----------------------------------------------------------------------------
(* Worker bookkeeping. *)

Goto(w, where) ==
  /\ pc' = [pc EXCEPT ![w] = where]
  /\ UNCHANGED << job, seen, answer >>

Post(w, a) ==
  /\ pc' = [pc EXCEPT ![w] = "reconciling"]
  /\ answer' = [answer EXCEPT ![w] = a]
  /\ UNCHANGED << job, seen >>

Rest(w) ==
  /\ pc' = [pc EXCEPT ![w] = "idle"]
  /\ job' = [job EXCEPT ![w] = NoRow]
  /\ seen' = [seen EXCEPT ![w] = "none"]
  /\ answer' = [answer EXCEPT ![w] = NoAnswer]

TakeHeld(w, r) ==
  /\ pc[w] = "idle"
  /\ status[r] = "running"
  /\ claim' = [claim EXCEPT ![r] = "fresh"]
  /\ pc' = [pc EXCEPT ![w] = "claimed"]
  /\ job' = [job EXCEPT ![w] = r]
  /\ seen' = [seen EXCEPT ![w] = receipt[r]]
  /\ UNCHANGED << status, receipt, overdue, callable, answer, history >>

(* The claim handlers write the timestamp and status `running`, and return *)
(* the row to the worker.                                                  *)
Take(w, r) ==
  /\ pc[w] = "idle"
  /\ status[r] = "running"
  /\ claim[r] # "fresh"
  /\ claim' = [claim EXCEPT ![r] = "fresh"]
  /\ pc' = [pc EXCEPT ![w] = "claimed"]
  /\ job' = [job EXCEPT ![w] = r]
  /\ seen' = [seen EXCEPT ![w] = receipt[r]]
  /\ UNCHANGED << status, receipt, overdue, callable, answer, history >>

-----------------------------------------------------------------------------
MarkReadyAgain(r) ==
  /\ status[r] # "running"
  /\ claim[r] = "free"
  /\ status' = [status EXCEPT ![r] = "running"]
  /\ receipt' = [receipt EXCEPT ![r] = "runner"]
  /\ UNCHANGED << claim, overdue, callable, history, workerVars >>

(* Cook marks a row of the segment ready: the guarded UPDATE of            *)
(* _advance_dish.                                                          *)
MarkReady(r) ==
  /\ status[r] = "pending"
  /\ claim[r] = "free"
  /\ status' = [status EXCEPT ![r] = "running"]
  /\ receipt' = [receipt EXCEPT ![r] = "runner"]
  /\ UNCHANGED << claim, overdue, callable, history, workerVars >>

-----------------------------------------------------------------------------
(* Expediter Runner. *)

ClaimableHealthyOnly(r) == callable

(* expediter_runner_claimable, the filter of execution-pending and the     *)
(* guard of execution-claim.                                               *)
Claimable(r) == r \in overdue \/ callable

RunnerClaim(w, r) ==
  /\ receipt[r] = "runner"
  /\ Claimable(r)
  /\ Take(w, r)

(* POST /expediter/execute up to the adapter call: the handler re-reads    *)
(* the row, refuses one that is no longer the runner's (the runner posts   *)
(* `errored`), times out an overdue one, and answers `running` without a   *)
(* dispatch while the plugin is blocked.                                   *)
ExecuteRefused(w) ==
  LET r == job[w] IN
  /\ pc[w] = "claimed"
  /\ receipt[r] # "runner" \/ status[r] # "running"
  /\ \E o \in {"match", "mismatch"} :
       Post(w, [status |-> "errored", id |-> "none", outcome |-> o])
  /\ UNCHANGED << rowVars, callable, history >>

ExecuteOverdue(w) ==
  LET r == job[w] IN
  /\ pc[w] = "claimed"
  /\ receipt[r] = "runner" /\ status[r] = "running"
  /\ r \in overdue
  /\ \E o \in {"match", "mismatch"} :
       Post(w, [status |-> "timeout", id |-> "none", outcome |-> o])
  /\ UNCHANGED << rowVars, callable, history >>

ExecuteBlocked(w) ==
  LET r == job[w] IN
  /\ pc[w] = "claimed"
  /\ receipt[r] = "runner" /\ status[r] = "running"
  /\ r \notin overdue /\ ~callable
  /\ Post(w, [status |-> "running", id |-> "none", outcome |-> "absent"])
  /\ UNCHANGED << rowVars, callable, history >>

ExecuteAdmitted(w) ==
  LET r == job[w] IN
  /\ pc[w] = "claimed"
  /\ receipt[r] = "runner" /\ status[r] = "running"
  /\ r \notin overdue /\ callable
  /\ Goto(w, "dispatching")
  /\ UNCHANGED << rowVars, callable, history >>

Bump(r) == dispatched' = [dispatched EXCEPT ![r] = IF @ = 0 THEN 1 ELSE 2]

(* orchestrator.dispatch calls the adapter, with no look at the row; the   *)
(* attempts of its own retry loop are part of the one call.                *)
Dispatch(w) ==
  /\ pc[w] = "dispatching"
  /\ Goto(w, "waiting")
  /\ Bump(job[w])
  /\ UNCHANGED << rowVars, callable, lapsed >>

AdapterAnswersUnmapped(r) ==
  {[status |-> s, id |-> "provider", outcome |-> "absent"] :
     s \in Statuses \cup {"dispatched"}}

(* What an adapter may answer: a terminal result with or without a receipt *)
(* of its own, or a receipt for work that goes on; a row in Idless may     *)
(* answer non-terminal with none (StackStorm's `raw.get("id")`).           *)
AdapterAnswers(r) ==
  {a \in Answers :
     /\ a.status \notin Terminal /\ r \notin Idless => a.id = "provider"
     /\ a.status \notin Terminal => a.outcome = "absent"}

DispatchReturns(w) ==
  /\ pc[w] = "waiting"
  /\ \E a \in AdapterAnswers(job[w]) : Post(w, a)
  /\ UNCHANGED << rowVars, callable, history >>

(* The runner's HTTP call fails or times out.  The runner posts `errored`; *)
(* the request may have died before the adapter was called, or the handler *)
(* goes on and calls it after the runner gave up (its call counts here).   *)
(* A context that fails validation ends the same way, with no call.        *)
ExecuteTransportFailure(w) ==
  /\ pc[w] \in {"claimed", "dispatching", "waiting"}
  /\ w \in Runners
  /\ \E o \in {"match", "mismatch"} :
       Post(w, [status |-> "errored", id |-> "none", outcome |-> o])
  /\ \/ pc[w] = "dispatching" /\ Bump(job[w])
     \/ UNCHANGED dispatched
  /\ UNCHANGED << rowVars, callable, lapsed >>

RunnerReconcileUnowned(w) ==
  LET r == job[w]  a == answer[w] IN
  /\ pc[w] = "reconciling"
  /\ w \in Runners
  /\ Apply(r, a)
  /\ IF a.status \in Terminal THEN Rest(w) ELSE Goto(w, "releasing")
  /\ UNCHANGED << callable, history >>

(* POST execution-reconcile.  A refusal (409: the receipt is the provider's *)
(* or the transition is illegal) ends the job without a release.           *)
RunnerReconcile(w) ==
  LET r == job[w]  a == answer[w] IN
  /\ pc[w] = "reconciling"
  /\ w \in Runners
  /\ receipt[r] = "runner"
  /\ Apply(r, a)
  /\ IF a.status \in Terminal THEN Rest(w) ELSE Goto(w, "releasing")
  /\ UNCHANGED << callable, history >>

RunnerReconcileRefused(w) ==
  LET r == job[w] IN
  /\ pc[w] = "reconciling"
  /\ w \in Runners
  /\ receipt[r] # "runner" \/ ~MayBecome(status[r], answer[w].status)
  /\ Rest(w)
  /\ UNCHANGED << rowVars, callable, history >>

(* execution-release and poll-release: the guard compares the claimant's   *)
(* req_id, which every worker shares, so any claim on a running row is     *)
(* released.                                                               *)
Release(w) ==
  LET r == job[w] IN
  /\ pc[w] = "releasing"
  /\ claim' = [claim EXCEPT ![r] = IF status[r] = "running" THEN "free" ELSE @]
  /\ Rest(w)
  /\ UNCHANGED << status, receipt, overdue, callable, history >>

-----------------------------------------------------------------------------
(* Timer. *)

(* _timer_pollable: a row with the runner's receipt is listed only once it *)
(* is overdue.                                                             *)
Pollable(r) == receipt[r] = "runner" => r \in overdue

TimerClaim(w, r) ==
  /\ Pollable(r)
  /\ Take(w, r)

(* Answers the status poll can lead to: the runner's receipt echoes the    *)
(* row; a blocked plugin and an HTTP error are `errored`; otherwise the    *)
(* provider says.                                                          *)
PollStatuses(w) ==
  IF seen[w] = "runner" THEN {status[job[w]], "errored"}
  ELSE IF callable THEN Statuses
  ELSE {"errored"}

PollTerminal(w) ==
  /\ pc[w] = "claimed"
  /\ w \in Timers
  /\ \E s \in PollStatuses(w) \cap Terminal, o \in {"absent", "match", "mismatch"} :
       Post(w, [status |-> s, id |-> "none", outcome |-> o])
  /\ UNCHANGED << rowVars, callable, history >>

(* A non-terminal status, or a poll that failed in transport. *)
PollOverdue(w) ==
  /\ pc[w] = "claimed"
  /\ w \in Timers
  /\ job[w] \in overdue
  /\ \E o \in {"match", "mismatch"} :
       Post(w, [status |-> "timeout", id |-> "none", outcome |-> o])
  /\ UNCHANGED << rowVars, callable, history >>

PollUnfinished(w) ==
  /\ pc[w] = "claimed"
  /\ w \in Timers
  /\ job[w] \notin overdue
  /\ Goto(w, "releasing")
  /\ UNCHANGED << rowVars, callable, history >>

(* _cancel_row_without_advance.  cancel-requested lists rows of a firing   *)
(* dish whose order resolved, which any running row may belong to.         *)
TimerRecall(w) ==
  /\ pc[w] = "claimed"
  /\ w \in Timers
  /\ Post(w, [status |-> "canceled", id |-> "none", outcome |-> "match"])
  /\ UNCHANGED << rowVars, callable, history >>

(* _cancel_blocked_future_rows reads the pending rows of later buckets and  *)
(* then posts `canceled` for each, without a claim.                        *)
TimerCascade(w, r) ==
  /\ pc[w] = "idle"
  /\ status[r] = "pending"
  /\ pc' = [pc EXCEPT ![w] = "cascading"]
  /\ job' = [job EXCEPT ![w] = r]
  /\ answer' = [answer EXCEPT ![w] =
                  [status |-> "canceled", id |-> "none", outcome |-> "mismatch"]]
  /\ UNCHANGED << rowVars, callable, history, seen >>

(* POST reconcile, refused for a row that carries the runner's receipt. *)
TimerReconcile(w) ==
  LET r == job[w] IN
  /\ pc[w] \in {"reconciling", "cascading"}
  /\ w \in Timers
  /\ receipt[r] # "runner"
  /\ Apply(r, answer[w])
  /\ Rest(w)
  /\ UNCHANGED << callable, history >>

TimerReconcileRefused(w) ==
  LET r == job[w] IN
  /\ pc[w] \in {"reconciling", "cascading"}
  /\ w \in Timers
  /\ receipt[r] = "runner" \/ ~MayBecome(status[r], answer[w].status)
  /\ Rest(w)
  /\ UNCHANGED << rowVars, callable, history >>

-----------------------------------------------------------------------------
(* What the workers do not decide. *)

(* A worker dies, or one of its calls raises and _run_monitor drops the    *)
(* pass: the claim stays behind.                                           *)
Crash(w) ==
  /\ pc[w] # "idle"
  /\ Rest(w)
  /\ UNCHANGED << rowVars, callable, history >>

(* lock_timeout_seconds pass; the worker may well be still at work. *)
Lapse(r) ==
  /\ claim[r] = "fresh"
  /\ claim' = [claim EXCEPT ![r] = "stale"]
  /\ lapsed' = lapsed \cup {r}
  /\ UNCHANGED << status, receipt, overdue, callable, dispatched, workerVars >>

BecomeOverdue(r) ==
  /\ r \in Timed
  /\ status[r] = "running"
  /\ r \notin overdue
  /\ overdue' = overdue \cup {r}
  /\ UNCHANGED << status, receipt, claim, callable, history, workerVars >>

(* A plugin_health_check pass of Dishwasher, or an operator, changes the   *)
(* plugin's health or switch.                                              *)
PluginHealth ==
  /\ callable' = ~callable
  /\ UNCHANGED << rowVars, history, workerVars >>

-----------------------------------------------------------------------------
RunnerStep(w) ==
  \/ ExecuteRefused(w) \/ ExecuteOverdue(w) \/ ExecuteBlocked(w)
  \/ ExecuteAdmitted(w) \/ Dispatch(w) \/ DispatchReturns(w)
  \/ ExecuteTransportFailure(w)
  \/ RunnerReconcile(w) \/ RunnerReconcileRefused(w) \/ Release(w)

TimerStep(w) ==
  \/ PollTerminal(w) \/ PollOverdue(w) \/ PollUnfinished(w) \/ TimerRecall(w)
  \/ TimerReconcile(w) \/ TimerReconcileRefused(w) \/ Release(w)

Work ==
  \/ \E r \in Rows : MarkReady(r)
  \/ \E w \in Runners, r \in Rows : RunnerClaim(w, r)
  \/ \E w \in Runners : RunnerStep(w)
  \/ \E w \in Timers, r \in Rows : TimerClaim(w, r)
  \/ \E w \in Timers : TimerStep(w)
  \/ \E w \in Timers, r \in Rows : TimerCascade(w, r)
  \/ \E r \in Rows : Lapse(r)
  \/ \E r \in Rows : BecomeOverdue(r)
  \/ PluginHealth

Next ==
  \/ Work
  \/ \E w \in Workers : Crash(w)

Spec == Init /\ [][Next]_vars

-----------------------------------------------------------------------------
(* Properties. *)

(* Worker w acts on row r under a claim it took. *)
Holds(w, r) == job[w] = r /\ pc[w] \notin {"idle", "cascading"}

(* Unless a claim on the row outlived lock_timeout_seconds, at most one     *)
(* worker acts under a claim on it: the guarded claim handlers, the shared  *)
(* req_id and the release handlers that free any claim do not let a second  *)
(* worker in.                                                               *)
ClaimExclusive ==
  \A r \in Rows : r \notin lapsed =>
    \A v, w \in Workers : Holds(v, r) /\ Holds(w, r) => v = w

(* Work is dispatched to a provider once: a second dispatch needs a claim   *)
(* that outlived its timeout, or an adapter that answers non-terminal with  *)
(* no receipt, so that the row stays the runner's after the release.        *)
DispatchedOnce ==
  \A r \in Rows : dispatched[r] = 2 => r \in lapsed \/ r \in Idless

(* Why the two hold.  A row is claimed and dispatched only after Cook made *)
(* it ready, and a claim is fresh from the time a worker takes it until    *)
(* that worker lets go of it, unless it lapses or the row ends.            *)
ClaimKept ==
  /\ \A r \in Rows : claim[r] = "stale" => r \in lapsed
  /\ \A r \in Rows : status[r] = "running" => receipt[r] # "none"
  /\ \A r \in Rows : status[r] = "pending" => receipt[r] = "none"
  /\ \A r \in Rows : receipt[r] = "none" => dispatched[r] = 0
  /\ \A w \in Workers, r \in Rows : Holds(w, r) => receipt[r] # "none"
  /\ \A w \in Workers : pc[w] # "idle" => job[w] \in Rows
  /\ \A w \in Workers : pc[w] \in {"dispatching", "waiting"} => w \in Runners
  /\ \A w \in Timers : pc[w] \in {"reconciling", "cascading"} =>
       /\ answer[w].status \in Terminal /\ answer[w].id = "none"
       /\ pc[w] = "cascading" => answer[w].status = "canceled"
  /\ \A w \in Workers, r \in Rows : Holds(w, r) /\ r \notin lapsed =>
       \/ status[r] = "running" /\ claim[r] = "fresh"
       \/ status[r] \in Terminal

(* The row is out of the runners' hands for good.                          *)
HandedOn(r) == status[r] \in Terminal \/ receipt[r] = "provider"

(* And a row that was dispatched once is either out of the runners' hands  *)
(* or under the claim of the worker that dispatched it, which will not let *)
(* go of it before it is.                                                  *)
DispatchAccounted ==
  \A r \in Rows \ (lapsed \cup Idless) :
    /\ dispatched[r] # 2
    /\ dispatched[r] = 1 => HandedOn(r) \/ claim[r] = "fresh"
    /\ \A w \in Runners : Holds(w, r) =>
         /\ pc[w] = "dispatching" => dispatched[r] = 0
         /\ pc[w] \in {"claimed", "releasing"} => dispatched[r] = 0 \/ HandedOn(r)
         /\ pc[w] = "reconciling" =>
              dispatched[r] = 0 \/ answer[w].status \in Terminal \/ answer[w].id = "provider"
    /\ \A w \in Timers : Holds(w, r) =>
         /\ pc[w] = "claimed" => r \in overdue \/ HandedOn(r)
         /\ pc[w] = "releasing" => HandedOn(r)

(* A terminal row stays terminal under late, duplicated and crossing        *)
(* reconciles; only the verdict of a row with an expected outcome can turn  *)
(* one terminal status into another.                                        *)
TerminalFinal ==
  [][\A r \in Rows : status[r] \in Terminal =>
       /\ status'[r] \in Terminal
       /\ status'[r] # status[r] => r \in Expecting]_vars

(* "Terminal states are self-locking." (docs/CONTRACTS.md)                  *)
SelfLocking ==
  [][\A r \in Rows : status[r] \in Terminal => status'[r] = status[r]]_vars

(* Ownership of a row passes one way.  While its receipt is the runner's    *)
(* only a runner ends the row; once a provider's receipt is recorded only a *)
(* Timer does, and no late answer of a runner takes the receipt back.       *)
OwnerDecides ==
  [][\A r \in Rows : status[r] = "running" =>
       /\ receipt[r] = "provider" => receipt'[r] = "provider"
       /\ status'[r] # "running" =>
            \E w \in Workers : /\ job[w] = r
                               /\ pc'[w] # pc[w]
                               /\ receipt[r] = "runner" <=> w \in Runners]_vars

(* Every row that runs and has a timeout becomes terminal, if the workers   *)
(* keep making passes and stop crashing at some time.                       *)
Settles ==
  \A r \in Timed : status[r] = "running" ~> status[r] \in Terminal

SettlesAfterCrashes ==
  <>[][Work]_vars => Settles

(* Each worker goes on with the row in hand; time passes.  A runner makes a *)
(* pass every 2 seconds and a Timer every 10, so among the claims on a row  *)
(* that become possible again and again each of the two gets its turn.      *)
Fairness ==
  /\ \A w \in Runners : WF_vars(RunnerStep(w))
  /\ \A w \in Timers : WF_vars(TimerStep(w))
  /\ \A r \in Rows : SF_vars(\E w \in Runners : RunnerClaim(w, r))
  /\ \A r \in Rows : SF_vars(\E w \in Timers : TimerClaim(w, r))
  /\ \A r \in Rows : WF_vars(Lapse(r)) /\ WF_vars(BecomeOverdue(r))

FairSpec == Spec /\ Fairness

-----------------------------------------------------------------------------
(* The contract that rows keep towards Cook.                               *)

outcomeBar ==
  [r \in Rows |-> CASE status[r] = "pending" -> "waiting"
                    [] status[r] = "running" -> "ready"
                    [] OTHER -> status[r]]

Contract ==
  INSTANCE RowContract WITH
    outcome <- outcomeBar,
    made <- {r \in Rows : receipt[r] # "none"},
    started <- {r \in Rows : dispatched[r] # 0}

(* Rows with no expected outcome keep the contract: work starts only after  *)
(* Cook made the row ready, the row ends once, and a skipped row is never   *)
(* worked on, through any interleaving of runners, Timers and crashes.      *)
KeepsContract == Contract!Spec
=============================================================================
