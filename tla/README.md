# PoundCake in TLA+

PoundCake is a control plane that turns Alertmanager notifications into
*orders*, plans *dishes* for them from recipes, and has provider plugins execute
the steps of a dish. One API over one MariaDB (11.6, which
`docker/docker-compose.yml` pins; its snapshot isolation refuses a lost update)
and four kinds of synchronous worker processes share all state. Around that
pipeline stand services with state of their own: the registry of plugins,
scheduled tasks, suppression windows, tickets at Bakery, recipes with several
writers, and adapters that change a cluster or a repository. These modules model
the pipeline and those services; TLC checks them on small instances, and TLAPS
proves much of the safety for every size.

## Inventory

The order pipeline:

| Component | Source | State it keeps | Operations |
|---|---|---|---|
| Alert intake | `api/services/pre_heat.py`, `order_intake.py`, `api/core/statuses.py` | `orders`: alert and processing status, `is_active`, counter | firing, resolved and warning notifications, manual orders |
| Cook | `api/api/cook.py`, `api/api/orders.py` | `dishes`, `orders` | dispatch, advance, suppress, finalize, redispatch |
| Dish planner | `api/services/dish_planner.py`, `kitchen/execution_segments.py` | none | rows of a phase, next segment |
| Runtime row API | `api/api/dishes.py` | `dish_ingredients`: status, receipt, claim | list, claim, release, reconcile |
| Expediter gateway | `api/api/expediter.py`, `api/plugins/state.py`, `api/services/plugin_orchestrator.py` | none | execute, status, cancel; transitions and verdicts |
| Prep Chef | `kitchen/prep_chef.py` | none | posts dispatchable orders, every 5 s |
| Expediter Runner | `kitchen/expediter_runner.py` | none | executes claimed rows, every 2 s |
| Timer | `kitchen/timer.py` | none | polls, times out, recalls, cancels behind failures, advances, sweeps windows, every 10 s |

The services around it:

| Component | Source | State it keeps | Operations |
|---|---|---|---|
| Dishwasher, scheduled tasks | `kitchen/dishwasher.py`, `api/api/scheduled_tasks.py` | `scheduled_tasks` | register, claim, post, run now, toggle; rounds that register templates |
| Plugin registry and health | `api/api/plugins.py`, `api/services/plugin_bootstrap.py`, `catalog.py` | `service_plugins` | startup jobs, health checks, operators' toggles |
| Suppressions | `api/services/suppression_*.py`, `alertmanager_suppressions.py` | windows, events, summaries | create, change, expire, synchronize, sweep |
| Authentication | `api/services/auth_service.py`, `api/api/auth.py` | sessions and login states in memory, bindings | password, browser and device logins, requests, bindings |
| Internal HMAC | `shared/internal_hmac.py`, `api/core/http_client.py`, `kitchen/service_helpers.py` | identities, nonces per replica | signed calls and their repetition |
| Recipes, ingredients, policy | `api/services/ingredient_registry.py`, `api/api/recipes.py`, communications policy | recipes, steps, ingredient versions | three writers; planning |
| Bakery: tickets, monitor, incidents | `api/plugins/bakery/` | ticket ids in outcomes, the credential, the incident's row | open, reopen, comment, close; register; reconcile |
| Kubernetes | `api/plugins/k8s/` | none; the cluster's objects | rollouts, jobs, autoscalers, pods, rules |
| StackStorm | `api/plugins/stackstorm/` | none; executions | execute, poll, cancel, content sync |
| GitHub, git | `api/plugins/github/`, `git/` | a working copy | propose a change |
| Genestack content | `api/plugins/genestack_monitoring/` | recipes it manages, rules | derive and publish recipes, sync and export rules |
| Rule files | `api/services/alert_rule_repo.py` | none; files | insert, update, delete, render |
| Watchdog, release notices, views, CLI, UI, deployment | | | not modelled, see below |

How they interact: workers call handlers of the API over HTTP; a call may be
retried, late, or answered after its caller gave up. A handler is one or a few
database transactions. Nothing else is shared by the workers: none holds a lock
between calls but a claim, which is a timestamp on the row. Adapters run inside
the API and read and write systems that others write too.

What makes it correct, and hard:

- **Rows**: each row's work reaches a provider once, its status is decided by
  who owns its receipt, it ends once. Hard because claims time out, anybody's
  release frees them, and answers come late.
- **Dishes**: rows run bucket by bucket, a failure stops later buckets, the
  dish ends as its rows did, and it ends. Hard because several advances work on
  one dish, each on an older reading, and each may die half-way.
- **Orders**: an order ends when its dishes have, its outcome is honest, an
  alert gets the dishes of two phases and not more, the order ends or waits for
  its alert. Hard because alerts flap while dishes run, Prep Chef and advances
  both dispatch, suppression cuts in, and ended orders are reopened by design.
- **What is written from what was read**: intake, tasks, sessions, windows,
  incidents, recipes, rules, autoscalers and branches are all read, thought
  about, and written, with somebody else in between. Each must lose nothing of
  the other's.
- **What is repeated**: signed calls, dispatches to Bakery and StackStorm,
  registrations, notes and startup jobs are sent again when an answer is lost or
  a process dies. Each must take effect once, or be known to have taken effect.

## Modules

| Module | Models |
|---|---|
| `RuntimeRow` | rows from "Cook may mark it" to terminal: Cook's mark, runners, Timers, the claim, release and reconcile handlers |
| `RowContract` | what a row promises Cook; `RuntimeRow` implements it |
| `Kitchen` | one order, its alert and its dishes, rows rolled up to one per dish |
| `DishRun` | the rows of one dish: segments, concurrent advances, the cascade behind failures |
| `Intake` | the orders of one fingerprint under racing webhooks |
| `ScheduledTasks` | one recurring task, Dishwashers and the orders they post |
| `PluginHealth` | a plugin's registry row and the health check task; extends `ScheduledTasks` |
| `Startup` | the three bootstrap jobs, broken manifests, helpers and hooks |
| `Suppressions` | silences, their rows, Cook's match and the sweep |
| `Sessions` | logins and what a session is worth later |
| `ControlCall` | a signed call, its repetition, replicas and their nonces |
| `RecipeSteps` | the steps of recipes, their three writers and the dish planned from them |
| `Tickets` | what communication steps do at Bakery |
| `Incidents` | the reconciliation of an order with Prometheus and its ticket |
| `Monitor` | the credential for Bakery |
| `StackStorm` | executions under two nested loops of repetition; the sync of actions |
| `Cluster` | the Kubernetes plugin's operations |
| `AlertRules` | the live rules and all who write them |
| `RuleDocuments` | files of rules: functions on data |
| `Proposals` | changes proposed through GitHub's API and through a working copy |
| `Remediation` | the recipe that the content sync derives for each kind of alert, and its publication |
| `MCRuntimeRow`, `MCKitchen`, `MCDishRun`, `MCServices`, `MCContent` | instances for TLC |
| `RuntimeRowProofs`, `DishRunProofs`, `KitchenProofs` | theorems about `RuntimeRow` and `RowContract`, `DishRun`, `Kitchen` |
| `AlertProofs` | about `Intake` and `Suppressions` |
| `PlatformProofs` | about `ScheduledTasks` with `PluginHealth`, `Startup`, `ControlCall` and `Sessions` |
| `BakeryProofs` | about `Monitor`, `Tickets` and `Incidents` |
| `AdapterProofs` | about `Cluster`, `AlertRules`, `StackStorm` and `Proposals` |
| `ContentProofs` | about `RecipeSteps`, `RuleDocuments` and `Remediation` |

Every action is a handler, a transaction of one, a step of a worker between
two calls, or one call to a system outside; `PROJECT.json` maps each definition
to its lines. A definition with a bug in its name or its comment (`TakeHeld`,
`SegmentOverFailures`, `OutcomeReplaced`, ...) is not part of a model: it is the
wrong neighbour of the definition that follows it, kept to show that the
properties notice. Some modules keep more of them than the project file uses,
where a property is a conjunction: each breaks another conjunct
(`ResolvableLatest` in `Intake`, `NeverAfterRun` and `EnabledTaskOnly` in
`ScheduledTasks`, `DisablePluginOnly` and `CallableByHealth` in `PluginHealth`,
`FreshSecret`, `EnterUnrecorded`, `NoteClearedAfter`, `FreshKey`, `MatchesByKey`,
`LeftIfKnown`, `TreeOfLatest`, `PatchAsked`, `MayWrite`, `HookOfAnyKind`).

### The pipeline

`failed` stands for failed, errored and timeout in `Kitchen` and `DishRun`,
which no handler modelled there tells apart.

**RuntimeRow.** `status`, `receipt`, `claim` and `overdue` are the row's
`service_exec_status`, `service_exec_id` (none, the runner's receipt, a
provider's), `service_exec_claimed_at` (free, fresh, or stale against
`lock_timeout_seconds`) and whether `service_exec_timeout` has passed. `pc`,
`job`, `seen` and `answer` are a worker's local state between calls.
`dispatched` and `lapsed` are history. The claim's guard does not tell workers
apart because `service_exec_claimed_by` holds the row's own `req_id`; this is why
`Release` frees any claim. A provider may answer anything the orchestrator lets
through (`AdapterAnswers`); adapters that may answer non-terminal with no receipt
(StackStorm's `raw.get("id")`) are those of `Idless` rows.

**Kitchen.** A request is a member of `Cooks` with one step per transaction; what
it carries across a commit is the dish object (`saw`: SQLAlchemy writes an
attribute only if it differs from what was loaded) and its verdict. The order is
read again in each transaction, for the session's identity map holds it weakly.
Recipes are told apart by what the handlers ask of them: whether the firing phase
remediates and which phases have rows. An operator may edit the recipe between
dispatches. A dispatch seeds the steps that the dish does not have by their ids, and
an edited recipe has new ids: `Grow` adds rows to a dish whose rows run or have
ended. `grown` counts this for each dish, and `read` is the count at which a request
read the rows (`Outdated`); `early` is history, the dishes that were ended by such an
older reading. Suppression is an action of Prep Chef's request after its dispatch.

**DishRun.** Rows are numbered by id and lie in buckets `(depth, parallel_group)`.
An advance reads the rows (`AdvanceSegment`, `AdvanceEnd`) and acts later, row by
row (`Mark`, `MarkLost`, `Flag`, `EndDish`). A Timer's cascade lists and then posts
in the same way. `Crash` may happen between any two steps.

**Intake.** A webhook's transaction is two steps where it may insert, since an
order that is not there cannot be locked; the loser of an insert recovers by
counting or ignoring (`Recover`). `settled` is history: a resolve was handled with
no firing notification in flight.

### The services

**ScheduledTasks, PluginHealth.** `task` is the row with its status, whether it is
enabled and when it runs next (never, later, due). `carries` are the Dishwashers
that have claimed it and not posted yet: nothing but their memory knows. `plugin`
is the registry row; the probe of a health check (`Probe`) and its application by
Cook (`ApplyHealth`) are apart, as an order lies between them. A run is an order
and its dish: `cut` when the reconciler of incidents, which takes every active order
for one of an alert and finds no such alert, ended the order while its dish goes on
(`ReconcilerEndsRun`); Cook then leaves the task alone. `dropped`, `stranded`,
`overruled`, `stopped` and `unwatched` are history.

**Startup.** The jobs of `plugin_bootstrap.py` run one after the other; each may
die and is started anew (`JobDies`), while health checks go on. A manifest is what
the validator tells apart; its helper may be missing, its hook may fail, and it
may require another's helper.

**Suppressions.** `silence` and `over` are Alertmanager's, `row` and `summary` are
Poundcake's; `answer` is what finished dishes brought back and nobody has applied
yet. `CookMatches` and `CookSuppresses` are apart because the event is committed
later than the match. The sweep has its batch of windows in hand (`batch`): the
first `BatchLimit` by their end (`EndsBefore`) of the windows that are not canceled,
closed one after the other. `LeftByCancel`, `LeftByLimit` and `LeftByRace` name where
the code leaves an alert behind its window.

**Sessions.** `Present` reads the session, `Serve` writes it back after the
bindings were awaited: everything else happens between. Login states are popped
in one step and used in a later one.

**ControlCall.** A worker signs once and repeats the same bytes. A replica handles
a message whether or not the worker still waits, once per copy that arrives, and
forgets its nonces at a restart.

**RecipeSteps.** A step names an ingredient by the version of its contract. The
Dishwasher goes step by step through a round; the content sync and operators
write in between; a dish is planned again and again from what is there. `calm` is
history: nobody edited since the dish was first planned.

**Tickets, Incidents, Monitor.** Bakery is the part of it that answers: it knows
the idempotency keys it has seen, and its answers get lost. A step of an order is
dispatched again after a lost answer with the key it had. A reconciliation pass
is a sequence of awaited calls (`pass.pc`) with one commit at its end; passes follow
one another, as runs of one scheduled task do. `successors` and `unheard` count the
tickets they opened and those of them whose operation no pass saw succeed. A monitor
task is a heartbeat, a health check or a request; `holder` is `_REGISTER_LOCK`.

**StackStorm, Cluster, AlertRules, Proposals.** Every call to the system outside
is a step. What others do there is an action too (`ExecutionMoves`, edited
actions, controllers, merged and deleted branches). The git plugin's commands have
no await between them and are one step that may fail in the middle.

**RuleDocuments, Remediation.** Here the data is the point. A file is groups of
rules in one of its four shapes, and `expected` is what a table with one entry per
rule would hold after the same edits: the functions on files are checked against
that definition. A capability is what `_capability_matches` and
`_best_capability` ask of it; `published` is what the three calls of a publication
left.

**MCServices, MCContent.** The sixteen services share no variable with each other,
so an instance runs each alone: `focus` says which, and the others stay in a first
state of theirs (`Pinned` picks one where there are many). What is checked is what
sixteen runs would check. There are two instances, so that a state is small:
`MCServices` has those that serve orders and plugins, `MCContent` those that change
a cluster, StackStorm, a repository or recipes.

## Runs

| Run | Instance | Shows |
|---|---|---|
| `RuntimeRowSafety` | 1 row (timed, with an expected outcome), 2 runners, 2 Timers | `ClaimExclusive`, `DispatchedOnce`, `ClaimKept`, `DispatchAccounted`, `TerminalFinal`, `OwnerDecides` |
| `RuntimeRowSettles` | 1 row, 2 runners, 1 Timer, adapters without receipts, fairness | `KeepsContract`: `RuntimeRow` implements `RowContract`; `SettlesAfterCrashes`: timed rows end |
| `KitchenSafety` | 2 dishes that may grow once, Prep Chef and 1 request, counter 2 | `EndedOrderQuiet`, `OnePerPhase`, `RowsEndFirst`, `OutcomeEarned`, `ActiveWhileOpen`, `EndedUntilResolved` |
| `KitchenSettles` | 2 dishes that may grow twice, Prep Chef and 1 request, suppression, one firing, recipes that remediate, fairness | `DishesPerAlert`, `OrderSettles` |
| `DishRunEnds` | 5 rows in 3 buckets out of id order, 2 requests, 2 Timers, fairness | `InOrder`, `EndJustified`, `LeftBesideFailure`, `Finishes` |
| `Services` | ten services, one at a time; about 2.2 million states | the table below |
| `Content` | six services, one at a time; about 860 thousand states | the table below |

| Property of `Services` or `Content` | Module | Shows |
|---|---|---|
| `IntakeKept` | `Intake` | one active order per fingerprint; a resolve leaves no order waiting unless a firing notification was in flight |
| `HealthKept` | `ScheduledTasks`, `PluginHealth` | one run at a time; a queued task is on its way unless its claim was lost or the reconciler ended its order; an enabled one has a next run; what an operator disabled is not callable whatever late results say |
| `StartupKept` | `Startup` | hooks have the helpers they require; broken plugins are shown as failed although jobs die half-way |
| `SessionsKept` | `Sessions` | a changed binding counts from the next request; a browser login lets in once; who logged out stays out |
| `ControlKept` | `ControlCall` | a replica executes a call once; a refused retry had been executed; the worker holds the stored secret |
| `SuppressionsKept` | `Suppressions` | an alert that still fires has an order or a sweep is still to come to its window, which is out of the sweep's reach only if it is canceled and its silence over, if as many closed windows as the limit stand before it, or if the event was committed behind the sweep |
| `IncidentsKept` | `Incidents` | a clearing is told once, and a ticket has one successor besides those whose operation no pass saw succeed, unless a pass dies |
| `TicketsKept` | `Tickets` | one ticket per order, never another alert's, and remembered |
| `MonitorKept` | `Monitor` | the stored credential is the one Bakery accepts |
| `ExecutionsKept` | `StackStorm` | what was heard of is not started again; success is earned; an undisturbed sync is whole |
| `ClusterKept` | `Cluster` | a rollout is told complete when it is; bounds stay ordered |
| `RulesKept` | `AlertRules` | a write changes its own rule only; a rule of the repository names its file |
| `ProposalsKept` | `Proposals` | no branch loses a commit; a commit brings its own files only |
| `RecipesKept` | `RecipeSteps` | a step is planned once; after a clean round no retired ingredient is named |
| `FileKept` | `RuleDocuments` | a file says what the edits leave, no group or rule twice |
| `RemediationKept` | `Remediation` | a published recipe looks before it acts, acts as the policy says, tells the operators, and destroys nothing unasked; a recipe taken over is left alone |

### Bounds

One row is enough for `RuntimeRow`: no handler modelled there reads
another row, and a worker has one row in hand. Two runners and two Timers give
every pair of the same and of different kinds; the proofs remove the bound.
`dispatched` saturates at 2. Two dishes in `Kitchen` are a firing and a resolving
one, or one and a duplicate; `MaxCounter` 2 lets the alert fire again once in the
middle of anything (the counter is otherwise only counted). One request beside Prep
Chef lets a late advance cross a dispatch or a redispatch. A dish that grows once
has rows that a reading under way does not know (`KitchenSafety`); one that grows
twice may do so again behind a second edit (`KitchenSettles`). The runs of the
counterexamples need no growth (`MaxGrowth` 0). More dishes, requests and growth
are what the proofs of the safety add. Five rows in three buckets
have rows beside a failure and rows two buckets behind it; row 3 goes on after
failures. Symmetry is used only where no liveness is checked.
`KitchenSettles`, `NodeAlertReview`, `Services` and `Content` do not
check deadlock: with their bounds used up, they stop. Each run also checks the
type invariant of its module, or another run of that module does; each property of
`Services` and `Content` includes that of its services. Two dishes in `KitchenSettles`
leave room for one dish too many of either phase (an alert that resolves before its
order is dispatched needs one dish); that a third changes nothing is what the proof
of `DishesPerAlert` adds.

`Services.cfg` and `Content.cfg` give each service two of whatever races and no more than that of
the rest:

- Intake: 2 webhooks, 2 orders, 2 attempts. The second order is the one that a
  race would make or that a second episode makes; the proof removes the bound.
- Tasks and health: 2 Dishwashers, 2 runs; the proof removes the bound.
- Startup: 2 optional plugins and 1 internal one, five manifests (sound, not
  found, with a hook, with a hook that requires a helper, and without a helper while
  requiring one), 1 death, 2
  deployments, so that a plugin breaks and is repaired.
- Sessions: 2 sessions, 1 request in flight, 1 login state. A request and the
  other session's are what races.
- Signed calls: 2 replicas, 2 retries: three sendings over two memories, so that
  a repetition meets the same and another replica; the proof removes the bound.
- Suppressions: 2 windows, 1 alert that both may match, a batch of 1, 1 answer in
  flight, 1 change asked per window. The proof removes the bound.
- Tickets: 2 fingerprints, 2 orders, 2 steps, 2 sendings of a step. Two orders are
  of one alert or of two. Incidents: 2 successors of a ticket, one too many unless an
  answer went unheard.
- Monitor: 2 tasks, 3 credentials: both register, and one again.
- Cluster: 2 dispatches, 1 further generation, autoscalers of up to 2. Rules: 2
  rules, 1 dispatch beside the content sync, versions to 3. Documents: 2 groups,
  2 names, 2 bodies, 3 rules in a file: the same name in two groups, a group with
  two rules, and the last rule of a group.
- Recipes: 1 route, 1 change of contracts, 2 rows of a dish per step, one too many.
- StackStorm: 1 job, 2 posts in 2 tries, 3 executions of at most four, 1 action.
- Proposals: 2 dispatches through GitHub and 1 by git on 1 branch, 4 commits.
- Remediation: 1 kind of alert of each policy, 1 capability turned off, 1 recipe
  taken over.

### Fairness

Workers loop for ever with fixed intervals and every call returns or
fails in bounded time, so what a worker has begun it goes on with (weak
fairness of its step). A claim, or an advance that a Timer posts, is possible on
and off, as others hold claims or requests; each pass tries again, so these are
strongly fair. Time passes (weak fairness of `Lapse` and `BecomeOverdue`). No
fairness is assumed of alerts, plugin health, or crashes; the liveness
properties start from the point where crashes stop, which is what
`<>[][Work]_vars` says. The services are checked for safety only: what they
would have to finish depends on operators and on systems outside.

## Where code and documents differ

Five runs end in a counterexample to a sentence of the documentation.

- `RuntimeRowSelfLocking`: "Terminal states are self-locking." Two crossing
  reconciles of a row with an expected outcome: each passes the transition
  check, since a terminal status may be posted again, and `verdict_status`
  computes the row's status from the later outcome. `TerminalFinal` states what
  does hold.
- `KitchenFiringFirst`: "A resolving dish cannot be dispatched until all firing
  dishes for the same order are terminal." The wait in `_dispatch_order_once` asks
  for a pending remediation, so a recipe that only communicates does not wait; in
  that case every Prep Chef pass finds the order dispatchable again, and once the
  short resolving dish has ended plans another. `DishesPerAlert` states the bound
  that holds with recipes that remediate.
- `KitchenDishFinal`: "Terminal order and dish statuses are immutable in normal
  transition validation." An advance that has read a pending row marks it after a
  suppression completed the dish (the guarded update does not look at `deleted`)
  and sets the dish to `processing`. No worker lists the deleted row, so the dish
  stays active.
- `KitchenNewIsDispatched`: the state diagram takes `new` to `processing` or
  `resolving`. A notification that returns a resolving order to `new` while its
  resolving dish runs lets that dish's end end the order.
- `NodeAlertReview`: "ambiguous/node-style alerts stay in evidence plus
  manual-review mode". A capability without a trigger of its own matches every
  alert, and the ranking puts what only observes first: the action of a
  node-pressure recipe lists files of a repository, and nobody is asked to review.

The diagram also omits two edges that `EndedUntilResolved` and the model take as
designed: an ended order goes to `resolving` when its alert resolves late, and
`processing` goes to its end while the alert still fires.

Met while modelling, as the code has it, and either part of a model or the reason
that something is not:

- Suppression: an alert that resolved while it was suppressed is put back too,
  though the documentation names those still firing. Every sync that finds a silence
  expired, by an operator or by its time, sets `canceled_at`, and no sweep selects
  such a window (`suppression_service.py:354`): if the sync is first, the alerts
  behind it have no order until Alertmanager repeats the notification. The sweep's
  limit is taken over rows that are closed already, which can starve newer ones.
- Scheduled tasks: the reconciler of incidents ends the order of a task that is out
  for too long, and Cook returns at `cook.py:749` before it frees the task, which is
  queued until an operator enables it. The order of the reconciling task itself is
  among them.
- Communications policy: disabled routes are planned (`dish_planner.py:296`)
  although the UI says they are not.
- Signed calls: the table `hmac_nonces` is unused; nonces are in each replica's
  memory, so a repetition may be executed by another replica, and one that
  reaches the same replica is refused although it was executed. Disabling an
  internal plugin makes its worker's calls 401, and the worker exits.
- Sessions: a logout is undone when a concurrent request writes its session back.
- Bootstrap enables again what an operator had disabled; a credential's status
  "error" is never reset; one broken plugin leaves `get_enabled_plugins` without
  any.
- Handlers that never work or never commit: `clear_user_workflows` and
  `import_workflow_repo` begin a transaction that is begun already;
  `rehydrate_session_context` begins one before the recipe handlers do; the
  watchdog's heartbeat, `update_scheduled_task` and `update_dish_metadata` of
  `plugin_operations.py` are flushed and not committed; release notices never
  leave `pending`.
- Incidents: a create that Bakery accepted and whose poll fails leaves no marker and
  has no key, so that the next pass opens another successor. The row goes on naming
  the ticket whose successor was opened. A
  reopening's update and its comment share one idempotency key.
- Kubernetes: deployments' `observedGeneration` is not looked at; an unfinished
  rollout is a failed step; a job with one failed pod is cleaned up although it
  may retry. StackStorm: `delayed` and `paused` are mapped to `errored`, which
  ends the row of an execution that goes on.
- git: `clone_or_pull` merges refs, and a push that failed leaves its commit in
  the working copy, where the next proposal takes it along. The export of rules
  drops recording rules.

## Proofs

Each theorem holds for every value of the constants, under the named assumptions
on constants in the modules (bounds are naturals, a `Nobody` is nobody, the
routes are finitely many, there is an alert rule). All follow the same plan: an
inductive invariant, a lemma for the steps of each actor, and a last step that
combines them.

**Rows** (`RuntimeRowProofs`): `TypeOK`, `ClaimExclusive`, `DispatchedOnce`,
`TerminalFinal`, `OwnerDecides`, `ClaimKept`, `DispatchAccounted`. Neither
`ClaimExclusive` nor `DispatchedOnce` is inductive: a state with a held row and a
free claim satisfies both and leads out of both. `ClaimKept` adds that a claim is
fresh from the time a worker takes it until it lets go, unless it lapses or the
row ends, and `DispatchAccounted` that a row dispatched once is out of the
runners' hands or under the claim of the worker that dispatched it; TLC checks
both as invariants. `RowsKeepContract` shows by the same invariant that every step
maps to a step or a stutter of `RowContract`; it assumes `Expecting = {}` because
a verdict may otherwise change a terminal status, which the contract forbids.

**Dishes** (`DishRunProofs`), for every recipe (any rows, any buckets, any
`on_failure`) and any number of requests and Timers: `TypeOK`, `InOrder`,
`EndJustified`, `LeftBesideFailure`. The argument is that rows which have ended do
not move (`EndedRowsStay`), so what an advance concluded from them remains true
until it acts. `InOrder` needs `TodoInOrder`, the same promise for the rows an
advance has yet to mark. The ends need `VerdictsHold`, that a verdict about to be
written is justified, and `FirstUnpassed`, that among rows not passed one comes
first: if it is neither pending nor running it is the failure that the rest lies
beside.

**Orders** (`KitchenProofs`), for any number of dishes, notifications and
requests. `TypeOK` and `ActiveWhileOpen` hold with and without suppression and for
every recipe. Behind `Plain`, that is without suppression and without recipes
whose dish may have no row, and however often dishes grow: `RowsEndFirst`,
`EndedOrderQuiet`, `OnePerPhase`,
`OutcomeEarned`, `EndedUntilResolved`. The invariant has besides the types, which
include that dishes are numbered as they are made, the parts `Seeded` (a dish has
rows), `Decided` (a verdict that a request holds is that of its rows, and those
have ended, unless the dish grew since), `SeenEnded` (what a request saw ended has
ended, or was revived
since) and `OneActive`. `OneActive` is stated of all dishes but the revived, which
is where `KitchenDishFinal`'s counterexample lives. A dispatch can add a dish to a
phase only if the phase has no active one, and an order ends in a transaction that
found no dish active: `EndedOrderQuiet` and `OnePerPhase` follow from these two
together, and neither alone is inductive.

`OneDishPerAlert` shows `DishesPerAlert` for recipes that remediate, suppressed or
not (`Remediating`; with suppression for one notification, as `KitchenSettles`
has it). A bound on a count is no induction hypothesis, so `CountInv` says what
keeps it: `FiringCounted`, a notification that waits has no firing dish yet;
`ResolvesWithAlert`, the order turns with its alert; `PendingWhileActive`, a
dispatch can see by the outcome that a firing dish is at work; and
`ResolvingCounted`, if a resolution has its dish, that dish is the only active one,
so that the order ends with it before anything can dispatch again. For a
suppressed order whose alert fires once more the last part fails (suppression ends
an order beside dishes that run), and nothing is claimed of it.

**Intake** (`AlertProofs`), for any number of webhooks, retries and orders:
`IntakeKept`. Uniqueness rests on the index, whose check and insert are one step,
and on `isActive` following the status at every writer. That a resolve settles
needs `FiringHandled`, which says of `settled` that no webhook with a firing
notification is between its steps. `OrdersFit` and `RequestsFit` add the bounds.

**Tasks and health** (`PlatformProofs`), for any number of Dishwashers and runs:
`HealthKept`, from `TasksRunOnce` and `DisabledRunsNothing`. `TaskInv` replaces the
count of runs by "nothing is
out" and "at most one is out", the dish of an order that the reconciler ended counted
in, which the steps preserve, and concludes the
cardinalities at the end. `PluginInv` bounds what a late result may write. Both
have the types of their module.

**Signed calls** (`PlatformProofs`), for any number of replicas and retries:
`ControlKept`, by `SecretsAgree` (a worker that runs has the stored secret, as
bootstrap never changes one that is there), `NoncesCount` (a replica that keeps
its memory has executed the call once if it knows the nonce, and not otherwise) and
`RefusedAfter`. That the counts stay within the attempts is a conservation law:
what a replica has executed and what is on its way to it (`OnItsWay`) are together no
more than the attempts sent (`AttemptsSent`).

**Suppressions** (`AlertProofs`), for any number of windows, alerts and
answers in flight, and any batch: `SuppressionsKept`. The sweep requeues and closes
in one transaction; everything else that takes an order away has committed its event
(`HeldBack`). That a window is canceled only if its silence is over (`CanceledAreOver`)
holds whichever way answers cross.
For the types, `SilencesThere` says that a row, an order to expire and an answer are
of silences that were made: none is unmade, and each ends once (`WindowsFit`).

**Startup** (`PlatformProofs`), for any plugins and manifests: `StartupKept`.
`HooksPending` says that hooks still to run are of plugins that load and have not
failed; `ShownSinceRegistered` extends the promise of shown failures back to the
stage of the hooks, where each failure is written before the hook leaves the list.
A job that dies starts again from its first stage, and nothing is promised until
the registration is through once more.

**Sessions** (`PlatformProofs`), for any number of requests, logins and sessions:
`SessionsKept`. `SessionsPlaced` is where a session may be: one that ended is
neither stored nor in any request's hand, so that no request can write it back;
`LoginsSpent`, that a login state which was not popped has let nobody in.
`HighestIsBound` shows that who is bound through groups has a role of theirs.

**Monitor** (`BakeryProofs`), for any number of tasks: `MonitorKept`, by the
lock: one task at most is registering, and the last answer is what it stores.

**Tickets** (`BakeryProofs`), for any number of alerts, orders and steps, however
often a step is sent and whichever answers get lost: `TicketsKept`. `TicketsKeyed`
ties a ticket's idempotency key to its order and nothing else, so that a repeated
opening finds the ticket it opened; `SoundStep` says of every step that the tickets
it holds and keeps are of its own alert, which is preserved because orders keep
their fingerprints and tickets their orders (`Grows`). That a reused ticket is of
the same alert is what `PriorTicketOfAlert` shows of the selection. A step that has
not ended may send once more (`SendsFit`).

**Incidents** (`BakeryProofs`): `IncidentsKept`. Between a note and its commit the
row does not know of the note and the pass does: `NothingForgotten` is stated of
`Remembered`, which is the pass's copy while a pass is under way. It counts
besides: a successor is either unheard or the one that the marker is set for.

**The cluster** (`AdapterProofs`), for any number of overlapping dispatches:
`ClusterKept`. A dispatch has read the autoscaler and written later, so what is
invariant is that the two bounds in its hand are in order (`SoundDispatch`); both
are sent, whatever the autoscaler is by then. `ClusterMoves` shows that workload and
job keep their types whoever moves them.

**Rules** (`AdapterProofs`), for any rules, objects and dispatches: `RulesKept`.
Versions only grow, so an object that still has the version a dispatch has read
still has the rules it read (`UpToDateCopy`). That is all the precondition of the
patch gives, and enough: a write changes its own rule. The types, which bound the
versions by the clock's, are preserved by themselves (`RulesTypeStep`).

**Executions** (`AdapterProofs`), for any number of rows, actions and repetitions:
`ExecutionsKept`. `SoundJob` says which receipts a row may have before, during and
after its posts; `SyncSound` that what a sync has been through is as shipped.

**Proposals** (`AdapterProofs`), for any number of dispatches and branches:
`ProposalsKept`. Commits are made after their parents (`CommitGraph`), so no later
commit enters the history of an earlier one, and a new commit's history has its
parents' (`ParentHistory`). `ProposalsFit` adds the bound of the types. A history is the smallest set of commits that has a
commit and its members' parents, which needs no recursion.

**Recipes** (`ContentProofs`), for any routes, changes of contracts and rows:
`RecipesKept`. Three writers compare with what they read a call ago, so the
invariant says what each may rely on: `VersionsGrow`, that contracts only grow, so
that a round's ingredients are never newer than the active ones; `RowsLinked` and
`CalmRows`, that a row is linked if it was planned, and stays so while nobody
edits, whatever rounds and syncs write meanwhile; `CalmRecipe`, that during such a
time the Dishwasher finds its recipe as it would write it and leaves it alone;
`CleanRound`, what a round without an error has written so far. `RecipesBounded`
adds the bounds of the types.

**Files** (`ContentProofs`), for any groups, rules, bodies and sequence of edits:
`FileKept`. `DocumentsInv` says of each place of a file that it is in order
(no name twice, no group empty that may not be) and that it has (`Has`) exactly
what is expected there. The lemmas say what each function on sequences does to
`Has`: `RulePut`, `GroupPut`, `RuleDropped`, and for the export, which writes a
file in an order of its own, `ListedOnce` and `PlaceRendered`.

**Remediation** (`ContentProofs`), for any deployment, policies, packs and
capabilities turned off: `RemediationKept`. `RecipeIsSafe` shows of the recipe
that is derived for an alert that it is `SafeSteps` for the capabilities turned
off at that moment; the invariant, that what is prepared and what is published is
safe for those that were turned off when it was read. `FormSafe` counts out the
form of a recipe; `NativeIsBest` is the ranking, that an alert's own action
outranks all others; that the job deletion is not chosen while one of the bounded
capabilities is left on follows from the weights (`Weights`).

With these, every invariant and every action property of a passing run is a
theorem, the type invariants included, and so is the refinement of `RowContract`, on
the conditions that the paragraphs above name.
Only model-checked: liveness (`SettlesAfterCrashes`, `OrderSettles`, `Finishes`)
and ENABLED, which are out of the prover's reach. The violations of the other runs
are counterexamples and need no proof.

## Limits

- `EndedOrderQuiet`, `RowsEndFirst` and `EndedUntilResolved` are checked and proved
  without suppression. `_complete_suppressed_dish_if_matched` ends order and dish
  without a look at other dishes, at running rows, or at whether the order has
  ended meanwhile, and they fail with it.
- `RowsEndFirst` is checked and proved without recipes that have nothing in the
  firing phase. Such a recipe, edited while a dish runs, lets an advance end an
  empty dish that is seeded afterwards.
- `RowsEndFirst` and `OutcomeEarned` except dishes in `early`: an edit gives a
  recipe's steps new ids, a re-dispatch seeds them into the active dish
  (`orders.py:648`), and an advance that read the rows before ends the dish all the
  same. What the earlier rows of a dish that grew came to is not kept in the
  roll-up, which may end in any way.
- The reconciler of incidents writes orders too: it ends an order whose tickets are
  closed beside active dishes and returns a resolving one to `new`
  (`incident_reconciliation.py:877-892`, `1001-1007`). It is not in `Kitchen`, so
  `EndedOrderQuiet` and `DishesPerAlert` say what webhooks, Cook, Prep Chef, Timer and
  Runners do with an order, and nothing of an order that a reconciliation meets
  half-way. `Incidents` has its writes, and `ScheduledTasks` what they do to a task.
- `DishRun` orders the rows of a bucket by id, where the code sorts by
  `(step_order, task_key, id)` (`execution_segments.py:86`).
- The key of a ticket's operation has the step's `recipe_ingredient_id` in it
  (`adapter.py:185-194`), which an edit of the recipe changes; `Tickets` takes it for
  stable, so a step repeated across an edit is out of its scope.
- A release in `RuntimeRow` is one step with the end of the work: a duplicate that
  arrives late (`dishes.py:1150`) and frees the next worker's claim is not in it.
- In `Incidents` passes follow one another. They would overlap only where two runs
  of the reconciling task do, which `OneRunAtATime` rules out but for an operator's
  intervention.
- `OrderSettles` is stated for orders none of whose dishes was revived, and its
  recipes give each firing dish a row: a process that dies between planning an
  empty dish and advancing it leaves a dish no poller lists. It is checked with a
  recipe present; without one the order is dispatched for ever, as in the code.
- An ended dish may have rows that run: a request may still be marking a segment
  when a row of it fails and another request ends the dish. `LeftBesideFailure`
  bounds which.
- The histories in some properties (`dropped`, `stranded`, `overruled`, `late`,
  `unheard`, `forgot`, `disturbed`, `calm`) name what the code has no answer to: a claim
  of a task lost with its Dishwasher, the order of a task that the reconciler ended, an
  operator who enables a task whose run is out, an event
  committed behind the sweep, a ticket whose creation was accepted and whose poll
  failed, a replica that forgot its nonces, a Bakery that
  forgot the monitor, a recipe edited under its dish. Each property says in its
  comment which one it excepts.
- The services do not meet each other or the pipeline in a run. Where one uses
  another, the module has what it uses of it: `Intake` has an order's end,
  `Suppressions` has Cook's match, `Tickets` has the steps of orders.

## Not modelled

- The limits of the worker lists, of 100 rows and more: a worker may take any
  row that qualifies, in any order.
- The watchdog's heartbeat and release notices, whose writes do not survive or do
  not decide anything (above).
- Serialization, views, statistics, observability, schemas, settings and the
  text of communications: no state of theirs decides anything.
- Which alerts a matcher matches, how labels make a fingerprint, which role may
  call which route, the providers' login protocols: left open in the models, so
  that what holds does not depend on them.
- The local superuser, whose role needs no binding; admins who write columns by
  hand.
- Handlers that cannot succeed (above), workflows imported from packs, merge
  conflicts, collectors, the reports of the Genestack catalogue.
- CLI, UI and deployment: clients of the API and configuration. The order and the
  restarts of the startup jobs are in `Startup`.
