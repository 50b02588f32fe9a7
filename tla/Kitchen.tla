------------------------------ MODULE Kitchen ------------------------------
(***************************************************************************)
(* One alert order and the dishes Cook makes for it.                       *)
(*                                                                         *)
(* The alert fires and resolves through the Alertmanager webhook           *)
(* (api/services/pre_heat.py); Prep Chef posts the order to Cook           *)
(* (kitchen/prep_chef.py, cook_order); Runners and Timers post advances of *)
(* its dishes (advance_dish).  A request is a worker of Cooks: it runs one *)
(* database transaction per step, so requests interleave between           *)
(* transactions and may die there.  What it keeps from one transaction to  *)
(* the next is the dish it is on, that dish's status when it was read (the *)
(* session keeps the object and writes only what changes) and the verdict  *)
(* it computed from the rows.                                              *)
(*                                                                         *)
(* The rows of a dish are rolled up into one: DishRun has the rows of one  *)
(* dish, RuntimeRow the life of one row.  `failed` stands for failed,      *)
(* errored and timeout, which no handler here tells apart.                 *)
(***************************************************************************)
EXTENDS Naturals, FiniteSets, FiniteSetsExt

CONSTANTS
  MaxDishes,    \* bound on the dishes of the order
  MaxCounter,   \* bound on the order's alert counter
  Recipes,      \* the kinds of recipe a dispatch may find (operators edit them)
  Suppressing,  \* a suppression may match the alert
  MaxGrowth,    \* bound on the times a dish is given more rows
  Prep,         \* the Prep Chef's request
  Callers       \* requests of Runners and Timers

ASSUME KitchenAssumption ==
  /\ MaxDishes \in Nat \ {0}
  /\ MaxCounter \in Nat \ {0}
  /\ Recipes \subseteq {"remediate", "notify", "closing", "silent", "none"}
  /\ Suppressing \in BOOLEAN
  /\ MaxGrowth \in Nat
  /\ Prep \notin Callers

VARIABLES
  alert,        \* alert_status of the order
  order,        \* its processing_status
  active,       \* its is_active
  remediation,  \* its remediation_outcome
  counter,      \* its counter of firing notifications
  phase,        \* run_phase of each dish, "none" before it is made
  dish,         \* processing_status of each dish
  work,         \* the rolled-up row of each dish
  grown,        \* how often each dish was given rows beside started ones
  pc,           \* what each request does next
  on,           \* the dish it is on (0: none)
  saw,          \* that dish's status as its session knows it
  verdict,      \* the terminal status it computed for the dish
  read,         \* how often that dish had grown when it read the rows
  revived,      \* history: dishes that went from terminal to processing
  early         \* history: dishes ended by a reading older than their rows

orderVars == << alert, order, active, remediation, counter >>
dishVars == << phase, dish, work, grown >>
cookVars == << pc, on, saw, verdict, read >>
history == << revived, early >>
vars == << orderVars, dishVars, cookVars, history >>

Dishes == 1 .. MaxDishes
Cooks == {Prep} \cup Callers

Ended == {"complete", "failed", "canceled"}     \* terminal, orders and dishes
Active == {"new", "processing"}                 \* dishes; nothing writes finalizing
RowEnded == {"succeeded", "failed", "canceled"}

TypeOK ==
  /\ alert \in {"firing", "resolved"}
  /\ order \in {"new", "processing", "resolving"} \cup Ended
  /\ active \in BOOLEAN
  /\ remediation \in {"pending", "none", "succeeded", "failed"}
  /\ counter \in 1 .. MaxCounter
  /\ phase \in [Dishes -> {"none", "firing", "resolving"}]
  /\ dish \in [Dishes -> Active \cup Ended]
  /\ work \in [Dishes -> {"none", "pending", "running", "deleted"} \cup RowEnded]
  /\ pc \in [Cooks -> {"idle", "planned", "marking", "flagging", "ending", "resolving"}]
  /\ on \in [Cooks -> Dishes \cup {0}]
  /\ saw \in [Cooks -> Active \cup Ended]
  /\ verdict \in [Cooks -> Ended]
  /\ grown \in [Dishes -> 0 .. MaxGrowth]
  /\ read \in [Cooks -> 0 .. MaxGrowth]
  /\ revived \subseteq Dishes /\ early \subseteq Dishes
  /\ \A d \in Dishes : phase[d] = "none" => dish[d] = "new" /\ work[d] = "none"
  /\ \A c \in Cooks : on[c] # 0 => phase[on[c]] # "none"
  /\ \A c \in Cooks : pc[c] \notin {"idle", "resolving"} => on[c] # 0

(* The order as the first firing notification creates it. *)
Init ==
  /\ alert = "firing"
  /\ order = "new"
  /\ active = TRUE
  /\ remediation = "pending"
  /\ counter = 1
  /\ phase = [d \in Dishes |-> "none"]
  /\ dish = [d \in Dishes |-> "new"]
  /\ work = [d \in Dishes |-> "none"]
  /\ grown = [d \in Dishes |-> 0]
  /\ pc = [c \in Cooks |-> "idle"]
  /\ on = [c \in Cooks |-> 0]
  /\ saw = [c \in Cooks |-> "new"]
  /\ verdict = [c \in Cooks |-> "complete"]
  /\ read = [c \in Cooks |-> 0]
  /\ revived = {} /\ early = {}

Made == {d \in Dishes : phase[d] # "none"}
ActiveDishes == {d \in Made : dish[d] \in Active}
ActiveOf(p) == {d \in ActiveDishes : phase[d] = p}

-----------------------------------------------------------------------------
(* The webhook (_process_alert).                                           *)

(* Definitions whose names end in a bug are not part of the model: each is *)
(* the neighbour that follows it with that bug, to try the properties on.  *)

(* A firing notification while the order is active counts up and reopens a *)
(* resolving order.  Without an active order a new order is made, which is *)
(* not this one.                                                           *)
AlertFires ==
  /\ active
  /\ counter < MaxCounter
  /\ counter' = counter + 1
  /\ alert' = "firing"
  /\ order' = IF order = "resolving" THEN "new" ELSE order
  /\ UNCHANGED << active, remediation, dishVars, cookVars, history >>

AlertResolvesStaleActive ==
  /\ active \/ alert # "resolved"
  /\ alert' = "resolved"
  /\ order' = IF order \in Ended /\ alert = "resolved" THEN order ELSE "resolving"
  /\ active' = (order \notin Ended)
  /\ UNCHANGED << remediation, counter, dishVars, cookVars, history >>

(* A resolved notification finds the active order, or the latest one whose *)
(* alert has not resolved; a terminal order is reopened for its resolving  *)
(* phase.                                                                  *)
AlertResolves ==
  /\ active \/ alert # "resolved"
  /\ alert' = "resolved"
  /\ order' = IF order \in Ended /\ alert = "resolved" THEN order ELSE "resolving"
  /\ active' = (order' \notin Ended)
  /\ UNCHANGED << remediation, counter, dishVars, cookVars, history >>

-----------------------------------------------------------------------------
(* Requests. *)

Rest(c) ==
  /\ pc' = [pc EXCEPT ![c] = "idle"]
  /\ on' = [on EXCEPT ![c] = 0]
  /\ saw' = [saw EXCEPT ![c] = "new"]
  /\ verdict' = [verdict EXCEPT ![c] = "complete"]
  /\ read' = [read EXCEPT ![c] = 0]

Goto(c, where, d) ==
  /\ pc' = [pc EXCEPT ![c] = where]
  /\ on' = [on EXCEPT ![c] = d]

(* Recipes by what matters here: remediation in the firing phase           *)
(* ("remediate", "silent"), communications only ("notify"), nothing to do  *)
(* in the firing phase ("closing") or in the resolving phase ("silent").   *)
Remediates(recipe) == recipe \in {"remediate", "silent"}
HasRows(recipe, p) ==
  IF p = "firing" THEN recipe # "closing" ELSE recipe # "silent"

(* The dish that a dispatch uses: the newest active dish of the phase, or a *)
(* new one.                                                                *)
DishFor(p) ==
  IF ActiveOf(p) # {} THEN Max(ActiveOf(p)) ELSE Cardinality(Made) + 1

(* A dish without live rows gets those of the recipe; one that has them    *)
(* already gets none.                                                      *)
Seed(d, hasRows) ==
  /\ work' = [work EXCEPT ![d] =
       IF @ \in {"none", "deleted"} /\ hasRows THEN "pending" ELSE @]
  /\ UNCHANGED grown

(* Rows are told apart by the id of their recipe step, and a recipe that   *)
(* was edited since has steps with new ids: all of them are seeded again,  *)
(* beside rows that run or have ended.  The roll-up is pending when the new*)
(* rows may start at once; it stays running while they wait for others, or *)
(* for Timer to cancel them behind a failure.  What the earlier rows came  *)
(* to is not kept: the roll-up may end in any way.                         *)
Grow(d, hasRows) ==
  /\ hasRows
  /\ work[d] \in {"running"} \cup RowEnded
  /\ grown[d] < MaxGrowth
  /\ grown' = [grown EXCEPT ![d] = @ + 1]
  /\ \E w \in {"pending", "running"} :
       /\ work[d] = "succeeded" => w = "pending"
       /\ work' = [work EXCEPT ![d] = w]

PlanAnother(p, recipe) ==
  LET d == Cardinality(Made) + 1 IN
  /\ d \in Dishes
  /\ phase' = [phase EXCEPT ![d] = p]
  /\ Seed(d, HasRows(recipe, p))
  /\ UNCHANGED dish

(* Make or find the dish and seed the rows that it does not have. *)
Plan(p, recipe) ==
  LET d == DishFor(p) IN
  /\ d \in Dishes
  /\ phase' = [phase EXCEPT ![d] = p]
  /\ Seed(d, HasRows(recipe, p)) \/ Grow(d, HasRows(recipe, p))
  /\ UNCHANGED dish

(* _dispatch_order_once, one transaction under the order's row lock.       *)
(* A resolving dispatch waits for pending remediation.                     *)
AwaitsRemediation ==
  order = "resolving" /\ remediation = "pending" /\ ActiveOf("firing") # {}

DispatchNothing ==
  /\ "none" \in Recipes
  /\ order \in {"new", "resolving"} /\ ~AwaitsRemediation
  /\ order' = "resolving"
  /\ remediation' = "none"
  /\ active' = TRUE
  /\ UNCHANGED << alert, counter, dishVars >>

DispatchFiring(recipe) ==
  /\ order = "new"
  /\ Plan("firing", recipe)
  /\ order' = "processing"
  /\ remediation' = IF Remediates(recipe) THEN "pending" ELSE "none"
  /\ UNCHANGED << alert, active, counter >>

DispatchResolving(recipe) ==
  /\ order = "resolving" /\ ~AwaitsRemediation
  /\ Plan("resolving", recipe)
  /\ UNCHANGED orderVars

Dispatch(recipe) == DispatchFiring(recipe) \/ DispatchResolving(recipe)

DispatchableNewOnly == order = "new"

(* Prep Chef posts orders that are new, or resolving with a resolved alert, *)
(* one at a time; cook_order goes on with the dish.                        *)
Dispatchable ==
  \/ order = "new"
  \/ order = "resolving" /\ alert = "resolved"

PrepDispatch ==
  /\ pc[Prep] = "idle"
  /\ Dispatchable
  /\ \E recipe \in Recipes \ {"none"} : Dispatch(recipe)
  /\ Goto(Prep, "planned", DishFor(IF order = "new" THEN "firing" ELSE "resolving"))
  /\ UNCHANGED << saw, verdict, read, history >>

PrepDispatchNothing ==
  /\ pc[Prep] = "idle"
  /\ Dispatchable
  /\ DispatchNothing
  /\ UNCHANGED << cookVars, history >>

(* _complete_suppressed_dish_if_matched deletes the pending rows; a dish   *)
(* that has grown is left with those that were started before.             *)
LeftOf(d) ==
  IF work[d] # "pending" THEN {work[d]}
  ELSE IF grown[d] = 0 THEN {"deleted"}
  ELSE {"running"} \cup RowEnded

Suppress ==
  LET d == on[Prep] IN
  /\ Suppressing
  /\ pc[Prep] = "planned"
  /\ phase[d] = "firing" /\ alert = "firing"
  /\ dish' = [dish EXCEPT ![d] = "complete"]
  /\ work' \in {[work EXCEPT ![d] = w] : w \in LeftOf(d)}
  /\ order' = "complete"
  /\ remediation' = "none"
  /\ active' = FALSE
  /\ Rest(Prep)
  /\ UNCHANGED << alert, counter, phase, grown, history >>

-----------------------------------------------------------------------------
(* _advance_dish.                                                          *)

(* Who is about to advance dish d: Prep Chef's request after its dispatch, *)
(* or a Runner or Timer that saw a row of d pending or ended.  A call may  *)
(* be late or a retry: nothing ties it to the dish's present state.        *)
Advances(c, d) ==
  \/ pc[c] = "planned" /\ on[c] = d
  \/ pc[c] = "idle" /\ c # Prep /\ work[d] # "none"

ReadBlocked(c, d) ==
  /\ Advances(c, d)
  /\ work[d] = "running"
  /\ Rest(c)
  /\ UNCHANGED << orderVars, dishVars, history >>

ReadPending(c, d) ==
  /\ Advances(c, d)
  /\ work[d] = "pending"
  /\ Goto(c, "marking", d)
  /\ saw' = [saw EXCEPT ![c] = dish[d]]
  /\ read' = [read EXCEPT ![c] = grown[d]]
  /\ UNCHANGED << orderVars, dishVars, verdict, history >>

ReadEndedInFlight(c, d) ==
  /\ Advances(c, d)
  /\ work[d] # "pending"
  /\ Goto(c, "ending", d)
  /\ saw' = [saw EXCEPT ![c] = dish[d]]
  /\ read' = [read EXCEPT ![c] = grown[d]]
  /\ verdict' = [verdict EXCEPT ![c] =
       IF work[d] \in {"failed", "canceled"} THEN work[d] ELSE "complete"]
  /\ UNCHANGED << orderVars, dishVars, history >>

(* A dish without rows, or whose rows were deleted, is complete. *)
ReadEnded(c, d) ==
  /\ Advances(c, d)
  /\ work[d] \notin {"pending", "running"}
  /\ Goto(c, "ending", d)
  /\ saw' = [saw EXCEPT ![c] = dish[d]]
  /\ read' = [read EXCEPT ![c] = grown[d]]
  /\ verdict' = [verdict EXCEPT ![c] =
       IF work[d] \in {"failed", "canceled"} THEN work[d] ELSE "complete"]
  /\ UNCHANGED << orderVars, dishVars, history >>

Advance(c, d) == ReadBlocked(c, d) \/ ReadPending(c, d) \/ ReadEnded(c, d)

(* What a request read of the rows is older than some of them. *)
Outdated(c) == read[c] # grown[on[c]]

(* The guarded UPDATE of a row, which does not look at `deleted`: a deleted *)
(* row is marked too, and no worker ever lists it.  The dish's status is   *)
(* written in the next transaction, unless it is `processing` already.     *)
(* The rows read before the dish grew had been started by then.            *)
Mark(c) ==
  LET d == on[c] IN
  /\ pc[c] = "marking" /\ ~Outdated(c)
  /\ work[d] \in {"pending", "deleted"}
  /\ work' = [work EXCEPT ![d] = IF @ = "pending" THEN "running" ELSE "none"]
  /\ IF saw[c] = "processing" THEN Rest(c)
     ELSE Goto(c, "flagging", d) /\ UNCHANGED << saw, verdict, read >>
  /\ UNCHANGED << orderVars, phase, dish, grown, history >>

MarkLost(c) ==
  /\ pc[c] = "marking"
  /\ Outdated(c) \/ work[on[c]] \notin {"pending", "deleted"}
  /\ Rest(c)
  /\ UNCHANGED << orderVars, dishVars, history >>

Flag(c) ==
  LET d == on[c] IN
  /\ pc[c] = "flagging"
  /\ dish' = [dish EXCEPT ![d] = "processing"]
  /\ revived' = IF dish[d] \in Ended THEN revived \cup {d} ELSE revived
  /\ Rest(c)
  /\ UNCHANGED << orderVars, phase, work, grown, early >>

(* The transaction that ends the dish: the session writes a status that    *)
(* differs from the one it read, and _finalize_order_for_dish.  Nothing    *)
(* ties the verdict to the rows that the dish has by now.                  *)
EndDish(c) ==
  LET d == on[c] IN
  /\ pc[c] = "ending"
  /\ dish' = [dish EXCEPT ![d] = IF saw[c] = verdict[c] THEN @ ELSE verdict[c]]
  /\ early' = IF Outdated(c) THEN early \cup {d} ELSE early
  /\ UNCHANGED << alert, counter, phase, work, grown, revived >>

OrderLeftAloneOnlyIfEnded(c) == order \in Ended
OrderLeftAloneOnlyIfBusy(c) == ActiveDishes \ {on[c]} # {}

(* The order has ended, or another of its dishes is active. *)
OrderLeftAlone(c) == order \in Ended \/ ActiveDishes \ {on[c]} # {}

EndDishOnly(c) ==
  /\ EndDish(c)
  /\ OrderLeftAlone(c)
  /\ Rest(c)
  /\ UNCHANGED << order, active, remediation >>

RemediationOfUnmapped(v) == v
RemediationOfAnyEnd(v) == IF v = "failed" THEN "failed" ELSE "succeeded"

RemediationOf(v) ==
  CASE v = "complete" -> "succeeded" [] v = "canceled" -> "none" [] OTHER -> "failed"

(* The alert has resolved: the order turns to its resolving phase. *)
EndFiringResolved(c) ==
  /\ EndDish(c)
  /\ ~OrderLeftAlone(c)
  /\ phase[on[c]] = "firing" /\ alert = "resolved"
  /\ order' = "resolving"
  /\ active' = TRUE
  /\ remediation' = RemediationOf(verdict[c])
  /\ Goto(c, "resolving", 0)
  /\ UNCHANGED << saw, verdict, read >>

(* The firing dish ends the order while the alert still fires; a canceled  *)
(* one completes it.                                                       *)
EndFiring(c) ==
  /\ EndDish(c)
  /\ ~OrderLeftAlone(c)
  /\ phase[on[c]] = "firing" /\ alert = "firing"
  /\ order' = IF verdict[c] = "canceled" THEN "complete" ELSE verdict[c]
  /\ active' = FALSE
  /\ remediation' = RemediationOf(verdict[c])
  /\ Rest(c)

EndResolving(c) ==
  /\ EndDish(c)
  /\ ~OrderLeftAlone(c)
  /\ phase[on[c]] = "resolving"
  /\ order' = verdict[c]
  /\ active' = FALSE
  /\ UNCHANGED remediation
  /\ Rest(c)

(* The advance that ended the firing dish dispatches the order again; Prep *)
(* Chef may have done so before.                                           *)
Redispatch(c) ==
  /\ pc[c] = "resolving"
  /\ \E recipe \in Recipes \ {"none"} : Dispatch(recipe)
  /\ Rest(c)
  /\ UNCHANGED history

RedispatchNothing(c) ==
  /\ pc[c] = "resolving"
  /\ DispatchNothing
  /\ Rest(c)
  /\ UNCHANGED history

RedispatchRefused(c) ==
  /\ pc[c] = "resolving"
  /\ order \notin {"new", "resolving"} \/ AwaitsRemediation
  /\ Rest(c)
  /\ UNCHANGED << orderVars, dishVars, history >>

-----------------------------------------------------------------------------
(* The Runner or a Timer reconciles the row to its end. *)
RowEnds(d) ==
  /\ work[d] = "running"
  /\ \E s \in RowEnded : work' = [work EXCEPT ![d] = s]
  /\ UNCHANGED << orderVars, phase, dish, grown, cookVars, history >>

(* The API process dies, or the transaction fails (1020, 1205, 1213). *)
Crash(c) ==
  /\ pc[c] # "idle"
  /\ Rest(c)
  /\ UNCHANGED << orderVars, dishVars, history >>

CookStep(c) ==
  \/ Mark(c) \/ MarkLost(c) \/ Flag(c)
  \/ EndDishOnly(c) \/ EndFiringResolved(c) \/ EndFiring(c) \/ EndResolving(c)
  \/ Redispatch(c) \/ RedispatchNothing(c) \/ RedispatchRefused(c)

Work ==
  \/ AlertFires \/ AlertResolves
  \/ PrepDispatch \/ PrepDispatchNothing \/ Suppress
  \/ \E c \in Cooks, d \in Made : Advance(c, d)
  \/ \E c \in Cooks : CookStep(c)
  \/ \E d \in Dishes : RowEnds(d)

Next ==
  \/ Work
  \/ \E c \in Cooks : Crash(c)

Spec == Init /\ [][Next]_vars

-----------------------------------------------------------------------------
(* Properties. *)

(* is_active, by which the webhook finds the order and the unique index    *)
(* guards the fingerprint, agrees with processing_status, though the two   *)
(* are written by the webhook, dispatch, suppression and finalization.     *)
ActiveWhileOpen == active <=> order \notin Ended

(* When the order has ended no dish of it is active: no dish is made for    *)
(* an ended order, and no dish ends it while another is at work (the       *)
(* active-dish query of _finalize_order_for_dish), whatever late advances, *)
(* refires and reopenings interleave.  Without suppression, which looks at *)
(* one dish only; revived dishes apart.                                    *)
EndedOrderQuiet ==
  order \in Ended => ActiveDishes \subseteq revived

(* Concurrent dispatches by Prep Chef and by the advances that end a firing *)
(* dish share the phase's active dish and do not make a second one.        *)
OnePerPhase ==
  \A p \in {"firing", "resolving"} : Cardinality(ActiveOf(p) \ revived) <= 1

(* A dish does not end before its row: an advance that decided on one       *)
(* reading of the rows and ends the dish in a later transaction is right   *)
(* even then.  One thing breaks this: a dispatch after an edit of the      *)
(* recipe gives the dish rows that the advance has not read; nothing stops *)
(* the advance from ending the dish over them.  Such a dish is `early`.    *)
(* Without suppression and with recipes that seed every dish.              *)
RowsEndFirst ==
  \A d \in Dishes \ early : dish[d] \in Ended => work[d] \notin {"pending", "running"}

(* remediation_outcome, on which the resolved-path communications depend,   *)
(* reports the end that some firing dish really had, through reopenings,   *)
(* repeated advances and dishes that grow, but for the verdicts of an      *)
(* advance that read the rows before its dish grew.                        *)
OutcomeEarned ==
  /\ remediation = "succeeded" =>
       \E d \in Dishes : phase[d] = "firing" /\ (d \in early
                            \/ work[d] \in {"succeeded", "none", "deleted"})
  /\ remediation = "failed" =>
       \E d \in Dishes : phase[d] = "firing" /\ (d \in early \/ work[d] = "failed")

(* An ended order keeps its status, under every late and repeated advance,  *)
(* until its alert resolves, which reopens it for the resolving phase.     *)
(* Without suppression.                                                    *)
EndedUntilResolved ==
  [][(order \in Ended /\ order' # order) =>
       /\ order' = "resolving"
       /\ alert = "firing" /\ alert' = "resolved"]_vars

(* Each firing notification is remediated at most once and each resolution  *)
(* has at most one resolving dish, for recipes with remediation: crashes,  *)
(* repeated advances and the race between Prep Chef and the advance that   *)
(* redispatches do not repeat a phase, unless a late write revived a dish. *)
DishesPerAlert ==
  revived = {} =>
    /\ Cardinality({d \in Dishes : phase[d] = "firing"}) <= counter
    /\ Cardinality({d \in Dishes : phase[d] = "resolving"}) <= counter

(* "A resolving dish cannot be dispatched until all firing dishes for the   *)
(* same order are terminal." (docs/CONTRACTS.md)                           *)
FiringFirst ==
  [][\A d \in Dishes : (phase[d] = "none" /\ phase'[d] = "resolving") =>
       ActiveOf("firing") = {}]_vars

(* "Terminal order and dish statuses are immutable in normal transition    *)
(* validation." (docs/ARCHITECTURE.md), of dishes.                         *)
DishFinal ==
  [][\A d \in Dishes : dish[d] \in Ended => dish'[d] = dish[d]]_vars

(* An order that is new is dispatched or resolves: new has no other         *)
(* successor in the diagram of docs/ARCHITECTURE.md.                       *)
NewIsDispatched ==
  [][order = "new" => order' \in {"new", "processing", "resolving"}]_vars

(* The order ends once its alert has resolved for good, if requests stop    *)
(* dying at some time and no late write revives a dish: what a crash left  *)
(* undone between two transactions, Prep Chef and Timer do later.          *)
OrderSettles ==
  (/\ <>[][Work]_vars
   /\ <>[](alert = "resolved")
   /\ [](revived = {}))
  => <>[](order \in Ended)

(* advance-ready lists an active dish whose rows are pending or ended. *)
TimerAdvance(d) ==
  /\ dish[d] \in Active
  /\ work[d] \in RowEnded \cup {"pending"}
  /\ \E c \in Callers : pc[c] = "idle" /\ Advance(c, d)

(* Prep Chef's passes, Timer's passes and the requests go on, and a row     *)
(* that runs ends (RuntimeRow shows when).                                 *)
Fairness ==
  /\ WF_vars(PrepDispatch \/ PrepDispatchNothing)
  /\ WF_vars(\E d \in Made : pc[Prep] = "planned" /\ Advance(Prep, d))
  /\ \A c \in Cooks : WF_vars(CookStep(c))
  /\ \A d \in Dishes : SF_vars(TimerAdvance(d)) /\ WF_vars(RowEnds(d))

FairSpec == Spec /\ Fairness
=============================================================================
