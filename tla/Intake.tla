------------------------------- MODULE Intake -------------------------------
(***************************************************************************)
(* How Alertmanager's notifications of one fingerprint become orders       *)
(* (api/services/pre_heat.py).                                             *)
(*                                                                         *)
(* A webhook request handles its notification in a database transaction.   *)
(* An order that is found is locked until the transaction ends, so finding *)
(* and updating it is one step; when none is found there is nothing to     *)
(* lock, and the insert is a step of its own.  Notifications overlap (two  *)
(* Alertmanagers, a resend after a lost answer) and come in any order.     *)
(* Other fingerprints never meet this one in a statement.  Kitchen has     *)
(* what becomes of an order; here Cook only moves it along.                *)
(***************************************************************************)
EXTENDS Naturals, FiniteSets, FiniteSetsExt, Sequences

CONSTANTS
  Webhooks,     \* requests that may be handled at a time
  MaxOrders,    \* bound on the orders of the fingerprint
  MaxAttempts,  \* MAX_PRE_HEAT_ATTEMPTS
  MaxAlerts     \* bound on an order's counter

ASSUME IntakeAssumption ==
  /\ MaxOrders \in Nat \ {0}
  /\ MaxAttempts \in Nat \ {0}
  /\ MaxAlerts \in Nat \ {0}

VARIABLES
  orders,       \* the orders in the order of created_at
  webhook,      \* what each request does, and with which notification
  settled       \* history: the latest notification that is no warning resolved
                \* the alert, and no firing one was in flight beside it

intakeVars == << orders, webhook, settled >>

OrderEnded == {"complete", "failed", "errored", "timeout", "canceled"}
Severities == {"warning", "critical"}

OrderRecords == [alert : {"firing", "resolved"},
                 status : {"new", "processing", "resolving"} \cup OrderEnded,
                 isActive : BOOLEAN,
                 severity : Severities,
                 counter : 1 .. MaxAlerts]

Idle == [pc |-> "idle", status |-> "other", severity |-> "warning", attempt |-> 1]

IntakeTypeOK ==
  /\ orders \in Seq(OrderRecords)
  /\ Len(orders) <= MaxOrders
  /\ webhook \in [Webhooks -> [pc : {"idle", "handling", "inserting", "recovering"},
                               status : {"firing", "resolved", "other"},
                               severity : Severities,
                               attempt : 1 .. MaxAttempts]]
  /\ settled \in BOOLEAN

IntakeInit ==
  /\ orders = << >>
  /\ webhook = [w \in Webhooks |-> Idle]
  /\ settled = FALSE

-----------------------------------------------------------------------------
(* The orders a statement may find.                                        *)

(* fingerprint_when_active is computed from is_active and has a unique     *)
(* index: what _active_order looks up.                                     *)
ActiveOrders == {i \in DOMAIN orders : orders[i].isActive}

(* _latest_warning_order *)
WarningOrders == {i \in DOMAIN orders : orders[i].severity = "warning"}

(* The fallback of a resolved notification: the latest unresolved order. *)
UnresolvedOrders == {i \in DOMAIN orders : orders[i].alert # "resolved"}

ResolvableLatest == UnresolvedOrders

ResolvableOrders == IF ActiveOrders # {} THEN ActiveOrders ELSE UnresolvedOrders

-----------------------------------------------------------------------------
(* A request.                                                              *)

Busy(w) == webhook[w].pc # "idle"

FiringInFlight(w) ==
  /\ Busy(w)
  /\ webhook[w].status = "firing"
  /\ webhook[w].severity = "critical"

(* The webhook takes a notification.  A severity that is not a warning's   *)
(* is as good as critical; a status may be anything else too.              *)
Receive(w) ==
  /\ ~ Busy(w)
  /\ \E st \in {"firing", "resolved", "other"}, sev \in Severities :
       webhook' = [webhook EXCEPT ![w] =
                     [Idle EXCEPT !.pc = "handling", !.status = st, !.severity = sev]]
  /\ settled' = (settled /\ ~ FiringInFlight(w)')
  /\ UNCHANGED orders

Handling(w, st, sev) ==
  /\ webhook[w].pc = "handling"
  /\ webhook[w].status = st
  /\ webhook[w].severity = sev

Answer(w) ==
  /\ webhook' = [webhook EXCEPT ![w] = Idle]
  /\ UNCHANGED settled

NewOrder(status, isActive, sev) ==
  [alert |-> "firing", status |-> status, isActive |-> isActive,
   severity |-> sev, counter |-> 1]

(* A warning's order is made complete: it is counted, never dispatched.    *)
(* _process_warning_alert finds or makes it in one transaction; nothing    *)
(* makes warning orders unique.                                            *)
WarningFires(w) ==
  /\ Handling(w, "firing", "warning")
  /\ IF WarningOrders = {}
       THEN /\ Len(orders) < MaxOrders
            /\ orders' = Append(orders, NewOrder("complete", FALSE, "warning"))
            /\ Answer(w)
       ELSE LET i == Max(WarningOrders) IN
            /\ orders[i].counter < MaxAlerts
            /\ orders' = [orders EXCEPT ![i].alert = "firing",
                                        ![i].status = "complete",
                                        ![i].isActive = FALSE,
                                        ![i].counter = @ + 1]
            /\ Answer(w)

WarningResolves(w) ==
  /\ Handling(w, "resolved", "warning")
  /\ IF WarningOrders = {}
       THEN Answer(w) /\ UNCHANGED orders
       ELSE /\ orders' = [orders EXCEPT ![Max(WarningOrders)].alert = "resolved",
                                        ![Max(WarningOrders)].status = "complete",
                                        ![Max(WarningOrders)].isActive = FALSE]
            /\ Answer(w)

(* A firing notification with an active order. *)
AlertCounted(w) ==
  /\ Handling(w, "firing", "critical")
  /\ \E i \in ActiveOrders :
       /\ orders[i].counter < MaxAlerts
       /\ orders' = [orders EXCEPT
                       ![i].counter = @ + 1,
                       ![i].alert = "firing",
                       ![i].status = IF @ = "resolving" THEN "new" ELSE @,
                       ![i].isActive = TRUE]
  /\ Answer(w)

(* A firing notification that found no active order goes on to insert one. *)
NoneActive(w) ==
  /\ Handling(w, "firing", "critical")
  /\ ActiveOrders = {}
  /\ webhook' = [webhook EXCEPT ![w].pc = "inserting"]
  /\ UNCHANGED << orders, settled >>

InsertUnlocked(w) ==
  /\ webhook[w].pc = "inserting"
  /\ Len(orders) < MaxOrders
  /\ orders' = Append(orders, NewOrder("new", TRUE, "critical"))
  /\ Answer(w)

Insert(w) ==
  /\ webhook[w].pc = "inserting"
  /\ ActiveOrders = {}
  /\ Len(orders) < MaxOrders
  /\ orders' = Append(orders, NewOrder("new", TRUE, "critical"))
  /\ Answer(w)

(* The unique index refuses the insert. *)
Conflict(w) ==
  /\ webhook[w].pc = "inserting"
  /\ ActiveOrders # {}
  /\ webhook' = [webhook EXCEPT ![w].pc = "recovering"]
  /\ UNCHANGED << orders, settled >>

(* _recover_integrity_conflict: another transaction, which only counts.    *)
(* The firing status of the notification is not written.                   *)
Recover(w) ==
  /\ webhook[w].pc = "recovering"
  /\ IF ActiveOrders = {}
       THEN Answer(w) /\ UNCHANGED orders
       ELSE /\ \A i \in ActiveOrders : orders[i].counter < MaxAlerts
            /\ orders' = [i \in DOMAIN orders |->
                            IF i \in ActiveOrders
                            THEN [orders[i] EXCEPT !.counter = @ + 1]
                            ELSE orders[i]]
            /\ Answer(w)

(* Two inserts behind each other's gap locks: one transaction is rolled    *)
(* back and tried again from its first statement, or given up.             *)
LockError(w) ==
  /\ webhook[w].pc \in {"handling", "inserting"}
  /\ \E v \in Webhooks \ {w} : Busy(v)
  /\ IF webhook[w].attempt < MaxAttempts
       THEN /\ webhook' = [webhook EXCEPT ![w].pc = "handling", ![w].attempt = @ + 1]
            /\ UNCHANGED settled
       ELSE Answer(w)
  /\ UNCHANGED orders

(* can_transition_to_resolving, _should_reopen_terminal_order_for_resolve:  *)
(* an unfinished order resolves, and so does a finished one whose alert was *)
(* not resolved yet.                                                        *)
ResolvedStatus(o) ==
  IF o.status \in OrderEnded /\ o.alert = "resolved" THEN o.status ELSE "resolving"

Resolved(o) ==
  [o EXCEPT !.alert = "resolved",
            !.status = ResolvedStatus(o),
            !.isActive = ResolvedStatus(o) \notin OrderEnded]

AlertResolved(w) ==
  /\ Handling(w, "resolved", "critical")
  /\ IF ResolvableOrders = {}
       THEN UNCHANGED orders
       ELSE orders' = [orders EXCEPT ![Max(ResolvableOrders)] = Resolved(@)]
  /\ webhook' = [webhook EXCEPT ![w] = Idle]
  /\ settled' = \A v \in Webhooks : ~ FiringInFlight(v)

(* Neither firing nor resolved. *)
OtherIgnored(w) ==
  /\ webhook[w].pc = "handling"
  /\ webhook[w].status = "other"
  /\ Answer(w)
  /\ UNCHANGED orders

-----------------------------------------------------------------------------
(* Cook takes an active order up, and ends it: its dishes may end it while *)
(* the alert still fires, as a canceled or failed dispatch does.           *)
CookTakes(i) ==
  /\ orders[i].isActive
  /\ orders[i].status = "new"
  /\ orders' = [orders EXCEPT ![i].status = "processing"]
  /\ UNCHANGED << webhook, settled >>

CookEnds(i) ==
  /\ orders[i].isActive
  /\ orders[i].status \in {"processing", "resolving"}
  /\ \E st \in {"complete", "failed"} :
       orders' = [orders EXCEPT ![i].status = st, ![i].isActive = FALSE]
  /\ UNCHANGED << webhook, settled >>

-----------------------------------------------------------------------------
IntakeNext ==
  \/ \E w \in Webhooks :
       \/ Receive(w)
       \/ WarningFires(w) \/ WarningResolves(w)
       \/ AlertCounted(w) \/ NoneActive(w) \/ Insert(w)
       \/ Conflict(w) \/ Recover(w) \/ LockError(w)
       \/ AlertResolved(w) \/ OtherIgnored(w)
  \/ \E i \in DOMAIN orders : CookTakes(i) \/ CookEnds(i)

IntakeSpec == IntakeInit /\ [][IntakeNext]_intakeVars

-----------------------------------------------------------------------------
(* At most one order of a fingerprint is active, and an order is active    *)
(* exactly while it has not ended: however creations, warnings, resolves   *)
(* of finished orders and Cook interleave, the unique index never sees a   *)
(* second active order, and no ended order holds the fingerprint.          *)
OneActiveOrder ==
  /\ \A i, j \in ActiveOrders : i = j
  /\ \A i \in DOMAIN orders : orders[i].isActive <=> orders[i].status \notin OrderEnded

(* Once a resolved notification was handled with no firing one in flight  *)
(* beside it, no order of the alert stays active and firing until the next *)
(* firing notification.  Beside a first firing notification the resolve    *)
(* finds no order, is ignored and not sent again: the order made then      *)
(* waits for an alert that is over.                                        *)
ResolveSettles ==
  settled => \A i \in ActiveOrders : orders[i].alert = "resolved"

(* pre_heat, with the types: however webhooks race and retry, one active   *)
(* order per fingerprint, and no order that waits for an alert that        *)
(* resolved.                                                               *)
IntakeKept == IntakeTypeOK /\ OneActiveOrder /\ ResolveSettles
=============================================================================
