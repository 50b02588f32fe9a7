---------------------------- MODULE AlertProofs ------------------------------
(***************************************************************************)
(* Proofs about alerts on their way to an order, for any number of webhook *)
(* requests, windows and attempts: a fingerprint has one active order that *)
(* a resolve settles, and a suppressed alert is put back, but for the      *)
(* places the code leaves it behind.                                       *)
(***************************************************************************)
EXTENDS Intake, Suppressions, TLAPS, WellFoundedInduction

-----------------------------------------------------------------------------
(* Intake: one active order.                                               *)

OrderRecord ==
  [alert : {"firing", "resolved"},
   status : {"new", "processing", "resolving"} \cup OrderEnded,
   isActive : BOOLEAN, severity : Severities, counter : Nat]

RequestRecord ==
  [pc : {"idle", "handling", "inserting", "recovering"},
   status : {"firing", "resolved", "other"}, severity : Severities, attempt : Nat]

IntakeTypes ==
  /\ orders \in Seq(OrderRecord)
  /\ webhook \in [Webhooks -> RequestRecord]

(* Only a firing notification that is no warning inserts or recovers, and  *)
(* none is in flight while the alert counts as settled.                    *)
FiringHandled ==
  /\ \A w \in Webhooks : webhook[w].pc \in {"inserting", "recovering"} => FiringInFlight(w)
  /\ settled => \A w \in Webhooks : ~ FiringInFlight(w)

IntakeInv == IntakeTypes /\ FiringHandled /\ OneActiveOrder /\ ResolveSettles

-----------------------------------------------------------------------------
(* What _latest_warning_order and the fallback of a resolve find is there. *)
LEMMA LeastNumber ==
  ASSUME NEW S \in SUBSET Nat, S # {}
  PROVE  \E n \in S : \A m \in S : n <= m
<1>1. PICK n \in S : \A m \in S : ~(<< m, n >> \in OpToRel(<, Nat))
  BY WFMin, NatLessThanWellFounded
<1>2. \A m \in S : ~(m < n)
  BY <1>1 DEF OpToRel
<1> QED
  BY <1>2

(* Max, by which the latest order is found, is in its set.                 *)
LEMMA LatestFound ==
  ASSUME NEW n \in Nat, NEW S \in SUBSET (1 .. n), S # {}
  PROVE  Max(S) \in S
<1> DEFINE T == {n - i : i \in S}
<1>1. T \in SUBSET Nat /\ T # {}
  <2>1. \A i \in S : n - i \in Nat
    OBVIOUS
  <2>2. PICK i \in S : TRUE
    OBVIOUS
  <2>3. n - i \in T
    OBVIOUS
  <2> QED
    BY <2>1, <2>3
<1>2. PICK t \in T : \A u \in T : t <= u
  BY <1>1, LeastNumber
<1>3. PICK i \in S : t = n - i
  OBVIOUS
<1>4. \A j \in S : i >= j
  BY <1>2, <1>3
<1> QED
  BY <1>3, <1>4 DEF Max

(* The latest of some orders is an order.                                  *)
LEMMA LatestOrder ==
  ASSUME IntakeInv, NEW S \in SUBSET DOMAIN orders, S # {}
  PROVE  Max(S) \in DOMAIN orders
<1>1. Len(orders) \in Nat /\ DOMAIN orders = 1 .. Len(orders)
  BY DEF IntakeInv, IntakeTypes
<1> QED
  BY <1>1, LatestFound

-----------------------------------------------------------------------------
(* An order that changes: the others stay, and the one that is active, if  *)
(* it was another, is the only one.                                        *)
LEMMA OrderChanges ==
  ASSUME IntakeInv, NEW i \in DOMAIN orders, NEW o \in OrderRecord,
         orders' = [orders EXCEPT ![i] = o],
         o.isActive <=> o.status \notin OrderEnded,
         o.isActive => ActiveOrders \subseteq {i},
         settled' /\ o.isActive => o.alert = "resolved",
         settled' /\ ~ settled => ActiveOrders \subseteq {i}
  PROVE  orders' \in Seq(OrderRecord) /\ OneActiveOrder' /\ ResolveSettles'
<1> USE DEF IntakeInv, IntakeTypes
<1>1. orders' \in Seq(OrderRecord) /\ DOMAIN orders' = DOMAIN orders
  OBVIOUS
<1>2. orders'[i] = o /\ \A j \in DOMAIN orders \ {i} : orders'[j] = orders[j]
  OBVIOUS
<1>3. ActiveOrders' = (ActiveOrders \ {i}) \cup (IF o.isActive THEN {i} ELSE {})
  BY <1>1, <1>2 DEF ActiveOrders
<1>4. OneActiveOrder'
  BY <1>1, <1>2, <1>3 DEF OneActiveOrder
<1>5. ResolveSettles'
  BY <1>2, <1>3 DEF ResolveSettles, ActiveOrders
<1> QED
  BY <1>1, <1>4, <1>5

(* An order that is inserted: none is active beside an active one.         *)
LEMMA OrderInserted ==
  ASSUME IntakeInv, NEW o \in OrderRecord, orders' = Append(orders, o),
         o.isActive <=> o.status \notin OrderEnded,
         o.isActive => ActiveOrders = {} /\ ~ settled,
         settled' = settled
  PROVE  orders' \in Seq(OrderRecord) /\ OneActiveOrder' /\ ResolveSettles'
<1> USE DEF IntakeInv, IntakeTypes
<1> DEFINE n == Len(orders) + 1
<1>1. /\ orders' \in Seq(OrderRecord) /\ DOMAIN orders' = DOMAIN orders \cup {n}
      /\ n \notin DOMAIN orders
  OBVIOUS
<1>2. orders'[n] = o /\ \A j \in DOMAIN orders : orders'[j] = orders[j]
  OBVIOUS
<1>3. ActiveOrders' = ActiveOrders \cup (IF o.isActive THEN {n} ELSE {})
  BY <1>1, <1>2 DEF ActiveOrders
<1>4. OneActiveOrder'
  BY <1>1, <1>2, <1>3 DEF OneActiveOrder
<1>5. ResolveSettles'
  BY <1>2, <1>3 DEF ResolveSettles, ActiveOrders
<1> QED
  BY <1>1, <1>4, <1>5

(* A request that moves on: to rest, or to a firing one's next step.       *)
LEMMA RequestMoves ==
  ASSUME IntakeInv, NEW w \in Webhooks,
         \/ webhook' = [webhook EXCEPT ![w] = Idle] /\ settled' = settled
         \/ /\ webhook' = [webhook EXCEPT ![w].pc = "inserting"] /\ settled' = settled
            /\ FiringInFlight(w)
         \/ /\ webhook' = [webhook EXCEPT ![w].pc = "recovering"] /\ settled' = settled
            /\ FiringInFlight(w)
  PROVE  /\ webhook' \in [Webhooks -> RequestRecord]
         /\ FiringHandled'
<1> USE DEF IntakeInv, IntakeTypes, RequestRecord, Severities, FiringHandled, FiringInFlight, Busy
<1>1. \A v \in Webhooks \ {w} : webhook'[v] = webhook[v]
  OBVIOUS
<1>2. CASE webhook' = [webhook EXCEPT ![w] = Idle] /\ settled' = settled
  <2>1. webhook'[w] = Idle /\ Idle.pc = "idle" /\ Idle \in RequestRecord
    BY <1>2 DEF Idle
  <2>2. webhook' \in [Webhooks -> RequestRecord]
    BY <1>2, <2>1
  <2>3. FiringHandled'
    BY <1>1, <1>2, <2>1
  <2> QED
    BY <2>2, <2>3
<1>3. ASSUME NEW pc \in {"inserting", "recovering"},
             webhook' = [webhook EXCEPT ![w].pc = pc], settled' = settled, FiringInFlight(w)
      PROVE  /\ webhook' \in [Webhooks -> RequestRecord]
             /\ FiringHandled'
  <2>1. webhook'[w] = [webhook[w] EXCEPT !.pc = pc] /\ webhook[w] \in RequestRecord
    BY <1>3
  <2>2. webhook'[w] \in RequestRecord
    BY <2>1
  <2>3. webhook' \in [Webhooks -> RequestRecord]
    BY <1>3, <2>2
  <2>4. FiringInFlight(w)' /\ ~ settled
    BY <1>3, <2>1
  <2>5. FiringHandled'
    BY <1>1, <1>3, <2>4
  <2> QED
    BY <2>3, <2>5
<1> QED
  BY <1>2, <1>3

-----------------------------------------------------------------------------
(* The handlers of a request, one by one.                                  *)
LEMMA WarningStep ==
  ASSUME IntakeInv, NEW w \in Webhooks, WarningFires(w) \/ WarningResolves(w)
  PROVE  IntakeInv'
<1>1. webhook' = [webhook EXCEPT ![w] = Idle] /\ settled' = settled
  BY DEF WarningFires, WarningResolves, Answer
<1>2. FiringHandled' /\ webhook' \in [Webhooks -> RequestRecord]
  BY <1>1, RequestMoves
<1>3. CASE UNCHANGED orders
  BY <1>1, <1>2, <1>3 DEF IntakeInv, IntakeTypes, OneActiveOrder, ResolveSettles, ActiveOrders
<1>4. CASE orders' = Append(orders, NewOrder("complete", FALSE, "warning"))
  <2>1. NewOrder("complete", FALSE, "warning") \in OrderRecord
    BY DEF NewOrder, OrderRecord, OrderEnded, Severities
  <2> QED
    BY <1>1, <1>2, <1>4, <2>1, OrderInserted DEF NewOrder, OrderEnded, IntakeInv, IntakeTypes
<1>5. ASSUME WarningOrders # {},
             orders' = [orders EXCEPT ![Max(WarningOrders)].alert = "firing",
                                      ![Max(WarningOrders)].status = "complete",
                                      ![Max(WarningOrders)].isActive = FALSE,
                                      ![Max(WarningOrders)].counter = @ + 1]
                \/ orders' = [orders EXCEPT ![Max(WarningOrders)].alert = "resolved",
                                           ![Max(WarningOrders)].status = "complete",
                                           ![Max(WarningOrders)].isActive = FALSE]
      PROVE  IntakeInv'
  <2> DEFINE i == Max(WarningOrders)
  <2>1. i \in DOMAIN orders
    BY <1>5, LatestOrder DEF WarningOrders
  <2>2. orders[i] \in OrderRecord
    BY <2>1 DEF IntakeInv, IntakeTypes
  <2>3. \E a \in {"firing", "resolved"}, c \in Nat :
          orders' = [orders EXCEPT ![i] = [orders[i] EXCEPT !.alert = a, !.status = "complete",
                                                            !.isActive = FALSE, !.counter = c]]
    <3>1. orders \in Seq(OrderRecord) /\ orders[i].counter + 1 \in Nat /\ orders[i].counter \in Nat
      BY <2>2 DEF OrderRecord, IntakeInv, IntakeTypes
    <3>2. CASE orders' = [orders EXCEPT ![i].alert = "firing", ![i].status = "complete",
                                        ![i].isActive = FALSE, ![i].counter = @ + 1]
      <4>1. orders' = [orders EXCEPT ![i] = [orders[i] EXCEPT !.alert = "firing", !.status = "complete",
                                               !.isActive = FALSE, !.counter = orders[i].counter + 1]]
        BY <2>1, <2>2, <3>1, <3>2 DEF OrderRecord
      <4> QED
        BY <3>1, <4>1
    <3>3. CASE orders' = [orders EXCEPT ![i].alert = "resolved", ![i].status = "complete",
                                        ![i].isActive = FALSE]
      <4>1. orders' = [orders EXCEPT ![i] = [orders[i] EXCEPT !.alert = "resolved", !.status = "complete",
                                               !.isActive = FALSE, !.counter = orders[i].counter]]
        BY <2>1, <2>2, <3>1, <3>3 DEF OrderRecord
      <4> QED
        BY <3>1, <4>1
    <3> QED
      BY <1>5, <3>2, <3>3
  <2>4. PICK a \in {"firing", "resolved"}, c \in Nat :
          orders' = [orders EXCEPT ![i] = [orders[i] EXCEPT !.alert = a, !.status = "complete",
                                                            !.isActive = FALSE, !.counter = c]]
    BY <2>3
  <2> DEFINE o == [orders[i] EXCEPT !.alert = a, !.status = "complete",
                                    !.isActive = FALSE, !.counter = c]
  <2>5. o \in OrderRecord /\ o.status = "complete" /\ ~ o.isActive
    BY <2>2 DEF OrderRecord, OrderEnded
  <2>6. o.status \in OrderEnded
    BY <2>5 DEF OrderEnded
  <2> HIDE DEF o
  <2>7. orders' = [orders EXCEPT ![i] = o]
    BY <2>4 DEF o
  <2> HIDE DEF i
  <2>8. orders' \in Seq(OrderRecord) /\ OneActiveOrder' /\ ResolveSettles'
    BY <1>1, <2>1, <2>5, <2>6, <2>7, OrderChanges
  <2> QED
    BY <1>2, <2>8 DEF IntakeInv, IntakeTypes
<1> QED
  BY <1>3, <1>4, <1>5 DEF WarningFires, WarningResolves

(* A firing notification counts an alert or inserts an order; it is itself *)
(* in flight, so that nothing is settled.                                  *)
LEMMA FiringStep ==
  ASSUME IntakeInv, NEW w \in Webhooks,
         AlertCounted(w) \/ NoneActive(w) \/ Insert(w) \/ Conflict(w) \/ Recover(w)
  PROVE  IntakeInv'
<1>1. FiringInFlight(w) /\ ~ settled /\ settled' = settled
  BY DEF AlertCounted, NoneActive, Insert, Conflict, Recover, Handling, Answer,
         IntakeInv, FiringHandled, FiringInFlight, Busy
<1>2. FiringHandled' /\ webhook' \in [Webhooks -> RequestRecord]
  BY <1>1, RequestMoves DEF AlertCounted, NoneActive, Insert, Conflict, Recover, Answer
<1>3. CASE AlertCounted(w)
  <2>1. PICK i \in ActiveOrders :
          orders' = [orders EXCEPT ![i].counter = @ + 1, ![i].alert = "firing",
                                   ![i].status = IF @ = "resolving" THEN "new" ELSE @,
                                   ![i].isActive = TRUE]
    BY <1>3 DEF AlertCounted
  <2>2. /\ i \in DOMAIN orders /\ orders[i].isActive /\ orders[i].status \notin OrderEnded
        /\ orders \in Seq(OrderRecord) /\ ActiveOrders \subseteq {i}
    BY DEF ActiveOrders, IntakeInv, IntakeTypes, OneActiveOrder
  <2>3. orders[i] \in OrderRecord
    BY <2>2
  <2> DEFINE st == IF orders[i].status = "resolving" THEN "new" ELSE orders[i].status
             o == [orders[i] EXCEPT !.counter = orders[i].counter + 1, !.alert = "firing",
                                    !.status = st, !.isActive = TRUE]
  <2>4. orders' = [orders EXCEPT ![i] = o]
    BY <2>1, <2>2, <2>3 DEF OrderRecord
  <2>5. st \in {"new", "processing", "resolving"} \cup OrderEnded /\ st \notin OrderEnded
    BY <2>2, <2>3 DEF OrderRecord, OrderEnded
  <2> HIDE DEF st
  <2>6. o \in OrderRecord /\ o.status = st /\ o.isActive
    <3>1. orders[i].counter + 1 \in Nat /\ orders[i].severity \in Severities
      BY <2>3 DEF OrderRecord
    <3> DEFINE r == [orders[i] EXCEPT !.counter = orders[i].counter + 1, !.alert = "firing"]
    <3>2. r \in OrderRecord
      BY <2>3, <3>1 DEF OrderRecord
    <3>3. o = [r EXCEPT !.status = st, !.isActive = TRUE]
      OBVIOUS
    <3> HIDE DEF r, o
    <3> QED
      BY <2>5, <3>2, <3>3 DEF OrderRecord
  <2> HIDE DEF o
  <2>7. orders' \in Seq(OrderRecord) /\ OneActiveOrder' /\ ResolveSettles'
    BY <1>1, <2>2, <2>4, <2>5, <2>6, OrderChanges
  <2> QED
    BY <1>2, <2>7 DEF IntakeInv, IntakeTypes
<1>4. CASE Insert(w)
  <2>1. NewOrder("new", TRUE, "critical") \in OrderRecord
    BY DEF NewOrder, OrderRecord, Severities
  <2> QED
    BY <1>1, <1>2, <1>4, <2>1, OrderInserted DEF Insert, NewOrder, OrderEnded, IntakeInv, IntakeTypes
<1>5. CASE Recover(w) /\ ActiveOrders # {}
  <2>1. orders' = [i \in DOMAIN orders |->
                     IF i \in ActiveOrders THEN [orders[i] EXCEPT !.counter = @ + 1]
                                           ELSE orders[i]]
    BY <1>5 DEF Recover
  <2>2. orders \in Seq(OrderRecord)
    BY DEF IntakeInv, IntakeTypes
  <2>3. \A i \in DOMAIN orders :
          /\ orders'[i] \in OrderRecord
          /\ orders'[i].isActive = orders[i].isActive
          /\ orders'[i].status = orders[i].status
    <3> SUFFICES ASSUME NEW i \in DOMAIN orders
                 PROVE  /\ orders'[i] \in OrderRecord
                        /\ orders'[i].isActive = orders[i].isActive
                        /\ orders'[i].status = orders[i].status
      OBVIOUS
    <3>1. orders[i] \in OrderRecord
      BY <2>2
    <3>2. CASE i \notin ActiveOrders
      BY <2>1, <3>1, <3>2
    <3>3. CASE i \in ActiveOrders
      <4>1. orders'[i] = [orders[i] EXCEPT !.counter = orders[i].counter + 1]
        BY <2>1, <3>3
      <4> QED
        BY <3>1, <4>1 DEF OrderRecord
    <3> QED
      BY <3>2, <3>3
  <2>4. DOMAIN orders' = DOMAIN orders
    BY <2>1
  <2>5. orders' \in Seq(OrderRecord)
    <3>1. Len(orders) \in Nat /\ DOMAIN orders = 1 .. Len(orders)
      BY <2>2
    <3>2. orders' \in [1 .. Len(orders) -> OrderRecord]
      BY <2>1, <2>3, <3>1
    <3> QED
      BY <3>1, <3>2
  <2>6. OneActiveOrder'
    BY <2>3, <2>4 DEF OneActiveOrder, ActiveOrders, IntakeInv
  <2>7. ResolveSettles'
    BY <1>1 DEF ResolveSettles
  <2> QED
    BY <1>2, <2>5, <2>6, <2>7 DEF IntakeInv, IntakeTypes
<1>6. CASE UNCHANGED orders
  BY <1>1, <1>2, <1>6 DEF IntakeInv, IntakeTypes, OneActiveOrder, ResolveSettles, ActiveOrders
<1> QED
  BY <1>3, <1>4, <1>5, <1>6 DEF NoneActive, Conflict, Recover

(* A resolved notification marks the active order, or the latest that was  *)
(* not resolved; it settles the alert when no firing one is in flight.     *)
LEMMA ResolvedStep ==
  ASSUME IntakeInv, NEW w \in Webhooks, AlertResolved(w)
  PROVE  IntakeInv'
<1>1. /\ webhook' = [webhook EXCEPT ![w] = Idle]
      /\ settled' = \A v \in Webhooks : ~ FiringInFlight(v)
      /\ webhook[w].status = "resolved"
      /\ webhook \in [Webhooks -> RequestRecord]
  BY DEF AlertResolved, Handling, IntakeInv, IntakeTypes
<1>2. Idle \in RequestRecord /\ Idle.pc = "idle"
  BY DEF Idle, RequestRecord, Severities
<1>3. webhook' \in [Webhooks -> RequestRecord]
  BY <1>1, <1>2
<1>4. \A v \in Webhooks : /\ FiringInFlight(v)' => FiringInFlight(v)
                          /\ webhook'[v].pc # "idle" => webhook'[v] = webhook[v]
  BY <1>1, <1>2 DEF FiringInFlight, Busy
<1>5. FiringHandled'
  <2>1. \A v \in Webhooks : webhook[v].pc \in {"inserting", "recovering"} => FiringInFlight(v)
    BY DEF FiringHandled, IntakeInv
  <2>3. ASSUME NEW v \in Webhooks, webhook'[v].pc \in {"inserting", "recovering"}
        PROVE  FiringInFlight(v)'
    <3>1. webhook'[v] = webhook[v]
      BY <1>4, <2>3
    <3>2. FiringInFlight(v)
      BY <2>1, <2>3, <3>1
    <3> QED
      BY <3>1, <3>2 DEF FiringInFlight, Busy
  <2>2. settled' => \A v \in Webhooks : ~ FiringInFlight(v)'
    BY <1>1, <1>4
  <2> QED
    BY <2>2, <2>3 DEF FiringHandled
<1>6. CASE ResolvableOrders = {} /\ UNCHANGED orders
  <2>1. ActiveOrders = {} /\ ActiveOrders' = {}
    BY <1>6 DEF ResolvableOrders, ActiveOrders
  <2> QED
    BY <1>3, <1>5, <1>6, <2>1 DEF IntakeInv, IntakeTypes, OneActiveOrder, ResolveSettles
<1>7. ASSUME ResolvableOrders # {},
             orders' = [orders EXCEPT ![Max(ResolvableOrders)] = Resolved(@)]
      PROVE  IntakeInv'
  <2> DEFINE i == Max(ResolvableOrders)
             o == Resolved(orders[i])
  <2>1. i \in DOMAIN orders /\ i \in ResolvableOrders
    <3>1. Len(orders) \in Nat /\ DOMAIN orders = 1 .. Len(orders)
      BY DEF IntakeInv, IntakeTypes
    <3>2. ResolvableOrders \in SUBSET (1 .. Len(orders))
      BY <3>1 DEF ResolvableOrders, ActiveOrders, UnresolvedOrders
    <3> QED
      BY <1>7, <3>1, <3>2, LatestFound
  <2>2. ActiveOrders \subseteq {i}
    BY <2>1 DEF ResolvableOrders, OneActiveOrder, IntakeInv
  <2>3. orders[i] \in OrderRecord
    BY <2>1 DEF IntakeInv, IntakeTypes
  <2>4. /\ ResolvedStatus(orders[i]) \in {"resolving"} \cup OrderEnded
        /\ ResolvedStatus(orders[i]) \in {"new", "processing", "resolving"} \cup OrderEnded
    BY DEF ResolvedStatus
  <2>5. /\ o \in OrderRecord
        /\ o.alert = "resolved"
        /\ o.isActive <=> o.status \notin OrderEnded
    BY <2>3, <2>4 DEF Resolved, OrderRecord
  <2>6. orders' = [orders EXCEPT ![i] = o]
    BY <1>7, <2>1
  <2> HIDE DEF o
  <2> HIDE DEF i
  <2>7. orders' \in Seq(OrderRecord) /\ OneActiveOrder' /\ ResolveSettles'
    BY <2>1, <2>2, <2>5, <2>6, OrderChanges
  <2> QED
    BY <1>3, <1>5, <2>7 DEF IntakeInv, IntakeTypes
<1> QED
  BY <1>6, <1>7 DEF AlertResolved

(* A request that only begins, is tried again or is given up.              *)
LEMMA RequestStep ==
  ASSUME IntakeInv, NEW w \in Webhooks, Receive(w) \/ LockError(w) \/ OtherIgnored(w)
  PROVE  IntakeInv'
<1>0. webhook \in [Webhooks -> RequestRecord] /\ FiringHandled
  BY DEF IntakeInv, IntakeTypes
<1>1. UNCHANGED orders /\ (settled' => settled)
  <2>1. CASE Receive(w)
    BY <2>1 DEF Receive
  <2>2. CASE LockError(w)
    BY <2>2 DEF LockError, Answer
  <2>3. CASE OtherIgnored(w)
    BY <2>3 DEF OtherIgnored, Answer
  <2> QED
    BY <2>1, <2>2, <2>3
<1>2. OneActiveOrder' /\ ResolveSettles' /\ orders' \in Seq(OrderRecord)
  BY <1>1 DEF IntakeInv, IntakeTypes, OneActiveOrder, ResolveSettles, ActiveOrders
<1>3. CASE webhook' = [webhook EXCEPT ![w] = Idle] /\ settled' = settled
  BY <1>2, <1>3, RequestMoves DEF IntakeInv, IntakeTypes
<1>4. CASE Receive(w)
  <2>1. PICK st \in {"firing", "resolved", "other"}, sev \in Severities :
          webhook' = [webhook EXCEPT ![w] =
                        [Idle EXCEPT !.pc = "handling", !.status = st, !.severity = sev]]
    BY <1>4 DEF Receive
  <2>2. webhook'[w].pc = "handling" /\ webhook' \in [Webhooks -> RequestRecord]
    BY <1>0, <2>1 DEF Idle, RequestRecord
  <2>3. \A v \in Webhooks \ {w} : webhook'[v] = webhook[v]
    BY <1>0, <2>1
  <2>4. settled' => settled /\ ~ FiringInFlight(w)'
    BY <1>4 DEF Receive
  <2>5. FiringHandled'
    BY <1>0, <2>2, <2>3, <2>4 DEF FiringHandled, FiringInFlight, Busy
  <2> QED
    BY <1>2, <2>2, <2>5 DEF IntakeInv, IntakeTypes
<1>5. CASE /\ webhook[w].pc \in {"handling", "inserting"} /\ settled' = settled
           /\ webhook' = [webhook EXCEPT ![w].pc = "handling", ![w].attempt = @ + 1]
  <2>1. webhook[w] \in RequestRecord /\ webhook[w].attempt + 1 \in Nat
    BY <1>0 DEF RequestRecord
  <2>2. /\ webhook'[w] = [webhook[w] EXCEPT !.pc = "handling", !.attempt = webhook[w].attempt + 1]
        /\ \A v \in Webhooks \ {w} : webhook'[v] = webhook[v]
    BY <1>0, <1>5, <2>1 DEF RequestRecord
  <2>3. /\ webhook'[w] \in RequestRecord /\ webhook'[w].pc = "handling"
        /\ webhook'[w].status = webhook[w].status /\ webhook'[w].severity = webhook[w].severity
    BY <2>1, <2>2 DEF RequestRecord
  <2>4. webhook' \in [Webhooks -> RequestRecord]
    BY <1>0, <1>5, <2>3
  <2>5. FiringHandled'
    <3>1. webhook[w].pc # "idle"
      BY <1>5
    <3>2. \A v \in Webhooks : FiringInFlight(v)' => FiringInFlight(v)
      BY <2>2, <2>3, <3>1 DEF FiringInFlight, Busy
    <3>3. \A v \in Webhooks \ {w} : FiringInFlight(v) => FiringInFlight(v)'
      BY <2>2 DEF FiringInFlight, Busy
    <3>4. settled' => \A v \in Webhooks : ~ FiringInFlight(v)'
      BY <1>0, <1>1, <3>2 DEF FiringHandled
    <3>5. \A v \in Webhooks : webhook'[v].pc \in {"inserting", "recovering"} => FiringInFlight(v)'
      BY <1>0, <2>2, <2>3, <3>3 DEF FiringHandled
    <3> QED
      BY <3>4, <3>5 DEF FiringHandled
  <2> QED
    BY <1>2, <2>4, <2>5 DEF IntakeInv, IntakeTypes
<1> QED
  BY <1>3, <1>4, <1>5 DEF LockError, OtherIgnored, Answer

(* Cook takes the active order up or ends it: its alert stays as it is.    *)
LEMMA CookStep ==
  ASSUME IntakeInv, NEW i \in DOMAIN orders, CookTakes(i) \/ CookEnds(i)
  PROVE  IntakeInv'
<1>1. /\ UNCHANGED << webhook, settled >> /\ orders \in Seq(OrderRecord)
      /\ orders[i] \in OrderRecord
      /\ ActiveOrders \subseteq {i}
      /\ settled => orders[i].alert = "resolved"
  BY DEF CookTakes, CookEnds, IntakeInv, IntakeTypes, OneActiveOrder, ResolveSettles, ActiveOrders
<1>2. PICK st \in {"processing", "complete", "failed"} :
        orders' = [orders EXCEPT ![i] = [orders[i] EXCEPT !.status = st,
                                                          !.isActive = (st = "processing")]]
  <2>1. CASE CookTakes(i)
    <3>1. orders[i].isActive = TRUE
      BY <1>1, <2>1 DEF CookTakes, OrderRecord
    <3>2. orders' = [orders EXCEPT ![i] = [orders[i] EXCEPT !.status = "processing",
                                                            !.isActive = ("processing" = "processing")]]
      BY <1>1, <2>1, <3>1 DEF CookTakes, OrderRecord
    <3> QED
      BY <3>2
  <2>2. CASE CookEnds(i)
    <3>1. PICK st \in {"complete", "failed"} :
            orders' = [orders EXCEPT ![i].status = st, ![i].isActive = FALSE]
      BY <2>2 DEF CookEnds
    <3>2. orders' = [orders EXCEPT ![i] = [orders[i] EXCEPT !.status = st, !.isActive = FALSE]]
      BY <1>1, <3>1 DEF OrderRecord
    <3>3. (st = "processing") = FALSE
      OBVIOUS
    <3> QED
      BY <3>2, <3>3
  <2> QED
    BY <2>1, <2>2
<1> DEFINE o == [orders[i] EXCEPT !.status = st, !.isActive = (st = "processing")]
<1>3. /\ o \in OrderRecord
      /\ o.isActive <=> o.status \notin OrderEnded
      /\ o.alert = orders[i].alert
  BY <1>1 DEF OrderRecord, OrderEnded
<1> HIDE DEF o
<1>4. orders' \in Seq(OrderRecord) /\ OneActiveOrder' /\ ResolveSettles'
  BY <1>1, <1>2, <1>3, OrderChanges DEF o
<1>5. FiringHandled' /\ webhook' \in [Webhooks -> RequestRecord]
  BY <1>1 DEF IntakeInv, IntakeTypes, FiringHandled, FiringInFlight, Busy
<1> QED
  BY <1>4, <1>5 DEF IntakeInv, IntakeTypes

-----------------------------------------------------------------------------
(* The bounds of the types: orders, what they count, and attempts.         *)
OrdersFit ==
  /\ Len(orders) <= MaxOrders
  /\ \A i \in DOMAIN orders : orders[i].counter \in 1 .. MaxAlerts

RequestsFit ==
  /\ \A w \in Webhooks : webhook[w].attempt \in 1 .. MaxAttempts
  /\ settled \in BOOLEAN

(* Orders that change keep their number and count one alert more, at most. *)
LEMMA CountersFit ==
  ASSUME IntakeInv, OrdersFit, orders' \in Seq(OrderRecord), DOMAIN orders' = DOMAIN orders,
         \A i \in DOMAIN orders :
           \/ orders'[i].counter = orders[i].counter
           \/ orders[i].counter < MaxAlerts /\ orders'[i].counter = orders[i].counter + 1
  PROVE  OrdersFit'
<1>1. Len(orders') = Len(orders)
  BY DEF IntakeInv, IntakeTypes
<1>2. ASSUME NEW i \in DOMAIN orders PROVE orders'[i].counter \in 1 .. MaxAlerts
  BY IntakeAssumption DEF OrdersFit
<1> QED
  BY <1>1, <1>2 DEF OrdersFit

(* An order is inserted where one fits.                                    *)
LEMMA InsertedFits ==
  ASSUME IntakeInv, OrdersFit, Len(orders) < MaxOrders, NEW o, o.counter = 1,
         orders' = Append(orders, o)
  PROVE  OrdersFit'
<1> DEFINE n == Len(orders) + 1
<1>1. /\ Len(orders') = n /\ n <= MaxOrders /\ DOMAIN orders' = DOMAIN orders \cup {n}
      /\ orders'[n] = o /\ \A i \in DOMAIN orders : orders'[i] = orders[i]
  BY IntakeAssumption DEF IntakeInv, IntakeTypes
<1>2. 1 \in 1 .. MaxAlerts
  BY IntakeAssumption
<1> QED
  BY <1>1, <1>2 DEF OrdersFit

LEMMA OrdersFitStep ==
  ASSUME IntakeInv, OrdersFit, IntakeInv', [IntakeNext]_intakeVars
  PROVE  OrdersFit'
<1>0. orders \in Seq(OrderRecord) /\ orders' \in Seq(OrderRecord)
  BY DEF IntakeInv, IntakeTypes
<1>1. CASE UNCHANGED orders
  BY <1>1 DEF OrdersFit
<1>2. ASSUME NEW w \in Webhooks, WarningFires(w), orders' # orders PROVE OrdersFit'
  <2>1. CASE WarningOrders = {}
    BY <1>2, <2>1, InsertedFits DEF WarningFires, NewOrder
  <2>2. CASE WarningOrders # {}
    <3> DEFINE i == Max(WarningOrders)
    <3>1. i \in DOMAIN orders
      BY <2>2, LatestOrder DEF WarningOrders
    <3>2. /\ orders[i].counter < MaxAlerts
          /\ orders' = [orders EXCEPT ![i].alert = "firing", ![i].status = "complete",
                                      ![i].isActive = FALSE, ![i].counter = @ + 1]
      BY <1>2, <2>2 DEF WarningFires
    <3> HIDE DEF i
    <3>3. orders[i] \in OrderRecord
      BY <1>0, <3>1
    <3>4. /\ DOMAIN orders' = DOMAIN orders /\ orders'[i].counter = orders[i].counter + 1
          /\ \A j \in DOMAIN orders \ {i} : orders'[j] = orders[j]
      BY <1>0, <3>1, <3>2, <3>3 DEF OrderRecord
    <3> QED
      BY <1>0, <3>2, <3>4, CountersFit
  <2> QED
    BY <2>1, <2>2
<1>3. ASSUME NEW w \in Webhooks, WarningResolves(w), orders' # orders PROVE OrdersFit'
  <2> DEFINE i == Max(WarningOrders)
  <2>1. /\ WarningOrders # {}
        /\ orders' = [orders EXCEPT ![i].alert = "resolved", ![i].status = "complete",
                                    ![i].isActive = FALSE]
    BY <1>3 DEF WarningResolves
  <2>2. i \in DOMAIN orders
    BY <2>1, LatestOrder DEF WarningOrders
  <2> HIDE DEF i
  <2>3. orders[i] \in OrderRecord
    BY <1>0, <2>2
  <2>4. /\ DOMAIN orders' = DOMAIN orders /\ orders'[i].counter = orders[i].counter
        /\ \A j \in DOMAIN orders \ {i} : orders'[j] = orders[j]
    BY <1>0, <2>1, <2>2, <2>3 DEF OrderRecord
  <2> QED
    BY <1>0, <2>4, CountersFit
<1>4. ASSUME NEW w \in Webhooks, AlertCounted(w) PROVE OrdersFit'
  <2>1. PICK i \in ActiveOrders :
          /\ orders[i].counter < MaxAlerts
          /\ orders' = [orders EXCEPT ![i].counter = @ + 1, ![i].alert = "firing",
                                      ![i].status = IF @ = "resolving" THEN "new" ELSE @,
                                      ![i].isActive = TRUE]
    BY <1>4 DEF AlertCounted
  <2>2. i \in DOMAIN orders /\ orders[i] \in OrderRecord
    BY <1>0 DEF ActiveOrders
  <2>3. /\ DOMAIN orders' = DOMAIN orders /\ orders'[i].counter = orders[i].counter + 1
        /\ \A j \in DOMAIN orders \ {i} : orders'[j] = orders[j]
    BY <1>0, <2>1, <2>2 DEF OrderRecord
  <2> QED
    BY <1>0, <2>1, <2>3, CountersFit
<1>5. ASSUME NEW w \in Webhooks, Insert(w) PROVE OrdersFit'
  BY <1>5, InsertedFits DEF Insert, NewOrder
<1>6. ASSUME NEW w \in Webhooks, Recover(w), orders' # orders PROVE OrdersFit'
  <2>1. /\ \A i \in ActiveOrders : orders[i].counter < MaxAlerts
        /\ orders' = [i \in DOMAIN orders |->
                        IF i \in ActiveOrders THEN [orders[i] EXCEPT !.counter = @ + 1] ELSE orders[i]]
    BY <1>6 DEF Recover
  <2>2. ASSUME NEW i \in DOMAIN orders
        PROVE  \/ orders'[i].counter = orders[i].counter
               \/ orders[i].counter < MaxAlerts /\ orders'[i].counter = orders[i].counter + 1
    <3>1. orders[i] \in OrderRecord
      BY <1>0
    <3> QED
      BY <2>1, <3>1 DEF OrderRecord
  <2> QED
    BY <1>0, <2>1, <2>2, CountersFit
<1>7. ASSUME NEW w \in Webhooks, AlertResolved(w), orders' # orders PROVE OrdersFit'
  <2> DEFINE i == Max(ResolvableOrders)
  <2>1. ResolvableOrders # {} /\ orders' = [orders EXCEPT ![i] = Resolved(@)]
    BY <1>7 DEF AlertResolved
  <2>2. i \in DOMAIN orders
    BY <2>1, LatestOrder DEF ResolvableOrders, ActiveOrders, UnresolvedOrders
  <2> HIDE DEF i
  <2>3. orders[i] \in OrderRecord
    BY <1>0, <2>2
  <2>4. /\ DOMAIN orders' = DOMAIN orders /\ orders'[i].counter = orders[i].counter
        /\ \A j \in DOMAIN orders \ {i} : orders'[j] = orders[j]
    BY <1>0, <2>1, <2>2, <2>3 DEF OrderRecord, Resolved
  <2> QED
    BY <1>0, <2>4, CountersFit
<1>8. ASSUME NEW i \in DOMAIN orders, CookTakes(i) \/ CookEnds(i) PROVE OrdersFit'
  <2>1. orders[i] \in OrderRecord
    BY <1>0
  <2>2. /\ DOMAIN orders' = DOMAIN orders /\ orders'[i].counter = orders[i].counter
        /\ \A j \in DOMAIN orders \ {i} : orders'[j] = orders[j]
    BY <1>0, <1>8, <2>1 DEF CookTakes, CookEnds, OrderRecord
  <2> QED
    BY <1>0, <2>2, CountersFit
<1>9. CASE (\E w \in Webhooks : Receive(w) \/ NoneActive(w) \/ Conflict(w) \/ LockError(w) \/ OtherIgnored(w))
            \/ UNCHANGED intakeVars
  BY <1>1, <1>9 DEF Receive, NoneActive, Conflict, LockError, OtherIgnored, intakeVars
<1> QED
  BY <1>1, <1>2, <1>3, <1>4, <1>5, <1>6, <1>7, <1>8, <1>9 DEF IntakeNext

LEMMA RequestsFitStep ==
  ASSUME IntakeInv, RequestsFit, [IntakeNext]_intakeVars
  PROVE  RequestsFit'
<1>0. webhook \in [Webhooks -> RequestRecord] /\ Idle.attempt = 1 /\ 1 \in 1 .. MaxAttempts
  BY IntakeAssumption DEF IntakeInv, IntakeTypes, Idle
<1>1. ASSUME NEW w \in Webhooks, webhook' = [webhook EXCEPT ![w] = Idle], settled' \in BOOLEAN
      PROVE  RequestsFit'
  BY <1>0, <1>1 DEF RequestsFit
<1>2. ASSUME NEW w \in Webhooks, Receive(w) PROVE RequestsFit'
  <2>1. PICK st \in {"firing", "resolved", "other"}, sev \in Severities :
          webhook' = [webhook EXCEPT ![w] = [Idle EXCEPT !.pc = "handling", !.status = st, !.severity = sev]]
    BY <1>2 DEF Receive
  <2>2. webhook'[w].attempt = 1 /\ \A v \in Webhooks \ {w} : webhook'[v] = webhook[v]
    BY <1>0, <2>1 DEF Idle
  <2>3. settled' \in BOOLEAN
    BY <1>2 DEF Receive
  <2> QED
    BY <1>0, <2>2, <2>3 DEF RequestsFit
<1>3. ASSUME NEW w \in Webhooks, NoneActive(w) \/ Conflict(w) PROVE RequestsFit'
  <2>1. PICK pc \in {"inserting", "recovering"} : webhook' = [webhook EXCEPT ![w].pc = pc]
    BY <1>3 DEF NoneActive, Conflict
  <2>2. webhook[w] \in RequestRecord
    BY <1>0
  <2>3. webhook'[w].attempt = webhook[w].attempt /\ \A v \in Webhooks \ {w} : webhook'[v] = webhook[v]
    BY <1>0, <2>1, <2>2 DEF RequestRecord
  <2>4. settled' = settled
    BY <1>3 DEF NoneActive, Conflict
  <2> QED
    BY <2>3, <2>4 DEF RequestsFit
<1>4. ASSUME NEW w \in Webhooks, LockError(w) PROVE RequestsFit'
  <2>1. settled' \in BOOLEAN
    BY <1>4 DEF LockError, Answer, RequestsFit
  <2>2. CASE webhook[w].attempt < MaxAttempts
    <3>1. webhook[w] \in RequestRecord
      BY <1>0
    <3>2. /\ webhook'[w].attempt = webhook[w].attempt + 1
          /\ \A v \in Webhooks \ {w} : webhook'[v] = webhook[v]
      BY <1>0, <1>4, <2>2, <3>1 DEF LockError, RequestRecord
    <3>3. webhook'[w].attempt \in 1 .. MaxAttempts
      BY <2>2, <3>2, IntakeAssumption DEF RequestsFit
    <3> QED
      BY <2>1, <3>2, <3>3 DEF RequestsFit
  <2>3. CASE ~ (webhook[w].attempt < MaxAttempts)
    BY <1>1, <1>4, <2>1, <2>3 DEF LockError, Answer
  <2> QED
    BY <2>2, <2>3
<1>5. ASSUME NEW w \in Webhooks, AlertResolved(w) PROVE RequestsFit'
  <2>1. webhook' = [webhook EXCEPT ![w] = Idle]
    BY <1>5 DEF AlertResolved
  <2>2. settled' \in BOOLEAN
    BY <1>5 DEF AlertResolved
  <2> QED
    BY <1>1, <2>1, <2>2
<1>6. ASSUME NEW w \in Webhooks,
             \/ WarningFires(w) \/ WarningResolves(w) \/ AlertCounted(w)
             \/ Insert(w) \/ Recover(w) \/ OtherIgnored(w)
      PROVE  RequestsFit'
  <2>1. webhook' = [webhook EXCEPT ![w] = Idle] /\ settled' = settled
    BY <1>6 DEF WarningFires, WarningResolves, AlertCounted, Insert, Recover, OtherIgnored, Answer
  <2> QED
    BY <1>1, <2>1 DEF RequestsFit
<1>7. CASE (\E i \in DOMAIN orders : CookTakes(i) \/ CookEnds(i)) \/ UNCHANGED intakeVars
  BY <1>7 DEF CookTakes, CookEnds, intakeVars, RequestsFit
<1> QED
  BY <1>2, <1>3, <1>4, <1>5, <1>6, <1>7 DEF IntakeNext

-----------------------------------------------------------------------------
(* However notifications, retries and Cook interleave, a fingerprint has   *)
(* one active order at most, and a resolved notification that meets no     *)
(* firing one in flight leaves none waiting for it                         *)
(* (api/services/pre_heat.py).                                             *)
THEOREM IntakeKeepsOne == IntakeSpec => []IntakeKept
<1>1. IntakeInit => IntakeInv
  <2> SUFFICES ASSUME IntakeInit PROVE IntakeInv
    OBVIOUS
  <2>1. orders = << >> /\ DOMAIN orders = {} /\ orders \in Seq(OrderRecord)
    BY DEF IntakeInit
  <2>2. ActiveOrders = {}
    BY <2>1 DEF ActiveOrders
  <2>3. webhook \in [Webhooks -> RequestRecord] /\ FiringHandled
    BY DEF IntakeInit, Idle, RequestRecord, Severities, FiringHandled, FiringInFlight
  <2> QED
    BY <2>1, <2>2, <2>3 DEF IntakeInv, IntakeTypes, OneActiveOrder, ResolveSettles
<1>2. IntakeInv /\ [IntakeNext]_intakeVars => IntakeInv'
  <2> SUFFICES ASSUME IntakeInv, [IntakeNext]_intakeVars PROVE IntakeInv'
    OBVIOUS
  <2>1. CASE UNCHANGED intakeVars
    BY <2>1 DEF intakeVars, IntakeInv, IntakeTypes, FiringHandled, FiringInFlight, Busy,
                OneActiveOrder, ResolveSettles, ActiveOrders
  <2>2. CASE IntakeNext
    BY <2>2, WarningStep, FiringStep, ResolvedStep, RequestStep, CookStep DEF IntakeNext
  <2> QED
    BY <2>1, <2>2
<1>3. IntakeInit => OrdersFit /\ RequestsFit
  <2> SUFFICES ASSUME IntakeInit PROVE OrdersFit /\ RequestsFit
    OBVIOUS
  <2>1. orders = << >> /\ DOMAIN orders = {} /\ Len(orders) = 0
    BY DEF IntakeInit
  <2>2. OrdersFit
    BY <2>1, IntakeAssumption DEF OrdersFit
  <2>3. RequestsFit
    <3>1. settled \in BOOLEAN /\ \A w \in Webhooks : webhook[w].attempt = 1
      BY DEF IntakeInit, Idle
    <3>2. 1 \in 1 .. MaxAttempts
      BY IntakeAssumption
    <3> QED
      BY <3>1, <3>2 DEF RequestsFit
  <2> QED
    BY <2>2, <2>3
<1>4. IntakeInv /\ IntakeInv' /\ OrdersFit /\ RequestsFit /\ [IntakeNext]_intakeVars
        => OrdersFit' /\ RequestsFit'
  BY OrdersFitStep, RequestsFitStep
<1>5. IntakeInv /\ OrdersFit /\ RequestsFit => IntakeTypeOK
  <2> SUFFICES ASSUME IntakeInv, OrdersFit, RequestsFit PROVE IntakeTypeOK
    OBVIOUS
  <2>1. orders \in Seq(OrderRecord) /\ webhook \in [Webhooks -> RequestRecord]
    BY DEF IntakeInv, IntakeTypes
  <2>2. ASSUME NEW i \in DOMAIN orders PROVE orders[i] \in OrderRecords
    <3>1. orders[i] \in OrderRecord /\ orders[i].counter \in 1 .. MaxAlerts
      BY <2>1 DEF OrdersFit
    <3> QED
      BY <3>1 DEF OrderRecord, OrderRecords
  <2>3. orders \in Seq(OrderRecords)
    BY <2>1, <2>2
  <2>4. ASSUME NEW w \in Webhooks
        PROVE  webhook[w] \in [pc : {"idle", "handling", "inserting", "recovering"},
                               status : {"firing", "resolved", "other"},
                               severity : Severities, attempt : 1 .. MaxAttempts]
    <3>1. webhook[w] \in RequestRecord /\ webhook[w].attempt \in 1 .. MaxAttempts
      BY <2>1 DEF RequestsFit
    <3> QED
      BY <3>1 DEF RequestRecord
  <2> QED
    BY <2>1, <2>3, <2>4 DEF IntakeTypeOK, OrdersFit, RequestsFit
<1>6. IntakeInv /\ IntakeTypeOK => IntakeKept
  BY DEF IntakeInv, IntakeKept
<1> QED
  BY <1>1, <1>2, <1>3, <1>4, <1>5, <1>6, PTL DEF IntakeSpec

-----------------------------------------------------------------------------
(* Suppressions: an alert is put back, or left behind where it is said.    *)

OrderTypes ==
  order \in [Alerts -> [status : {"none", "new", "cooking", "suppressed", "ended"},
                        alert : {"firing", "resolved"}]]

(* What the steps of an alert, of Cook and of the sweep rest on.           *)
WindowTypes ==
  /\ summary \in [Windows -> {"open", "closed"}]
  /\ events \in [Windows -> SUBSET Alerts]
  /\ late \in [Windows -> SUBSET Alerts]
  /\ cook \in [Alerts -> Windows \cup {Unmatched}]

(* Behind every suppressed alert there is a window that is not closed, or  *)
(* an event that came too late.                                            *)
HeldBack ==
  \A f \in Alerts :
    order[f].status = "suppressed" /\ order[f].alert = "firing" =>
      \E w \in Windows : f \in events[w] /\ (summary[w] # "closed" \/ f \in late[w])

SuppressionsInv == OrderTypes /\ WindowTypes /\ HeldBack

(* Windows and their orders take no part.                                  *)
LEMMA OperatorStep ==
  ASSUME SuppressionsInv, UNCHANGED << alertVars, sweepVars >>
  PROVE  SuppressionsInv'
BY DEF SuppressionsInv, OrderTypes, WindowTypes, HeldBack, alertVars, sweepVars

(* An alert fires, resolves, or Cook takes up or ends its order: only the  *)
(* order changes, and it is not suppressed.                                *)
LEMMA AlertStep ==
  ASSUME SuppressionsInv, NEW f \in Alerts,
         AlertFires(f) \/ AlertResolves(f) \/ CookMatches(f) \/ CookFinishes(f)
  PROVE  SuppressionsInv'
<1> USE DEF SuppressionsInv, OrderTypes, WindowTypes
<1>1. UNCHANGED << summary, events, late >>
  BY DEF AlertFires, AlertResolves, CookMatches, CookFinishes, windowVars, sweepVars
<1>2. cook' \in [Alerts -> Windows \cup {Unmatched}]
  BY DEF AlertFires, AlertResolves, CookMatches, CookFinishes, Matching
<1>3. /\ OrderTypes'
      /\ \A g \in Alerts : order'[g].status = "suppressed" /\ order'[g].alert = "firing"
                           => order'[g] = order[g]
  <2>1. order[f] \in [status : {"none", "new", "cooking", "suppressed", "ended"},
                      alert : {"firing", "resolved"}]
    OBVIOUS
  <2>2. CASE AlertFires(f)
    BY <2>1, <2>2 DEF AlertFires, Active
  <2>3. CASE AlertResolves(f)
    BY <2>1, <2>3 DEF AlertResolves
  <2>4. CASE CookMatches(f)
    BY <2>1, <2>4 DEF CookMatches
  <2>5. CASE CookFinishes(f)
    BY <2>1, <2>5 DEF CookFinishes
  <2> QED
    BY <2>2, <2>3, <2>4, <2>5
<1>4. HeldBack'
  BY <1>1, <1>3 DEF HeldBack
<1> QED
  BY <1>1, <1>2, <1>3, <1>4

(* Cook's event is in an open window, or is late.                          *)
LEMMA EventStep ==
  ASSUME SuppressionsInv, NEW f \in Alerts, CookSuppresses(f)
  PROVE  SuppressionsInv'
<1> USE DEF SuppressionsInv, OrderTypes, WindowTypes
<1> DEFINE w == cook[f]
<1>1. w \in Windows
  BY DEF CookSuppresses
<1>2. /\ UNCHANGED summary
      /\ events' = [events EXCEPT ![w] = @ \cup {f}]
      /\ late' = IF summary[w] = "closed" THEN [late EXCEPT ![w] = @ \cup {f}] ELSE late
      /\ order' = [order EXCEPT ![f].status = "suppressed"]
      /\ cook' = [cook EXCEPT ![f] = Unmatched]
  BY DEF CookSuppresses, windowVars, sweepVars
<1> HIDE DEF w
<1>3. /\ OrderTypes' /\ \A g \in Alerts \ {f} : order'[g] = order[g]
  BY <1>2
<1>4. WindowTypes'
  BY <1>1, <1>2
<1>5. \A v \in Windows : events[v] \subseteq events'[v] /\ late[v] \subseteq late'[v]
  BY <1>1, <1>2
<1>6. f \in events'[w] /\ (summary'[w] # "closed" \/ f \in late'[w])
  BY <1>1, <1>2
<1>7. HeldBack'
  BY <1>1, <1>2, <1>3, <1>5, <1>6 DEF HeldBack
<1> QED
  BY <1>3, <1>4, <1>7

(* A window that closes puts back what it held.                            *)
LEMMA SweepStep ==
  ASSUME SuppressionsInv, SweepStarts \/ SweepCloses \/ SweepStops
  PROVE  SuppressionsInv'
<1> USE DEF SuppressionsInv, OrderTypes, WindowTypes
<1>1. CASE SweepStarts
  BY <1>1 DEF SweepStarts, windowVars, alertVars, HeldBack
<1>2. CASE SweepStops
  BY <1>2 DEF SweepStops, windowVars, alertVars, HeldBack
<1>3. CASE SweepCloses
  <2>1. UNCHANGED << cook, events, late >>
    BY <1>3 DEF SweepCloses, windowVars
  <2>3. CASE UNCHANGED << summary, order >>
    BY <2>1, <2>3 DEF HeldBack
  <2>4. ASSUME NEW w \in batch, order' = Requeued(w), summary' = [summary EXCEPT ![w] = "closed"]
        PROVE  SuppressionsInv'
    <3>2. summary' = [summary EXCEPT ![w] = "closed"]
      BY <2>4
    <3>3. \A f \in Alerts :
            order'[f] = IF f \in events[w] /\ ~ Active(f)
                          THEN [status |-> "new", alert |-> "firing"] ELSE order[f]
      BY <2>4 DEF Requeued
    <3>4. OrderTypes'
      BY <2>4 DEF Requeued
    <3>5. ASSUME NEW f \in Alerts, order'[f].status = "suppressed", order'[f].alert = "firing"
          PROVE  order[f] = order'[f] /\ f \notin events[w]
      <4>1. CASE f \in events[w] /\ ~ Active(f)
        BY <3>3, <3>5, <4>1
      <4>2. CASE ~ (f \in events[w] /\ ~ Active(f))
        BY <3>3, <3>5, <4>2 DEF Active
      <4> QED
        BY <4>1, <4>2
    <3>6. HeldBack'
      BY <2>1, <3>2, <3>5 DEF HeldBack
    <3> QED
      BY <2>1, <3>2, <3>4, <3>6
  <2> QED
    BY <1>3, <2>3, <2>4 DEF SweepCloses
<1> QED
  BY <1>1, <1>2, <1>3

(* The rest of the types: silences, their ends, orders, answers, rows.     *)
WindowsFit ==
  /\ silence \in [Windows -> {"none", "active", "expired"}]
  /\ over \in Seq(Windows) /\ IsInjective(over)
  /\ asked \in [Windows -> {"none", "create", "update", "expire"}]
  /\ row \in [Windows -> [known : BOOLEAN, enabled : BOOLEAN, canceled : BOOLEAN]]
  /\ batch \subseteq Windows

BroughtBack == UNION {[known -> {"active", "expired"}] : known \in SUBSET Windows}

AnswersFit == answer \in [Answers -> BroughtBack]

(* A row, an order to expire and an answer are of a silence that was made, *)
(* and none is ever unmade.                                                *)
SilencesThere ==
  /\ \A w \in Windows : row[w].known \/ asked[w] = "expire" => silence[w] # "none"
  /\ \A i \in Answers : \A w \in DOMAIN answer[i] : silence[w] # "none"

LEMMA WindowsFitStep ==
  ASSUME WindowsFit, [SuppressionsNext]_suppressionVars
  PROVE  WindowsFit'
<1> USE DEF WindowsFit
<1>1. ASSUME NEW w \in Windows, AskCreate(w) \/ AskUpdate(w) \/ AskExpire(w) \/ RequestFails(w)
      PROVE  WindowsFit'
  BY <1>1 DEF AskCreate, AskUpdate, AskExpire, RequestFails, sweepVars
<1>2. ASSUME NEW w \in Windows, CreateSilence(w) \/ UpdateSilence(w) \/ ExpireSilence(w)
      PROVE  WindowsFit'
  <2>1. UNCHANGED << over, row, batch >> /\ asked' = [asked EXCEPT ![w] = "none"]
    BY <1>2 DEF CreateSilence, UpdateSilence, ExpireSilence, sweepVars
  <2>2. silence' \in [Windows -> {"none", "active", "expired"}]
    BY <1>2 DEF CreateSilence, UpdateSilence, ExpireSilence
  <2> QED
    BY <2>1, <2>2
<1>3. ASSUME NEW w \in Windows, WindowEnds(w) PROVE WindowsFit'
  <2>1. /\ over' = Append(over, w) /\ silence' = [silence EXCEPT ![w] = "expired"]
        /\ UNCHANGED << asked, row, batch >> /\ \A i \in DOMAIN over : over[i] # w
    BY <1>3 DEF WindowEnds, sweepVars, Over, ToSet
  <2>2. over' \in Seq(Windows) /\ IsInjective(over')
    BY <2>1 DEF IsInjective
  <2> QED
    BY <2>1, <2>2
<1>4. CASE SyncSilences
  BY <1>4 DEF SyncSilences, sweepVars
<1>5. ASSUME NEW i \in Answers, ApplyAnswer(i) PROVE WindowsFit'
  <2>1. ASSUME NEW w, NEW status PROVE Upserted(w, status) \in [known : BOOLEAN, enabled : BOOLEAN, canceled : BOOLEAN]
    BY DEF Upserted
  <2> QED
    BY <1>5, <2>1 DEF ApplyAnswer, sweepVars
<1>6. ASSUME NEW f \in Alerts,
             \/ AlertFires(f) \/ AlertResolves(f)
             \/ CookMatches(f) \/ CookSuppresses(f) \/ CookFinishes(f)
      PROVE  WindowsFit'
  BY <1>6 DEF AlertFires, AlertResolves, CookMatches, CookSuppresses, CookFinishes, windowVars, sweepVars
<1>7. CASE SweepStarts \/ SweepCloses \/ SweepStops
  BY <1>7 DEF SweepStarts, SweepCloses, SweepStops, Expired, windowVars
<1>8. CASE UNCHANGED suppressionVars
  BY <1>8 DEF suppressionVars, windowVars, sweepVars
<1> QED
  BY <1>1, <1>2, <1>3, <1>4, <1>5, <1>6, <1>7, <1>8 DEF SuppressionsNext

LEMMA SilencesThereStep ==
  ASSUME WindowsFit, AnswersFit, SilencesThere, [SuppressionsNext]_suppressionVars
  PROVE  SilencesThere'
<1>0. \A i \in Answers : DOMAIN answer[i] \subseteq Windows
  BY DEF AnswersFit, BroughtBack
<1>1. CASE UNCHANGED << silence, asked, answer, row >>
  BY <1>1 DEF SilencesThere
<1>2. ASSUME NEW w \in Windows, AskCreate(w) \/ AskUpdate(w) \/ AskExpire(w) \/ RequestFails(w)
      PROVE  SilencesThere'
  <2>1. /\ UNCHANGED << silence, answer, row >>
        /\ \A v \in Windows \ {w} : asked'[v] = asked[v]
        /\ asked'[w] = "expire" => row[w].known
    BY <1>2 DEF AskCreate, AskUpdate, AskExpire, RequestFails, WindowsFit
  <2> QED
    BY <2>1 DEF SilencesThere
<1>3. ASSUME NEW w \in Windows, NEW v \in Windows, NEW state,
             \A x \in Windows : silence[x] # "none" => silence'[x] # "none",
             silence'[v] # "none", asked' = [asked EXCEPT ![w] = "none"],
             Brings([x \in {v} |-> state]), row' = row
      PROVE  SilencesThere'
  <2>1. \A x \in Windows : asked'[x] = "expire" => asked[x] = "expire"
    BY <1>3 DEF WindowsFit
  <2>2. \A i \in Answers : DOMAIN answer'[i] \in {DOMAIN answer[i], {v}}
    BY <1>3 DEF Brings, AnswersFit
  <2> QED
    BY <1>0, <1>3, <2>1, <2>2 DEF SilencesThere
<1>4. ASSUME NEW w \in Windows, CreateSilence(w) PROVE SilencesThere'
  <2>1. \A x \in Windows : silence'[x] \in {silence[x], "active"} /\ silence'[w] = "active"
    BY <1>4 DEF CreateSilence, WindowsFit
  <2> QED
    BY <1>3, <1>4, <2>1 DEF CreateSilence
<1>5. ASSUME NEW w \in Windows, UpdateSilence(w) PROVE SilencesThere'
  <2>1. CASE silence[w] = "active" /\ Brings([x \in {w} |-> "active"]) /\ UNCHANGED silence
    BY <1>3, <1>5, <2>1 DEF UpdateSilence
  <2>2. ASSUME NEW v \in Windows, silence[v] = "none",
               silence' = [silence EXCEPT ![w] = "expired", ![v] = "active"],
               Brings([x \in {v} |-> "active"])
        PROVE  SilencesThere'
    <3>1. \A x \in Windows : silence'[x] \in {silence[x], "expired", "active"} /\ silence'[v] = "active"
      BY <2>2 DEF WindowsFit
    <3> QED
      BY <1>3, <1>5, <2>2, <3>1 DEF UpdateSilence
  <2> QED
    BY <1>5, <2>1, <2>2 DEF UpdateSilence
<1>6. ASSUME NEW w \in Windows, ExpireSilence(w) PROVE SilencesThere'
  <2>1. \A x \in Windows : silence'[x] \in {silence[x], "expired"} /\ silence'[w] = "expired"
    BY <1>6 DEF ExpireSilence, WindowsFit
  <2> QED
    BY <1>3, <1>6, <2>1 DEF ExpireSilence
<1>7. ASSUME NEW w \in Windows, WindowEnds(w) PROVE SilencesThere'
  <2>1. \A x \in Windows : silence'[x] \in {silence[x], "expired"}
    BY <1>7 DEF WindowEnds, WindowsFit
  <2> QED
    BY <1>0, <1>7, <2>1 DEF WindowEnds, SilencesThere
<1>8. CASE SyncSilences
  <2>1. \A i \in Answers : DOMAIN answer'[i] \in {DOMAIN answer[i], {x \in Windows : silence[x] # "none"}}
    BY <1>8 DEF SyncSilences, AnswersFit
  <2> QED
    BY <1>8, <2>1 DEF SyncSilences, SilencesThere
<1>9. ASSUME NEW i \in Answers, ApplyAnswer(i) PROVE SilencesThere'
  <2>1. \A w \in Windows : row'[w].known => row[w].known \/ w \in DOMAIN answer[i]
    BY <1>9 DEF ApplyAnswer
  <2>2. \A j \in Answers : DOMAIN answer'[j] \in {DOMAIN answer[j], {}}
    BY <1>9 DEF ApplyAnswer, AnswersFit, NoAnswer
  <2> QED
    BY <1>9, <2>1, <2>2 DEF ApplyAnswer, SilencesThere
<1> QED
  BY <1>1, <1>2, <1>4, <1>5, <1>6, <1>7, <1>8, <1>9
  DEF SuppressionsNext, AlertFires, AlertResolves, CookMatches, CookSuppresses, CookFinishes,
      SweepStarts, SweepCloses, SweepStops, windowVars, suppressionVars

(* What a finished dish brings back is of windows that are active or not.  *)
LEMMA AnswersFitStep ==
  ASSUME WindowsFit, SilencesThere, AnswersFit, [SuppressionsNext]_suppressionVars
  PROVE  AnswersFit'
<1> USE DEF AnswersFit
<1>1. CASE UNCHANGED answer
  BY <1>1
<1>2. ASSUME NEW w \in Windows, NEW state \in {"active", "expired"}, Brings([x \in {w} |-> state])
      PROVE  AnswersFit'
  <2>1. [x \in {w} |-> state] \in BroughtBack
    <3>1. {w} \in SUBSET Windows /\ [x \in {w} |-> state] \in [{w} -> {"active", "expired"}]
      OBVIOUS
    <3> QED
      BY <3>1 DEF BroughtBack
  <2> DEFINE a == [x \in {w} |-> state]
  <2>2. (\E i \in Answers : answer' = [answer EXCEPT ![i] = a]) \/ UNCHANGED answer
    BY <1>2 DEF Brings
  <2> HIDE DEF a
  <2>3. a \in BroughtBack
    BY <2>1 DEF a
  <2> QED
    BY <2>2, <2>3
<1>3. ASSUME NEW w \in Windows, CreateSilence(w) PROVE AnswersFit'
  BY <1>2, <1>3 DEF CreateSilence
<1>4. ASSUME NEW w \in Windows, UpdateSilence(w) PROVE AnswersFit'
  BY <1>2, <1>4 DEF UpdateSilence
<1>5. ASSUME NEW w \in Windows, ExpireSilence(w) PROVE AnswersFit'
  <2>1. PICK state \in {"expired", silence[w]} : Brings([x \in {w} |-> state])
    BY <1>5 DEF ExpireSilence
  <2>2. silence[w] \in {"active", "expired"}
    BY <1>5 DEF ExpireSilence, WindowsFit, SilencesThere
  <2> QED
    BY <1>2, <2>1, <2>2
<1>6. CASE SyncSilences
  <2> DEFINE known == {x \in Windows : silence[x] # "none"}
  <2> DEFINE a == [w \in known |-> silence[w]]
  <2>1. a \in [known -> {"active", "expired"}] /\ known \in SUBSET Windows
    BY DEF WindowsFit
  <2>2. a \in BroughtBack
    BY <2>1 DEF BroughtBack
  <2>3. \E i \in Answers : answer' = [answer EXCEPT ![i] = a]
    BY <1>6 DEF SyncSilences
  <2> HIDE DEF a
  <2> QED
    BY <2>2, <2>3
<1>7. ASSUME NEW i \in Answers, ApplyAnswer(i) PROVE AnswersFit'
  <2>1. NoAnswer \in BroughtBack
    <3>1. {} \in SUBSET Windows /\ NoAnswer \in [{} -> {"active", "expired"}]
      BY DEF NoAnswer
    <3> QED
      BY <3>1 DEF BroughtBack
  <2> QED
    BY <1>7, <2>1 DEF ApplyAnswer
<1> QED
  BY <1>1, <1>3, <1>4, <1>5, <1>6, <1>7
  DEF SuppressionsNext, AskCreate, AskUpdate, AskExpire, RequestFails, WindowEnds, AlertFires,
      AlertResolves, CookMatches, CookSuppresses, CookFinishes, SweepStarts, SweepCloses, SweepStops,
      windowVars, suppressionVars

(* A silence that is asked for is not made yet; an answer says expired, and*)
(* a row is canceled, only of one that is over, and over it stays.         *)
CanceledAreOver ==
  /\ \A w \in Windows : asked[w] = "create" => silence[w] = "none"
  /\ \A w \in Windows : row[w].canceled => silence[w] = "expired"
  /\ \A i \in Answers : \A w \in DOMAIN answer[i] :
       answer[i][w] = "expired" => silence[w] = "expired"

LEMMA CanceledAreOverStep ==
  ASSUME WindowsFit, AnswersFit, CanceledAreOver, [SuppressionsNext]_suppressionVars
  PROVE  CanceledAreOver'
<1>0. \A i \in Answers : DOMAIN answer[i] \subseteq Windows
  BY DEF AnswersFit, BroughtBack
<1>1. CASE UNCHANGED << silence, asked, answer, row >>
  BY <1>1 DEF CanceledAreOver
<1>2. ASSUME NEW w \in Windows, AskCreate(w) \/ AskUpdate(w) \/ AskExpire(w) \/ RequestFails(w)
      PROVE  CanceledAreOver'
  <2>1. /\ UNCHANGED << silence, answer, row >>
        /\ \A v \in Windows \ {w} : asked'[v] = asked[v]
        /\ asked'[w] = "create" => silence[w] = "none"
    BY <1>2 DEF AskCreate, AskUpdate, AskExpire, RequestFails, WindowsFit
  <2> QED
    BY <2>1 DEF CanceledAreOver
<1>3. ASSUME NEW w \in Windows, NEW v \in Windows, NEW state,
             \A x \in Windows : silence[x] = "expired" => silence'[x] = "expired",
             \A x \in Windows \ {w} : asked[x] = "create" => silence'[x] = silence[x],
             state = "expired" => silence'[v] = "expired",
             asked' = [asked EXCEPT ![w] = "none"],
             Brings([x \in {v} |-> state]), row' = row
      PROVE  CanceledAreOver'
  <2>1. asked'[w] # "create" /\ \A x \in Windows \ {w} : asked'[x] = asked[x]
    BY <1>3 DEF WindowsFit
  <2> DEFINE a == [x \in {v} |-> state]
  <2>2. DOMAIN a = {v} /\ a[v] = state
    OBVIOUS
  <2>3. UNCHANGED answer \/ \E i \in Answers : answer' = [answer EXCEPT ![i] = a]
    BY <1>3 DEF Brings
  <2> HIDE DEF a
  <2>4. \A i \in Answers : answer'[i] \in {answer[i], a}
    BY <2>3 DEF AnswersFit
  <2> QED
    BY <1>0, <1>3, <2>1, <2>2, <2>4 DEF CanceledAreOver
<1>4. ASSUME NEW w \in Windows, CreateSilence(w) PROVE CanceledAreOver'
  <2>1. silence[w] = "none"
    BY <1>4 DEF CreateSilence, CanceledAreOver
  <2>2. \A x \in Windows \ {w} : silence'[x] = silence[x]
    BY <1>4 DEF CreateSilence, WindowsFit
  <2> QED
    BY <1>3, <1>4, <2>1, <2>2 DEF CreateSilence
<1>5. ASSUME NEW w \in Windows, UpdateSilence(w) PROVE CanceledAreOver'
  <2>1. CASE silence[w] = "active" /\ Brings([x \in {w} |-> "active"]) /\ UNCHANGED silence
    BY <1>3, <1>5, <2>1 DEF UpdateSilence
  <2>2. ASSUME NEW v \in Windows, silence[v] = "none", asked[v] = "none",
               silence' = [silence EXCEPT ![w] = "expired", ![v] = "active"],
               Brings([x \in {v} |-> "active"])
        PROVE  CanceledAreOver'
    <3>1. asked[w] = "update" /\ v # w
      BY <1>5, <2>2 DEF UpdateSilence
    <3>2. \A x \in Windows \ {v, w} : silence'[x] = silence[x]
      BY <2>2 DEF WindowsFit
    <3>3. silence'[w] = "expired"
      BY <2>2, <3>1 DEF WindowsFit
    <3>4. /\ \A x \in Windows : silence[x] = "expired" => silence'[x] = "expired"
          /\ \A x \in Windows \ {w} : asked[x] = "create" => silence'[x] = silence[x]
      BY <2>2, <3>2, <3>3
    <3>5. asked' = [asked EXCEPT ![w] = "none"] /\ row' = row
      BY <1>5 DEF UpdateSilence
    <3> QED
      BY <1>3, <2>2, <3>4, <3>5
  <2> QED
    BY <1>5, <2>1, <2>2 DEF UpdateSilence
<1>6. ASSUME NEW w \in Windows, ExpireSilence(w) PROVE CanceledAreOver'
  <2>1. silence'[w] = "expired" /\ \A x \in Windows \ {w} : silence'[x] = silence[x]
    BY <1>6 DEF ExpireSilence, WindowsFit
  <2> QED
    BY <1>3, <1>6, <2>1 DEF ExpireSilence
<1>7. ASSUME NEW w \in Windows, WindowEnds(w) PROVE CanceledAreOver'
  <2>1. /\ silence'[w] = "expired" /\ silence[w] # "none" /\ UNCHANGED << asked, answer, row >>
        /\ \A x \in Windows \ {w} : silence'[x] = silence[x]
    BY <1>7 DEF WindowEnds, WindowsFit
  <2> QED
    BY <1>0, <2>1 DEF CanceledAreOver
<1>8. CASE SyncSilences
  <2> DEFINE a == [w \in {x \in Windows : silence[x] # "none"} |-> silence[w]]
  <2>1. \A w \in DOMAIN a : a[w] = "expired" => silence[w] = "expired"
    OBVIOUS
  <2>2. /\ UNCHANGED << silence, asked, row >>
        /\ \E i \in Answers : answer' = [answer EXCEPT ![i] = a]
    BY <1>8 DEF SyncSilences
  <2> HIDE DEF a
  <2>3. \A i \in Answers : answer'[i] \in {answer[i], a}
    BY <2>2 DEF AnswersFit
  <2> QED
    BY <2>1, <2>2, <2>3 DEF CanceledAreOver
<1>9. ASSUME NEW i \in Answers, ApplyAnswer(i) PROVE CanceledAreOver'
  <2>1. \A w \in Windows : row'[w].canceled =>
          row[w].canceled \/ (w \in DOMAIN answer[i] /\ answer[i][w] = "expired")
    BY <1>9 DEF ApplyAnswer, Upserted
  <2>2. \A j \in Answers : answer'[j] \in {answer[j], NoAnswer}
    BY <1>9 DEF ApplyAnswer, AnswersFit
  <2>3. DOMAIN NoAnswer = {}
    BY DEF NoAnswer
  <2>4. UNCHANGED << silence, asked >>
    BY <1>9 DEF ApplyAnswer
  <2> QED
    BY <2>1, <2>2, <2>3, <2>4 DEF CanceledAreOver
<1> QED
  BY <1>1, <1>2, <1>4, <1>5, <1>6, <1>7, <1>8, <1>9
  DEF SuppressionsNext, AlertFires, AlertResolves, CookMatches, CookSuppresses, CookFinishes,
      SweepStarts, SweepCloses, SweepStops, windowVars, suppressionVars

(* finalize_expired_suppressions, _requeue_still_firing_events and         *)
(* upsert_plugin_suppressions: while a suppressed alert fires and has no   *)
(* order, a sweep that puts it back is still to come, unless its window    *)
(* was canceled after its silence had ended, stays behind the sweep's      *)
(* limit, or got the event after the sweep: however answers, operators,    *)
(* sweeps and failures interleave.                                         *)
THEOREM SuppressedComeBack == SuppressionsSpec => []SuppressionsKept
<1>1. SuppressionsInit => SuppressionsInv
  BY DEF SuppressionsInit, SuppressionsInv, OrderTypes, WindowTypes, HeldBack
<1>2. SuppressionsInv /\ [SuppressionsNext]_suppressionVars => SuppressionsInv'
  <2> SUFFICES ASSUME SuppressionsInv, [SuppressionsNext]_suppressionVars PROVE SuppressionsInv'
    OBVIOUS
  <2>2. ASSUME NEW w \in Windows,
               AskCreate(w) \/ AskUpdate(w) \/ AskExpire(w) \/ CreateSilence(w)
                 \/ UpdateSilence(w) \/ ExpireSilence(w) \/ RequestFails(w) \/ WindowEnds(w)
        PROVE  UNCHANGED << alertVars, sweepVars >>
    BY <2>2 DEF AskCreate, AskUpdate, AskExpire, CreateSilence, UpdateSilence, ExpireSilence,
                      RequestFails, WindowEnds
  <2>3. ASSUME SyncSilences \/ (\E i \in Answers : ApplyAnswer(i)) \/ UNCHANGED suppressionVars
        PROVE  UNCHANGED << alertVars, sweepVars >>
    BY <2>3 DEF SyncSilences, ApplyAnswer, suppressionVars, windowVars
  <2> QED
    BY <2>2, <2>3, OperatorStep, AlertStep, EventStep, SweepStep DEF SuppressionsNext
<1>3. SuppressionsInit => WindowsFit /\ AnswersFit /\ SilencesThere /\ CanceledAreOver
  <2> SUFFICES ASSUME SuppressionsInit
               PROVE  WindowsFit /\ AnswersFit /\ SilencesThere /\ CanceledAreOver
    OBVIOUS
  <2>1. WindowsFit
    BY DEF SuppressionsInit, WindowsFit, IsInjective
  <2>2. NoAnswer \in BroughtBack /\ DOMAIN NoAnswer = {}
    <3>1. {} \in SUBSET Windows /\ NoAnswer \in [{} -> {"active", "expired"}]
      BY DEF NoAnswer
    <3> QED
      BY <3>1 DEF BroughtBack
  <2>3. AnswersFit /\ SilencesThere /\ CanceledAreOver
    BY <2>2 DEF SuppressionsInit, AnswersFit, SilencesThere, CanceledAreOver
  <2> QED
    BY <2>1, <2>3
<1>4. WindowsFit /\ AnswersFit /\ SilencesThere /\ CanceledAreOver
          /\ [SuppressionsNext]_suppressionVars
        => WindowsFit' /\ AnswersFit' /\ SilencesThere' /\ CanceledAreOver'
  <2> SUFFICES ASSUME WindowsFit, AnswersFit, SilencesThere, CanceledAreOver,
                      [SuppressionsNext]_suppressionVars
               PROVE  WindowsFit' /\ AnswersFit' /\ SilencesThere' /\ CanceledAreOver'
    OBVIOUS
  <2>1. WindowsFit'
    BY WindowsFitStep
  <2>2. AnswersFit'
    BY AnswersFitStep
  <2>3. SilencesThere'
    BY SilencesThereStep
  <2>4. CanceledAreOver'
    BY CanceledAreOverStep
  <2> QED
    BY <2>1, <2>2, <2>3, <2>4
<1>5. SuppressionsInv /\ WindowsFit /\ AnswersFit => SuppressionsTypeOK
  BY DEF SuppressionsInv, OrderTypes, WindowTypes, WindowsFit, AnswersFit, BroughtBack,
         AlertOrders, SuppressionsTypeOK
<1>6. SuppressionsInv /\ CanceledAreOver => AlertsPutBack
  <2> SUFFICES ASSUME SuppressionsInv, CanceledAreOver, NEW w \in Windows, summary[w] # "closed"
               PROVE  SweepAhead(w) \/ LeftByCancel(w) \/ LeftByLimit(w)
    BY DEF SuppressionsInv, HeldBack, AlertsPutBack, LeftByRace
  <2>1. row[w].canceled => silence[w] = "expired"
    BY DEF CanceledAreOver
  <2> QED
    BY <2>1 DEF SweepAhead, LeftByCancel, LeftByLimit
<1>7. AlertsPutBack /\ SuppressionsTypeOK => SuppressionsKept
  BY DEF SuppressionsKept
<1> QED
  BY <1>1, <1>2, <1>3, <1>4, <1>5, <1>6, <1>7, PTL DEF SuppressionsSpec
=============================================================================
