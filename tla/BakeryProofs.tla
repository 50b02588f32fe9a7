---------------------------- MODULE BakeryProofs -----------------------------
(***************************************************************************)
(* Proofs about what Bakery is told, for any number of tasks, alerts,      *)
(* orders and steps: the credential of the monitor, the tickets of an      *)
(* alert, and the ticket of a recovered incident.                          *)
(***************************************************************************)
EXTENDS Monitor, Tickets, Incidents, TLAPS, FiniteSetTheorems,
  WellFoundedInduction, SequenceTheorems

-----------------------------------------------------------------------------
(* The monitor: the stored credential and the one Bakery accepts agree.    *)

(* The lock is held while a task has read the credential and not yet used  *)
(* or stored one, so that only one task registers at a time, and what it   *)
(* will store is what Bakery issued last.                                  *)
LockHeld ==
  \A t \in MonitorTasks : tasks[t].at \in {"holds", "registering"} => holder = t

NobodyRegisters == \A t \in MonitorTasks : tasks[t].at # "registering"

AnswerIsLast ==
  ~ disturbed =>
    /\ \A t \in MonitorTasks : tasks[t].at = "registering" => tasks[t].answer = issued
    /\ NobodyRegisters => stored = issued

MonitorInv == MonitorTypeOK /\ LockHeld /\ AnswerIsLast

(* A task that moves on is a task still.                                   *)
LEMMA TaskMoves ==
  ASSUME MonitorTypeOK, NEW t \in MonitorTasks, NEW to \in MonitorTask, Moves(t, to)
  PROVE  tasks' \in [MonitorTasks -> MonitorTask]
BY DEF MonitorTypeOK, Moves

(* Every step keeps the types.                                             *)
LEMMA MonitorTypeStep == MonitorTypeOK /\ [MonitorNext]_monitorVars => MonitorTypeOK'
<1> SUFFICES ASSUME MonitorTypeOK, [MonitorNext]_monitorVars PROVE MonitorTypeOK'
  OBVIOUS
<1>t. ASSUME NEW t \in MonitorTasks PROVE tasks[t] \in MonitorTask
  BY DEF MonitorTypeOK
<1>1. ASSUME NEW t \in MonitorTasks, BeginTask(t) PROVE MonitorTypeOK'
  <2>1. PICK kind \in {"heartbeat", "call", "probe"} :
          Moves(t, [Resting EXCEPT !.kind = kind, !.at = "wants"])
    BY <1>1 DEF BeginTask
  <2>2. [Resting EXCEPT !.kind = kind, !.at = "wants"] \in MonitorTask
    <3>1. NoCredential \in Credentials
      BY MonitorAssumption DEF NoCredential, Credentials
    <3> QED
      BY <3>1 DEF Resting, MonitorTask
  <2> QED
    BY <1>1, <2>1, <2>2, TaskMoves DEF BeginTask, MonitorTypeOK
<1>2. ASSUME NEW t \in MonitorTasks, ReadCredential(t) PROVE MonitorTypeOK'
  <2>1. [tasks[t] EXCEPT !.at = "holds", !.read = stored] \in MonitorTask
    BY <1>t DEF MonitorTypeOK, MonitorTask
  <2> QED
    BY <1>2, <2>1, TaskMoves DEF ReadCredential, EnterAlone, MonitorTypeOK
<1>3. ASSUME NEW t \in MonitorTasks, UseStored(t) PROVE MonitorTypeOK'
  <2>1. [tasks[t] EXCEPT !.at = "signed", !.with = tasks[t].read] \in MonitorTask
    BY <1>t DEF MonitorTask
  <2> QED
    BY <1>3, <2>1, TaskMoves DEF UseStored, Leave, MonitorTypeOK
<1>4. ASSUME NEW t \in MonitorTasks, SendRegistration(t) PROVE MonitorTypeOK'
  <2>1. issues + 1 \in Credentials
    BY <1>4, MonitorAssumption DEF SendRegistration, MonitorTypeOK, Credentials
  <2>2. [tasks[t] EXCEPT !.at = "registering", !.answer = issues + 1] \in MonitorTask
    BY <1>t, <2>1 DEF MonitorTask
  <2> QED
    BY <1>4, <2>1, <2>2, TaskMoves DEF SendRegistration, MonitorTypeOK
<1>5. ASSUME NEW t \in MonitorTasks, StoreCredential(t) PROVE MonitorTypeOK'
  <2>1. [tasks[t] EXCEPT !.at = "signed", !.with = tasks[t].answer] \in MonitorTask
    BY <1>t DEF MonitorTask
  <2>2. tasks[t].answer \in Credentials
    BY <1>t DEF MonitorTask
  <2> QED
    BY <1>5, <2>1, <2>2, TaskMoves DEF StoreCredential, Leave, MonitorTypeOK
<1>6. ASSUME NEW t \in MonitorTasks, RegistrationFails(t) PROVE MonitorTypeOK'
  <2>1. [tasks[t] EXCEPT !.at = "failed"] \in MonitorTask
    BY <1>t DEF MonitorTask
  <2> QED
    BY <1>6, <2>1, TaskMoves DEF RegistrationFails, Leave, MonitorTypeOK
<1>7. ASSUME NEW t \in MonitorTasks,
             BakeryAccepts(t) \/ BakeryRefuses(t) \/ BakeryUnreachable(t)
      PROVE MonitorTypeOK'
  <2>1. /\ [tasks[t] EXCEPT !.at = "done"] \in MonitorTask
        /\ [tasks[t] EXCEPT !.at = "failed"] \in MonitorTask
        /\ [tasks[t] EXCEPT !.at = "wants", !.force = TRUE] \in MonitorTask
    BY <1>t DEF MonitorTask
  <2> QED
    BY <1>7, <2>1, TaskMoves
       DEF BakeryAccepts, BakeryRefuses, BakeryUnreachable, MonitorTypeOK
<1>8. CASE BakeryDrops
  BY <1>8, MonitorAssumption DEF BakeryDrops, MonitorTypeOK, Credentials, NoCredential
<1>9. CASE RestartMonitor
  <2>1. NoCredential \in Credentials
    BY MonitorAssumption DEF NoCredential, Credentials
  <2>2. Resting \in MonitorTask
    BY <2>1 DEF Resting, MonitorTask
  <2> QED
    BY <1>9, <2>2 DEF RestartMonitor, MonitorTypeOK
<1>10. CASE UNCHANGED monitorVars
  BY <1>10 DEF monitorVars, MonitorTypeOK
<1> QED
  BY <1>1, <1>2, <1>3, <1>4, <1>5, <1>6, <1>7, <1>8, <1>9, <1>10 DEF MonitorNext

(* Every step of a task, of Bakery or of the replica keeps the lock and    *)
(* the answer it protects.                                                 *)
LEMMA MonitorStep ==
  MonitorInv /\ [MonitorNext]_monitorVars => LockHeld' /\ AnswerIsLast'
<1> SUFFICES ASSUME MonitorInv, [MonitorNext]_monitorVars PROVE LockHeld' /\ AnswerIsLast'
  OBVIOUS
<1> USE MonitorAssumption DEF MonitorInv, MonitorTypeOK, LockHeld, AnswerIsLast, NobodyRegisters
<1>1. ASSUME NEW t \in MonitorTasks, BeginTask(t) PROVE LockHeld' /\ AnswerIsLast'
  BY <1>1 DEF BeginTask, Moves, Resting
<1>2. ASSUME NEW t \in MonitorTasks, ReadCredential(t) PROVE LockHeld' /\ AnswerIsLast'
  BY <1>2 DEF ReadCredential, EnterAlone, Moves, Nobody
<1>3. ASSUME NEW t \in MonitorTasks, UseStored(t) PROVE LockHeld' /\ AnswerIsLast'
  BY <1>3 DEF UseStored, Leave, Moves
<1>4. ASSUME NEW t \in MonitorTasks, SendRegistration(t) PROVE LockHeld' /\ AnswerIsLast'
  BY <1>4 DEF SendRegistration, NeedsRegistration, Moves
<1>5. ASSUME NEW t \in MonitorTasks, StoreCredential(t) PROVE LockHeld' /\ AnswerIsLast'
  BY <1>5 DEF StoreCredential, Leave, Moves
<1>6. ASSUME NEW t \in MonitorTasks, RegistrationFails(t) PROVE LockHeld' /\ AnswerIsLast'
  <2>1. /\ tasks'[t].at = "failed"
        /\ \A u \in MonitorTasks \ {t} : tasks'[u] = tasks[u]
    BY <1>6 DEF RegistrationFails, Moves, MonitorTask
  <2>2. LockHeld'
    BY <1>6, <2>1 DEF RegistrationFails, Leave
  <2>3. CASE tasks[t].at = "registering"
    BY <1>6, <2>2, <2>3 DEF RegistrationFails
  <2>4. CASE tasks[t].at # "registering"
    BY <1>6, <2>1, <2>2, <2>4 DEF RegistrationFails
  <2> QED
    BY <2>3, <2>4
<1>7. ASSUME NEW t \in MonitorTasks,
             BakeryAccepts(t) \/ BakeryRefuses(t) \/ BakeryUnreachable(t)
      PROVE LockHeld' /\ AnswerIsLast'
  <2>1. /\ tasks[t].at = "signed"
        /\ tasks'[t].at \in {"done", "failed", "wants"}
        /\ \A u \in MonitorTasks \ {t} : tasks'[u] = tasks[u]
    <3>1. PICK x : x = tasks[t]
      OBVIOUS
    <3>2. x \in MonitorTask /\ DOMAIN tasks = MonitorTasks
      BY <3>1 DEF MonitorTypeOK
    <3>3. tasks[t].at = "signed"
      BY <1>7 DEF BakeryAccepts, BakeryRefuses, BakeryUnreachable
    <3>4. PICK y, z, v : /\ y = [x EXCEPT !.at = "done"] /\ z = [x EXCEPT !.at = "failed"]
                         /\ v = [x EXCEPT !.at = "wants", !.force = TRUE]
      OBVIOUS
    <3>5. y.at = "done" /\ z.at = "failed" /\ v.at = "wants"
      BY <3>2, <3>4 DEF MonitorTask
    <3>6. \/ tasks' = [tasks EXCEPT ![t] = y] \/ tasks' = [tasks EXCEPT ![t] = z]
          \/ tasks' = [tasks EXCEPT ![t] = v]
      BY <1>7, <3>1, <3>4 DEF BakeryAccepts, BakeryRefuses, BakeryUnreachable, Moves
    <3> QED
      BY <3>2, <3>3, <3>5, <3>6
  <2>2. UNCHANGED << stored, issued, holder, disturbed >>
    BY <1>7 DEF BakeryAccepts, BakeryRefuses, BakeryUnreachable
  <2> QED
    BY <2>1, <2>2
<1>8. CASE BakeryDrops
  BY <1>8 DEF BakeryDrops
<1>9. CASE RestartMonitor
  BY <1>9 DEF RestartMonitor, Resting
<1>10. CASE UNCHANGED monitorVars
  BY <1>10 DEF monitorVars
<1> QED
  BY <1>1, <1>2, <1>3, <1>4, <1>5, <1>6, <1>7, <1>8, <1>9, <1>10 DEF MonitorNext

(* bootstrap_monitor_credential under _REGISTER_LOCK: for any number of    *)
(* tasks, what the replica has stored is what Bakery accepts, as long as   *)
(* Bakery keeps what it issues and every answer arrives.                   *)
THEOREM StoredIsAccepted == MonitorSpec => []MonitorKept
<1>1. MonitorInit => MonitorInv
  <2> SUFFICES ASSUME MonitorInit PROVE MonitorInv
    OBVIOUS
  <2>1. NoCredential \in Credentials
    BY MonitorAssumption DEF NoCredential, Credentials
  <2>2. Resting \in MonitorTask
    BY <2>1 DEF Resting, MonitorTask
  <2>3. MonitorTypeOK
    BY <2>1, <2>2 DEF MonitorInit, MonitorTypeOK, NoCredential
  <2> QED
    BY <2>3 DEF MonitorInit, MonitorInv, LockHeld, AnswerIsLast, NobodyRegisters, Resting
<1>2. MonitorInv /\ [MonitorNext]_monitorVars => MonitorInv'
  BY MonitorTypeStep, MonitorStep DEF MonitorInv
<1>3. MonitorInv => MonitorKept
  BY DEF MonitorInv, AnswerIsLast, NobodyRegisters, CredentialsAgree, MonitorKept
<1> QED
  BY <1>1, <1>2, <1>3, PTL DEF MonitorSpec

-----------------------------------------------------------------------------
(* Tickets: an order opens one, and its steps write to tickets of its      *)
(* alert.                                                                  *)

(* A non-empty set of positions has a last one.                            *)
LEMMA LastPosition ==
  ASSUME NEW n \in Nat, NEW S \in SUBSET (1 .. n), S # {}
  PROVE  Max(S) \in S
<1> DEFINE T == {n - i : i \in S}
<1>1. T \in SUBSET Nat /\ T # {}
  <2>1. \A i \in S : n - i \in Nat
    OBVIOUS
  <2>2. PICK i \in S : TRUE
    OBVIOUS
  <2>3. n - i \in T
    OBVIOUS
  <2> QED
    BY <2>1, <2>3
<1>2. PICK t \in T : \A u \in T : ~(<< u, t >> \in OpToRel(<, Nat))
  BY <1>1, WFMin, NatLessThanWellFounded
<1>3. PICK i \in S : t = n - i
  OBVIOUS
<1>4. ASSUME NEW e \in S PROVE i >= e
  <2>1. n - e \in T /\ n - e \in Nat /\ t \in Nat
    BY <1>1
  <2>2. ~ (n - e < t)
    BY <1>2, <2>1 DEF OpToRel
  <2> QED
    BY <1>3, <2>2
<1> QED
  BY <1>3, <1>4 DEF Max

-----------------------------------------------------------------------------
(* A ticket that a step of order o may write to: one of the order's alert. *)
TicketOfAlert(o, t) ==
  t = NoTicket \/
    (/\ t \in DOMAIN tickets
     /\ alertOrders[tickets[t].order].fingerprint = alertOrders[o].fingerprint)

StepRecord ==
  [ order : Nat, op : Operations,
    stage : {"planned", "reopening", "sending", "polling", "ended"},
    ticket : Nat, reopen : BOOLEAN, sends : Nat, receipt : BOOLEAN, kept : Nat ]

(* What a step holds and keeps are tickets of its alert, and what Bakery   *)
(* answered to an open step stays with it.                                 *)
SoundStep(r) ==
  /\ r \in StepRecord
  /\ r.order \in DOMAIN alertOrders
  /\ TicketOfAlert(r.order, r.ticket) /\ TicketOfAlert(r.order, r.kept)
  /\ r.receipt /\ r.op = "open" => r.kept # NoTicket

TicketRecord == [order : Nat, key : Nat \X Operations \X Nat \X Nat]

(* A ticket's key names its order and nothing else, so that one key opens  *)
(* one ticket of the order.                                                *)
TicketsKeyed ==
  /\ tickets \in Seq(TicketRecord)
  /\ \A t \in DOMAIN tickets : /\ tickets[t].order \in DOMAIN alertOrders
                               /\ tickets[t].key = << tickets[t].order, "open", 0, 0 >>
  /\ OneTicketPerOrder

TicketsInv ==
  /\ alertOrders \in Seq(TicketOrder) /\ steps \in Seq(StepRecord)
  /\ TicketsKeyed
  /\ \A s \in StepIds : SoundStep(steps[s])

(* The invariant is what the property asks for.                            *)
LEMMA TicketsInvSuffices == TicketsInv => OneTicketPerOrder /\ OwnAlertsTickets /\ TicketRemembered
BY DEF TicketsInv, TicketsKeyed, SoundStep, TicketOfAlert, OwnAlertsTickets, TicketRemembered, StepOrder

(* Orders keep their fingerprints, tickets their orders: what was a ticket *)
(* of the alert remains one.                                               *)
Grows ==
  /\ DOMAIN alertOrders \subseteq DOMAIN alertOrders'
  /\ \A o \in DOMAIN alertOrders : alertOrders'[o].fingerprint = alertOrders[o].fingerprint
  /\ DOMAIN tickets \subseteq DOMAIN tickets'
  /\ \A t \in DOMAIN tickets : tickets'[t] = tickets[t]

(* A sound step remains one as the orders and tickets grow.                *)
LEMMA SoundStaysSound ==
  ASSUME TicketsInv, Grows, NEW r, SoundStep(r)
  PROVE  SoundStep(r)'
<1>1. ASSUME NEW t, r.order \in DOMAIN alertOrders, TicketOfAlert(r.order, t)
      PROVE  t = NoTicket \/
               (/\ t \in DOMAIN tickets'
                /\ alertOrders'[tickets'[t].order].fingerprint = alertOrders'[r.order].fingerprint)
  BY <1>1 DEF TicketsInv, TicketsKeyed, Grows, TicketOfAlert
<1>2. /\ r \in StepRecord /\ r.order \in DOMAIN alertOrders'
      /\ (r.receipt /\ r.op = "open" => r.kept # NoTicket)
  BY DEF SoundStep, Grows
<1> QED
  BY <1>1, <1>2 DEF SoundStep, TicketOfAlert

(* A step of the communication moves, sound as it was.                     *)
LEMMA OneStepMoves ==
  ASSUME TicketsInv, Grows, TicketsKeyed', UNCHANGED alertOrders,
         NEW s \in StepIds, NEW r, SoundStep(r)', steps' = [steps EXCEPT ![s] = r]
  PROVE  TicketsInv'
<1> USE DEF TicketsInv, StepIds
<1>1. r \in StepRecord /\ steps \in Seq(StepRecord)
  BY DEF SoundStep
<1>2. steps' \in Seq(StepRecord) /\ DOMAIN steps' = DOMAIN steps
  BY <1>1, ExceptSeq, LenProperties
<1>3. ASSUME NEW i \in DOMAIN steps' PROVE SoundStep(steps[i])'
  <2>1. PICK q : q = steps[i]
    OBVIOUS
  <2>2. SoundStep(q)'
    BY <1>2, <1>3, <2>1, SoundStaysSound
  <2>3. steps'[i] = IF i = s THEN r ELSE q
    BY <1>1, <1>2, <2>1, LenProperties
  <2> QED
    BY <2>2, <2>3 DEF SoundStep, TicketOfAlert
<1> QED
  BY <1>2, <1>3

(* The same of a step that leaves the tickets as they are.                 *)
LEMMA OneStepAlone ==
  ASSUME TicketsInv, NEW s \in StepIds, NEW r, SoundStep(r),
         steps' = [steps EXCEPT ![s] = r], UNCHANGED << alertOrders, tickets >>
  PROVE  TicketsInv'
<1>1. Grows
  BY DEF Grows
<1>2. TicketsKeyed'
  BY DEF TicketsInv, TicketsKeyed, OneTicketPerOrder
<1>3. SoundStep(r)'
  BY DEF SoundStep, TicketOfAlert
<1> QED
  BY <1>1, <1>2, <1>3, OneStepMoves

(* Orders open and end, and tickets stay.                                  *)
LEMMA OrdersMove ==
  ASSUME TicketsInv, Grows, alertOrders' \in Seq(TicketOrder), UNCHANGED << steps, tickets >>
  PROVE  TicketsInv'
<1> USE DEF TicketsInv, StepIds
<1>1. TicketsKeyed'
  BY DEF TicketsKeyed, OneTicketPerOrder, Grows
<1>2. ASSUME NEW i \in DOMAIN steps' PROVE SoundStep(steps[i])'
  <2>1. PICK q : q = steps[i]
    OBVIOUS
  <2>2. SoundStep(q)'
    BY <1>2, <2>1, SoundStaysSound
  <2> QED
    BY <2>1, <2>2 DEF SoundStep, TicketOfAlert
<1> QED
  BY <1>1, <1>2

-----------------------------------------------------------------------------
(* The ticket that the orchestrator names to a step is one of its alert.   *)
LEMMA OwnTicketOfAlert ==
  ASSUME TicketsInv, NEW s \in StepIds
  PROVE  TicketOfAlert(steps[s].order, OwnTicket(s))
<1> USE DEF StepIds
<1> DEFINE mine == Keeping({i \in StepIds \ {s} : steps[i].order = steps[s].order})
<1>1. mine \subseteq 1 .. Len(steps) /\ Len(steps) \in Nat
  BY LenProperties DEF TicketsInv, Keeping
<1>2. CASE mine = {}
  BY <1>2 DEF OwnTicket, TicketOfAlert
<1>3. CASE mine # {}
  <2>1. Max(mine) \in mine
    <3> HIDE DEF mine
    <3> QED
      BY <1>1, <1>3, LastPosition
  <2>2. Max(mine) \in StepIds /\ steps[Max(mine)].order = steps[s].order
    BY <2>1 DEF Keeping
  <2>3. OwnTicket(s) = steps[Max(mine)].kept
    BY <1>3 DEF OwnTicket
  <2> HIDE DEF mine
  <2> QED
    BY <2>2, <2>3 DEF TicketsInv, SoundStep
<1> QED
  BY <1>2, <1>3

(* The ticket of an earlier order is one of the same alert.                *)
LEMMA PriorTicketOfAlert ==
  ASSUME TicketsInv, NEW s \in StepIds
  PROVE  TicketOfAlert(steps[s].order, PriorTicket(s))
<1> USE DEF StepIds
<1> DEFINE S == Keeping({i \in StepIds :
                  /\ steps[i].order # steps[s].order
                  /\ StepOrder(i).fingerprint = StepOrder(s).fingerprint})
           O == {steps[i].order : i \in S}
           R == {i \in S : steps[i].order = Max(O)}
<1>1. PriorTicket(s) = Newest(S)
  BY DEF PriorTicket
<1>2. S \subseteq StepIds /\ \A i \in S : StepOrder(i).fingerprint = StepOrder(s).fingerprint
  BY DEF Keeping
<1> HIDE DEF S
<1>3. CASE S = {}
  BY <1>1, <1>3 DEF Newest, TicketOfAlert
<1>4. CASE S # {}
  <2>0. alertOrders \in Seq(TicketOrder) /\ \A i \in S : steps[i].order \in DOMAIN alertOrders
    BY <1>2 DEF TicketsInv, SoundStep
  <2>1. O \subseteq 1 .. Len(alertOrders) /\ O # {} /\ Len(alertOrders) \in Nat
    BY <1>4, <2>0, LenProperties
  <2>2. Max(O) \in O
    <3> HIDE DEF O
    <3> QED
      BY <2>1, LastPosition
  <2>3. R # {} /\ R \subseteq 1 .. Len(steps) /\ Len(steps) \in Nat
    BY <1>2, <2>2, LenProperties DEF TicketsInv
  <2>4. Max(R) \in R
    <3> HIDE DEF R
    <3> QED
      BY <2>3, LastPosition
  <2>5. PriorTicket(s) = steps[Max(R)].kept
    BY <1>1, <1>4 DEF Newest
  <2>6. Max(R) \in S
    BY <2>4
  <2> HIDE DEF R, O
  <2>7. TicketOfAlert(steps[Max(R)].order, steps[Max(R)].kept)
    BY <1>2, <2>6 DEF TicketsInv, SoundStep
  <2> QED
    BY <1>2, <2>5, <2>6, <2>7 DEF TicketOfAlert, StepOrder
<1> QED
  BY <1>3, <1>4

-----------------------------------------------------------------------------
(* Orders.                                                                 *)
LEMMA OrderOpensStep == TicketsInv /\ TicketOrderOpens => TicketsInv'
<1> SUFFICES ASSUME TicketsInv, TicketOrderOpens PROVE TicketsInv'
  OBVIOUS
<1>1. PICK o \in TicketOrder : alertOrders' = Append(alertOrders, o)
  BY DEF TicketOrderOpens, TicketOrder
<1>2. alertOrders \in Seq(TicketOrder)
  BY DEF TicketsInv
<1>3. alertOrders' \in Seq(TicketOrder) /\ Grows
  BY <1>1, <1>2, AppendProperties, LenProperties DEF Grows, TicketOrderOpens
<1> QED
  BY <1>3, OrdersMove DEF TicketOrderOpens

(* An order that ends keeps its fingerprint.                               *)
LEMMA OrderEndsStep ==
  ASSUME TicketsInv, NEW o \in DOMAIN alertOrders, TicketOrderEnds(o)
  PROVE  TicketsInv'
<1>1. /\ alertOrders \in Seq(TicketOrder) /\ alertOrders[o] \in TicketOrder
      /\ o \in 1 .. Len(alertOrders) /\ DOMAIN alertOrders = 1 .. Len(alertOrders)
  BY ElementOfSeq, LenProperties DEF TicketsInv
<1>2. PICK q : q = [alertOrders[o] EXCEPT !.active = FALSE]
  OBVIOUS
<1>3. q \in TicketOrder /\ q.fingerprint = alertOrders[o].fingerprint
  BY <1>1, <1>2 DEF TicketOrder
<1>4. alertOrders' = [alertOrders EXCEPT ![o] = q]
  BY <1>2 DEF TicketOrderEnds
<1>5. /\ alertOrders' \in Seq(TicketOrder) /\ Len(alertOrders') = Len(alertOrders)
      /\ \A p \in 1 .. Len(alertOrders) : alertOrders'[p] = IF p = o THEN q ELSE alertOrders[p]
  BY <1>1, <1>3, <1>4, ExceptSeq
<1>6. Grows
  BY <1>1, <1>3, <1>5, LenProperties DEF Grows, TicketOrderEnds
<1> QED
  BY <1>5, <1>6, OrdersMove DEF TicketOrderEnds

(* A dish plans a step, which has no ticket yet.                           *)
LEMMA PlanMoves ==
  ASSUME TicketsInv, NEW o \in DOMAIN alertOrders, NEW op \in Operations, PlanCommunication(o, op)
  PROVE  TicketsInv'
<1> USE DEF TicketsInv, StepIds
<1>1. PICK r : r = [ order |-> o, op |-> op, stage |-> "planned", ticket |-> NoTicket,
                     reopen |-> FALSE, sends |-> 0, receipt |-> FALSE, kept |-> NoTicket ]
  OBVIOUS
<1>2. steps' = Append(steps, r) /\ UNCHANGED << alertOrders, tickets >>
  BY <1>1 DEF PlanCommunication
<1>3. o \in Nat
  BY LenProperties
<1>4. SoundStep(r) /\ r \in StepRecord
  BY <1>1, <1>3 DEF SoundStep, StepRecord, TicketOfAlert, NoTicket
<1>5. /\ steps' \in Seq(StepRecord)
      /\ \A i \in DOMAIN steps' : SoundStep(steps'[i])
  BY <1>2, <1>4, AppendProperties, LenProperties
<1>6. \A i \in DOMAIN steps' : SoundStep(steps[i])'
  BY <1>2, <1>5 DEF SoundStep, TicketOfAlert
<1>7. TicketsKeyed'
  BY <1>2 DEF TicketsKeyed, OneTicketPerOrder
<1> QED
  BY <1>2, <1>5, <1>6, <1>7

(* A call that is repeated, and one that was answered with a ticket: both  *)
(* leave what the step is about as it was.                                 *)
LEMMA AgainRecord ==
  ASSUME NEW q \in StepRecord
  PROVE  /\ Again(q) \in StepRecord
         /\ Again(q).order = q.order /\ Again(q).op = q.op /\ Again(q).ticket = q.ticket
         /\ Again(q).receipt = q.receipt /\ Again(q).kept = q.kept
<1>1. q.sends + 1 \in Nat
  BY DEF StepRecord
<1>2. PICK stage \in {"ended", "reopening", "sending"} :
        Again(q) = [q EXCEPT !.sends = @ + 1, !.stage = stage]
  BY DEF Again
<1>3. Again(q) = [q EXCEPT !.sends = q.sends + 1, !.stage = stage]
  BY <1>2
<1> QED
  BY <1>1, <1>3 DEF StepRecord

(* An accepted call's step has the receipt, and an open one its ticket.    *)
LEMMA AcceptedRecord ==
  ASSUME NEW q \in StepRecord, NEW t \in Nat
  PROVE  /\ Accepted(q, t) \in StepRecord
         /\ Accepted(q, t).order = q.order /\ Accepted(q, t).op = q.op
         /\ Accepted(q, t).ticket = q.ticket
         /\ Accepted(q, t).kept = IF q.op = "open" THEN t ELSE NoTicket
<1>1. PICK k : k = IF q.op = "open" THEN t ELSE NoTicket
  OBVIOUS
<1>2. k \in Nat
  BY <1>1 DEF NoTicket
<1>3. Accepted(q, t) = [q EXCEPT !.stage = "polling", !.receipt = TRUE, !.kept = k]
  BY <1>1 DEF Accepted
<1> QED
  BY <1>1, <1>2, <1>3 DEF StepRecord

(* The step is handed its ticket.                                          *)
LEMMA SendMoves ==
  ASSUME TicketsInv, NEW s \in StepIds, SendStep(s)
  PROVE  TicketsInv'
<1> DEFINE tid == IF Reused(s) THEN PriorTicket(s) ELSE OwnTicket(s)
<1>1. TicketOfAlert(steps[s].order, tid)
  BY OwnTicketOfAlert, PriorTicketOfAlert
<1>2. tid \in Nat
  BY <1>1, LenProperties DEF TicketOfAlert, TicketsInv, TicketsKeyed, NoTicket
<1>3. SoundStep(steps[s]) /\ steps[s] \in StepRecord
  BY DEF TicketsInv, SoundStep
<1>4. Reused(s) \in BOOLEAN
  BY DEF Reused
<1> HIDE DEF tid
<1>5. PICK stage \in {"ended", "reopening", "sending"} :
        steps' = [steps EXCEPT ![s] =
                    [@ EXCEPT !.stage = stage, !.ticket = tid, !.reopen = Reused(s)]]
  BY DEF SendStep, tid
<1>6. PICK r : r = [steps[s] EXCEPT !.stage = stage, !.ticket = tid, !.reopen = Reused(s)]
  OBVIOUS
<1>7. /\ r \in StepRecord /\ r.order = steps[s].order /\ r.ticket = tid /\ r.op = steps[s].op
      /\ r.kept = steps[s].kept /\ r.receipt = steps[s].receipt
  BY <1>2, <1>3, <1>4, <1>6 DEF StepRecord
<1>8. SoundStep(r)
  BY <1>1, <1>3, <1>7 DEF SoundStep
<1>9. steps' = [steps EXCEPT ![s] = r]
  BY <1>5, <1>6
<1> QED
  BY <1>8, <1>9, OneStepAlone DEF SendStep

(* Bakery opens a ticket, or finds the one it opened for the key.          *)
LEMMA OpenMoves ==
  ASSUME TicketsInv, NEW s \in StepIds, OpenTicket(s)
  PROVE  TicketsInv'
<1> DEFINE known == {t \in DOMAIN tickets : tickets[t].key = StepKey(s)}
           tid == IF known = {} THEN Len(tickets) + 1 ELSE Max(known)
           opens == [order |-> steps[s].order, key |-> StepKey(s)]
<1>0. /\ SoundStep(steps[s]) /\ tickets \in Seq(TicketRecord) /\ Len(tickets) \in Nat
      /\ DOMAIN tickets = 1 .. Len(tickets) /\ alertOrders \in Seq(TicketOrder)
  BY LenProperties DEF TicketsInv, TicketsKeyed
<1>1. /\ StepKey(s) = << steps[s].order, "open", 0, 0 >>
      /\ tickets' = IF known = {} THEN Append(tickets, opens) ELSE tickets
      /\ steps' = [steps EXCEPT ![s] = Accepted(@, tid)] \/ steps' = [steps EXCEPT ![s] = Again(@)]
      /\ UNCHANGED alertOrders
  BY DEF OpenTicket, StepKey
<1>2. opens \in TicketRecord
  BY <1>0, <1>1 DEF SoundStep, StepRecord, TicketRecord, Operations
<1>3. \A t \in DOMAIN tickets : tickets[t].order = steps[s].order => t \in known
  BY <1>1 DEF TicketsInv, TicketsKeyed
<1>4. \A t \in known : t \in DOMAIN tickets /\ tickets[t].order = steps[s].order
  BY <1>1 DEF TicketsInv, TicketsKeyed
<1>5. TicketsKeyed' /\ Grows /\ tid \in Nat \ {NoTicket} /\ tid \in DOMAIN tickets'
      /\ tickets'[tid].order = steps[s].order
  <2>1. CASE known = {}
    <3>1. tickets' = Append(tickets, opens) /\ tid = Len(tickets) + 1
      BY <1>1, <2>1
    <3>2. /\ tickets' \in Seq(TicketRecord) /\ Len(tickets') = Len(tickets) + 1
          /\ \A t \in 1 .. Len(tickets) : tickets'[t] = tickets[t]
          /\ tickets'[tid] = opens
      BY <1>0, <1>2, <3>1, AppendProperties
    <3>3. DOMAIN tickets' = 1 .. (Len(tickets) + 1)
      BY <3>2, LenProperties
    <3>4. Grows
      <4>1. DOMAIN tickets \subseteq DOMAIN tickets'
        BY <1>0, <3>3
      <4>2. \A t \in DOMAIN tickets : tickets'[t] = tickets[t]
        BY <1>0, <3>2
      <4> QED
        BY <1>1, <4>1, <4>2 DEF Grows
    <3>5. \A t \in DOMAIN tickets' : t = tid \/ t \in DOMAIN tickets
      BY <1>0, <3>1, <3>3
    <3>6. steps[s].order \in DOMAIN alertOrders
      BY <1>0 DEF SoundStep
    <3>7. \A t \in DOMAIN tickets' : /\ tickets'[t].order \in DOMAIN alertOrders'
                                     /\ tickets'[t].key = << tickets'[t].order, "open", 0, 0 >>
      <4>1. opens.order = steps[s].order /\ opens.key = << opens.order, "open", 0, 0 >>
        BY <1>1
      <4>2. ASSUME NEW t \in DOMAIN tickets
            PROVE  /\ tickets'[t].order \in DOMAIN alertOrders
                   /\ tickets'[t].key = << tickets'[t].order, "open", 0, 0 >>
        BY <1>0, <3>2 DEF TicketsInv, TicketsKeyed
      <4> HIDE DEF tid, known, opens
      <4> QED
        BY <1>1, <3>2, <3>5, <3>6, <4>1, <4>2
    <3>8. OneTicketPerOrder'
      BY <1>0, <1>3, <2>1, <3>2, <3>5 DEF TicketsInv, TicketsKeyed, OneTicketPerOrder
    <3>9. tid \in Nat \ {NoTicket} /\ tid \in DOMAIN tickets'
      BY <1>0, <3>1, <3>3 DEF NoTicket
    <3> QED
      BY <3>2, <3>4, <3>7, <3>8, <3>9 DEF TicketsKeyed
  <2>2. CASE known # {}
    <3>1. tickets' = tickets /\ tid = Max(known)
      BY <1>1, <2>2
    <3>2. Max(known) \in known
      <4>1. known \subseteq 1 .. Len(tickets)
        BY <1>0
      <4> HIDE DEF known
      <4> QED
        BY <1>0, <2>2, <4>1, LastPosition
    <3>3. tid \in DOMAIN tickets /\ tickets[tid].order = steps[s].order
      BY <1>4, <3>1, <3>2
    <3>4. TicketsKeyed' /\ Grows
      BY <1>1, <3>1 DEF TicketsInv, TicketsKeyed, OneTicketPerOrder, Grows
    <3> HIDE DEF tid
    <3> QED
      BY <1>0, <3>1, <3>3, <3>4 DEF NoTicket
  <2> QED
    BY <2>1, <2>2
<1> HIDE DEF tid, known, opens
<1>6. PICK t : t = tid
  OBVIOUS
<1>7. PICK q : q = steps[s]
  OBVIOUS
<1>8. SoundStep(q)'
  BY <1>0, <1>5, <1>7, SoundStaysSound
<1>9. TicketOfAlert(q.order, t)'
  BY <1>5, <1>6, <1>7, <1>8 DEF TicketOfAlert
<1>10. SoundStep(Accepted(q, t))' /\ SoundStep(Again(q))'
  <2>1. q \in StepRecord /\ t \in Nat /\ t # NoTicket
    BY <1>5, <1>6, <1>8 DEF SoundStep
  <2>2. SoundStep(Again(q))'
    BY <1>8, <2>1, AgainRecord DEF SoundStep, TicketOfAlert
  <2>3. SoundStep(Accepted(q, t))'
    BY <1>8, <1>9, <2>1, AcceptedRecord DEF SoundStep, TicketOfAlert
  <2> QED
    BY <2>2, <2>3
<1>11. PICK r : r \in {Accepted(q, t), Again(q)} /\ steps' = [steps EXCEPT ![s] = r]
  BY <1>1, <1>6, <1>7
<1>12. SoundStep(r)'
  BY <1>10, <1>11
<1> QED
  BY <1>1, <1>5, <1>11, <1>12, OneStepMoves

(* The calls on a ticket that is there, and the end of the step.           *)
LEMMA TellMoves ==
  ASSUME TicketsInv, NEW s \in StepIds,
         ReopenStepTicket(s) \/ TellTicket(s) \/ SendFails(s) \/ StepEnds(s)
  PROVE  TicketsInv'
<1>0. PICK q : q = steps[s]
  OBVIOUS
<1>1. SoundStep(q) /\ q \in StepRecord
  BY <1>0 DEF TicketsInv, SoundStep
<1>2. SoundStep(Again(q))
  BY <1>1, AgainRecord DEF SoundStep
<1>3. ASSUME NEW stage \in {"sending", "ended"} PROVE SoundStep([q EXCEPT !.stage = stage])
  <2>1. PICK r : r = [q EXCEPT !.stage = stage]
    OBVIOUS
  <2>2. /\ r \in StepRecord /\ r.order = q.order /\ r.op = q.op /\ r.ticket = q.ticket
        /\ r.receipt = q.receipt /\ r.kept = q.kept
    BY <1>1, <2>1 DEF StepRecord
  <2> QED
    BY <1>1, <2>1, <2>2 DEF SoundStep
<1>4. ASSUME q.ticket # NoTicket PROVE SoundStep(Accepted(q, q.ticket))
  <2>1. q.ticket \in Nat /\ q.ticket # NoTicket /\ TicketOfAlert(q.order, q.ticket)
    BY <1>1, <1>4 DEF SoundStep, StepRecord
  <2> QED
    BY <1>1, <2>1, AcceptedRecord DEF SoundStep, TicketOfAlert
<1>5. PICK r : SoundStep(r) /\ steps' = [steps EXCEPT ![s] = r]
  <2>1. CASE ReopenStepTicket(s)
    BY <1>0, <1>2, <1>3, <2>1 DEF ReopenStepTicket
  <2>2. CASE TellTicket(s)
    BY <1>0, <1>2, <1>4, <2>2 DEF TellTicket
  <2>3. CASE SendFails(s)
    BY <1>0, <1>2, <2>3 DEF SendFails
  <2>4. CASE StepEnds(s)
    BY <1>0, <1>3, <2>4 DEF StepEnds, OutcomeMerged
  <2> QED
    BY <2>1, <2>2, <2>3, <2>4
<1>6. UNCHANGED << alertOrders, tickets >>
  BY DEF ReopenStepTicket, TellTicket, SendFails, StepEnds
<1> QED
  BY <1>5, <1>6, OneStepAlone

-----------------------------------------------------------------------------
(* The bounds of the types: orders, steps, and the attempts of a step,     *)
(* which has some left until it ended.                                     *)
SendsFit(r) ==
  /\ r.sends <= MaxSends
  /\ r.stage # "ended" => r.sends < MaxSends

TicketsFit ==
  /\ Len(alertOrders) <= MaxTicketOrders /\ Len(steps) <= MaxSteps
  /\ \A s \in StepIds : SendsFit(steps[s])

(* A call that is repeated counts, and one that is not does not.           *)
LEMMA AgainFits ==
  ASSUME NEW q \in StepRecord, SendsFit(q), q.stage # "ended"
  PROVE  SendsFit(Again(q))
<1>1. /\ Again(q).sends = q.sends + 1 /\ q.sends \in Nat
      /\ Again(q).stage = "ended" \/ q.sends + 1 # MaxSends
  BY DEF Again, StepRecord
<1>2. q.sends + 1 <= MaxSends
  BY <1>1, TicketsAssumption DEF SendsFit
<1> QED
  BY <1>1, <1>2, TicketsAssumption DEF SendsFit

LEMMA AcceptedFits ==
  ASSUME NEW q \in StepRecord, SendsFit(q), q.stage # "ended", NEW t
  PROVE  SendsFit(Accepted(q, t))
<1>1. Accepted(q, t).sends = q.sends
  BY DEF Accepted, StepRecord
<1> QED
  BY <1>1, TicketsAssumption DEF SendsFit, StepRecord

(* One step moves and the others stay.                                     *)
LEMMA OneStepFits ==
  ASSUME TicketsInv, TicketsFit, NEW s \in StepIds, NEW r, SendsFit(r),
         steps' = [steps EXCEPT ![s] = r], UNCHANGED alertOrders
  PROVE  TicketsFit'
<1>1. /\ DOMAIN steps' = DOMAIN steps /\ Len(steps') = Len(steps)
      /\ steps'[s] = r /\ \A i \in DOMAIN steps \ {s} : steps'[i] = steps[i]
  BY DEF TicketsInv, StepIds
<1> QED
  BY <1>1 DEF TicketsFit, StepIds, SendsFit

LEMMA TicketsFitStep ==
  ASSUME TicketsInv, TicketsFit, [TicketsNext]_ticketVars
  PROVE  TicketsFit'
<1>0. /\ alertOrders \in Seq(TicketOrder) /\ steps \in Seq(StepRecord)
      /\ \A s \in StepIds : steps[s] \in StepRecord /\ SendsFit(steps[s])
  BY DEF TicketsInv, TicketsFit, StepIds
<1>1. CASE TicketOrderOpens
  <2>1. Len(alertOrders') = Len(alertOrders) + 1 /\ Len(alertOrders) < MaxTicketOrders /\ steps' = steps
    BY <1>0, <1>1 DEF TicketOrderOpens
  <2>2. Len(alertOrders) \in Nat
    BY <1>0
  <2> QED
    BY <2>1, <2>2, TicketsAssumption DEF TicketsFit, StepIds, SendsFit
<1>2. ASSUME NEW o \in DOMAIN alertOrders, TicketOrderEnds(o) PROVE TicketsFit'
  <2>1. Len(alertOrders') = Len(alertOrders) /\ steps' = steps
    BY <1>0, <1>2 DEF TicketOrderEnds
  <2> QED
    BY <2>1 DEF TicketsFit, StepIds, SendsFit
<1>3. ASSUME NEW o \in DOMAIN alertOrders, NEW op \in Operations, PlanCommunication(o, op)
      PROVE  TicketsFit'
  <2>1. PICK r : /\ steps' = Append(steps, r) /\ r.sends = 0 /\ Len(steps) < MaxSteps
                 /\ alertOrders' = alertOrders
    BY <1>3 DEF PlanCommunication
  <2> DEFINE n == Len(steps) + 1
  <2>2. /\ Len(steps') = n /\ DOMAIN steps' = DOMAIN steps \cup {n} /\ steps'[n] = r
        /\ \A i \in DOMAIN steps : steps'[i] = steps[i] /\ Len(steps) \in Nat
    BY <1>0, <2>1
  <2>3. SendsFit(r) /\ n <= MaxSteps
    BY <1>0, <2>1, <2>2, TicketsAssumption DEF SendsFit
  <2> QED
    BY <2>1, <2>2, <2>3 DEF TicketsFit, StepIds, SendsFit
<1>4. ASSUME NEW s \in StepIds, SendStep(s) PROVE TicketsFit'
  <2>1. PICK r : /\ steps' = [steps EXCEPT ![s] = r] /\ r.sends = steps[s].sends
                 /\ steps[s].stage = "planned" /\ alertOrders' = alertOrders
    <3>1. PICK stage, tid : steps' = [steps EXCEPT ![s] =
                              [@ EXCEPT !.stage = stage, !.ticket = tid, !.reopen = Reused(s)]]
      BY <1>4 DEF SendStep
    <3>2. [steps[s] EXCEPT !.stage = stage, !.ticket = tid, !.reopen = Reused(s)].sends = steps[s].sends
      BY <1>0 DEF StepRecord
    <3> QED
      BY <1>4, <3>1, <3>2 DEF SendStep
  <2>2. SendsFit(r)
    BY <1>0, <2>1, TicketsAssumption DEF SendsFit, StepRecord
  <2> QED
    BY <2>1, <2>2, OneStepFits
<1>5. ASSUME NEW s \in StepIds, steps[s].stage # "ended", steps' = [steps EXCEPT ![s] = Again(@)],
             UNCHANGED alertOrders
      PROVE  TicketsFit'
  <2>1. SendsFit(Again(steps[s]))
    BY <1>0, <1>5, AgainFits
  <2> QED
    BY <1>5, <2>1, OneStepFits
<1>6. ASSUME NEW s \in StepIds, NEW t, steps[s].stage # "ended",
             steps' = [steps EXCEPT ![s] = Accepted(@, t)], UNCHANGED alertOrders
      PROVE  TicketsFit'
  <2>1. SendsFit(Accepted(steps[s], t))
    BY <1>0, <1>6, AcceptedFits
  <2> QED
    BY <1>6, <2>1, OneStepFits
<1>7. ASSUME NEW s \in StepIds, OpenTicket(s) \/ TellTicket(s) \/ SendFails(s) PROVE TicketsFit'
  <2>1. steps[s].stage # "ended" /\ UNCHANGED alertOrders
    BY <1>7 DEF OpenTicket, TellTicket, SendFails
  <2>2. \/ steps' = [steps EXCEPT ![s] = Again(@)]
        \/ \E t : steps' = [steps EXCEPT ![s] = Accepted(@, t)]
    BY <1>7 DEF OpenTicket, TellTicket, SendFails
  <2> QED
    BY <1>5, <1>6, <2>1, <2>2
<1>8. ASSUME NEW s \in StepIds, ReopenStepTicket(s) PROVE TicketsFit'
  <2>1. steps[s].stage = "reopening" /\ UNCHANGED alertOrders
    BY <1>8 DEF ReopenStepTicket
  <2>2. CASE steps' = [steps EXCEPT ![s] = Again(@)]
    BY <1>5, <2>1, <2>2
  <2>3. CASE steps' = [steps EXCEPT ![s].stage = "sending"]
    <3>1. PICK r : r = [steps[s] EXCEPT !.stage = "sending"]
      OBVIOUS
    <3>2. r.sends = steps[s].sends /\ steps' = [steps EXCEPT ![s] = r]
      BY <1>0, <2>3, <3>1 DEF StepRecord
    <3>3. SendsFit(r)
      BY <1>0, <2>1, <3>2, TicketsAssumption DEF SendsFit, StepRecord
    <3> QED
      BY <2>1, <3>2, <3>3, OneStepFits
  <2> QED
    BY <1>8, <2>2, <2>3 DEF ReopenStepTicket
<1>9. ASSUME NEW s \in StepIds, StepEnds(s) PROVE TicketsFit'
  <2>1. PICK r : r = [steps[s] EXCEPT !.stage = "ended"]
    OBVIOUS
  <2>2. /\ r.sends = steps[s].sends /\ r.stage = "ended" /\ steps' = [steps EXCEPT ![s] = r]
        /\ UNCHANGED alertOrders
    BY <1>0, <1>9, <2>1 DEF StepEnds, OutcomeMerged, StepRecord
  <2>3. SendsFit(r)
    BY <1>0, <2>2 DEF SendsFit
  <2> QED
    BY <2>2, <2>3, OneStepFits
<1>10. CASE UNCHANGED ticketVars
  BY <1>10 DEF ticketVars, TicketsFit, StepIds, SendsFit
<1> QED
  BY <1>1, <1>2, <1>3, <1>4, <1>7, <1>8, <1>9, <1>10 DEF TicketsNext

(* However often an order repeats its open step, in another dish or after  *)
(* an answer that was lost, it has one ticket of its own, no step writes to*)
(* another alert's, and a step that Bakery accepted names its ticket       *)
(* (bakery/adapter.py, client.py, _prior_bakery_ticket_id), for any number *)
(* of alerts, orders, steps and repetitions.                               *)
THEOREM TicketsStayInStep == TicketsSpec => []TicketsKept
<1>1. TicketsInit => TicketsInv
  BY EmptySeq DEF TicketsInit, TicketsInv, TicketsKeyed, OneTicketPerOrder, StepIds
<1>2. TicketsInv /\ [TicketsNext]_ticketVars => TicketsInv'
  <2> SUFFICES ASSUME TicketsInv, [TicketsNext]_ticketVars PROVE TicketsInv'
    OBVIOUS
  <2>1. CASE UNCHANGED ticketVars
    BY <2>1 DEF ticketVars, TicketsInv, TicketsKeyed, OneTicketPerOrder, SoundStep, TicketOfAlert, StepIds
  <2> QED
    BY <2>1, OrderOpensStep, OrderEndsStep, PlanMoves, SendMoves, OpenMoves, TellMoves DEF TicketsNext
<1>3. TicketsInit => TicketsFit
  <2> SUFFICES ASSUME TicketsInit PROVE TicketsFit
    OBVIOUS
  <2>1. Len(alertOrders) = 0 /\ Len(steps) = 0 /\ DOMAIN steps = {}
    BY DEF TicketsInit
  <2> QED
    BY <2>1, TicketsAssumption DEF TicketsFit, StepIds
<1>4. TicketsInv /\ TicketsFit /\ [TicketsNext]_ticketVars => TicketsFit'
  BY TicketsFitStep
<1>5. TicketsInv /\ TicketsFit => TicketsTypeOK
  <2> SUFFICES ASSUME TicketsInv, TicketsFit PROVE TicketsTypeOK
    OBVIOUS
  <2>1. ASSUME NEW s \in StepIds PROVE steps[s] \in Step
    <3>1. /\ steps[s] \in StepRecord /\ steps[s].order \in DOMAIN alertOrders
          /\ steps[s].ticket \in Named /\ steps[s].kept \in Named
      BY DEF TicketsInv, SoundStep, TicketOfAlert, Named
    <3>2. steps[s].order \in 1 .. MaxTicketOrders
      BY <3>1, TicketsAssumption DEF TicketsInv, TicketsFit
    <3>3. steps[s].sends \in 0 .. MaxSends
      BY <3>1, TicketsAssumption DEF TicketsFit, SendsFit, StepRecord
    <3> QED
      BY <3>1, <3>2, <3>3 DEF Step, StepRecord
  <2>2. steps \in Seq(Step)
    BY <2>1 DEF TicketsInv, StepIds
  <2> QED
    BY <2>2 DEF TicketsInv, TicketsFit, TicketsKeyed, TicketsTypeOK
<1>6. TicketsInv /\ TicketsTypeOK => TicketsKept
  BY TicketsInvSuffices DEF TicketsKept
<1> QED
  BY <1>1, <1>2, <1>3, <1>4, <1>5, <1>6, PTL DEF TicketsSpec

-----------------------------------------------------------------------------
(* Incidents: a ticket is told once of a clearing.                         *)

(* What the next commit will leave in the row: the pass's own copy of the  *)
(* metadata while one is under way.                                        *)
Remembered == IF pass = NoPass THEN meta ELSE pass.meta

IncidentRecords ==
  /\ incident \in Incident /\ meta \in Metadata /\ pass \in {NoPass} \cup Passes
  /\ ticket \in {"open", "closed", "cancelled"}
  /\ cleared \in BOOLEAN /\ repeated \in BOOLEAN
  /\ successors \in 0 .. MaxSuccessors /\ unheard \in 0 .. MaxSuccessors

(* The row remembers what the ticket was told, and the one successor that  *)
(* no answer went unheard for.                                             *)
NothingForgotten ==
  /\ cleared => Remembered.note = "resolved"
  /\ unheard = successors \/ (unheard + 1 = successors /\ Remembered.succeeded)

IncidentInv == IncidentRecords /\ NothingForgotten /\ ~ repeated

(* A pass that moves on with other metadata.                               *)
LEMMA PassMoves ==
  ASSUME IncidentRecords, pass.pc # "idle", NEW md \in Metadata,
         NEW pc \in {"observed", "synced", "reopening", "ending"},
         pass' = [pass EXCEPT !.pc = pc, !.meta = md]
  PROVE  pass' \in {NoPass} \cup Passes /\ Remembered' = md
<1>1. pass \in Passes
  BY DEF IncidentRecords, NoPass
<1>2. pass' \in Passes /\ pass'.meta = md /\ pass'.pc = pc
  BY <1>1 DEF Passes
<1>3. pass' # NoPass
  BY <1>2 DEF NoPass
<1> QED
  BY <1>2, <1>3 DEF Remembered

(* The pass's copy of the metadata is metadata, and what it remembers.     *)
LEMMA PassRemembers ==
  ASSUME IncidentRecords, pass.pc # "idle"
  PROVE  pass \in Passes /\ pass.meta \in Metadata /\ Remembered = pass.meta
BY DEF IncidentRecords, NoPass, Passes, Remembered

(* The changes that a pass makes to its copy.                              *)
LEMMA NotedMetadata ==
  ASSUME NEW md \in Metadata, NEW state \in AlertStates
  PROVE  /\ Noted(md, state) \in Metadata /\ Noted(md, state).note = state
         /\ Noted(md, state).succeeded = md.succeeded
BY DEF Noted, Metadata, AlertStates

(* Prometheus, the people at Bakery, the order and the order's own step.   *)
LEMMA WorldStep ==
  ASSUME IncidentInv, AlertChanges \/ TicketMoves \/ OrderMoves \/ StepMoves
  PROVE  IncidentInv'
<1> USE DEF IncidentInv, IncidentRecords, NothingForgotten
<1>1. CASE AlertChanges \/ TicketMoves
  BY <1>1 DEF AlertChanges, TicketMoves, incidentTicketVars, Remembered
<1>2. CASE OrderMoves
  <2>1. incident' \in Incident
    BY <1>2 DEF OrderMoves, Incident, IncidentStatuses, AlertStates
  <2> QED
    BY <1>2, <2>1 DEF OrderMoves, incidentTicketVars, Remembered
<1>3. CASE StepMoves
  <2>0. UNCHANGED << incident, ticket, cleared, repeated, successors, unheard >>
    BY <1>3 DEF StepMoves, incidentTicketVars
  <2>1. CASE UNCHANGED << meta, pass >>
    BY <2>0, <2>1 DEF Remembered
  <2>2. CASE /\ meta' = [meta EXCEPT !.stepSince = TRUE]
             /\ pass' = IF pass = NoPass THEN pass ELSE [pass EXCEPT !.meta.stepSince = TRUE]
    <3>1. meta' \in Metadata /\ meta'.note = meta.note /\ meta'.succeeded = meta.succeeded
      BY <2>2 DEF Metadata
    <3>2. CASE pass = NoPass
      BY <2>0, <2>2, <3>1, <3>2 DEF Remembered
    <3>3. CASE pass # NoPass
      <4>1. pass \in Passes /\ pass.meta \in Metadata
        BY <3>3 DEF Passes
      <4>2. PICK md : md = [pass.meta EXCEPT !.stepSince = TRUE]
        OBVIOUS
      <4>3. md \in Metadata /\ md.note = pass.meta.note /\ md.succeeded = pass.meta.succeeded
        BY <4>1, <4>2 DEF Metadata
      <4>4. pass' = [pass EXCEPT !.meta = md]
        BY <2>2, <3>3, <4>1, <4>2 DEF Passes
      <4>5. pass' \in Passes /\ pass'.pc = pass.pc /\ pass'.meta = md
        BY <4>1, <4>3, <4>4 DEF Passes
      <4>6. pass' # NoPass
        BY <4>1, <4>5 DEF NoPass, Passes
      <4> QED
        BY <2>0, <3>1, <3>3, <4>3, <4>5, <4>6 DEF Remembered
    <3> QED
      BY <3>2, <3>3
  <2> QED
    BY <1>3, <2>1, <2>2 DEF StepMoves
<1> QED
  BY <1>1, <1>2, <1>3

(* A pass begins with what is committed, and looks at the alert and the    *)
(* ticket.                                                                 *)
LEMMA LookStep ==
  ASSUME IncidentInv, LoadIncident \/ ObserveAlert \/ DeferIncident \/ SyncTicket
  PROVE  IncidentInv'
<1> USE DEF IncidentInv, IncidentRecords, NothingForgotten
<1>0. UNCHANGED << incident, meta, ticket, cleared, repeated, successors, unheard >>
  BY DEF LoadIncident, ObserveAlert, DeferIncident, SyncTicket, incidentTicketVars
<1>1. CASE LoadIncident
  <2>1. pass' \in Passes /\ pass'.meta = meta /\ pass'.pc = "loaded" /\ Remembered = meta
    BY <1>1 DEF LoadIncident, Passes, Remembered
  <2>2. pass' # NoPass
    BY <2>1 DEF NoPass
  <2> QED
    BY <1>0, <2>1, <2>2 DEF Remembered
<1>2. CASE ObserveAlert \/ DeferIncident
  <2>1. pass \in Passes /\ pass.meta \in Metadata /\ Remembered = pass.meta
    BY <1>2, PassRemembers DEF ObserveAlert, DeferIncident
  <2>2. pass' \in Passes /\ pass'.meta = pass.meta /\ pass'.pc \in {"observed", "ending"}
    BY <1>2, <2>1 DEF ObserveAlert, DeferIncident, Passes, AlertStates
  <2>3. pass' # NoPass
    BY <2>2 DEF NoPass
  <2> QED
    BY <1>0, <2>1, <2>2, <2>3 DEF Remembered
<1>3. CASE SyncTicket
  <2>1. pass \in Passes /\ pass.meta \in Metadata /\ Remembered = pass.meta
    BY <1>3, PassRemembers DEF SyncTicket
  <2>2. PICK state \in {ticket, "unknown"} : pass' = [pass EXCEPT !.pc = "synced", !.meta.remote = state]
    BY <1>3 DEF SyncTicket
  <2>3. PICK md : md = [pass.meta EXCEPT !.remote = state]
    OBVIOUS
  <2>4. md \in Metadata /\ md.note = pass.meta.note /\ md.succeeded = pass.meta.succeeded
    BY <2>1, <2>3 DEF Metadata
  <2>5. pass' = [pass EXCEPT !.pc = "synced", !.meta = md]
    BY <2>1, <2>2, <2>3 DEF Passes
  <2>6. pass' \in {NoPass} \cup Passes /\ Remembered' = md
    BY <1>3, <2>4, <2>5, PassMoves DEF SyncTicket
  <2> QED
    BY <1>0, <2>1, <2>4, <2>6
<1> QED
  BY <1>1, <1>2, <1>3

(* The notes of a pass: a clear note is claimed before it is sent, and a   *)
(* firing one takes the claim back.                                        *)
LEMMA NoteStep ==
  ASSUME IncidentInv, NoteFiring \/ NoteCleared \/ NoteReopened
  PROVE  IncidentInv'
<1> USE DEF IncidentInv, IncidentRecords, NothingForgotten
<1>0. UNCHANGED << incident, meta, ticket, successors, unheard >>
  BY DEF NoteFiring, NoteCleared, NoteReopened
<1>1. pass \in Passes /\ pass.meta \in Metadata /\ Remembered = pass.meta /\ pass.pc # "idle"
  BY PassRemembers DEF NoteFiring, NoteCleared, NoteReopened
<1>2. PICK q : q = pass.meta
  OBVIOUS
<1>3. /\ Noted(q, "firing") \in Metadata /\ Noted(q, "firing").succeeded = q.succeeded
      /\ Noted(q, "resolved") \in Metadata /\ Noted(q, "resolved").succeeded = q.succeeded
      /\ Noted(q, "resolved").note = "resolved"
  BY <1>1, <1>2, NotedMetadata DEF AlertStates
<1>4. CASE NoteFiring
  <2>1. PICK md : /\ md \in {[Noted(q, "firing") EXCEPT !.reopened = FALSE],
                              [q EXCEPT !.reopened = FALSE]}
                  /\ pass' = [pass EXCEPT !.pc = "ending", !.meta = md]
                  /\ \/ cleared' = FALSE /\ UNCHANGED repeated
                     \/ /\ md = [q EXCEPT !.reopened = FALSE]
                        /\ UNCHANGED << cleared, repeated >>
    <3>1. CASE Refired /\ pass.meta.note # "firing"
      BY <1>1, <1>2, <1>4, <3>1 DEF NoteFiring
    <3>2. CASE ~ (Refired /\ pass.meta.note # "firing")
      <4>1. pass' = [pass EXCEPT !.pc = "ending", !.meta = [q EXCEPT !.reopened = FALSE]]
        BY <1>1, <1>2, <1>4, <3>2 DEF NoteFiring, Passes
      <4> QED
        BY <1>4, <3>2, <4>1 DEF NoteFiring
    <3> QED
      BY <3>1, <3>2
  <2>2. md \in Metadata /\ md.succeeded = q.succeeded
    BY <1>1, <1>2, <1>3, <2>1 DEF Metadata
  <2>3. md = [q EXCEPT !.reopened = FALSE] => md.note = q.note
    BY <1>1, <1>2 DEF Metadata
  <2>4. pass' \in {NoPass} \cup Passes /\ Remembered' = md
    BY <1>1, <2>1, <2>2, PassMoves
  <2>5. cleared' \in BOOLEAN /\ repeated' = repeated
    BY <1>4 DEF NoteFiring
  <2>6. IncidentRecords' /\ ~ repeated'
    BY <1>0, <2>4, <2>5
  <2>7. Remembered.succeeded => Remembered'.succeeded
    BY <1>0, <1>1, <1>2, <2>2, <2>4
  <2>8. cleared' => Remembered'.note = "resolved"
    BY <1>1, <1>2, <2>1, <2>3, <2>4
  <2> QED
    BY <1>0, <2>6, <2>7, <2>8
<1>5. CASE NoteCleared
  <2>1. CASE ownStep = "active" \/ StepTold(pass.meta) \/ pass.meta.remote \in TicketOver
             \/ pass.meta.note = "resolved"
    <3>1. PICK md : /\ md \in {Noted(q, "resolved"), q}
                    /\ pass' = [pass EXCEPT !.pc = "ending", !.meta = md]
      BY <1>1, <1>2, <1>5, <2>1 DEF NoteCleared
    <3>2. pass' \in {NoPass} \cup Passes /\ Remembered' = md
      BY <1>1, <1>2, <1>3, <3>1, PassMoves
    <3>3. UNCHANGED << cleared, repeated >>
      BY <1>5, <2>1 DEF NoteCleared
    <3> QED
      BY <1>0, <1>1, <1>2, <1>3, <3>1, <3>2, <3>3
  <2>2. CASE ~ (ownStep = "active" \/ StepTold(pass.meta) \/ pass.meta.remote \in TicketOver
                \/ pass.meta.note = "resolved")
    <3>1. pass' = [pass EXCEPT !.pc = "ending", !.meta = Noted(q, "resolved")] /\ Note("resolved")
      BY <1>1, <1>2, <1>5, <2>2 DEF NoteCleared
    <3>2. pass' \in {NoPass} \cup Passes /\ Remembered' = Noted(q, "resolved")
      BY <1>1, <1>3, <3>1, PassMoves
    <3>3. ~ cleared
      BY <1>1, <2>2
    <3>4. cleared' \in BOOLEAN /\ repeated' = repeated
      BY <3>1, <3>3 DEF Note
    <3> QED
      BY <1>0, <1>1, <1>2, <1>3, <3>2, <3>4
  <2> QED
    BY <2>1, <2>2
<1>6. CASE NoteReopened
  <2>1. CASE /\ cleared' = FALSE
             /\ pass' = [pass EXCEPT !.pc = "ending",
                  !.meta = [Noted(@, "firing") EXCEPT !.reopened = TRUE, !.remote = ticket]]
    <3>1. PICK md : md = [Noted(q, "firing") EXCEPT !.reopened = TRUE, !.remote = ticket]
      OBVIOUS
    <3>2. md \in Metadata /\ md.succeeded = q.succeeded
      BY <1>3, <3>1 DEF Metadata
    <3>3. pass' = [pass EXCEPT !.pc = "ending", !.meta = md]
      BY <1>1, <1>2, <2>1, <3>1
    <3>4. pass' \in {NoPass} \cup Passes /\ Remembered' = md
      BY <1>1, <3>2, <3>3, PassMoves
    <3> QED
      BY <1>0, <1>1, <1>2, <1>6, <2>1, <3>2, <3>4 DEF NoteReopened
  <2>2. CASE pass' = [pass EXCEPT !.pc = "ending"] /\ UNCHANGED cleared
    <3>1. pass' = [pass EXCEPT !.pc = "ending", !.meta = q]
      BY <1>1, <1>2, <2>2 DEF Passes
    <3>2. pass' \in {NoPass} \cup Passes /\ Remembered' = q
      BY <1>1, <1>2, <3>1, PassMoves
    <3> QED
      BY <1>0, <1>1, <1>2, <1>6, <2>2, <3>2 DEF NoteReopened
  <2> QED
    BY <1>6, <2>1, <2>2 DEF NoteReopened
<1> QED
  BY <1>4, <1>5, <1>6

(* A closed ticket is reopened; one that cannot be has one successor.      *)
LEMMA TicketStep ==
  ASSUME IncidentInv, ReopenTicket \/ RecreateTicket
  PROVE  IncidentInv'
<1> USE DEF IncidentInv, IncidentRecords, NothingForgotten
<1>0. UNCHANGED << incident, meta, cleared, repeated >> /\ ticket' \in {"open", "closed", "cancelled"}
  BY DEF ReopenTicket, RecreateTicket
<1>1. pass \in Passes /\ pass.meta \in Metadata /\ Remembered = pass.meta /\ pass.pc # "idle"
  BY PassRemembers DEF ReopenTicket, RecreateTicket, CannotReopen
<1>2. PICK q : q = pass.meta
  OBVIOUS
<1>3. CASE pass' = [pass EXCEPT !.pc = "ending"] /\ UNCHANGED successors /\ UNCHANGED unheard
  <2>1. pass' = [pass EXCEPT !.pc = "ending", !.meta = q]
    BY <1>1, <1>2, <1>3 DEF Passes
  <2>2. pass' \in {NoPass} \cup Passes /\ Remembered' = q
    BY <1>1, <1>2, <2>1, PassMoves
  <2> QED
    BY <1>0, <1>1, <1>2, <1>3, <2>2
<1>4. CASE ReopenTicket /\ pass' = [pass EXCEPT !.pc = "reopening", !.meta.remote = "open"]
  <2>1. PICK md : md = [q EXCEPT !.remote = "open"]
    OBVIOUS
  <2>2. md \in Metadata /\ md.note = q.note /\ md.succeeded = q.succeeded
    BY <1>1, <1>2, <2>1 DEF Metadata
  <2>3. pass' = [pass EXCEPT !.pc = "reopening", !.meta = md]
    BY <1>1, <1>2, <1>4, <2>1 DEF Passes
  <2>4. pass' \in {NoPass} \cup Passes /\ Remembered' = md
    BY <1>1, <2>2, <2>3, PassMoves
  <2>5. UNCHANGED << successors, unheard >>
    BY <1>4 DEF ReopenTicket
  <2> QED
    BY <1>0, <1>1, <1>2, <2>2, <2>4, <2>5
<1>5. CASE RecreateTicket /\ ~ pass.meta.succeeded
           /\ OpensSuccessor([pass.meta EXCEPT !.remote = "open", !.succeeded = TRUE])
  <2>1. PICK md : md = [q EXCEPT !.remote = "open", !.succeeded = TRUE]
    OBVIOUS
  <2>2. md \in Metadata /\ md.note = q.note /\ md.succeeded
    BY <1>1, <1>2, <2>1 DEF Metadata
  <2>3. unheard = successors
    BY <1>1, <1>5
  <2>4. OpensSuccessor(md)
    BY <1>2, <1>5, <2>1
  <2>5. CASE UNCHANGED successors /\ UNCHANGED unheard
    BY <1>3, <2>3, <2>4, <2>5, IncidentAssumption DEF OpensSuccessor
  <2>6. CASE /\ successors < MaxSuccessors /\ successors' = successors + 1 /\ UNCHANGED unheard
             /\ pass' = [pass EXCEPT !.pc = "ending", !.meta = md]
    <3>1. pass' \in {NoPass} \cup Passes /\ Remembered' = md
      BY <1>1, <2>2, <2>6, PassMoves
    <3>2. successors' \in 0 .. MaxSuccessors /\ unheard' + 1 = successors'
      BY <2>3, <2>6, IncidentAssumption
    <3> QED
      BY <1>0, <1>1, <1>2, <2>2, <2>6, <3>1, <3>2
  <2>7. CASE /\ successors < MaxSuccessors /\ successors' = successors + 1 /\ unheard' = unheard + 1
             /\ pass' = [pass EXCEPT !.pc = "ending"]
    <3>1. pass' = [pass EXCEPT !.pc = "ending", !.meta = q]
      BY <1>1, <1>2, <2>7 DEF Passes
    <3>2. pass' \in {NoPass} \cup Passes /\ Remembered' = q
      BY <1>1, <1>2, <3>1, PassMoves
    <3>3. successors' \in 0 .. MaxSuccessors /\ unheard' = successors'
      BY <2>3, <2>7, IncidentAssumption
    <3> QED
      BY <1>0, <1>1, <1>2, <3>2, <3>3
  <2> QED
    BY <2>4, <2>5, <2>6, <2>7 DEF OpensSuccessor
<1> QED
  BY <1>3, <1>4, <1>5 DEF ReopenTicket, RecreateTicket

(* A pass commits what it did, or dies.                                    *)
LEMMA EndStep ==
  ASSUME IncidentInv, CommitPass \/ PassDies
  PROVE  IncidentInv'
<1> USE DEF IncidentInv, IncidentRecords, NothingForgotten
<1>1. CASE CommitPass
  <2>1. pass \in Passes /\ pass.meta \in Metadata /\ Remembered = pass.meta
    BY <1>1, PassRemembers DEF CommitPass
  <2>2. pass.seen \in Incident /\ pass.alert \in AlertStates \cup {"unknown"}
    BY <2>1 DEF Passes
  <2>3. Concluded(pass.seen, pass.alert, pass.meta) \in Incident
    BY <2>2 DEF Concluded, Incident, IncidentStatuses, AlertStates
  <2>4. incident' \in Incident
    BY <1>1, <2>3 DEF CommitPass, Incident
  <2> QED
    BY <1>1, <2>1, <2>4 DEF CommitPass, incidentTicketVars, Remembered
<1>2. CASE PassDies
  <2>1. /\ UNCHANGED << incident, meta, ticket, repeated >>
        /\ pass' = NoPass /\ cleared' = FALSE /\ Remembered' = meta
        /\ successors' = (IF meta.succeeded THEN 1 ELSE 0) /\ unheard' = 0
    BY <1>2 DEF PassDies, Remembered
  <2>2. /\ successors' \in 0 .. MaxSuccessors /\ unheard' \in 0 .. MaxSuccessors
        /\ unheard' = successors' \/ (unheard' + 1 = successors' /\ meta.succeeded)
    BY <2>1, IncidentAssumption
  <2> QED
    BY <2>1, <2>2
<1> QED
  BY <1>1, <1>2

(* The rest of the types: Prometheus, and the dish's own notify step.      *)
SignalsFit == firing \in BOOLEAN /\ ownStep \in {"none", "active", "done"}

LEMMA SignalsFitStep ==
  ASSUME SignalsFit, [IncidentNext]_incidentVars
  PROVE  SignalsFit'
<1> USE DEF SignalsFit
<1>1. CASE AlertChanges \/ StepMoves
  BY <1>1 DEF AlertChanges, StepMoves
<1>2. CASE ~ (AlertChanges \/ StepMoves)
  <2>1. UNCHANGED << firing, ownStep >>
    BY <1>2 DEF IncidentNext, incidentVars, TicketMoves, OrderMoves, LoadIncident, ObserveAlert,
       DeferIncident, SyncTicket, NoteFiring, NoteCleared, ReopenTicket, NoteReopened, RecreateTicket,
       CommitPass, PassDies
  <2> QED
    BY <2>1
<1> QED
  BY <1>1, <1>2

(* _remember_ticket_alert_note_state and last_successor_from_ticket_id:    *)
(* however many passes reconcile an incident, one after the other, and     *)
(* however the ticket, the alert and the answers behave, its ticket is     *)
(* told once of a clearing, and it has one successor besides those whose   *)
(* answer no pass heard, as long as no pass dies before its commit.        *)
THEOREM ClearingToldOnce == IncidentSpec => []IncidentsKept
<1>1. IncidentInit => IncidentInv
  <2> SUFFICES ASSUME IncidentInit PROVE IncidentInv
    OBVIOUS
  <2>1. incident \in Incident /\ meta \in Metadata
    BY DEF IncidentInit, Incident, IncidentStatuses, AlertStates, Metadata
  <2>2. ~ cleared /\ ~ repeated /\ cleared \in BOOLEAN /\ repeated \in BOOLEAN
    BY DEF IncidentInit
  <2>3. pass = NoPass /\ ticket = "open" /\ successors = 0 /\ unheard = 0
    BY DEF IncidentInit
  <2>4. 0 \in 0 .. MaxSuccessors
    BY IncidentAssumption
  <2> QED
    BY <2>1, <2>2, <2>3, <2>4 DEF IncidentInv, IncidentRecords, NothingForgotten
<1>2. IncidentInv /\ [IncidentNext]_incidentVars => IncidentInv'
  <2> SUFFICES ASSUME IncidentInv, [IncidentNext]_incidentVars PROVE IncidentInv'
    OBVIOUS
  <2>1. CASE UNCHANGED incidentVars
    BY <2>1 DEF incidentVars, incidentTicketVars, IncidentInv, IncidentRecords, NothingForgotten, Remembered
  <2> QED
    BY <2>1, WorldStep, LookStep, NoteStep, TicketStep, EndStep DEF IncidentNext
<1>3. IncidentInit => SignalsFit
  BY DEF IncidentInit, SignalsFit
<1>4. SignalsFit /\ [IncidentNext]_incidentVars => SignalsFit'
  BY SignalsFitStep
<1>5. IncidentInv /\ SignalsFit => IncidentTypeOK
  BY IncidentAssumption DEF IncidentInv, IncidentRecords, SignalsFit, IncidentTypeOK
<1>6. IncidentInv /\ IncidentTypeOK => IncidentsKept
  <2> SUFFICES ASSUME IncidentInv, IncidentTypeOK PROVE IncidentsKept
    OBVIOUS
  <2>1. successors \in Nat /\ unheard \in Nat
    BY IncidentAssumption DEF IncidentTypeOK
  <2>2. unheard = successors \/ unheard + 1 = successors
    BY DEF IncidentInv, NothingForgotten
  <2>3. successors <= 1 + unheard
    BY <2>1, <2>2
  <2> QED
    BY <2>3 DEF IncidentInv, ToldOnce, IncidentsKept
<1> QED
  BY <1>1, <1>2, <1>3, <1>4, <1>5, <1>6, PTL DEF IncidentSpec
=============================================================================
