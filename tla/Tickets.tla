------------------------------ MODULE Tickets ------------------------------
(***************************************************************************)
(* The communication steps of orders and the tickets they open, comment on *)
(* and close at Bakery: what a step is told of the tickets of earlier      *)
(* steps (api/api/expediter.py), how the Bakery adapter turns it into      *)
(* calls (api/plugins/bakery/adapter.py, client.py), and how what Bakery   *)
(* answered stays with the step (kitchen/expediter_runner.py, timer.py).   *)
(*                                                                         *)
(* A recipe has one ingredient for each operation.  Answers of Bakery get  *)
(* lost, and the orchestrator then repeats the whole dispatch.  Bakery     *)
(* remembers the idempotency keys it has seen.                             *)
(***************************************************************************)
EXTENDS Naturals, Sequences, FiniteSetsExt

CONSTANTS
  Fingerprints,   \* alert fingerprints
  MaxTicketOrders,\* bound: orders
  MaxSteps,       \* bound: communication steps
  MaxSends        \* retry_count + 1 of a step

ASSUME TicketsAssumption ==
  /\ MaxTicketOrders \in Nat /\ MaxSteps \in Nat
  /\ MaxSends \in Nat \ {0}

VARIABLES
  alertOrders,    \* the orders, oldest first
  steps,          \* the runtime rows of communication steps, by id
  tickets         \* Bakery: the tickets, and the key each was opened with

ticketVars == << alertOrders, steps, tickets >>

(* An update and a close travel as a notify does. *)
Operations == {"open", "notify"}
StepIds == DOMAIN steps
NoTicket == 0

TicketOrder == [fingerprint : Fingerprints, active : BOOLEAN, capable : BOOLEAN]

(* A row of a communication step: ticket and reopen are its execution      *)
(* context, kept is the context update stored in its outcome.              *)
Named == {NoTicket} \cup DOMAIN tickets
Step == [ order : 1 .. MaxTicketOrders, op : Operations,
          stage : {"planned", "reopening", "sending", "polling", "ended"},
          ticket : Named, reopen : BOOLEAN, sends : 0 .. MaxSends,
          receipt : BOOLEAN, kept : Named ]

TicketsTypeOK ==
  /\ alertOrders \in Seq(TicketOrder) /\ Len(alertOrders) <= MaxTicketOrders
  /\ steps \in Seq(Step) /\ Len(steps) <= MaxSteps
  /\ \A t \in DOMAIN tickets : tickets[t].order \in DOMAIN alertOrders

TicketsInit ==
  /\ alertOrders = << >>
  /\ steps = << >>
  /\ tickets = << >>

StepOrder(s) == alertOrders[steps[s].order]

-----------------------------------------------------------------------------
(* Orders and dishes, as far as communication steps see them: one active   *)
(* order per fingerprint, whose dishes repeat the steps of its recipe.     *)
TicketOrderOpens ==
  /\ Len(alertOrders) < MaxTicketOrders
  /\ \E o \in [fingerprint : Fingerprints, active : {TRUE}, capable : BOOLEAN] :
       /\ \A p \in DOMAIN alertOrders :
            alertOrders[p].fingerprint = o.fingerprint => ~ alertOrders[p].active
       /\ alertOrders' = Append(alertOrders, o)
  /\ UNCHANGED << steps, tickets >>

TicketOrderEnds(o) ==
  /\ alertOrders[o].active
  /\ alertOrders' = [alertOrders EXCEPT ![o].active = FALSE]
  /\ UNCHANGED << steps, tickets >>

PlanCommunication(o, op) ==
  /\ alertOrders[o].active
  /\ Len(steps) < MaxSteps
  /\ steps' = Append(steps, [ order |-> o, op |-> op, stage |-> "planned",
                              ticket |-> NoTicket, reopen |-> FALSE,
                              sends |-> 0, receipt |-> FALSE,
                              kept |-> NoTicket ])
  /\ UNCHANGED << alertOrders, tickets >>

-----------------------------------------------------------------------------
(* The steps that ended and kept a ticket: terminal rows' context updates. *)
Keeping(S) == {i \in S : steps[i].stage = "ended" /\ steps[i].kept # NoTicket}

(* _dish_execution_context: the last one of the order.                     *)
OwnTicket(s) ==
  LET mine == Keeping({i \in StepIds \ {s} : steps[i].order = steps[s].order})
  IN  IF mine = {} THEN NoTicket ELSE steps[Max(mine)].kept

(* _prior_bakery_ticket_id: the last one of the newest other order of the  *)
(* fingerprint.  PriorOfAnyAlert forgets to ask for the fingerprint.       *)
Newest(S) ==
  IF S = {} THEN NoTicket
  ELSE LET o == Max({steps[i].order : i \in S})
       IN  steps[Max({i \in S : steps[i].order = o})].kept

PriorOfAnyAlert(s) ==
  Newest(Keeping({i \in StepIds : steps[i].order # steps[s].order}))

PriorTicket(s) ==
  Newest(Keeping({i \in StepIds :
    /\ steps[i].order # steps[s].order
    /\ StepOrder(i).fingerprint = StepOrder(s).fingerprint}))

(* _inject_prior_bakery_ticket_reuse: an open step without a ticket takes  *)
(* over the one of an earlier order, to reopen it.                         *)
Reused(s) ==
  /\ steps[s].op = "open"
  /\ StepOrder(s).capable
  /\ OwnTicket(s) = NoTicket
  /\ PriorTicket(s) # NoTicket

(* execute_service_execution builds the context; Bakery's validate refuses *)
(* to notify, update or close without a ticket.                            *)
SendStep(s) ==
  LET ticket == IF Reused(s) THEN PriorTicket(s) ELSE OwnTicket(s)
  IN  /\ steps[s].stage = "planned"
      /\ steps' = [steps EXCEPT ![s] =
           [@ EXCEPT !.stage = IF steps[s].op # "open" /\ ticket = NoTicket
                               THEN "ended"
                               ELSE IF Reused(s) THEN "reopening" ELSE "sending",
                     !.ticket = ticket,
                     !.reopen = Reused(s)]]
      /\ UNCHANGED << alertOrders, tickets >>

-----------------------------------------------------------------------------
(* The calls.  A failed one ends the dispatch with a retryable error, and  *)
(* the orchestrator starts it over until its attempts are used up.         *)
Again(step) ==
  [step EXCEPT !.sends = @ + 1,
               !.stage = IF step.sends + 1 = MaxSends THEN "ended"
                         ELSE IF step.reopen THEN "reopening" ELSE "sending"]

(* The step has its receipt; an opened or reused ticket is a context       *)
(* update, which the runner stores with the receipt.                       *)
Accepted(step, ticket) ==
  [step EXCEPT !.stage = "polling",
               !.receipt = TRUE,
               !.kept = IF step.op = "open" THEN ticket ELSE NoTicket]

(* _deterministic_idempotency_key; the client's own build_idempotency_key  *)
(* is fresh for every call.                                                *)
FreshKey(s) == << steps[s].order, steps[s].op, s, steps[s].sends >>
StepKey(s) == << steps[s].order, steps[s].op, 0, 0 >>

(* create_ticket_with_key.  Bakery answers a key it knows with the ticket  *)
(* it opened then, and the answer may get lost.                            *)
OpenTicket(s) ==
  LET known == {t \in DOMAIN tickets : tickets[t].key = StepKey(s)}
      ticket == IF known = {} THEN Len(tickets) + 1 ELSE Max(known)
      opens == [order |-> steps[s].order, key |-> StepKey(s)]
  IN  /\ steps[s].stage = "sending"
      /\ steps[s].op = "open"
      /\ steps[s].ticket = NoTicket \/ ~ StepOrder(s).capable
      /\ tickets' = IF known = {} THEN Append(tickets, opens) ELSE tickets
      /\ \/ steps' = [steps EXCEPT ![s] = Accepted(@, ticket)]
         \/ steps' = [steps EXCEPT ![s] = Again(@)]
      /\ UNCHANGED alertOrders

(* update_ticket_with_key with _reopen_payload, before the comment.        *)
ReopenStepTicket(s) ==
  /\ steps[s].stage = "reopening"
  /\ \/ steps' = [steps EXCEPT ![s].stage = "sending"]
     \/ steps' = [steps EXCEPT ![s] = Again(@)]
  /\ UNCHANGED << alertOrders, tickets >>

(* add_ticket_comment_with_key, update_ticket_with_key and                 *)
(* close_ticket_with_key.                                                  *)
TellTicket(s) ==
  /\ steps[s].stage = "sending"
  /\ steps[s].ticket # NoTicket
  /\ steps[s].op = "open" => StepOrder(s).capable
  /\ \/ steps' = [steps EXCEPT ![s] = Accepted(@, steps[s].ticket)]
     \/ steps' = [steps EXCEPT ![s] = Again(@)]
  /\ UNCHANGED << alertOrders, tickets >>

(* The call never reached Bakery.                                          *)
SendFails(s) ==
  /\ steps[s].stage \in {"reopening", "sending"}
  /\ steps' = [steps EXCEPT ![s] = Again(@)]
  /\ UNCHANGED << alertOrders, tickets >>

(* Timer polls the operation to its end, well or badly, and reconciles the *)
(* row: the context update survives in the outcome that replaces it.       *)
(* OutcomeReplaced would store the outcome of the poll alone.              *)
OutcomeReplaced(step) == [step EXCEPT !.stage = "ended", !.kept = NoTicket]
OutcomeMerged(step) == [step EXCEPT !.stage = "ended"]

StepEnds(s) ==
  /\ steps[s].stage = "polling"
  /\ steps' = [steps EXCEPT ![s] = OutcomeMerged(@)]
  /\ UNCHANGED << alertOrders, tickets >>

-----------------------------------------------------------------------------
TicketsNext ==
  \/ TicketOrderOpens
  \/ \E o \in DOMAIN alertOrders :
       \/ TicketOrderEnds(o)
       \/ \E op \in Operations : PlanCommunication(o, op)
  \/ \E s \in StepIds :
       \/ SendStep(s)
       \/ OpenTicket(s)
       \/ ReopenStepTicket(s)
       \/ TellTicket(s)
       \/ SendFails(s)
       \/ StepEnds(s)

TicketsSpec == TicketsInit /\ [][TicketsNext]_ticketVars

-----------------------------------------------------------------------------
(* However often an order repeats its open step, in another dish or after  *)
(* an answer that got lost, the order has at most one ticket of its own.   *)
OneTicketPerOrder ==
  \A t, u \in DOMAIN tickets : tickets[t].order = tickets[u].order => t = u

(* A step never writes to the ticket of another alert.                     *)
OwnAlertsTickets ==
  \A s \in StepIds :
    steps[s].ticket # NoTicket =>
      alertOrders[tickets[steps[s].ticket].order].fingerprint = StepOrder(s).fingerprint

(* A finished step that Bakery had accepted still names its ticket, so     *)
(* that the next order of the alert finds it.                              *)
TicketRemembered ==
  \A s \in StepIds :
    steps[s].stage = "ended" /\ steps[s].op = "open" /\ steps[s].receipt =>
      steps[s].kept # NoTicket

(* Together, with the types: the tickets of api/plugins/bakery stay in step with *)
(* the alerts they are about.                                              *)
TicketsKept == TicketsTypeOK /\ OneTicketPerOrder /\ OwnAlertsTickets /\ TicketRemembered
=============================================================================
