------------------------------ MODULE Incidents ------------------------------
(***************************************************************************)
(* The reconciliation of an incident with Prometheus and its Bakery ticket *)
(* (api/plugins/bakery/incident_reconciliation.py), for one order and the  *)
(* one communication row that opened its ticket.                           *)
(*                                                                         *)
(* A pass loads the order and the row's metadata, asks Prometheus, asks    *)
(* Bakery for the ticket's state, writes on the ticket, and commits        *)
(* everything at its end: what it did to the ticket outlives a pass that   *)
(* does not get there.  Meanwhile the order and the ticket move on.        *)
(*                                                                         *)
(* Passes are runs of one scheduled task, which has one run at a time      *)
(* unless an operator enables it while a run is out (ScheduledTasks): one  *)
(* pass is under way at a time here.                                       *)
(***************************************************************************)
EXTENDS Naturals

CONSTANT MaxSuccessors   \* bound on the tickets that passes open

ASSUME IncidentAssumption == MaxSuccessors \in Nat \ {0}

VARIABLES
  firing,      \* what Prometheus says of the alert
  incident,    \* the order: status, alert_status, is_active
  ticket,      \* the ticket at Bakery
  ownStep,     \* the resolving dish's own notify step for the ticket's route
  meta,        \* reconcile_metadata, as committed
  pass,        \* the pass under way
  successors,  \* history: tickets that passes opened at Bakery
  unheard,     \* history: those of them whose operation no pass saw succeed
  cleared,     \* history: a clear note is the last the alert gave cause for
  repeated     \* history: a second clear note for one clearing

incidentTicketVars == << ticket, successors, unheard, cleared, repeated >>
incidentVars == << firing, incident, ownStep, meta, pass, incidentTicketVars >>

IncidentStatuses == {"new", "processing", "resolving", "complete"}
IncidentEnded == {"complete"}
AlertStates == {"firing", "resolved"}
Incident == [status : IncidentStatuses, alert : AlertStates, active : BOOLEAN]
(* note: the state of the last note; stepSince: a notify step completed    *)
(* after it; reopened: last_reopen_ticket_id; succeeded:                   *)
(* last_successor_from_ticket_id.                                          *)
Metadata ==
  [remote    : {"unknown", "open", "closed", "cancelled"},
   note      : AlertStates \cup {"none"},
   stepSince : BOOLEAN,
   reopened  : BOOLEAN,
   succeeded : BOOLEAN]
NoPass == [pc |-> "idle"]
Passes ==
  [pc    : {"loaded", "observed", "synced", "reopening", "ending"},
   seen  : Incident,
   meta  : Metadata,
   alert : AlertStates \cup {"unknown"}]

IncidentTypeOK ==
  /\ firing \in BOOLEAN
  /\ incident \in Incident
  /\ ticket \in {"open", "closed", "cancelled"}
  /\ ownStep \in {"none", "active", "done"}
  /\ meta \in Metadata
  /\ pass \in {NoPass} \cup Passes
  /\ successors \in 0 .. MaxSuccessors /\ unheard \in 0 .. MaxSuccessors
  /\ cleared \in BOOLEAN /\ repeated \in BOOLEAN

IncidentInit ==
  /\ firing = TRUE
  /\ incident = [status |-> "processing", alert |-> "firing", active |-> TRUE]
  /\ ticket = "open"
  /\ ownStep = "none"
  /\ meta = [remote |-> "unknown", note |-> "none", stepSince |-> FALSE,
             reopened |-> FALSE, succeeded |-> FALSE]
  /\ pass = NoPass
  /\ successors = 0 /\ unheard = 0
  /\ cleared = FALSE /\ repeated = FALSE

-----------------------------------------------------------------------------
(* The rest of the world.                                                  *)

AlertChanges ==
  /\ firing' = ~ firing
  /\ UNCHANGED << incident, ownStep, meta, pass, incidentTicketVars >>

(* People close a ticket, give it up, or open it again. *)
TicketMoves ==
  /\ \E state \in {"open", "closed", "cancelled"} \ {ticket} : ticket' = state
  /\ UNCHANGED << firing, incident, ownStep, meta, pass, successors, unheard, cleared, repeated >>

(* Webhook, Prep Chef and Cook. *)
OrderMoves ==
  /\ \/ /\ incident.status = "new" /\ incident.active
        /\ incident' = [incident EXCEPT !.status = "processing"]
     \/ /\ incident.status \in {"new", "processing"} /\ incident.active
        /\ incident' = [incident EXCEPT !.status = "resolving", !.alert = "resolved"]
     \/ /\ incident.status \in {"processing", "resolving"}
        /\ incident' = [incident EXCEPT !.status = "complete", !.active = FALSE]
  /\ UNCHANGED << firing, ownStep, meta, pass, incidentTicketVars >>

(* The resolving dish runs its notify step. *)
StepMoves ==
  /\ \/ /\ ownStep = "none" /\ incident.status = "resolving"
        /\ ownStep' = "active"
        /\ UNCHANGED << meta, pass >>
     \/ /\ ownStep = "active"
        /\ ownStep' = "done"
        /\ meta' = [meta EXCEPT !.stepSince = TRUE]
        /\ pass' = IF pass = NoPass THEN pass ELSE [pass EXCEPT !.meta.stepSince = TRUE]
  /\ UNCHANGED << firing, incident, incidentTicketVars >>

-----------------------------------------------------------------------------
(* The pass.                                                               *)

(* reconcile_active_orders *)
LoadIncident ==
  /\ pass = NoPass
  /\ incident.status \notin IncidentEnded /\ incident.active
  /\ pass' = [pc |-> "loaded", seen |-> incident, meta |-> meta, alert |-> "unknown"]
  /\ UNCHANGED << firing, incident, ownStep, meta, incidentTicketVars >>

ObserveAlert ==
  /\ pass.pc = "loaded"
  /\ pass' = [pass EXCEPT !.pc = "observed", !.alert = IF firing THEN "firing" ELSE "resolved"]
  /\ UNCHANGED << firing, incident, ownStep, meta, incidentTicketVars >>

(* Prometheus cannot be asked: the order is left for the next pass. *)
DeferIncident ==
  /\ pass.pc = "loaded"
  /\ pass' = [pass EXCEPT !.pc = "ending"]
  /\ UNCHANGED << firing, incident, ownStep, meta, incidentTicketVars >>

TicketOver == {"closed", "cancelled"}

(* _poll_ticket_state: a ticket whose state cannot be had counts as open. *)
SyncTicket ==
  /\ pass.pc = "observed"
  /\ \E state \in {ticket, "unknown"} :
       pass' = [pass EXCEPT !.pc = "synced", !.meta.remote = state]
  /\ UNCHANGED << firing, incident, ownStep, meta, incidentTicketVars >>

(* _remember_ticket_alert_note_state *)
Noted(md, state) == [md EXCEPT !.note = state, !.stepSince = FALSE]

(* The note is claimed before it is sent.  It is sent or not; whether it   *)
(* was is not always known, and the claim stands all the same.             *)
Note(state) ==
  \/ UNCHANGED << cleared, repeated >>
  \/ /\ repeated' = (repeated \/ (state = "resolved" /\ cleared))
     /\ cleared' = (state = "resolved")

Refired == pass.seen.status = "resolving" \/ pass.seen.alert = "resolved"
NoteFiring ==
  /\ pass.pc = "synced"
  /\ pass.alert = "firing" /\ pass.meta.remote \notin TicketOver
  /\ IF Refired /\ pass.meta.note # "firing"
       THEN /\ pass' = [pass EXCEPT !.pc = "ending",
                                    !.meta = [Noted(@, "firing") EXCEPT !.reopened = FALSE]]
            /\ cleared' = FALSE
            /\ UNCHANGED repeated
       ELSE /\ pass' = [pass EXCEPT !.pc = "ending", !.meta.reopened = FALSE]
            /\ UNCHANGED << cleared, repeated >>
  /\ UNCHANGED << firing, incident, ownStep, meta, ticket, successors, unheard >>

(* _has_completed_resolving_notify_step: since the firing note, if there   *)
(* is one.                                                                 *)
StepTold(md) == ownStep = "done" /\ (md.note = "firing" => md.stepSince)

NoteClearedAfter ==
  /\ pass.pc = "synced"
  /\ pass.alert = "resolved"
  /\ IF ownStep = "active" \/ StepTold(pass.meta) \/ pass.meta.remote \in TicketOver
          \/ pass.meta.note = "resolved"
       THEN /\ pass' = [pass EXCEPT !.pc = "ending",
              !.meta = IF ownStep # "active" /\ StepTold(@) THEN Noted(@, "resolved") ELSE @]
            /\ UNCHANGED << cleared, repeated >>
       ELSE /\ Note("resolved")
            /\ \E known \in BOOLEAN :
                 pass' = [pass EXCEPT !.pc = "ending",
                                      !.meta = IF known THEN Noted(@, "resolved") ELSE @]
  /\ UNCHANGED << firing, incident, ownStep, meta, ticket, successors, unheard >>
NoteCleared ==
  /\ pass.pc = "synced"
  /\ pass.alert = "resolved"
  /\ IF ownStep = "active" \/ StepTold(pass.meta) \/ pass.meta.remote \in TicketOver
          \/ pass.meta.note = "resolved"
       THEN /\ pass' = [pass EXCEPT !.pc = "ending",
              !.meta = IF ownStep # "active" /\ StepTold(@) THEN Noted(@, "resolved") ELSE @]
            /\ UNCHANGED << cleared, repeated >>
       ELSE /\ Note("resolved")
            /\ pass' = [pass EXCEPT !.pc = "ending", !.meta = Noted(@, "resolved")]
  /\ UNCHANGED << firing, incident, ownStep, meta, ticket, successors, unheard >>

(* The ticket of a firing alert may not stay closed.  The state is asked   *)
(* for again; a ticket that was reopened already and closed again is left, *)
(* until a pass has seen it open.                                          *)
ReopenTicket ==
  /\ pass.pc = "synced"
  /\ pass.alert = "firing" /\ pass.meta.remote \in TicketOver
  /\ ticket = "closed"
  /\ IF pass.meta.reopened
       THEN /\ pass' = [pass EXCEPT !.pc = "ending"]
            /\ UNCHANGED ticket
       ELSE \/ /\ ticket' = "open"
               /\ pass' = [pass EXCEPT !.pc = "reopening", !.meta.remote = "open"]
            \/ /\ pass' = [pass EXCEPT !.pc = "ending"]
               /\ UNCHANGED ticket
  /\ UNCHANGED << firing, incident, ownStep, meta, successors, unheard, cleared, repeated >>

(* The note that follows a reopening, and the ticket's new state. *)
NoteReopened ==
  /\ pass.pc = "reopening"
  /\ \/ /\ cleared' = FALSE
        /\ pass' = [pass EXCEPT !.pc = "ending",
             !.meta = [Noted(@, "firing") EXCEPT !.reopened = TRUE, !.remote = ticket]]
     \/ /\ pass' = [pass EXCEPT !.pc = "ending"]
        /\ UNCHANGED cleared
  /\ UNCHANGED << firing, incident, ownStep, meta, ticket, successors, unheard, repeated >>

(* A ticket that cannot be reopened gets a successor: its state, asked for *)
(* again, is not closed, or cannot be had.  The row goes on naming the old *)
(* ticket, which every later pass asks for.                                *)
CannotReopen ==
  /\ pass.pc = "synced"
  /\ pass.alert = "firing" /\ pass.meta.remote \in TicketOver

(* The create has no idempotency key.  Bakery may refuse it; it may accept *)
(* it, and the poll of its operation fails or never hears that it          *)
(* succeeded: the ticket is there and the row does not know.               *)
OpensSuccessor(marked) ==
  \/ /\ pass' = [pass EXCEPT !.pc = "ending"]
     /\ UNCHANGED << successors, unheard >>
  \/ /\ successors < MaxSuccessors
     /\ successors' = successors + 1
     /\ \/ /\ pass' = [pass EXCEPT !.pc = "ending", !.meta = marked]
           /\ UNCHANGED unheard
        \/ /\ pass' = [pass EXCEPT !.pc = "ending"]
           /\ unheard' = unheard + 1

RecreateTicketUnmarked ==
  /\ CannotReopen
  /\ OpensSuccessor([pass.meta EXCEPT !.remote = "open"])
  /\ UNCHANGED << firing, incident, ownStep, meta, ticket, cleared, repeated >>
RecreateTicket ==
  /\ CannotReopen
  /\ IF pass.meta.succeeded
       THEN /\ pass' = [pass EXCEPT !.pc = "ending"]
            /\ UNCHANGED << successors, unheard >>
       ELSE OpensSuccessor([pass.meta EXCEPT !.remote = "open", !.succeeded = TRUE])
  /\ UNCHANGED << firing, incident, ownStep, meta, ticket, cleared, repeated >>

(* What the alert makes of the order; an incident that is over and whose   *)
(* ticket is closed is complete.                                           *)
HasOpenRoute(md) == md.remote \notin TicketOver
Concluded(o, alert, md) ==
  CASE alert = "unknown" -> o
    [] alert = "firing"  -> [o EXCEPT !.alert = "firing", !.active = TRUE,
                                      !.status = IF @ = "resolving" THEN "new" ELSE @]
    [] alert = "resolved" /\ HasOpenRoute(md) ->
         [o EXCEPT !.alert = "resolved", !.active = TRUE, !.status = "resolving"]
    [] alert = "resolved" /\ ~ HasOpenRoute(md) ->
         [o EXCEPT !.alert = "resolved", !.active = FALSE, !.status = "complete"]

(* The fields of the order that the pass has changed are written, whatever *)
(* became of the order meanwhile.                                          *)
CommitPass ==
  /\ pass.pc = "ending"
  /\ LET o == Concluded(pass.seen, pass.alert, pass.meta) IN
       incident' = [f \in DOMAIN incident |-> IF o[f] # pass.seen[f] THEN o[f] ELSE incident[f]]
  /\ meta' = pass.meta
  /\ pass' = NoPass
  /\ UNCHANGED << firing, ownStep, incidentTicketVars >>

(* The API dies: nothing is committed, and the histories begin anew from   *)
(* what the row knows.                                                     *)
PassDies ==
  /\ pass # NoPass
  /\ pass' = NoPass
  /\ successors' = IF meta.succeeded THEN 1 ELSE 0
  /\ unheard' = 0
  /\ cleared' = FALSE
  /\ UNCHANGED << firing, incident, ownStep, meta, ticket, repeated >>

IncidentNext ==
  \/ AlertChanges \/ TicketMoves \/ OrderMoves \/ StepMoves
  \/ LoadIncident \/ ObserveAlert \/ DeferIncident \/ SyncTicket
  \/ NoteFiring \/ NoteCleared \/ ReopenTicket \/ NoteReopened \/ RecreateTicket
  \/ CommitPass \/ PassDies

IncidentSpec == IncidentInit /\ [][IncidentNext]_incidentVars

-----------------------------------------------------------------------------
(* However often an incident is reconciled, one pass after the other, and  *)
(* however its notes are answered, a clearing is told to the ticket once.  *)
(* Its passes open one successor of it; and one more, while the alert      *)
(* fires and the ticket is over, for each create that Bakery carried out   *)
(* and whose operation the pass did not see succeed: only then is the      *)
(* marker not set that keeps the next pass from it.  Neither is kept up    *)
(* where a pass dies before it commits.                                    *)
ToldOnce == ~ repeated /\ successors <= 1 + unheard

(* incident_reconciliation.py, with the types: a ticket is told once that  *)
(* its alert cleared, and every successor but one is an answer unheard.    *)
IncidentsKept == IncidentTypeOK /\ ToldOnce
=============================================================================
