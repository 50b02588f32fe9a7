---------------------------- MODULE Suppressions ----------------------------
(***************************************************************************)
(* Suppression windows (api/services/suppression_service.py,               *)
(* suppression_sync.py, alertmanager_suppressions.py, api/suppressions.py  *)
(* and the Alertmanager adapter): silences live in Alertmanager, Poundcake *)
(* keeps a row for each, Cook ends an order whose alert a row matches and  *)
(* writes the event down, and the Timer's sweep closes the windows that    *)
(* are over and puts their alerts back.                                    *)
(*                                                                         *)
(* A row is only ever written from what a finished dish brings back of     *)
(* Alertmanager, so it lags, and answers may be applied in another order   *)
(* than they were given.  Which alerts a matcher matches is left open.     *)
(***************************************************************************)
EXTENDS Naturals, Sequences, FiniteSets, SequencesExt

CONSTANTS
  Windows,     \* silences that may be made
  Alerts,      \* fingerprints
  Answers,     \* answers of Alertmanager that wait to be applied
  BatchLimit,  \* suppression_lifecycle_batch_limit
  MaxAsked     \* bound: orders of the operators under way at a time

ASSUME SuppressionsAssumption == BatchLimit \in Nat \ {0} /\ MaxAsked \in Nat \ {0}

VARIABLES
  silence,     \* Alertmanager's silences
  over,        \* windows whose planned end has passed, earliest first
  asked,       \* the operator's accepted order for a window
  answer,      \* what finished dishes brought back and Cook has not applied
  row,         \* AlertSuppression
  summary,     \* SuppressionSummary.state; none and error count as open
  events,      \* fingerprints with a SuppressedEvent of the window
  order,       \* the latest order of an alert
  cook,        \* the window Cook has matched for an alert's new order
  batch,       \* windows the sweep has selected and not come to yet
  late         \* history: events committed after their window was closed

windowVars == << silence, over, asked, answer, row >>
alertVars == << order, cook, events, late >>
sweepVars == << summary, batch >>
suppressionVars == << windowVars, alertVars, sweepVars >>

Unmatched == "unmatched"
NoAnswer == << >>
AlertOrders ==
  [status : {"none", "new", "cooking", "suppressed", "ended"},
   alert  : {"firing", "resolved"}]
Active(f) == order[f].status \in {"new", "cooking"}

SuppressionsTypeOK ==
  /\ silence \in [Windows -> {"none", "active", "expired"}]
  /\ over \in Seq(Windows) /\ IsInjective(over)
  /\ asked \in [Windows -> {"none", "create", "update", "expire"}]
  /\ answer \in [Answers -> UNION {[known -> {"active", "expired"}] : known \in SUBSET Windows}]
  /\ row \in [Windows -> [known : BOOLEAN, enabled : BOOLEAN, canceled : BOOLEAN]]
  /\ summary \in [Windows -> {"open", "closed"}]
  /\ events \in [Windows -> SUBSET Alerts]
  /\ order \in [Alerts -> AlertOrders]
  /\ cook \in [Alerts -> Windows \cup {Unmatched}]
  /\ batch \subseteq Windows
  /\ late \in [Windows -> SUBSET Alerts]

SuppressionsInit ==
  /\ silence = [w \in Windows |-> "none"]
  /\ over = << >>
  /\ asked = [w \in Windows |-> "none"]
  /\ answer = [i \in Answers |-> NoAnswer]
  /\ row = [w \in Windows |-> [known |-> FALSE, enabled |-> FALSE, canceled |-> FALSE]]
  /\ summary = [w \in Windows |-> "open"]
  /\ events = [w \in Windows |-> {}]
  /\ order = [f \in Alerts |-> [status |-> "none", alert |-> "resolved"]]
  /\ cook = [f \in Alerts |-> Unmatched]
  /\ batch = {}
  /\ late = [w \in Windows |-> {}]

Over(w) == w \in ToSet(over)

-----------------------------------------------------------------------------
(* The operator: the routes only submit orders.                            *)

MayAsk(w) ==
  asked[w] = "none" /\ Cardinality({v \in Windows : asked[v] # "none"}) < MaxAsked

AskCreate(w) ==
  /\ silence[w] = "none" /\ MayAsk(w)
  /\ asked' = [asked EXCEPT ![w] = "create"]
  /\ UNCHANGED << silence, over, answer, row, alertVars, sweepVars >>

(* Only a row that came from Alertmanager can be changed or ended. *)
AskUpdate(w) ==
  /\ row[w].known /\ MayAsk(w)
  /\ asked' = [asked EXCEPT ![w] = "update"]
  /\ UNCHANGED << silence, over, answer, row, alertVars, sweepVars >>

AskExpire(w) ==
  /\ row[w].known /\ MayAsk(w)
  /\ asked' = [asked EXCEPT ![w] = "expire"]
  /\ UNCHANGED << silence, over, answer, row, alertVars, sweepVars >>

(* The adapter's answer waits for Cook to end the dish; a request whose    *)
(* second call fails has changed Alertmanager and brings nothing back.     *)
Brings(a) ==
  \/ \E i \in Answers : answer[i] = NoAnswer /\ answer' = [answer EXCEPT ![i] = a]
  \/ UNCHANGED answer

CreateSilence(w) ==
  /\ asked[w] = "create"
  /\ silence' = [silence EXCEPT ![w] = "active"]
  /\ asked' = [asked EXCEPT ![w] = "none"]
  /\ Brings([x \in {w} |-> "active"])
  /\ UNCHANGED << over, row, alertVars, sweepVars >>

(* Alertmanager changes an active silence in place, or expires it and      *)
(* makes another; of an expired one it always makes another.               *)
UpdateSilence(w) ==
  /\ asked[w] = "update"
  /\ asked' = [asked EXCEPT ![w] = "none"]
  /\ \/ /\ silence[w] = "active"
        /\ Brings([x \in {w} |-> "active"])
        /\ UNCHANGED silence
     \/ \E v \in Windows :
          /\ silence[v] = "none" /\ asked[v] = "none"
          /\ silence' = [silence EXCEPT ![w] = "expired", ![v] = "active"]
          /\ Brings([x \in {v} |-> "active"])
  /\ UNCHANGED << over, row, alertVars, sweepVars >>

(* The adapter polls eight times for the silence to leave "active" and     *)
(* reports whatever it read last.                                          *)
ExpireSilence(w) ==
  /\ asked[w] = "expire"
  /\ silence' = [silence EXCEPT ![w] = "expired"]
  /\ asked' = [asked EXCEPT ![w] = "none"]
  /\ \E state \in {"expired", silence[w]} : Brings([x \in {w} |-> state])
  /\ UNCHANGED << over, row, alertVars, sweepVars >>

(* Alertmanager cannot be reached, or answers with an error. *)
RequestFails(w) ==
  /\ asked[w] # "none"
  /\ asked' = [asked EXCEPT ![w] = "none"]
  /\ UNCHANGED << silence, over, answer, row, alertVars, sweepVars >>

SyncSilences ==
  /\ \E i \in Answers :
       /\ answer[i] = NoAnswer
       /\ answer' = [answer EXCEPT ![i] =
                       [w \in {x \in Windows : silence[x] # "none"} |-> silence[w]]]
  /\ UNCHANGED << silence, over, asked, row, alertVars, sweepVars >>

(* upsert_plugin_suppressions: the row becomes what the answer says,       *)
(* however old the answer is.                                              *)
Upserted(w, status) ==
  [known    |-> TRUE,
   enabled  |-> status = "active" /\ ~ Over(w),
   canceled |-> status = "expired"]

ApplyAnswer(i) ==
  /\ answer[i] # NoAnswer
  /\ row' = [w \in Windows |->
               IF w \in DOMAIN answer[i] THEN Upserted(w, answer[i][w]) ELSE row[w]]
  /\ answer' = [answer EXCEPT ![i] = NoAnswer]
  /\ UNCHANGED << silence, over, asked, alertVars, sweepVars >>

(* The planned end of a window passes. *)
WindowEnds(w) ==
  /\ silence[w] # "none" /\ ~ Over(w)
  /\ over' = Append(over, w)
  /\ silence' = [silence EXCEPT ![w] = "expired"]
  /\ UNCHANGED << asked, answer, row, alertVars, sweepVars >>

-----------------------------------------------------------------------------
(* Alerts and Cook.                                                        *)

AlertFires(f) ==
  /\ order' = [order EXCEPT ![f] =
       IF Active(f) THEN [@ EXCEPT !.alert = "firing"]
       ELSE [status |-> "new", alert |-> "firing"]]
  /\ UNCHANGED << windowVars, cook, events, late, sweepVars >>

AlertResolves(f) ==
  /\ order[f].status # "none" /\ order[f].alert = "firing"
  /\ order' = [order EXCEPT ![f].alert = "resolved",
                            ![f].status = IF @ = "new" THEN @ ELSE "cooking"]
  /\ UNCHANGED << windowVars, cook, events, late, sweepVars >>

(* find_first_matching_suppression *)
Matching(f) == {w \in Windows : row[w].known /\ row[w].enabled /\ ~ row[w].canceled /\ ~ Over(w)}

(* cook_order plans a dish; a firing one is checked against the windows.   *)
CookMatches(f) ==
  /\ order[f].status = "new" /\ cook[f] = Unmatched
  /\ \/ /\ order[f].alert = "firing"
        /\ \E w \in Matching(f) : cook' = [cook EXCEPT ![f] = w]
        /\ UNCHANGED order
     \/ /\ order' = [order EXCEPT ![f].status = "cooking"]
        /\ UNCHANGED cook
  /\ UNCHANGED << windowVars, events, late, sweepVars >>

(* The event and the end of the order are one commit, made later. *)
CookSuppresses(f) ==
  /\ cook[f] # Unmatched
  /\ events' = [events EXCEPT ![cook[f]] = @ \cup {f}]
  /\ late' = IF summary[cook[f]] = "closed" THEN [late EXCEPT ![cook[f]] = @ \cup {f}] ELSE late
  /\ order' = [order EXCEPT ![f].status = "suppressed"]
  /\ cook' = [cook EXCEPT ![f] = Unmatched]
  /\ UNCHANGED << windowVars, sweepVars >>

CookFinishes(f) ==
  /\ order[f].status = "cooking"
  /\ order' = [order EXCEPT ![f].status = "ended"]
  /\ UNCHANGED << windowVars, cook, events, late, sweepVars >>

-----------------------------------------------------------------------------
(* The Timer's sweep.                                                      *)

(* finalize_expired_suppressions takes the earliest ended windows, closed  *)
(* ones among them, up to the limit.                                       *)
Expired == {w \in Windows : Over(w) /\ row[w].known /\ ~ row[w].canceled}
EndsBefore(v, w) == \E i, j \in DOMAIN over : i < j /\ over[i] = v /\ over[j] = w
SweepStarts ==
  /\ batch = {}
  /\ Expired # {}
  /\ batch' = {w \in Expired : Cardinality({v \in Expired : EndsBefore(v, w)}) < BatchLimit}
  /\ UNCHANGED << windowVars, alertVars, summary >>

(* _requeue_still_firing_events: an alert whose last event says firing,    *)
(* and no event ever says anything else, gets an order unless it has an    *)
(* active one.                                                             *)
RequeuedIfEnded(w) ==
  [f \in Alerts |->
     IF f \in events[w] /\ order[f].status = "ended"
       THEN [status |-> "new", alert |-> "firing"] ELSE order[f]]
Requeued(w) ==
  [f \in Alerts |->
     IF f \in events[w] /\ ~ Active(f)
       THEN [status |-> "new", alert |-> "firing"] ELSE order[f]]

(* One window after the other is one transaction: its orders and the       *)
(* closed summary, or an error, after which the next sweep tries again.    *)
(* One that is closed already is passed over.                              *)
SweepCloses ==
  /\ \E w \in batch :
       /\ \A v \in batch : ~ EndsBefore(v, w)
       /\ batch' = batch \ {w}
       /\ \/ /\ summary[w] # "closed"
             /\ order' = Requeued(w)
             /\ summary' = [summary EXCEPT ![w] = "closed"]
          \/ UNCHANGED << summary, order >>
  /\ UNCHANGED << windowVars, cook, events, late >>

(* The request dies, or the database refuses it. *)
SweepStops ==
  /\ batch # {}
  /\ batch' = {}
  /\ UNCHANGED << windowVars, alertVars, summary >>

SuppressionsNext ==
  \/ \E w \in Windows :
       \/ AskCreate(w) \/ AskUpdate(w) \/ AskExpire(w)
       \/ CreateSilence(w) \/ UpdateSilence(w) \/ ExpireSilence(w) \/ RequestFails(w)
       \/ WindowEnds(w)
  \/ SyncSilences
  \/ \E i \in Answers : ApplyAnswer(i)
  \/ \E f \in Alerts :
       \/ AlertFires(f) \/ AlertResolves(f)
       \/ CookMatches(f) \/ CookSuppresses(f) \/ CookFinishes(f)
  \/ SweepStarts \/ SweepCloses \/ SweepStops

SuppressionsSpec == SuppressionsInit /\ [][SuppressionsNext]_suppressionVars

-----------------------------------------------------------------------------
(* The Timer's sweep is still to come to the window: it is not closed, and *)
(* the running sweep holds it or its row can be selected.                  *)
Crowded(w) ==
  BatchLimit <=
    Cardinality({v \in Expired : summary[v] = "closed" /\ (Over(w) => EndsBefore(v, w))})
SweepAhead(w) ==
  /\ summary[w] # "closed"
  /\ w \in batch \/ ~ (row[w].canceled \/ Crowded(w))

(* Where the code leaves an alert behind its window.  No sweep selects a   *)
(* row with canceled_at, which every sync sets that finds the silence      *)
(* expired, by an operator or by its time.  Nor does it get past as many   *)
(* closed rows as its limit, until a sync has canceled them.  And an event *)
(* that Cook commits after the sweep has closed its window comes too late: *)
(* Cook matches and commits in two steps.                                  *)
LeftByCancel(w) == summary[w] # "closed" /\ row[w].canceled /\ silence[w] = "expired"
LeftByLimit(w) == summary[w] # "closed" /\ ~ row[w].canceled /\ Crowded(w)
LeftByRace(w, f) == f \in late[w]

(* While a suppressed alert has not resolved and has no active order, a    *)
(* sweep that puts it back is still to come, but for the three exceptions: *)
(* their alerts have no order until Alertmanager repeats the notification. *)
(* A canceled window is one of them only if its silence is over: answers   *)
(* that arrive out of order never take a window that still silences out of *)
(* the sweep's reach.                                                      *)
AlertsPutBack ==
  \A f \in Alerts :
    order[f].status = "suppressed" /\ order[f].alert = "firing" =>
      \E w \in Windows :
        /\ f \in events[w]
        /\ SweepAhead(w) \/ LeftByCancel(w) \/ LeftByLimit(w) \/ LeftByRace(w, f)

(* Cook, the sync and the sweep, with the types: an alert that still fires *)
(* is put back by a sweep, or left behind where it is said above.          *)
SuppressionsKept == SuppressionsTypeOK /\ AlertsPutBack
=============================================================================
