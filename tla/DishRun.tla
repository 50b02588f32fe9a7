------------------------------ MODULE DishRun ------------------------------
(***************************************************************************)
(* The rows of one dish, brought to their end segment by segment.          *)
(*                                                                         *)
(* Cook's advance (_advance_dish, api/api/cook.py) reads the rows, decides, *)
(* and acts on its decision in later transactions; Prep Chef, Runners and  *)
(* Timers call it whenever they think that the dish may move, so several   *)
(* requests work on one dish at a time and any of them may die.  Timers    *)
(* cancel the rows behind a blocking failure in the same way: they read,   *)
(* then post row by row (_cancel_blocked_future_rows, kitchen/timer.py).   *)
(*                                                                         *)
(* A row is identified by its id.  Its bucket is (depth, parallel_group),  *)
(* in the order the code compares them.  `failed` stands for failed,       *)
(* errored and timeout; a remediation guard that found the alert not       *)
(* firing counts as `canceled`.                                            *)
(***************************************************************************)
EXTENDS Naturals

CONSTANTS
  Steps,        \* the rows of the dish, by id
  Bucket,       \* bucket of each row
  Continues,    \* rows with on_failure = "continue"
  Requests,     \* advance requests
  Timers        \* Timer replicas

ASSUME DishRunAssumption ==
  /\ Steps \subseteq Nat
  /\ Bucket \in [Steps -> Nat]
  /\ Continues \subseteq Steps
  /\ Requests \cap Timers = {}

VARIABLES
  row,          \* service_exec_status of each row
  dish,         \* processing_status of the dish
  pc,           \* what each request or Timer does next
  todo,         \* the rows it has yet to mark, or to cancel
  saw,          \* the dish's status as the request's session knows it
  verdict       \* the status it computed for the dish

vars == << row, dish, pc, todo, saw, verdict >>

Workers == Requests \cup Timers
RowEnds == {"succeeded", "failed", "canceled"}
DishEnds == {"complete", "failed", "canceled"}
DishStatuses == {"new", "processing"} \cup DishEnds

TypeOK ==
  /\ row \in [Steps -> {"pending", "running"} \cup RowEnds]
  /\ dish \in DishStatuses
  /\ pc \in [Workers -> {"idle", "marking", "flagging", "ending", "cascading"}]
  /\ todo \in [Workers -> SUBSET Steps]
  /\ saw \in [Workers -> DishStatuses]
  /\ verdict \in [Workers -> DishStatuses]

Init ==
  /\ row = [s \in Steps |-> "pending"]
  /\ dish = "new"
  /\ pc = [w \in Workers |-> "idle"]
  /\ todo = [w \in Workers |-> {}]
  /\ saw = [w \in Workers |-> "new"]
  /\ verdict = [w \in Workers |-> "new"]

-----------------------------------------------------------------------------
(* What the rows say. *)

(* Definitions whose names end in a bug are not part of the model: each is *)
(* the neighbour that follows it with that bug, to try the properties on.  *)

(* _is_blocking_failure. *)
Blocking(s) == row[s] \in {"failed", "canceled"} /\ s \notin Continues

(* A row that next_pending_execution_segment steps over. *)
Passed(s) == row[s] \in RowEnds /\ ~Blocking(s)

Before(s, t) ==
  \/ Bucket[s] < Bucket[t]
  \/ Bucket[s] = Bucket[t] /\ s < t

SegmentOverFailures ==
  {s \in Steps :
     /\ row[s] = "pending"
     /\ \E f \in Steps :
          /\ row[f] = "pending" /\ Bucket[f] = Bucket[s]
          /\ \A t \in Steps : row[t] \in RowEnds \/ t = f \/ Before(f, t)}

(* The first row that is not passed decides: if it is pending, every        *)
(* pending row of its bucket is the segment.                               *)
Segment ==
  {s \in Steps :
     /\ row[s] = "pending"
     /\ \E f \in Steps :
          /\ row[f] = "pending" /\ Bucket[f] = Bucket[s]
          /\ \A t \in Steps : Passed(t) \/ t = f \/ Before(f, t)}

(* has_in_flight_execution and _has_pending_after_blocking_failure. *)
InFlight == \E s \in Steps : row[s] = "running"

HeldBackNever == FALSE

HeldBack ==
  \E b, s \in Steps : Blocking(b) /\ row[s] = "pending" /\ Bucket[b] < Bucket[s]

EndsAsStrictly(v) ==
  \/ v = "complete" /\ (\A s \in Steps : row[s] = "succeeded")
  \/ \E s \in Steps :
       /\ row[s] # "succeeded"
       /\ \A t \in Steps : t < s => row[t] = "succeeded"
       /\ v = IF row[s] \in RowEnds THEN row[s] ELSE "processing"

(* _dish_terminal_state: the first row by id that is not passed decides. *)
EndsAs(v) ==
  \/ v = "complete" /\ (\A s \in Steps : Passed(s))
  \/ \E s \in Steps :
       /\ ~Passed(s)
       /\ \A t \in Steps : t < s => Passed(t)
       /\ v = IF row[s] \in RowEnds THEN row[s] ELSE "processing"

-----------------------------------------------------------------------------
(* Cook's advance. *)

Rest(w) ==
  /\ pc' = [pc EXCEPT ![w] = "idle"]
  /\ todo' = [todo EXCEPT ![w] = {}]
  /\ saw' = [saw EXCEPT ![w] = "new"]
  /\ verdict' = [verdict EXCEPT ![w] = "new"]

(* What is left of the segment, or the end of the request. *)
GoOn(c, rest) ==
  IF rest = {} THEN Rest(c)
  ELSE /\ pc' = [pc EXCEPT ![c] = "marking"]
       /\ todo' = [todo EXCEPT ![c] = rest]
       /\ UNCHANGED << saw, verdict >>

(* A request that finds rows in flight, or pending rows behind a failure,  *)
(* ends without a write.                                                   *)
AdvanceSegment(c) ==
  /\ pc[c] = "idle"
  /\ Segment # {}
  /\ pc' = [pc EXCEPT ![c] = "marking"]
  /\ todo' = [todo EXCEPT ![c] = Segment]
  /\ saw' = [saw EXCEPT ![c] = dish]
  /\ UNCHANGED << row, dish, verdict >>

AdvanceEnd(c) ==
  /\ pc[c] = "idle"
  /\ Segment = {} /\ ~InFlight /\ ~HeldBack
  /\ \E v \in DishStatuses : EndsAs(v) /\ verdict' = [verdict EXCEPT ![c] = v]
  /\ pc' = [pc EXCEPT ![c] = "ending"]
  /\ saw' = [saw EXCEPT ![c] = dish]
  /\ UNCHANGED << row, dish, todo >>

FirstOf(S) == {s \in S : \A t \in S : s <= t}

(* The guarded UPDATE of the next row of the segment. *)
Mark(c) ==
  /\ pc[c] = "marking"
  /\ \E s \in FirstOf(todo[c]) :
       /\ row[s] = "pending"
       /\ row' = [row EXCEPT ![s] = "running"]
       /\ IF saw[c] = "processing" THEN GoOn(c, todo[c] \ {s})
          ELSE /\ pc' = [pc EXCEPT ![c] = "flagging"]
               /\ todo' = [todo EXCEPT ![c] = @ \ {s}]
               /\ UNCHANGED << saw, verdict >>
  /\ UNCHANGED dish

MarkLost(c) ==
  /\ pc[c] = "marking"
  /\ \E s \in FirstOf(todo[c]) :
       /\ row[s] # "pending"
       /\ GoOn(c, todo[c] \ {s})
  /\ UNCHANGED << row, dish >>

FlagFinalizing(c) ==
  /\ pc[c] = "flagging"
  /\ dish' = "finalizing"
  /\ Rest(c)
  /\ UNCHANGED row

(* The dish's status, in a transaction of its own after the first row won. *)
Flag(c) ==
  /\ pc[c] = "flagging"
  /\ dish' = "processing"
  /\ IF todo[c] = {} THEN Rest(c)
     ELSE /\ pc' = [pc EXCEPT ![c] = "marking"]
          /\ saw' = [saw EXCEPT ![c] = "processing"]
          /\ UNCHANGED << todo, verdict >>
  /\ UNCHANGED row

EndDishFlagged(c) ==
  /\ pc[c] = "ending"
  /\ dish' = IF saw[c] = "processing" THEN verdict[c] ELSE dish
  /\ Rest(c)
  /\ UNCHANGED row

(* The session writes the verdict if it differs from the status it read. *)
EndDish(c) ==
  /\ pc[c] = "ending"
  /\ dish' = IF saw[c] = verdict[c] THEN dish ELSE verdict[c]
  /\ Rest(c)
  /\ UNCHANGED row

-----------------------------------------------------------------------------
(* Timer cancels what is behind a blocking failure. *)

(* Once no row of the failed bucket runs, Timer reads the pending rows of  *)
(* later buckets.                                                          *)
CascadeRead(t) ==
  /\ pc[t] = "idle"
  /\ \E b \in Steps :
       /\ Blocking(b)
       /\ \A s \in Steps : Blocking(s) => Bucket[b] <= Bucket[s]
       /\ \A s \in Steps : Bucket[s] = Bucket[b] => row[s] # "running"
       /\ todo' = [todo EXCEPT ![t] = {s \in Steps : row[s] = "pending" /\ Bucket[b] < Bucket[s]}]
  /\ todo'[t] # {}
  /\ pc' = [pc EXCEPT ![t] = "cascading"]
  /\ UNCHANGED << row, dish, saw, verdict >>

(* POST reconcile with `canceled`, refused unless the row is pending.      *)
Cascade(t) ==
  /\ pc[t] = "cascading"
  /\ \E s \in todo[t] :
       /\ row' = [row EXCEPT ![s] = IF @ = "pending" THEN "canceled" ELSE @]
       /\ IF todo[t] = {s} THEN Rest(t)
          ELSE /\ todo' = [todo EXCEPT ![t] = @ \ {s}]
               /\ UNCHANGED << pc, saw, verdict >>
  /\ UNCHANGED dish

-----------------------------------------------------------------------------
(* A Runner or Timer reconciles a running row (RuntimeRow). *)
RowEnd(s) ==
  /\ row[s] = "running"
  /\ \E e \in RowEnds : row' = [row EXCEPT ![s] = e]
  /\ UNCHANGED << dish, pc, todo, saw, verdict >>

(* The process dies or its transaction fails. *)
Crash(w) ==
  /\ pc[w] # "idle"
  /\ Rest(w)
  /\ UNCHANGED << row, dish >>

RequestStep(c) == Mark(c) \/ MarkLost(c) \/ Flag(c) \/ EndDish(c)

Advance(c) == AdvanceSegment(c) \/ AdvanceEnd(c)

Work ==
  \/ \E c \in Requests : Advance(c) \/ RequestStep(c)
  \/ \E t \in Timers : CascadeRead(t) \/ Cascade(t)
  \/ \E s \in Steps : RowEnd(s)

Next ==
  \/ Work
  \/ \E w \in Workers : Crash(w)

Spec == Init /\ [][Next]_vars

-----------------------------------------------------------------------------
(* Properties. *)

(* "No segment dispatches while in-flight executions exist" and blocking    *)
(* failures halt progress (docs/CONTRACTS.md): a row runs only when every  *)
(* row of every earlier bucket has ended without a blocking failure,       *)
(* though the advance that marks it decided on an older reading.           *)
InOrder ==
  \A s, t \in Steps : row[s] = "running" /\ Bucket[t] < Bucket[s] => Passed(t)

(* A dish is complete only if all its rows have ended well, and fails or is *)
(* canceled only for a row that did, whichever of several crossing         *)
(* advances writes its verdict last.                                       *)
EndJustified ==
  /\ dish = "complete" => \A s \in Steps : Passed(s)
  /\ dish \in {"failed", "canceled"} => \E s \in Steps : Blocking(s) /\ row[s] = dish

(* What an ended dish leaves undone is beside the failure, in its bucket;   *)
(* rows of later buckets were canceled first.                              *)
LeftBesideFailure ==
  dish \in DishEnds =>
    \A s \in Steps : row[s] \notin RowEnds =>
      \E b \in Steps : Blocking(b) /\ Bucket[b] = Bucket[s]

(* The dish ends and stays ended, if workers stop dying at some time: the   *)
(* cascade unblocks the advance that waits behind a failure, and a segment *)
(* marked in part before a crash is taken up again.                        *)
Finishes ==
  <>[][Work]_vars => <>[](dish \in DishEnds)

(* Requests and Timers go on with what they began; Timer lists the dish     *)
(* while it is active, and rows that run end.                              *)
TimerAdvance ==
  /\ dish \notin DishEnds
  /\ \E c \in Requests : Advance(c)

Fairness ==
  /\ \A c \in Requests : WF_vars(RequestStep(c))
  /\ SF_vars(TimerAdvance)
  /\ \A t \in Timers : WF_vars(CascadeRead(t)) /\ WF_vars(Cascade(t))
  /\ \A s \in Steps : WF_vars(RowEnd(s))

FairSpec == Spec /\ Fairness
=============================================================================
