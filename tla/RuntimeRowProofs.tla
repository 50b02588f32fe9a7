-------------------------- MODULE RuntimeRowProofs --------------------------
(***************************************************************************)
(* Proofs, for any sets of rows, runners and Timers, that a row's claim is *)
(* exclusive and its work dispatched once while no claim on it lapses.     *)
(***************************************************************************)
EXTENDS RuntimeRow, TLAPS

(* The type invariant is inductive: no handler or worker step leaves the   *)
(* vocabulary of statuses, receipts, claims and worker positions.          *)
LEMMA TypeStep == TypeOK /\ [Next]_vars => TypeOK'
<1> SUFFICES ASSUME TypeOK, [Next]_vars PROVE TypeOK'
  OBVIOUS
<1> USE RuntimeRowAssumption DEF TypeOK, Workers, history, rowVars, workerVars
<1>1. ASSUME NEW r \in Rows, MarkReady(r) PROVE TypeOK'
  BY <1>1 DEF MarkReady, Statuses, Receipts
<1>2. ASSUME NEW w \in Workers, NEW r \in Rows, Take(w, r) PROVE TypeOK'
  BY <1>2 DEF Take, Receipts
<1>3. ASSUME NEW w \in Runners, RunnerStep(w) PROVE TypeOK'
  <2>1. CASE ExecuteRefused(w)
    BY <2>1 DEF ExecuteRefused, Post, Answers, Statuses, Terminal
  <2>2. CASE ExecuteOverdue(w)
    BY <2>2 DEF ExecuteOverdue, Post, Answers, Statuses, Terminal
  <2>3. CASE ExecuteBlocked(w)
    BY <2>3 DEF ExecuteBlocked, Post, Answers, Statuses
  <2>4. CASE ExecuteAdmitted(w)
    BY <2>4 DEF ExecuteAdmitted, Goto
  <2>5. CASE Dispatch(w)
    BY <2>5 DEF Dispatch, Goto, Bump
  <2>6. CASE DispatchReturns(w)
    BY <2>6 DEF DispatchReturns, AdapterAnswers, Post
  <2>7. CASE ExecuteTransportFailure(w)
    BY <2>7 DEF ExecuteTransportFailure, Post, Bump, Answers, Statuses, Terminal
  <2>8. CASE RunnerReconcile(w)
    <3>1. /\ status' \in [Rows -> Statuses]
          /\ receipt' \in [Rows -> Receipts]
          /\ claim' \in [Rows -> {"free", "fresh", "stale"}]
      BY <2>8 DEF RunnerReconcile, Apply, Verdict, Answers, Statuses, Terminal, Receipts
    <3>2. /\ pc' \in [Workers -> {"idle", "claimed", "dispatching", "waiting",
                                  "reconciling", "releasing", "cascading"}]
          /\ job' \in [Workers -> Rows \cup {NoRow}]
          /\ seen' \in [Workers -> Receipts]
          /\ answer' \in [Workers -> Answers]
      BY <2>8 DEF RunnerReconcile, Rest, Goto, NoAnswer, Answers, Statuses, Receipts
    <3> QED
      BY <2>8, <3>1, <3>2 DEF RunnerReconcile, Apply
  <2>9. CASE RunnerReconcileRefused(w)
    BY <2>9 DEF RunnerReconcileRefused, Rest, NoAnswer, Answers, Statuses, Receipts
  <2>10. CASE Release(w)
    BY <2>10 DEF Release, Rest, NoAnswer, Answers, Statuses, Receipts
  <2> QED
    BY <1>3, <2>1, <2>2, <2>3, <2>4, <2>5, <2>6, <2>7, <2>8, <2>9, <2>10 DEF RunnerStep
<1>4. ASSUME NEW w \in Timers, TimerStep(w) PROVE TypeOK'
  <2>1. CASE PollTerminal(w)
    BY <2>1 DEF PollTerminal, Post, Answers, Statuses, Terminal
  <2>2. CASE PollOverdue(w)
    BY <2>2 DEF PollOverdue, Post, Answers, Statuses, Terminal
  <2>3. CASE PollUnfinished(w)
    BY <2>3 DEF PollUnfinished, Goto
  <2>4. CASE TimerRecall(w)
    BY <2>4 DEF TimerRecall, Post, Answers, Statuses, Terminal
  <2>5. CASE TimerReconcile(w)
    BY <2>5 DEF TimerReconcile, Apply, Verdict, Rest, NoAnswer, Answers, Statuses, Terminal, Receipts
  <2>6. CASE TimerReconcileRefused(w)
    BY <2>6 DEF TimerReconcileRefused, Rest, NoAnswer, Answers, Statuses, Receipts
  <2>7. CASE Release(w)
    BY <2>7 DEF Release, Rest, NoAnswer, Answers, Statuses, Receipts
  <2> QED
    BY <1>4, <2>1, <2>2, <2>3, <2>4, <2>5, <2>6, <2>7 DEF TimerStep
<1>5. ASSUME NEW w \in Timers, NEW r \in Rows, TimerCascade(w, r) PROVE TypeOK'
  BY <1>5 DEF TimerCascade, Answers, Statuses, Terminal
<1>6. ASSUME NEW w \in Workers, Crash(w) PROVE TypeOK'
  BY <1>6 DEF Crash, Rest, NoAnswer, Answers, Statuses, Receipts
<1>7. ASSUME NEW r \in Rows, Lapse(r) PROVE TypeOK'
  BY <1>7 DEF Lapse
<1>8. ASSUME NEW r \in Rows, BecomeOverdue(r) PROVE TypeOK'
  BY <1>8 DEF BecomeOverdue
<1>9. ASSUME PluginHealth PROVE TypeOK'
  BY <1>9 DEF PluginHealth
<1>10. CASE UNCHANGED vars
  BY <1>10 DEF vars
<1> QED
  BY <1>1, <1>2, <1>3, <1>4, <1>5, <1>6, <1>7, <1>8, <1>9, <1>10
     DEF Next, Work, RunnerClaim, TimerClaim

(* Claims: the claim handlers admit a worker only when no fresh claim      *)
(* stands, so whoever still acts under an unlapsed claim is the only one;  *)
(* a worker that lets go, or is refused, leaves no other one behind.       *)
LEMMA ClaimStep ==
  TypeOK /\ ClaimKept /\ ClaimExclusive /\ [Next]_vars => ClaimKept' /\ ClaimExclusive'
<1> SUFFICES ASSUME TypeOK, ClaimKept, ClaimExclusive, [Next]_vars
             PROVE  ClaimKept' /\ ClaimExclusive'
  OBVIOUS
<1> USE RuntimeRowAssumption DEF TypeOK, ClaimKept, ClaimExclusive, Holds, Workers,
        history, rowVars, workerVars
<1>1. ASSUME NEW r \in Rows, MarkReady(r) PROVE ClaimKept' /\ ClaimExclusive'
  BY <1>1 DEF MarkReady, Terminal
<1>2. ASSUME NEW w \in Workers, NEW r \in Rows, Take(w, r) PROVE ClaimKept' /\ ClaimExclusive'
  <2>1. ClaimKept'
    BY <1>2 DEF Take
  <2>2. ClaimExclusive'
    BY <1>2 DEF Take, Terminal
  <2> QED
    BY <2>1, <2>2
<1>3. ASSUME NEW w \in Runners, RunnerStep(w) PROVE ClaimKept' /\ ClaimExclusive'
  <2>1. CASE ExecuteRefused(w)
    BY <2>1 DEF ExecuteRefused, Post
  <2>2. CASE ExecuteOverdue(w)
    BY <2>2 DEF ExecuteOverdue, Post
  <2>3. CASE ExecuteBlocked(w)
    BY <2>3 DEF ExecuteBlocked, Post
  <2>4. CASE ExecuteAdmitted(w)
    BY <2>4 DEF ExecuteAdmitted, Goto
  <2>5. CASE Dispatch(w)
    BY <2>5 DEF Dispatch, Goto, Bump
  <2>6. CASE DispatchReturns(w)
    BY <2>6 DEF DispatchReturns, Post
  <2>7. CASE ExecuteTransportFailure(w)
    BY <2>7 DEF ExecuteTransportFailure, Post, Bump
  <2>8. CASE RunnerReconcile(w)
    BY <2>8 DEF RunnerReconcile, Apply, MayBecome, Verdict, Rest, Goto, Terminal, Statuses, Answers
  <2>9. CASE RunnerReconcileRefused(w)
    BY <2>9 DEF RunnerReconcileRefused, Rest
  <2>10. CASE Release(w)
    BY <2>10 DEF Release, Rest
  <2> QED
    BY <1>3, <2>1, <2>2, <2>3, <2>4, <2>5, <2>6, <2>7, <2>8, <2>9, <2>10 DEF RunnerStep
<1>4. ASSUME NEW w \in Timers, TimerStep(w) PROVE ClaimKept' /\ ClaimExclusive'
  <2>1. CASE PollTerminal(w)
    BY <2>1 DEF PollTerminal, Post, Terminal
  <2>2. CASE PollOverdue(w)
    BY <2>2 DEF PollOverdue, Post, Terminal
  <2>3. CASE PollUnfinished(w)
    BY <2>3 DEF PollUnfinished, Goto
  <2>4. CASE TimerRecall(w)
    BY <2>4 DEF TimerRecall, Post, Terminal
  <2>5. CASE TimerReconcile(w)
    <3> DEFINE r == job[w]
    <3>1. r \in Rows /\ status'[r] \in Terminal /\ claim'[r] = "free"
      BY <2>5 DEF TimerReconcile, Apply, Verdict, Terminal
    <3> QED
      BY <2>5, <3>1 DEF TimerReconcile, Apply, Rest, Terminal
  <2>6. CASE TimerReconcileRefused(w)
    BY <2>6 DEF TimerReconcileRefused, Rest
  <2>7. CASE Release(w)
    BY <2>7 DEF Release, Rest
  <2> QED
    BY <1>4, <2>1, <2>2, <2>3, <2>4, <2>5, <2>6, <2>7 DEF TimerStep
<1>5. ASSUME NEW w \in Timers, NEW r \in Rows, TimerCascade(w, r)
      PROVE  ClaimKept' /\ ClaimExclusive'
  BY <1>5 DEF TimerCascade, Terminal
<1>6. ASSUME NEW w \in Workers, Crash(w) PROVE ClaimKept' /\ ClaimExclusive'
  BY <1>6 DEF Crash, Rest
<1>7. ASSUME NEW r \in Rows, Lapse(r) PROVE ClaimKept' /\ ClaimExclusive'
  BY <1>7 DEF Lapse
<1>8. ASSUME NEW r \in Rows, BecomeOverdue(r) PROVE ClaimKept' /\ ClaimExclusive'
  BY <1>8 DEF BecomeOverdue
<1>9. ASSUME PluginHealth PROVE ClaimKept' /\ ClaimExclusive'
  BY <1>9 DEF PluginHealth
<1>10. CASE UNCHANGED vars
  BY <1>10 DEF vars
<1> QED
  BY <1>1, <1>2, <1>3, <1>4, <1>5, <1>6, <1>7, <1>8, <1>9, <1>10
     DEF Next, Work, RunnerClaim, TimerClaim

(* Dispatches: the worker that dispatched a row keeps its claim until the  *)
(* row has ended or carries the provider's receipt, and from then on no    *)
(* runner claims it.                                                       *)
LEMMA DispatchStep ==
  /\ TypeOK /\ ClaimKept /\ ClaimExclusive /\ DispatchAccounted
  /\ [Next]_vars
  => DispatchAccounted'
<1> SUFFICES ASSUME TypeOK, ClaimKept, ClaimExclusive, DispatchAccounted, [Next]_vars
             PROVE  DispatchAccounted'
  OBVIOUS
<1> USE RuntimeRowAssumption DEF TypeOK, ClaimKept, ClaimExclusive, Holds, Workers,
        DispatchAccounted, HandedOn, history, rowVars, workerVars
<1>1. ASSUME NEW r \in Rows, MarkReady(r) PROVE DispatchAccounted'
  BY <1>1 DEF MarkReady, Terminal
<1>2. ASSUME NEW w \in Runners, NEW r \in Rows, RunnerClaim(w, r) PROVE DispatchAccounted'
  BY <1>2 DEF RunnerClaim, Take, Terminal
<1>3. ASSUME NEW w \in Runners, RunnerStep(w) PROVE DispatchAccounted'
  <2>1. CASE ExecuteRefused(w)
    BY <2>1 DEF ExecuteRefused, Post, Terminal
  <2>2. CASE ExecuteOverdue(w)
    BY <2>2 DEF ExecuteOverdue, Post, Terminal
  <2>3. CASE ExecuteBlocked(w)
    BY <2>3 DEF ExecuteBlocked, Post, Terminal
  <2>4. CASE ExecuteAdmitted(w)
    BY <2>4 DEF ExecuteAdmitted, Goto, Terminal
  <2>5. CASE Dispatch(w)
    BY <2>5 DEF Dispatch, Goto, Bump, Terminal
  <2>6. CASE DispatchReturns(w)
    BY <2>6 DEF DispatchReturns, AdapterAnswers, Post
  <2>7. CASE ExecuteTransportFailure(w)
    BY <2>7 DEF ExecuteTransportFailure, Post, Bump, Terminal
  <2>8. CASE RunnerReconcile(w)
    BY <2>8 DEF RunnerReconcile, Apply, MayBecome, Verdict, Rest, Goto, Terminal, Statuses, Answers
  <2>9. CASE RunnerReconcileRefused(w)
    BY <2>9 DEF RunnerReconcileRefused, Rest
  <2>10. CASE Release(w)
    BY <2>10 DEF Release, Rest, Terminal
  <2> QED
    BY <1>3, <2>1, <2>2, <2>3, <2>4, <2>5, <2>6, <2>7, <2>8, <2>9, <2>10 DEF RunnerStep
<1>4. ASSUME NEW w \in Timers, TimerStep(w) PROVE DispatchAccounted'
  <2>1. CASE PollTerminal(w)
    BY <2>1 DEF PollTerminal, Post
  <2>2. CASE PollOverdue(w)
    BY <2>2 DEF PollOverdue, Post
  <2>3. CASE PollUnfinished(w)
    BY <2>3 DEF PollUnfinished, Goto
  <2>4. CASE TimerRecall(w)
    BY <2>4 DEF TimerRecall, Post
  <2>5. CASE TimerReconcile(w)
    BY <2>5 DEF TimerReconcile, Apply, MayBecome, Verdict, Rest, Terminal, Statuses, Answers
  <2>6. CASE TimerReconcileRefused(w)
    BY <2>6 DEF TimerReconcileRefused, Rest
  <2>7. CASE Release(w)
    BY <2>7 DEF Release, Rest
  <2> QED
    BY <1>4, <2>1, <2>2, <2>3, <2>4, <2>5, <2>6, <2>7 DEF TimerStep
<1>5. ASSUME NEW w \in Timers, NEW r \in Rows, TimerClaim(w, r) PROVE DispatchAccounted'
  BY <1>5 DEF TimerClaim, Pollable, Take, Receipts
<1>6. ASSUME NEW w \in Timers, NEW r \in Rows, TimerCascade(w, r) PROVE DispatchAccounted'
  BY <1>6 DEF TimerCascade
<1>7. ASSUME NEW w \in Workers, Crash(w) PROVE DispatchAccounted'
  BY <1>7 DEF Crash, Rest
<1>8. ASSUME NEW r \in Rows, Lapse(r) PROVE DispatchAccounted'
  BY <1>8 DEF Lapse
<1>9. ASSUME NEW r \in Rows, BecomeOverdue(r) PROVE DispatchAccounted'
  BY <1>9 DEF BecomeOverdue
<1>10. ASSUME PluginHealth PROVE DispatchAccounted'
  BY <1>10 DEF PluginHealth
<1>11. CASE UNCHANGED vars
  BY <1>11 DEF vars
<1> QED
  BY <1>1, <1>2, <1>3, <1>4, <1>5, <1>6, <1>7, <1>8, <1>9, <1>10, <1>11 DEF Next, Work

-----------------------------------------------------------------------------
RowInv == TypeOK /\ ClaimKept /\ ClaimExclusive /\ DispatchAccounted

(* The type invariant and the three claims on rows hold together.         *)
LEMMA RowInvHolds == Spec => []RowInv
<1>1. Init => RowInv
  BY RuntimeRowAssumption
     DEF Init, RowInv, TypeOK, ClaimKept, ClaimExclusive, DispatchAccounted, Holds, HandedOn,
         Workers, Statuses, Terminal, Receipts, Answers, NoAnswer
<1>2. RowInv /\ [Next]_vars => RowInv'
  BY TypeStep, ClaimStep, DispatchStep DEF RowInv
<1> QED
  BY <1>1, <1>2, PTL DEF Spec

(* No interleaving of the handlers and workers leaves the vocabulary of    *)
(* statuses, receipts, claims and worker positions.                        *)
THEOREM TypeCorrect == Spec => []TypeOK
<1>1. RowInv => TypeOK
  BY DEF RowInv
<1> QED
  BY <1>1, RowInvHolds, PTL

(* At most one worker acts under a claim on a row that has not lapsed,     *)
(* whatever the number of runners and Timers (execution-claim, poll-claim, *)
(* the two releases and the two reconciles).                               *)
THEOREM ClaimsAreExclusive == Spec => []ClaimExclusive
<1>1. RowInv => ClaimExclusive
  BY DEF RowInv
<1> QED
  BY <1>1, RowInvHolds, PTL

(* Expediter hands a row to its provider once unless a claim on the row    *)
(* lapses or its adapter answers non-terminal with no receipt.             *)
THEOREM DispatchedAtMostOnce == Spec => []DispatchedOnce
<1>1. RowInv => DispatchedOnce
  BY DEF RowInv, DispatchAccounted, DispatchedOnce
<1> QED
  BY <1>1, RowInvHolds, PTL

(* A claim stays fresh from the time a worker takes it until that worker   *)
(* lets go of it, unless it lapses or the row ends; rows are claimed and   *)
(* dispatched only after Cook made them ready (_advance_dish).             *)
THEOREM ClaimsAreKept == Spec => []ClaimKept
<1>1. RowInv => ClaimKept
  BY DEF RowInv
<1> QED
  BY <1>1, RowInvHolds, PTL

(* A dispatched row is out of the runners' hands or under the claim of the *)
(* worker that dispatched it, until its receipt is recorded (dispatch,     *)
(* reconcile_executed_dish_ingredient).                                    *)
THEOREM DispatchesAreAccounted == Spec => []DispatchAccounted
<1>1. RowInv => DispatchAccounted
  BY DEF RowInv
<1> QED
  BY <1>1, RowInvHolds, PTL

(* What one step does to the status and the receipt of a row: nothing, or  *)
(* Cook makes it ready, or its owner's reconcile applies an answer to it.  *)
Kept(r) == status'[r] = status[r] /\ receipt'[r] = receipt[r]

Made(r) ==
  /\ status[r] = "pending" /\ receipt[r] = "none"
  /\ status'[r] = "running" /\ receipt'[r] = "runner"

Reconciled(w, r) ==
  /\ job[w] = r
  /\ pc'[w] # pc[w]
  /\ receipt[r] = "runner" <=> w \in Runners
  /\ MayBecome(status[r], answer[w].status)
  /\ status'[r] = Verdict(r, answer[w])
  /\ receipt'[r] = IF answer[w].id = "none" THEN receipt[r] ELSE answer[w].id
  /\ w \in Timers => answer[w].status \in Terminal /\ answer[w].id = "none"

(* How one step may change a row that runs or has ended.                   *)
LEMMA RowStep ==
  ASSUME RowInv, [Next]_vars, NEW r \in Rows
  PROVE  Kept(r) \/ Made(r) \/ \E w \in Workers : Reconciled(w, r)
<1> USE RuntimeRowAssumption DEF RowInv, TypeOK, Workers, history, rowVars, workerVars
<1>1. ASSUME NEW q \in Rows, MarkReady(q) PROVE Kept(r) \/ Made(r)
  BY <1>1 DEF MarkReady, ClaimKept, Kept, Made
<1>2. ASSUME NEW w \in Runners, RunnerReconcile(w)
      PROVE  Kept(r) \/ \E v \in Workers : Reconciled(v, r)
  BY <1>2 DEF RunnerReconcile, Apply, Rest, Goto, Kept, Reconciled
<1>3. ASSUME NEW w \in Timers, TimerReconcile(w)
      PROVE  Kept(r) \/ \E v \in Workers : Reconciled(v, r)
  BY <1>3 DEF TimerReconcile, Apply, Rest, ClaimKept, Kept, Reconciled
<1>4. ASSUME UNCHANGED << status, receipt >> PROVE Kept(r)
  BY <1>4 DEF Kept
<1>5. ASSUME NEW w \in Runners, RunnerStep(w), ~RunnerReconcile(w)
      PROVE  UNCHANGED << status, receipt >>
  BY <1>5 DEF RunnerStep, ExecuteRefused, ExecuteOverdue, ExecuteBlocked, ExecuteAdmitted, Dispatch,
        DispatchReturns, ExecuteTransportFailure, RunnerReconcileRefused, Release
<1>6. ASSUME NEW w \in Timers, TimerStep(w), ~TimerReconcile(w)
      PROVE  UNCHANGED << status, receipt >>
  BY <1>6 DEF TimerStep, PollTerminal, PollOverdue, PollUnfinished, TimerRecall,
        TimerReconcileRefused, Release
<1>7. ASSUME \/ \E w \in Workers, q \in Rows : Take(w, q) \/ TimerCascade(w, q)
             \/ \E q \in Rows : Lapse(q) \/ BecomeOverdue(q)
             \/ \E w \in Workers : Crash(w)
             \/ PluginHealth
             \/ UNCHANGED vars
      PROVE  UNCHANGED << status, receipt >>
  BY <1>7 DEF Take, TimerCascade, Lapse, BecomeOverdue, Crash, PluginHealth, vars
<1> QED
  BY <1>1, <1>2, <1>3, <1>4, <1>5, <1>6, <1>7 DEF Next, Work, RunnerClaim, TimerClaim

(* A terminal row stays terminal, and one without an expected outcome keeps *)
(* its status, through any late or duplicated reconcile.                   *)
THEOREM TerminalIsFinal == Spec => TerminalFinal
<1>1. ASSUME RowInv, [Next]_vars, NEW r \in Rows, status[r] \in Terminal
      PROVE  status'[r] \in Terminal /\ (status'[r] # status[r] => r \in Expecting)
  <2>1. ASSUME NEW w \in Workers, Reconciled(w, r)
        PROVE  status'[r] \in Terminal /\ (status'[r] # status[r] => r \in Expecting)
    BY <1>1, <2>1 DEF Reconciled, MayBecome, Verdict, Terminal
  <2> QED
    BY <1>1, <2>1, RowStep DEF Kept, Made, Terminal
<1>2. RowInv /\ [Next]_vars =>
        [\A r \in Rows : status[r] \in Terminal =>
           /\ status'[r] \in Terminal
           /\ status'[r] # status[r] => r \in Expecting]_vars
  BY <1>1
<1> QED
  BY <1>2, RowInvHolds, PTL DEF Spec, TerminalFinal

(* Only the owner that the receipt names ends a running row, and no late   *)
(* answer of a runner takes a row back from its provider.                  *)
THEOREM OwnersDecide == Spec => OwnerDecides
<1>1. ASSUME RowInv, [Next]_vars, NEW r \in Rows, status[r] = "running"
      PROVE  /\ receipt[r] = "provider" => receipt'[r] = "provider"
             /\ status'[r] # "running" =>
                  \E w \in Workers : /\ job[w] = r
                                     /\ pc'[w] # pc[w]
                                     /\ receipt[r] = "runner" <=> w \in Runners
  <2>1. ASSUME NEW w \in Workers, Reconciled(w, r), receipt[r] = "provider"
        PROVE  receipt'[r] = "provider"
    BY <2>1, RuntimeRowAssumption DEF Reconciled, Workers
  <2>2. receipt[r] = "provider" => receipt'[r] = "provider"
    BY <1>1, <2>1, RowStep DEF Kept, Made
  <2>3. status'[r] # "running" => \E w \in Workers : Reconciled(w, r)
    BY <1>1, RowStep DEF Kept, Made
  <2> QED
    BY <2>2, <2>3 DEF Reconciled
<1>2. RowInv /\ [Next]_vars =>
        [\A r \in Rows : status[r] = "running" =>
           /\ receipt[r] = "provider" => receipt'[r] = "provider"
           /\ status'[r] # "running" =>
                \E w \in Workers : /\ job[w] = r
                                   /\ pc'[w] # pc[w]
                                   /\ receipt[r] = "runner" <=> w \in Runners]_vars
  BY <1>1
<1> QED
  BY <1>2, RowInvHolds, PTL DEF Spec, OwnerDecides

-----------------------------------------------------------------------------
(* The contract.  A step on the rows is one of the contract's steps or     *)
(* leaves what the contract speaks of unchanged.                           *)

ContractView ==
  << outcomeBar, {r \in Rows : receipt[r] # "none"}, {r \in Rows : dispatched[r] # 0} >>

(* Cook's mark is the contract's MakeReady.                                *)
LEMMA ReadyStep ==
  ASSUME RowInv, NEW r \in Rows, MarkReady(r)
  PROVE  Contract!MakeReady(r)
<1> USE DEF RowInv, TypeOK, MarkReady, outcomeBar, history, Statuses, Terminal
<1>1. outcomeBar[r] = "waiting" /\ outcomeBar' = [outcomeBar EXCEPT ![r] = "ready"]
  OBVIOUS
<1>2. {q \in Rows : receipt'[q] # "none"} = {q \in Rows : receipt[q] # "none"} \cup {r}
  OBVIOUS
<1>3. {q \in Rows : dispatched'[q] # 0} = {q \in Rows : dispatched[q] # 0}
  OBVIOUS
<1> QED
  BY <1>1, <1>2, <1>3 DEF Contract!MakeReady

(* A reconcile that takes effect is the contract's End or Skip, or changes *)
(* nothing the contract sees.                                              *)
LEMMA ReconcileStep ==
  ASSUME RowInv, Expecting = {}, NEW w \in Workers,
         \/ w \in Runners /\ RunnerReconcile(w)
         \/ w \in Timers /\ TimerReconcile(w)
  PROVE  Contract!Next \/ UNCHANGED ContractView
<1> DEFINE r == job[w]
<1> USE DEF RowInv, TypeOK, history
<1>1. r \in Rows
  BY DEF ClaimKept, RunnerReconcile, TimerReconcile
<1>2. /\ Apply(r, answer[w])
      /\ UNCHANGED dispatched
      /\ status[r] = "pending" => pc[w] = "cascading" /\ answer[w].status = "canceled"
      /\ receipt[r] = "none" => answer[w].id = "none"
  BY <1>1 DEF ClaimKept, RunnerReconcile, TimerReconcile, Holds
<1>3. status' = [status EXCEPT ![r] = answer[w].status]
  BY <1>2 DEF Apply, Verdict
<1>4. {q \in Rows : receipt'[q] # "none"} = {q \in Rows : receipt[q] # "none"}
  BY <1>1, <1>2 DEF Apply, Answers
<1>5. {q \in Rows : dispatched'[q] # 0} = {q \in Rows : dispatched[q] # 0}
  BY <1>2
<1>6. CASE answer[w].status = status[r]
  <2>1. outcomeBar' = outcomeBar
    BY <1>3, <1>6 DEF outcomeBar
  <2> QED
    BY <2>1, <1>4, <1>5 DEF ContractView
<1>7. CASE status[r] = "pending"
  <2>1. outcomeBar[r] = "waiting" /\ outcomeBar' = [outcomeBar EXCEPT ![r] = "canceled"]
    BY <1>1, <1>2, <1>3, <1>7 DEF outcomeBar
  <2>2. Contract!Skip(r)
    BY <2>1, <1>4, <1>5 DEF Contract!Skip
  <2> QED
    BY <1>1, <2>2 DEF Contract!Next
<1>8. CASE status[r] = "running" /\ answer[w].status # "running"
  <2>1. answer[w].status \in Terminal
    BY <1>1, <1>2, <1>8 DEF Apply, MayBecome, Answers, Statuses
  <2>2. /\ outcomeBar[r] = "ready"
        /\ outcomeBar' = [outcomeBar EXCEPT ![r] = answer[w].status]
    BY <1>1, <1>3, <1>8, <2>1 DEF outcomeBar, Terminal
  <2>3. Contract!End(r, answer[w].status)
    BY <2>2, <1>4, <1>5 DEF Contract!End
  <2> QED
    BY <1>1, <2>1, <2>3 DEF Contract!Next
<1> QED
  BY <1>2, <1>6, <1>7, <1>8 DEF Apply, MayBecome

(* A dispatch is the contract's Start.                                     *)
LEMMA StartStep ==
  ASSUME RowInv, NEW w \in Runners, NEW r \in Rows, r = job[w],
         UNCHANGED << status, receipt >>, pc[w] = "dispatching", Bump(r)
  PROVE  Contract!Start(r)
<1> USE DEF RowInv, TypeOK, Workers
<1>1. receipt[r] # "none"
  BY DEF ClaimKept, Holds
<1>2. {q \in Rows : dispatched'[q] # 0} = {q \in Rows : dispatched[q] # 0} \cup {r}
  BY DEF Bump
<1> QED
  BY <1>1, <1>2 DEF Contract!Start, outcomeBar

(* Rows with no expected outcome implement RowContract under every          *)
(* interleaving of claims, dispatches, reconciles, lapses and crashes.     *)
THEOREM RowsKeepContract == ASSUME Expecting = {} PROVE Spec => KeepsContract
<1>1. Init => Contract!Init
  BY DEF Init, Contract!Init, outcomeBar
<1>2. ASSUME RowInv, [Next]_vars PROVE [Contract!Next]_(Contract!contractVars)
  <2>1. ASSUME NEW r \in Rows, MarkReady(r) PROVE Contract!Next
    BY <1>2, <2>1, ReadyStep DEF Contract!Next
  <2>2. ASSUME NEW w \in Runners, RunnerReconcile(w)
        PROVE  Contract!Next \/ UNCHANGED ContractView
    <3>1. w \in Workers
      BY DEF Workers
    <3> QED
      BY <1>2, <2>2, <3>1, ReconcileStep
  <2>3. ASSUME NEW w \in Timers, TimerReconcile(w)
        PROVE  Contract!Next \/ UNCHANGED ContractView
    <3>1. w \in Workers
      BY DEF Workers
    <3> QED
      BY <1>2, <2>3, <3>1, ReconcileStep
  <2>4. ASSUME NEW w \in Runners, pc[w] = "dispatching", Bump(job[w]),
               UNCHANGED << status, receipt >>
        PROVE  Contract!Next
    <3>1. PICK r \in Rows : r = job[w]
      BY <1>2, <2>4 DEF RowInv, ClaimKept, Workers
    <3>2. Contract!Start(r)
      BY <1>2, <2>4, <3>1, StartStep
    <3> QED
      BY <3>2 DEF Contract!Next
  <2>5. ASSUME UNCHANGED << status, receipt, dispatched >> PROVE UNCHANGED ContractView
    BY <2>5 DEF ContractView, outcomeBar
  <2>6. ASSUME NEW w \in Runners, RunnerStep(w), ~RunnerReconcile(w)
        PROVE  /\ UNCHANGED << status, receipt >>
               /\ \/ UNCHANGED dispatched
                  \/ pc[w] = "dispatching" /\ Bump(job[w])
    BY <2>6 DEF RunnerStep, ExecuteRefused, ExecuteOverdue, ExecuteBlocked, ExecuteAdmitted,
          Dispatch, DispatchReturns, ExecuteTransportFailure, RunnerReconcileRefused, Release,
          rowVars, history
  <2>7. ASSUME NEW w \in Timers, TimerStep(w), ~TimerReconcile(w)
        PROVE  UNCHANGED << status, receipt, dispatched >>
    BY <2>7 DEF TimerStep, PollTerminal, PollOverdue, PollUnfinished, TimerRecall,
          TimerReconcileRefused, Release, rowVars, history
  <2>8. ASSUME \/ \E w \in Workers, q \in Rows : Take(w, q) \/ TimerCascade(w, q)
               \/ \E q \in Rows : Lapse(q) \/ BecomeOverdue(q)
               \/ \E w \in Workers : Crash(w)
               \/ PluginHealth
               \/ UNCHANGED vars
        PROVE  UNCHANGED << status, receipt, dispatched >>
    BY <2>8 DEF Take, TimerCascade, Lapse, BecomeOverdue, Crash, PluginHealth, vars,
          rowVars, history
  <2>9. Contract!Next \/ UNCHANGED ContractView
    BY <1>2, <2>1, <2>2, <2>3, <2>4, <2>5, <2>6, <2>7, <2>8
       DEF Next, Work, RunnerClaim, TimerClaim, Workers
  <2> QED
    BY <2>9 DEF ContractView, Contract!contractVars
<1> QED
  BY <1>1, <1>2, RowInvHolds, PTL DEF Spec, KeepsContract, Contract!Spec
=============================================================================
