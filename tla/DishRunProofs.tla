--------------------------- MODULE DishRunProofs ---------------------------
(***************************************************************************)
(* Proofs, for every recipe and any number of requests and Timers, that    *)
(* the rows of a dish run in order and that its end says what they did.    *)
(***************************************************************************)
EXTENDS DishRun, WellFoundedInduction, TLAPS

(* The type invariant is inductive. *)
LEMMA TypeStep == TypeOK /\ [Next]_vars => TypeOK'
<1> SUFFICES ASSUME TypeOK, [Next]_vars PROVE TypeOK'
  OBVIOUS
<1> USE DEF TypeOK, Workers, DishStatuses, DishEnds, RowEnds
<1>1. ASSUME NEW c \in Requests, AdvanceSegment(c) PROVE TypeOK'
  BY <1>1 DEF AdvanceSegment, Segment
<1>2. ASSUME NEW c \in Requests, AdvanceEnd(c) PROVE TypeOK'
  BY <1>2 DEF AdvanceEnd
<1>3. ASSUME NEW c \in Requests, RequestStep(c) PROVE TypeOK'
  <2>1. CASE Mark(c)
    BY <1>3, <2>1 DEF Mark, FirstOf, GoOn, Rest
  <2>2. CASE MarkLost(c)
    BY <1>3, <2>2 DEF MarkLost, GoOn, Rest
  <2>3. CASE Flag(c)
    BY <1>3, <2>3 DEF Flag, Rest
  <2>4. CASE EndDish(c)
    BY <1>3, <2>4 DEF EndDish, Rest
  <2> QED
    BY <1>3, <2>1, <2>2, <2>3, <2>4 DEF RequestStep
<1>4. ASSUME NEW t \in Timers, CascadeRead(t) PROVE TypeOK'
  BY <1>4 DEF CascadeRead
<1>5. ASSUME NEW t \in Timers, Cascade(t) PROVE TypeOK'
  BY <1>5 DEF Cascade, Rest
<1>6. ASSUME NEW s \in Steps, RowEnd(s) PROVE TypeOK'
  BY <1>6 DEF RowEnd
<1>7. ASSUME NEW w \in Workers, Crash(w) PROVE TypeOK'
  BY <1>7 DEF Crash, Rest
<1>8. CASE UNCHANGED vars
  BY <1>8 DEF vars
<1> QED
  BY <1>1, <1>2, <1>3, <1>4, <1>5, <1>6, <1>7, <1>8 DEF Next, Work, Advance

(* Rows, dish and requests stay within their vocabulary. *)
THEOREM TypeCorrect == Spec => []TypeOK
<1>1. Init => TypeOK
  BY DEF Init, TypeOK, Workers, DishStatuses, DishEnds, RowEnds
<1> QED
  BY <1>1, TypeStep, PTL DEF Spec

-----------------------------------------------------------------------------
(* No step moves a row that has ended, so what a request found passed, or   *)
(* blocking, is so when it acts.                                           *)
LEMMA EndedRowsStay ==
  ASSUME TypeOK, [Next]_vars, NEW s \in Steps
  PROVE  /\ row[s] \in RowEnds => row'[s] = row[s]
         /\ row'[s] = "pending" => row[s] = "pending"
<1> USE DEF TypeOK, RowEnds
<1>1. ASSUME NEW c \in Requests, Mark(c)
      PROVE  \E t \in Steps : row[t] = "pending" /\ row' = [row EXCEPT ![t] = "running"]
  BY <1>1 DEF Mark, FirstOf, Workers
<1>2. ASSUME NEW w \in Timers, Cascade(w)
      PROVE  \E t \in Steps : row' = [row EXCEPT ![t] = IF @ = "pending" THEN "canceled" ELSE @]
  BY <1>2 DEF Cascade, Workers
<1>3. ASSUME NEW t \in Steps, RowEnd(t)
      PROVE  \E e \in RowEnds : row[t] = "running" /\ row' = [row EXCEPT ![t] = e]
  BY <1>3 DEF RowEnd
<1>4. \/ row' = row
      \/ \E t \in Steps : row[t] = "pending" /\ row' = [row EXCEPT ![t] = "running"]
      \/ \E t \in Steps : row' = [row EXCEPT ![t] = IF @ = "pending" THEN "canceled" ELSE @]
      \/ \E t \in Steps, e \in RowEnds : row[t] = "running" /\ row' = [row EXCEPT ![t] = e]
  BY <1>1, <1>2, <1>3 DEF Next, Work, Advance, RequestStep, AdvanceSegment, AdvanceEnd,
     MarkLost, Flag, EndDish, CascadeRead, Crash, vars
<1> QED
  BY <1>4

(* The same of the two verdicts on a row that the handlers use. *)
LEMMA VerdictsStay ==
  ASSUME TypeOK, [Next]_vars, NEW s \in Steps
  PROVE  /\ Passed(s) => Passed(s)'
         /\ Blocking(s) => Blocking(s)' /\ row'[s] = row[s]
<1> QED
  BY EndedRowsStay DEF Passed, Blocking, RowEnds

-----------------------------------------------------------------------------
(* What a request holds to be true of the rows it has yet to mark. *)
TodoInOrder ==
  \A c \in Workers : pc[c] \in {"marking", "flagging"} =>
    \A s \in todo[c], t \in Steps : Bucket[t] < Bucket[s] => Passed(t)

(* The rows of a segment have every earlier bucket behind them. *)
LEMMA SegmentInOrder ==
  ASSUME NEW s \in Segment, NEW t \in Steps, Bucket[t] < Bucket[s]
  PROVE  Passed(t)
<1>1. PICK f \in Steps : /\ Bucket[f] = Bucket[s]
                         /\ \A u \in Steps : Passed(u) \/ u = f \/ Before(f, u)
  BY DEF Segment
<1>2. t # f /\ ~Before(f, t)
  BY <1>1, DishRunAssumption DEF Before, Segment
<1> QED
  BY <1>1, <1>2

(* Order is kept: the advance that marks a row read the earlier buckets as  *)
(* passed, and passed they stay.                                           *)
LEMMA OrderStep ==
  TypeOK /\ InOrder /\ TodoInOrder /\ [Next]_vars => InOrder' /\ TodoInOrder'
<1> SUFFICES ASSUME TypeOK, InOrder, TodoInOrder, [Next]_vars
             PROVE  InOrder' /\ TodoInOrder'
  OBVIOUS
<1>0. \A t \in Steps : Passed(t) => Passed(t)'
  BY VerdictsStay
<1>1. ASSUME NEW c \in Requests, AdvanceSegment(c) PROVE InOrder' /\ TodoInOrder'
  <2>1. InOrder'
    BY <1>1, <1>0 DEF AdvanceSegment, InOrder
  <2>2. TodoInOrder'
    BY <1>1, <1>0, SegmentInOrder DEF AdvanceSegment, TodoInOrder, TypeOK, Workers
  <2> QED
    BY <2>1, <2>2
<1>2. ASSUME NEW c \in Requests, AdvanceEnd(c) PROVE InOrder' /\ TodoInOrder'
  BY <1>2, <1>0 DEF AdvanceEnd, InOrder, TodoInOrder, TypeOK, Workers
<1>3. ASSUME NEW c \in Requests, Mark(c) PROVE InOrder' /\ TodoInOrder'
  <2>1. PICK s \in todo[c] :
          /\ row' = [row EXCEPT ![s] = "running"]
          /\ pc'[c] \in {"marking", "flagging"} => todo'[c] \subseteq todo[c]
    <3>1. c \in DOMAIN todo /\ c \in DOMAIN pc
      BY DEF TypeOK, Workers
    <3>2. PICK s \in FirstOf(todo[c]) :
            /\ row' = [row EXCEPT ![s] = "running"]
            /\ \/ GoOn(c, todo[c] \ {s})
               \/ todo' = [todo EXCEPT ![c] = @ \ {s}]
      BY <1>3 DEF Mark
    <3>3. s \in todo[c]
      BY <3>2 DEF FirstOf
    <3>4. pc'[c] \in {"marking", "flagging"} => todo'[c] \subseteq todo[c]
      <4>1. CASE GoOn(c, todo[c] \ {s})
        BY <4>1, <3>1 DEF GoOn, Rest
      <4>2. CASE todo' = [todo EXCEPT ![c] = @ \ {s}]
        BY <4>2, <3>1
      <4> QED
        BY <3>2, <4>1, <4>2
    <3> QED
      BY <3>2, <3>3, <3>4
  <2>2. \A w \in Workers : w # c => pc'[w] = pc[w] /\ todo'[w] = todo[w]
    BY <1>3 DEF Mark, GoOn, Rest, TypeOK, Workers
  <2>3. pc[c] = "marking"
    BY <1>3 DEF Mark
  <2>4. InOrder'
    BY <1>0, <2>1, <2>3 DEF InOrder, TodoInOrder, TypeOK, Workers
  <2>5. TodoInOrder'
    BY <1>0, <2>1, <2>2, <2>3 DEF TodoInOrder, Workers
  <2> QED
    BY <2>4, <2>5
<1>4. ASSUME NEW c \in Requests, MarkLost(c) PROVE InOrder' /\ TodoInOrder'
  <2>1. /\ pc[c] = "marking"
        /\ pc'[c] \in {"marking", "flagging"} => todo'[c] \subseteq todo[c]
    BY <1>4 DEF MarkLost, FirstOf, GoOn, Rest, TypeOK, Workers
  <2>2. \A w \in Workers : w # c => pc'[w] = pc[w] /\ todo'[w] = todo[w]
    BY <1>4 DEF MarkLost, GoOn, Rest, TypeOK, Workers
  <2>3. InOrder'
    BY <1>4, <1>0 DEF MarkLost, InOrder
  <2>4. TodoInOrder'
    BY <1>0, <2>1, <2>2 DEF TodoInOrder, Workers
  <2> QED
    BY <2>3, <2>4
<1>5. ASSUME NEW c \in Requests, Flag(c) PROVE InOrder' /\ TodoInOrder'
  BY <1>5, <1>0 DEF Flag, Rest, InOrder, TodoInOrder, TypeOK, Workers
<1>6. ASSUME NEW c \in Requests, EndDish(c) PROVE InOrder' /\ TodoInOrder'
  BY <1>6, <1>0 DEF EndDish, Rest, InOrder, TodoInOrder, TypeOK, Workers
<1>7. ASSUME NEW t \in Timers, CascadeRead(t) PROVE InOrder' /\ TodoInOrder'
  BY <1>7, <1>0 DEF CascadeRead, InOrder, TodoInOrder, TypeOK, Workers
<1>8. ASSUME NEW t \in Timers, Cascade(t) PROVE InOrder' /\ TodoInOrder'
  <2>1. PICK s \in Steps : row' = [row EXCEPT ![s] = IF @ = "pending" THEN "canceled" ELSE @]
    BY <1>8 DEF Cascade, TypeOK, Workers
  <2>2. InOrder'
    BY <1>0, <2>1 DEF InOrder, TypeOK
  <2>3. \A w \in Workers : pc'[w] \in {"marking", "flagging"} =>
          pc'[w] = pc[w] /\ todo'[w] = todo[w]
    BY <1>8 DEF Cascade, Rest, TypeOK, Workers
  <2>4. TodoInOrder'
    BY <1>0, <2>3 DEF TodoInOrder
  <2> QED
    BY <2>2, <2>4
<1>9. ASSUME NEW s \in Steps, RowEnd(s) PROVE InOrder' /\ TodoInOrder'
  BY <1>9, <1>0 DEF RowEnd, RowEnds, InOrder, TodoInOrder, TypeOK, Workers
<1>10. ASSUME NEW w \in Workers, Crash(w) PROVE InOrder' /\ TodoInOrder'
  BY <1>10, <1>0 DEF Crash, Rest, InOrder, TodoInOrder, TypeOK
<1>11. CASE UNCHANGED vars
  BY <1>11, <1>0 DEF vars, InOrder, TodoInOrder
<1> QED
  BY <1>1, <1>2, <1>3, <1>4, <1>5, <1>6, <1>7, <1>8, <1>9, <1>10, <1>11
     DEF Next, Work, Advance, RequestStep

(* Whatever advances, Timers and crashes interleave, a row runs only behind *)
(* buckets that have ended without a blocking failure.                     *)
THEOREM RowsRunInOrder == Spec => []InOrder
<1>1. Init => InOrder /\ TodoInOrder
  BY DEF Init, InOrder, TodoInOrder, Workers
<1> QED
  BY <1>1, OrderStep, TypeCorrect, PTL DEF Spec

-----------------------------------------------------------------------------
(* A non-empty set of numbers has a least element. *)
LEMMA LeastNumber ==
  ASSUME NEW S \in SUBSET Nat, S # {}
  PROVE  \E n \in S : \A m \in S : n <= m
<1>1. PICK n \in S : \A m \in S : ~(<<m, n>> \in OpToRel(<, Nat))
  BY WFMin, NatLessThanWellFounded
<1>2. \A m \in S : ~(m < n)
  BY <1>1 DEF OpToRel
<1> QED
  BY <1>2

(* If some row is not passed, a first one is: next_pending_execution_segment *)
(* always has a row that decides.                                          *)
LEMMA FirstUnpassed ==
  ASSUME NEW s \in Steps, ~Passed(s)
  PROVE  \E f \in Steps : ~Passed(f) /\ \A t \in Steps : Passed(t) \/ t = f \/ Before(f, t)
<1> DEFINE U == {t \in Steps : ~Passed(t)}
           B == {Bucket[t] : t \in U}
<1>0. B \in SUBSET Nat /\ B # {}
  BY DishRunAssumption
<1>1. PICK b \in B : \A m \in B : b <= m
  BY <1>0, LeastNumber
<1> DEFINE F == {t \in U : Bucket[t] = b}
<1>2. PICK f \in F : \A m \in F : f <= m
  BY LeastNumber, DishRunAssumption
<1>3. ASSUME NEW t \in U PROVE t = f \/ Before(f, t)
  BY <1>1, <1>2, DishRunAssumption DEF Before
<1> QED
  BY <1>2, <1>3

(* What a verdict claims of the rows. *)
Justified(v) ==
  /\ v = "complete" => \A s \in Steps : Passed(s)
  /\ v \in {"failed", "canceled"} => \E s \in Steps : Blocking(s) /\ row[s] = v

BesideFailure ==
  \A s \in Steps : row[s] \notin RowEnds =>
    \E b \in Steps : Blocking(b) /\ Bucket[b] = Bucket[s]

(* The verdict that a request is about to write is as good as one written. *)
VerdictsHold ==
  \A c \in Workers : pc[c] = "ending" =>
    /\ Justified(verdict[c])
    /\ verdict[c] \in DishEnds => BesideFailure

EndHolds == Justified(dish) /\ (dish \in DishEnds => BesideFailure)

(* The rows move only so that what a verdict claims of them remains true. *)
LEMMA ClaimsStay ==
  ASSUME TypeOK, [Next]_vars
  PROVE  /\ \A v \in DishStatuses : Justified(v) => Justified(v)'
         /\ BesideFailure => BesideFailure'
<1>1. \A s \in Steps : /\ row[s] \in RowEnds => row'[s] = row[s]
                       /\ row'[s] \notin RowEnds => row[s] \notin RowEnds
  BY EndedRowsStay
<1>2. ASSUME NEW v \in DishStatuses, Justified(v) PROVE Justified(v)'
  BY <1>1, <1>2 DEF Justified, Passed, Blocking, RowEnds
<1>3. ASSUME BesideFailure PROVE BesideFailure'
  BY <1>1, <1>3 DEF BesideFailure, Blocking, RowEnds
<1> QED
  BY <1>2, <1>3

(* A request that finds no segment, nothing in flight and nothing held back *)
(* computes a verdict that the rows justify.                               *)
LEMMA VerdictJustified ==
  ASSUME TypeOK, Segment = {}, ~InFlight, ~HeldBack, NEW v \in DishStatuses, EndsAs(v)
  PROVE  Justified(v) /\ BesideFailure
<1>1. Justified(v)
  BY DEF EndsAs, Justified, Passed, RowEnds, TypeOK
<1>2. ASSUME NEW s \in Steps, row[s] \notin RowEnds
      PROVE  \E b \in Steps : Blocking(b) /\ Bucket[b] = Bucket[s]
  <2>1. row[s] = "pending" /\ ~Passed(s)
    BY <1>2 DEF InFlight, TypeOK, Passed
  <2>2. PICK f \in Steps : /\ ~Passed(f)
                           /\ \A t \in Steps : Passed(t) \/ t = f \/ Before(f, t)
    BY <2>1, FirstUnpassed
  <2>3. row[f] # "pending"
    BY <2>2 DEF Segment
  <2>4. Blocking(f)
    BY <2>2, <2>3 DEF InFlight, TypeOK, Passed
  <2>5. ~(Bucket[f] < Bucket[s])
    BY <2>1, <2>4 DEF HeldBack
  <2>6. Bucket[f] = Bucket[s]
    BY <2>1, <2>2, <2>5, DishRunAssumption DEF Before
  <2> QED
    BY <2>4, <2>6
<1> QED
  BY <1>1, <1>2 DEF BesideFailure

(* Verdicts, computed or written, stay justified. *)
LEMMA EndStep ==
  TypeOK /\ EndHolds /\ VerdictsHold /\ [Next]_vars => EndHolds' /\ VerdictsHold'
<1> SUFFICES ASSUME TypeOK, EndHolds, VerdictsHold, [Next]_vars
             PROVE  EndHolds' /\ VerdictsHold'
  OBVIOUS
<1>0. /\ \A v \in DishStatuses : Justified(v) => Justified(v)'
      /\ BesideFailure => BesideFailure'
  BY ClaimsStay
<1>1. ASSUME NEW c \in Requests, AdvanceEnd(c) PROVE VerdictsHold'
  <2>1. /\ verdict'[c] \in DishStatuses
        /\ Justified(verdict'[c]) /\ BesideFailure
    BY <1>1, VerdictJustified DEF AdvanceEnd, TypeOK, Workers
  <2>2. \A w \in Workers : w # c => pc'[w] = pc[w] /\ verdict'[w] = verdict[w]
    BY <1>1 DEF AdvanceEnd, TypeOK, Workers
  <2> QED
    BY <1>0, <2>1, <2>2 DEF VerdictsHold, TypeOK
<1>2. ASSUME ~\E c \in Requests : AdvanceEnd(c)
      PROVE  \A w \in Workers : pc'[w] = "ending" =>
               pc[w] = "ending" /\ verdict'[w] = verdict[w]
  BY <1>2 DEF Next, Work, Advance, RequestStep, AdvanceSegment, Mark, MarkLost, Flag,
     EndDish, GoOn, Rest, CascadeRead, Cascade, RowEnd, Crash, vars, TypeOK, Workers
<1>3. VerdictsHold'
  BY <1>0, <1>1, <1>2 DEF VerdictsHold, TypeOK
<1>4. \/ dish' = dish
      \/ dish' = "processing"
      \/ \E c \in Workers : pc[c] = "ending" /\ dish' = verdict[c]
  BY DEF Next, Work, Advance, RequestStep, AdvanceSegment, AdvanceEnd, Mark, MarkLost,
     Flag, EndDish, CascadeRead, Cascade, RowEnd, Crash, vars, Workers
<1>5. EndHolds'
  <2>1. CASE dish' = dish
    BY <1>0, <2>1 DEF EndHolds, TypeOK
  <2>2. CASE dish' = "processing"
    BY <2>2 DEF EndHolds, Justified, DishEnds
  <2>3. CASE \E c \in Workers : pc[c] = "ending" /\ dish' = verdict[c]
    BY <1>0, <2>3 DEF EndHolds, VerdictsHold, TypeOK
  <2> QED
    BY <1>4, <2>1, <2>2, <2>3
<1> QED
  BY <1>3, <1>5

(* What EndHolds and VerdictsHold say is true of every reachable state. *)
LEMMA EndInvariant == Spec => [](EndHolds /\ VerdictsHold)
<1>1. Init => EndHolds /\ VerdictsHold
  BY DEF Init, EndHolds, VerdictsHold, Justified, DishEnds, Workers
<1> QED
  BY <1>1, EndStep, TypeCorrect, PTL DEF Spec

(* A dish ends as its rows did, whichever advance writes last. *)
THEOREM EndsAreJustified == Spec => []EndJustified
<1>1. EndHolds => EndJustified
  BY DEF EndHolds, Justified, EndJustified
<1> QED
  BY <1>1, EndInvariant, PTL

(* An ended dish leaves rows undone only in the bucket of a failure. *)
THEOREM EndsLeaveNothingBehind == Spec => []LeftBesideFailure
<1>1. EndHolds => LeftBesideFailure
  BY DEF EndHolds, BesideFailure, LeftBesideFailure
<1> QED
  BY <1>1, EndInvariant, PTL
=============================================================================
