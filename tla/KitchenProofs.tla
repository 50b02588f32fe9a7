--------------------------- MODULE KitchenProofs ---------------------------
(***************************************************************************)
(* Proofs about one order, for any number of dishes, of notifications and  *)
(* of concurrent requests: what KitchenSafety and KitchenSettles check    *)
(* on small instances.  Where a theorem says so, no suppression matches    *)
(* the alert and every recipe seeds rows in both phases (Plain), or recipes*)
(* remediate and a suppressed alert fires once (Remediating).              *)
(***************************************************************************)
EXTENDS Kitchen, TLAPS, FiniteSetTheorems, WellFoundedInduction

OrderTypes ==
  /\ alert \in {"firing", "resolved"}
  /\ order \in {"new", "processing", "resolving"} \cup Ended
  /\ active \in BOOLEAN
  /\ remediation \in {"pending", "none", "succeeded", "failed"}
  /\ counter \in 1 .. MaxCounter

(* Dishes are numbered as they are made, so that the next is a new one.    *)
DishTypes ==
  /\ phase \in [Dishes -> {"none", "firing", "resolving"}]
  /\ dish \in [Dishes -> Active \cup Ended]
  /\ work \in [Dishes -> {"none", "pending", "running", "deleted"} \cup RowEnded]
  /\ grown \in [Dishes -> 0 .. MaxGrowth]
  /\ revived \subseteq Dishes /\ early \subseteq Dishes
  /\ \A d \in Dishes : phase[d] = "none" => dish[d] = "new" /\ work[d] = "none"
  /\ \E n \in 0 .. MaxDishes : Made = 1 .. n

Places == {"idle", "planned", "marking", "flagging", "ending", "resolving"}

CookTypes ==
  /\ pc \in [Cooks -> Places]
  /\ on \in [Cooks -> Dishes \cup {0}]
  /\ saw \in [Cooks -> Active \cup Ended]
  /\ verdict \in [Cooks -> Ended]
  /\ read \in [Cooks -> 0 .. MaxGrowth]
  /\ \A c \in Cooks : on[c] # 0 => on[c] \in Made
  /\ \A c \in Cooks : pc[c] \notin {"idle", "resolving"} => on[c] # 0

KitchenTypes == OrderTypes /\ DishTypes /\ CookTypes

(* They are TypeOK and the numbering.                                      *)
LEMMA TypesAreTypeOK == KitchenTypes => TypeOK
BY DEF KitchenTypes, OrderTypes, DishTypes, CookTypes, Places, TypeOK, Made

-----------------------------------------------------------------------------
(* A non-empty set of dishes has a newest.                                 *)
LEMMA NewestDish ==
  ASSUME NEW S \in SUBSET Dishes, S # {}
  PROVE  Max(S) \in S
<1> USE KitchenAssumption DEF Dishes
<1> DEFINE T == {MaxDishes - d : d \in S}
<1>1. T \in SUBSET Nat /\ T # {}
  <2>1. \A d \in S : MaxDishes - d \in Nat
    OBVIOUS
  <2>2. PICK d \in S : TRUE
    OBVIOUS
  <2>3. MaxDishes - d \in T
    OBVIOUS
  <2> QED
    BY <2>1, <2>3
<1>2. PICK t \in T : \A u \in T : ~(<< u, t >> \in OpToRel(<, Nat))
  BY <1>1, WFMin, NatLessThanWellFounded
<1>3. PICK d \in S : t = MaxDishes - d
  OBVIOUS
<1>4. ASSUME NEW e \in S PROVE d >= e
  <2>1. MaxDishes - e \in T /\ MaxDishes - e \in Nat /\ t \in Nat
    BY <1>1
  <2>2. ~ (MaxDishes - e < t)
    BY <1>2, <2>1 DEF OpToRel
  <2> QED
    BY <1>3, <2>2
<1> QED
  BY <1>3, <1>4 DEF Max

(* The next dish is the one behind those that are made.                    *)
LEMMA NextDish ==
  ASSUME DishTypes, Cardinality(Made) + 1 \in Dishes
  PROVE  /\ Cardinality(Made) + 1 \notin Made
         /\ \E n \in 0 .. MaxDishes : Made \cup {Cardinality(Made) + 1} = 1 .. n
<1>1. PICK n \in 0 .. MaxDishes : Made = 1 .. n
  BY DEF DishTypes
<1>2. Cardinality(Made) = n
  BY <1>1, FS_Interval, KitchenAssumption
<1>3. n + 1 \in 0 .. MaxDishes /\ Made \cup {n + 1} = 1 .. (n + 1)
  BY <1>1, <1>2, KitchenAssumption DEF Dishes
<1> QED
  BY <1>1, <1>2, <1>3

(* What a dispatch does to the rows and the growth of a dish.              *)
LEMMA SeedTypes ==
  ASSUME DishTypes, NEW d \in Dishes, NEW hasRows, Seed(d, hasRows) \/ Grow(d, hasRows)
  PROVE  /\ work' \in [Dishes -> {"none", "pending", "running", "deleted"} \cup RowEnded]
         /\ grown' \in [Dishes -> 0 .. MaxGrowth]
         /\ \A e \in Dishes \ {d} : work'[e] = work[e]
<1>1. CASE Seed(d, hasRows)
  BY <1>1 DEF Seed, DishTypes
<1>2. CASE Grow(d, hasRows)
  <2>1. PICK w \in {"pending", "running"} : work' = [work EXCEPT ![d] = w]
    BY <1>2 DEF Grow
  <2>2. grown' = [grown EXCEPT ![d] = @ + 1] /\ grown[d] < MaxGrowth
    BY <1>2 DEF Grow
  <2>3. grown[d] + 1 \in 0 .. MaxGrowth
    BY <2>2, KitchenAssumption DEF DishTypes
  <2> QED
    BY <2>1, <2>2, <2>3 DEF DishTypes
<1> QED
  BY <1>1, <1>2

(* A dispatch takes the newest active dish of its phase or makes the next. *)
LEMMA PlanStep ==
  ASSUME DishTypes, NEW p \in {"firing", "resolving"}, NEW recipe, Plan(p, recipe),
         UNCHANGED history
  PROVE  /\ DishTypes'
         /\ DishFor(p) \in Made'
         /\ Made \subseteq Made' /\ \A d \in Made : phase'[d] = phase[d]
         /\ dish' = dish
         /\ \/ DishFor(p) \in ActiveOf(p)
            \/ ActiveOf(p) = {} /\ DishFor(p) \notin Made
         /\ phase'[DishFor(p)] = p
         /\ Made' = Made \cup {DishFor(p)}
<1> DEFINE d == DishFor(p) hasRows == HasRows(recipe, p)
<1>1. /\ d \in Dishes /\ phase' = [phase EXCEPT ![d] = p] /\ dish' = dish
      /\ Seed(d, hasRows) \/ Grow(d, hasRows)
  BY DEF Plan
<1>2. /\ work' \in [Dishes -> {"none", "pending", "running", "deleted"} \cup RowEnded]
      /\ grown' \in [Dishes -> 0 .. MaxGrowth]
      /\ \A e \in Dishes \ {d} : work'[e] = work[e]
  <2> HIDE DEF d, hasRows
  <2> QED
    BY <1>1, SeedTypes
<1>3. UNCHANGED << revived, early >>
  BY DEF history
<1>4. CASE ActiveOf(p) # {}
  <2>1. ActiveOf(p) \in SUBSET Dishes
    BY DEF ActiveOf, ActiveDishes, Made
  <2>2. d \in ActiveOf(p)
    BY <1>4, <2>1, NewestDish DEF DishFor
  <2>3. d \in Made /\ phase[d] = p
    BY <2>2 DEF ActiveOf, ActiveDishes
  <2>4. phase' = phase /\ Made' = Made
    BY <1>1, <2>3 DEF DishTypes, Made
  <2>5. \A e \in Dishes : phase[e] = "none" => work'[e] = "none"
    BY <1>2, <2>3 DEF DishTypes, Made
  <2>6. DishTypes'
    BY <1>1, <1>2, <1>3, <2>4, <2>5 DEF DishTypes
  <2> QED
    BY <1>1, <2>2, <2>3, <2>4, <2>6
<1>5. CASE ActiveOf(p) = {}
  <2>1. /\ d \notin Made /\ \E n \in 0 .. MaxDishes : Made \cup {d} = 1 .. n
    BY <1>1, <1>5, NextDish DEF DishFor
  <2>2. Made' = Made \cup {d}
    BY <1>1 DEF Made, DishTypes
  <2>3. \A e \in Made : phase'[e] = phase[e]
    BY <1>1, <2>1 DEF Made, DishTypes
  <2>4. phase' \in [Dishes -> {"none", "firing", "resolving"}] /\ phase'[d] = p
    BY <1>1 DEF DishTypes
  <2>5. \A e \in Dishes : phase'[e] = "none" => phase[e] = "none" /\ work'[e] = work[e]
    BY <1>1, <1>2, <2>4 DEF DishTypes
  <2>6. DishTypes'
    BY <1>1, <1>2, <1>3, <2>1, <2>2, <2>4, <2>5 DEF DishTypes
  <2> QED
    BY <1>1, <1>5, <2>1, <2>2, <2>3, <2>4, <2>6
<1> QED
  BY <1>4, <1>5

-----------------------------------------------------------------------------
(* A request that rests.                                                   *)
LEMMA CookRests ==
  ASSUME CookTypes, NEW c \in Cooks, Rest(c), Made \subseteq Made'
  PROVE  CookTypes' /\ pc'[c] = "idle"
<1> USE DEF CookTypes
<1>1. /\ pc' = [pc EXCEPT ![c] = "idle"] /\ on' = [on EXCEPT ![c] = 0]
      /\ saw' = [saw EXCEPT ![c] = "new"] /\ verdict' = [verdict EXCEPT ![c] = "complete"]
      /\ read' = [read EXCEPT ![c] = 0]
  BY DEF Rest
<1>2. /\ pc' \in [Cooks -> Places] /\ on' \in [Cooks -> Dishes \cup {0}]
      /\ saw' \in [Cooks -> Active \cup Ended] /\ verdict' \in [Cooks -> Ended]
      /\ read' \in [Cooks -> 0 .. MaxGrowth]
  BY <1>1, KitchenAssumption DEF Places, Active, Ended
<1>3. \A e \in Cooks : /\ on'[e] # 0 => on'[e] \in Made'
                       /\ pc'[e] \notin {"idle", "resolving"} => on'[e] # 0
  BY <1>1
<1> QED
  BY <1>1, <1>2, <1>3

(* A request that goes on, with its dish made.                             *)
LEMMA CookGoes ==
  ASSUME CookTypes, NEW c \in Cooks, NEW where \in Places, NEW d \in Dishes \cup {0},
         Goto(c, where, d), Made \subseteq Made',
         d # 0 => d \in Made', where \notin {"idle", "resolving"} => d # 0,
         saw' \in [Cooks -> Active \cup Ended], verdict' \in [Cooks -> Ended],
         read' \in [Cooks -> 0 .. MaxGrowth]
  PROVE  CookTypes'
<1> USE DEF CookTypes
<1>1. /\ pc' = [pc EXCEPT ![c] = where] /\ on' = [on EXCEPT ![c] = d]
  BY DEF Goto
<1>2. /\ pc' \in [Cooks -> Places] /\ on' \in [Cooks -> Dishes \cup {0}]
  BY <1>1
<1>3. \A e \in Cooks : /\ on'[e] # 0 => on'[e] \in Made'
                       /\ pc'[e] \notin {"idle", "resolving"} => on'[e] # 0
  BY <1>1
<1> QED
  BY <1>2, <1>3

(* The dish of a request, and of an advance, is made.                      *)
LEMMA OnMade ==
  ASSUME DishTypes, CookTypes, NEW c \in Cooks
  PROVE  /\ pc[c] \notin {"idle", "resolving"} => on[c] \in Made
         /\ \A d \in Made : d \in Dishes /\ phase[d] # "none"
         /\ \A d \in Made : Advances(c, d) => d \in Dishes \cup {0} /\ d # 0
BY KitchenAssumption DEF CookTypes, Made, Dishes

(* Dishes change and none is made.                                         *)
LEMMA DishChanges ==
  ASSUME DishTypes, NEW d \in Made, UNCHANGED phase,
         NEW s \in Active \cup Ended, dish' = [dish EXCEPT ![d] = s],
         NEW w \in {"none", "pending", "running", "deleted"} \cup RowEnded,
         work' = [work EXCEPT ![d] = w], UNCHANGED grown,
         revived' \in {revived, revived \cup {d}}, early' \in {early, early \cup {d}}
  PROVE  DishTypes' /\ Made' = Made
<1> USE DEF DishTypes, Made
<1>1. d \in Dishes /\ phase[d] # "none"
  OBVIOUS
<1>2. /\ dish' \in [Dishes -> Active \cup Ended]
      /\ work' \in [Dishes -> {"none", "pending", "running", "deleted"} \cup RowEnded]
      /\ revived' \subseteq Dishes /\ early' \subseteq Dishes
  BY <1>1
<1>3. \A e \in Dishes : phase'[e] = "none" => dish'[e] = "new" /\ work'[e] = "none"
  BY <1>1
<1> QED
  BY <1>2, <1>3

-----------------------------------------------------------------------------
(* Types, handler by handler.                                              *)
LEMMA DispatchTypes ==
  ASSUME KitchenTypes, NEW recipe \in Recipes, Dispatch(recipe), UNCHANGED history
  PROVE  /\ OrderTypes' /\ DishTypes' /\ Made \subseteq Made'
         /\ DishFor(IF order = "new" THEN "firing" ELSE "resolving") \in Made'
<1> USE DEF KitchenTypes
<1>1. CASE DispatchFiring(recipe)
  <2>1. order = "new" /\ Plan("firing", recipe)
    BY <1>1 DEF DispatchFiring
  <2>2. OrderTypes'
    BY <1>1 DEF DispatchFiring, OrderTypes
  <2> QED
    BY <2>1, <2>2, PlanStep
<1>2. CASE DispatchResolving(recipe)
  <2>1. order = "resolving" /\ Plan("resolving", recipe)
    BY <1>2 DEF DispatchResolving
  <2>2. OrderTypes'
    BY <1>2 DEF DispatchResolving, OrderTypes, orderVars
  <2> QED
    BY <2>1, <2>2, PlanStep
<1> QED
  BY <1>1, <1>2 DEF Dispatch

(* A dispatch that finds no recipe.                                        *)
LEMMA NothingTypes ==
  ASSUME KitchenTypes, DispatchNothing, UNCHANGED history
  PROVE  OrderTypes' /\ DishTypes' /\ Made' = Made
BY DEF KitchenTypes, OrderTypes, DishTypes, Made, DispatchNothing, dishVars, history

(* Prep Chef's request.                                                    *)
LEMMA PrepTypes ==
  ASSUME KitchenTypes, PrepDispatch \/ PrepDispatchNothing \/ Suppress
  PROVE  KitchenTypes'
<1> USE DEF KitchenTypes
<1>p. Prep \in Cooks
  BY DEF Cooks
<1>1. CASE PrepDispatch
  <2> DEFINE d == DishFor(IF order = "new" THEN "firing" ELSE "resolving")
  <2>1. UNCHANGED << saw, verdict, read, history >> /\ Goto(Prep, "planned", d)
    BY <1>1 DEF PrepDispatch
  <2>2. PICK recipe \in Recipes : Dispatch(recipe)
    BY <1>1 DEF PrepDispatch
  <2>3. OrderTypes' /\ DishTypes' /\ Made \subseteq Made' /\ d \in Made'
    BY <2>1, <2>2, DispatchTypes
  <2>4. d \in Dishes /\ d # 0
    BY <2>3 DEF Made, Dishes
  <2>5. /\ saw' \in [Cooks -> Active \cup Ended] /\ verdict' \in [Cooks -> Ended]
        /\ read' \in [Cooks -> 0 .. MaxGrowth]
    BY <2>1 DEF CookTypes
  <2> HIDE DEF d
  <2> QED
    BY <1>p, <2>1, <2>3, <2>4, <2>5, CookGoes DEF Places
<1>2. CASE PrepDispatchNothing
  BY <1>2, NothingTypes DEF PrepDispatchNothing, cookVars, CookTypes
<1>3. CASE Suppress
  <2>1. OrderTypes'
    BY <1>3 DEF Suppress, OrderTypes, Ended
  <2>2. on[Prep] \in Made /\ on[Prep] \in Dishes
    BY <1>p, <1>3, OnMade DEF Suppress, Made
  <2>3. PICK w \in LeftOf(on[Prep]) : work' = [work EXCEPT ![on[Prep]] = w]
    BY <1>3 DEF Suppress
  <2>4. w \in {"none", "pending", "running", "deleted"} \cup RowEnded
    BY <2>2, <2>3 DEF LeftOf, DishTypes
  <2>5. DishTypes' /\ Made' = Made
    BY <1>3, <2>2, <2>3, <2>4, DishChanges DEF Suppress, Ended, history
  <2> QED
    BY <1>3, <1>p, <2>1, <2>5, CookRests DEF Suppress
<1> QED
  BY <1>1, <1>2, <1>3

(* An advance reads the rows.                                              *)
LEMMA AdvanceTypes ==
  ASSUME KitchenTypes, NEW c \in Cooks, NEW d \in Made, Advance(c, d)
  PROVE  KitchenTypes'
<1> USE DEF KitchenTypes
<1>1. UNCHANGED << orderVars, dishVars, history >>
  BY DEF Advance, ReadBlocked, ReadPending, ReadEnded
<1>2. OrderTypes' /\ DishTypes' /\ Made' = Made
  BY <1>1 DEF orderVars, dishVars, history, OrderTypes, DishTypes, Made
<1>3. d \in Dishes /\ d # 0 /\ dish[d] \in Active \cup Ended /\ grown[d] \in 0 .. MaxGrowth
  BY DEF Made, Dishes, DishTypes
<1>4. CASE ReadBlocked(c, d)
  BY <1>2, <1>4, CookRests DEF ReadBlocked
<1>5. CASE ReadPending(c, d)
  <2>1. /\ saw' \in [Cooks -> Active \cup Ended] /\ verdict' \in [Cooks -> Ended]
        /\ read' \in [Cooks -> 0 .. MaxGrowth]
    BY <1>3, <1>5 DEF ReadPending, CookTypes
  <2> QED
    BY <1>2, <1>3, <1>5, <2>1, CookGoes DEF ReadPending, Places
<1>6. CASE ReadEnded(c, d)
  <2>1. /\ saw' \in [Cooks -> Active \cup Ended] /\ verdict' \in [Cooks -> Ended]
        /\ read' \in [Cooks -> 0 .. MaxGrowth]
    BY <1>3, <1>6 DEF ReadEnded, CookTypes, Ended
  <2> QED
    BY <1>2, <1>3, <1>6, <2>1, CookGoes DEF ReadEnded, Places
<1> QED
  BY <1>4, <1>5, <1>6 DEF Advance

(* An advance marks the rows and the dish.                                 *)
LEMMA MarkTypes ==
  ASSUME KitchenTypes, NEW c \in Cooks, Mark(c) \/ MarkLost(c) \/ Flag(c)
  PROVE  KitchenTypes'
<1> USE DEF KitchenTypes
<1>1. on[c] \in Made /\ on[c] \in Dishes /\ on[c] # 0
  BY OnMade DEF Mark, MarkLost, Flag, Made, Dishes
<1>2. OrderTypes'
  BY DEF OrderTypes, Mark, MarkLost, Flag, orderVars
<1>3. CASE Mark(c)
  <2>1. DishTypes' /\ Made' = Made
    <3>1. dish' = [dish EXCEPT ![on[c]] = dish[on[c]]] /\ dish[on[c]] \in Active \cup Ended
      BY <1>1, <1>3 DEF Mark, DishTypes
    <3>2. PICK w \in {"running", "none"} : work' = [work EXCEPT ![on[c]] = w]
      BY <1>3 DEF Mark
    <3> QED
      BY <1>1, <1>3, <3>1, <3>2, DishChanges DEF Mark, history
  <2>2. CASE Rest(c)
    BY <1>2, <2>1, <2>2, CookRests
  <2>3. CASE Goto(c, "flagging", on[c]) /\ UNCHANGED << saw, verdict, read >>
    <3>1. CookTypes'
      BY <1>1, <2>1, <2>3, CookGoes DEF CookTypes, Places
    <3> QED
      BY <1>2, <2>1, <3>1
  <2> QED
    BY <1>3, <2>2, <2>3 DEF Mark
<1>4. CASE MarkLost(c)
  BY <1>2, <1>4, CookRests DEF MarkLost, dishVars, history, DishTypes, Made
<1>5. CASE Flag(c)
  <2>1. work' = [work EXCEPT ![on[c]] = work[on[c]]]
        /\ work[on[c]] \in {"none", "pending", "running", "deleted"} \cup RowEnded
    BY <1>1, <1>5 DEF Flag, DishTypes
  <2>2. DishTypes' /\ Made' = Made
    BY <1>1, <1>5, <2>1, DishChanges DEF Flag, Active
  <2> QED
    BY <1>2, <1>5, <2>2, CookRests DEF Flag
<1> QED
  BY <1>3, <1>4, <1>5

(* An advance ends the dish.                                               *)
LEMMA EndTypes ==
  ASSUME KitchenTypes, NEW c \in Cooks,
         EndDishOnly(c) \/ EndFiringResolved(c) \/ EndFiring(c) \/ EndResolving(c)
  PROVE  KitchenTypes'
<1> USE DEF KitchenTypes
<1>0. EndDish(c) /\ verdict[c] \in Ended
  BY DEF EndDishOnly, EndFiringResolved, EndFiring, EndResolving, CookTypes
<1>1. on[c] \in Made /\ on[c] \in Dishes /\ on[c] # 0
  BY <1>0, OnMade DEF EndDish, Made, Dishes
<1>2. DishTypes' /\ Made' = Made
  <2>1. PICK s \in Active \cup Ended : dish' = [dish EXCEPT ![on[c]] = s]
    BY <1>0, <1>1 DEF EndDish, DishTypes
  <2>2. work' = [work EXCEPT ![on[c]] = work[on[c]]]
        /\ work[on[c]] \in {"none", "pending", "running", "deleted"} \cup RowEnded
    BY <1>0, <1>1 DEF EndDish, DishTypes
  <2> QED
    BY <1>0, <1>1, <2>1, <2>2, DishChanges DEF EndDish
<1>3. OrderTypes'
  BY <1>0 DEF OrderTypes, EndDish, EndDishOnly, EndFiringResolved, EndFiring, EndResolving,
              RemediationOf, Ended
<1>4. CookTypes'
  <2>1. CASE Rest(c)
    BY <1>2, <2>1, CookRests
  <2>2. CASE EndFiringResolved(c)
    BY <1>2, <2>2, CookGoes DEF EndFiringResolved, CookTypes, Places
  <2> QED
    BY <2>1, <2>2 DEF EndDishOnly, EndFiring, EndResolving
<1> QED
  BY <1>2, <1>3, <1>4

(* An advance dispatches again, or dies.                                   *)
LEMMA RedispatchTypes ==
  ASSUME KitchenTypes, NEW c \in Cooks,
         Redispatch(c) \/ RedispatchNothing(c) \/ RedispatchRefused(c) \/ Crash(c)
  PROVE  KitchenTypes'
<1> USE DEF KitchenTypes
<1>1. CASE Redispatch(c)
  BY <1>1, DispatchTypes, CookRests DEF Redispatch
<1>2. CASE RedispatchNothing(c)
  BY <1>2, NothingTypes, CookRests DEF RedispatchNothing
<1>3. CASE RedispatchRefused(c) \/ Crash(c)
  <2>1. OrderTypes' /\ DishTypes' /\ Made' = Made
    BY <1>3 DEF RedispatchRefused, Crash, orderVars, dishVars, history, OrderTypes, DishTypes, Made
  <2> QED
    BY <1>3, <2>1, CookRests DEF RedispatchRefused, Crash
<1> QED
  BY <1>1, <1>2, <1>3

(* A row ends.                                                             *)
LEMMA RowTypes ==
  ASSUME KitchenTypes, NEW d \in Dishes, RowEnds(d)
  PROVE  KitchenTypes'
<1> USE DEF KitchenTypes
<1>1. d \in Made
  BY DEF RowEnds, DishTypes, Made
<1>2. dish' = [dish EXCEPT ![d] = dish[d]] /\ dish[d] \in Active \cup Ended
  BY DEF RowEnds, DishTypes
<1>3. PICK s \in RowEnded : work' = [work EXCEPT ![d] = s]
  BY DEF RowEnds
<1>4. DishTypes' /\ Made' = Made
  BY <1>1, <1>2, <1>3, DishChanges DEF RowEnds, history
<1> QED
  BY <1>4 DEF RowEnds, orderVars, cookVars, OrderTypes, CookTypes

(* The webhook.                                                            *)
LEMMA AlertTypes ==
  ASSUME KitchenTypes, AlertFires \/ AlertResolves \/ UNCHANGED vars
  PROVE  KitchenTypes'
<1>1. DishTypes' /\ CookTypes'
  BY DEF KitchenTypes, DishTypes, CookTypes, Made, AlertFires, AlertResolves, vars, dishVars, cookVars, history
<1>2. CASE AlertFires
  <2>1. counter' \in 1 .. MaxCounter
    BY <1>2, KitchenAssumption DEF KitchenTypes, OrderTypes, AlertFires
  <2>2. order' \in {"new", "processing", "resolving"} \cup Ended
    BY <1>2 DEF KitchenTypes, OrderTypes, AlertFires
  <2> QED
    BY <1>1, <1>2, <2>1, <2>2 DEF KitchenTypes, OrderTypes, AlertFires
<1>3. CASE AlertResolves
  <2>1. order' \in {"new", "processing", "resolving"} \cup Ended
    BY <1>3 DEF KitchenTypes, OrderTypes, AlertResolves
  <2>2. active' \in BOOLEAN
    BY <1>3 DEF AlertResolves
  <2> QED
    BY <1>1, <1>3, <2>1, <2>2 DEF KitchenTypes, OrderTypes, AlertResolves
<1>4. CASE UNCHANGED vars
  BY <1>1, <1>4 DEF KitchenTypes, OrderTypes, vars, orderVars
<1> QED
  BY <1>2, <1>3, <1>4

(* Every step.                                                             *)
LEMMA TypesStep == KitchenTypes /\ [Next]_vars => KitchenTypes'
BY AlertTypes, PrepTypes, AdvanceTypes, MarkTypes, EndTypes, RedispatchTypes, RowTypes
   DEF Next, Work, CookStep

(* Type correctness, for any number of dishes, counts and requests.        *)
LEMMA TypesHold == Spec => []KitchenTypes
<1>1. Init => KitchenTypes
  <2> SUFFICES ASSUME Init PROVE KitchenTypes
    OBVIOUS
  <2>1. OrderTypes
    BY KitchenAssumption DEF Init, OrderTypes
  <2>2. Made = {} /\ {} = 1 .. 0 /\ 0 \in 0 .. MaxDishes
    BY KitchenAssumption DEF Init, Made
  <2>3. DishTypes
    BY <2>2, KitchenAssumption DEF Init, DishTypes, Active
  <2>4. CookTypes
    BY KitchenAssumption DEF Init, CookTypes, Places, Active, Ended
  <2> QED
    BY <2>1, <2>3, <2>4 DEF KitchenTypes
<1> QED
  BY <1>1, TypesStep, PTL DEF Spec

-----------------------------------------------------------------------------
(* No suppression matches, and every recipe seeds rows in both phases: the *)
(* setting of KitchenSafety.                                               *)
Plain == ~ Suppressing /\ Recipes \cap {"closing", "silent"} = {}

(* A dish that is made has its rows.                                       *)
Seeded == \A d \in Made : work[d] \in {"pending", "running"} \cup RowEnded

VerdictOf(w) == IF w \in {"failed", "canceled"} THEN w ELSE "complete"

(* A request that is about to end a dish decided on rows that have ended,  *)
(* and they are the dish's rows unless it has grown since.                 *)
Decided ==
  \A c \in Cooks : pc[c] = "ending" =>
    /\ read[c] <= grown[on[c]]
    /\ ~ Outdated(c) => work[on[c]] \in RowEnded /\ verdict[c] = VerdictOf(work[on[c]])

(* What it saw ended is ended still, or was revived.                       *)
SeenEnded ==
  \A c \in Cooks : pc[c] = "ending" /\ saw[c] \in Ended =>
    dish[on[c]] \in Ended \/ on[c] \in revived

OneActive ==
  \A p \in {"firing", "resolving"} : \A d, e \in ActiveOf(p) \ revived : d = e

KitchenInv ==
  /\ KitchenTypes
  /\ Seeded /\ Decided /\ SeenEnded
  /\ RowsEndFirst /\ EndedOrderQuiet /\ OneActive /\ OutcomeEarned

(* What a step may do to the dishes: rows that have ended stay as they are *)
(* while the dish does not grow, an active dish only does, an ended one    *)
(* becomes active by revival only, and a dish that is made gets rows.      *)
DishesMove ==
  /\ revived \subseteq revived' /\ early \subseteq early' /\ Made \subseteq Made'
  /\ \A d \in Made : phase'[d] = phase[d]
  /\ \A d \in Made : grown'[d] = grown[d] \/ grown'[d] = grown[d] + 1
  /\ \A d \in Made : work[d] \in RowEnded /\ grown'[d] = grown[d] => work'[d] = work[d]
  /\ \A d \in Made : dish[d] \in Ended => dish'[d] \in Ended \/ d \in revived'
  /\ Seeded'

(* Plain recipes have rows in both phases.                                 *)
LEMMA RecipeSeeds ==
  ASSUME Plain, NEW recipe \in Recipes, NEW p
  PROVE  HasRows(recipe, p)
BY DEF Plain, HasRows

(* A dispatch leaves the rows of an active dish as they are, lets it grow, *)
(* or makes a dish with pending rows.                                      *)
LEMMA DispatchMoves ==
  ASSUME Plain, KitchenTypes, Seeded, NEW p \in {"firing", "resolving"},
         NEW recipe \in Recipes, Plan(p, recipe), UNCHANGED history
  PROVE  /\ DishesMove
         /\ dish' = dish
         /\ \A e \in Dishes \ {DishFor(p)} : work'[e] = work[e] /\ grown'[e] = grown[e]
         /\ \/ DishFor(p) \in ActiveOf(p) /\ Made' = Made
            \/ /\ ActiveOf(p) = {} /\ DishFor(p) \in Dishes \ Made
               /\ Made' = Made \cup {DishFor(p)}
         /\ phase'[DishFor(p)] = p
<1> DEFINE d == DishFor(p)
<1>0. DishTypes
  BY DEF KitchenTypes
<1>1. /\ d \in Made' /\ Made \subseteq Made' /\ \A e \in Made : phase'[e] = phase[e]
      /\ dish' = dish
      /\ d \in ActiveOf(p) \/ (ActiveOf(p) = {} /\ d \notin Made)
      /\ phase'[d] = p
      /\ Made' = Made \cup {d}
      /\ DishTypes'
  BY <1>0, PlanStep
<1>2. HasRows(recipe, p)
  BY RecipeSeeds
<1>3. d \in Dishes /\ UNCHANGED << revived, early >>
  BY <1>1 DEF Made, history
<1>4. \/ work[d] \in {"none", "deleted"} /\ work' = [work EXCEPT ![d] = "pending"] /\ grown' = grown
      \/ work[d] \notin {"none", "deleted"} /\ work' = work /\ grown' = grown
      \/ /\ work[d] \notin {"none", "deleted"} /\ grown' = [grown EXCEPT ![d] = @ + 1]
         /\ \E w \in {"pending", "running"} : work' = [work EXCEPT ![d] = w]
  <2>1. CASE Seed(d, HasRows(recipe, p))
    BY <1>0, <1>2, <1>3, <2>1 DEF Seed, DishTypes
  <2>2. CASE Grow(d, HasRows(recipe, p))
    BY <2>2 DEF Grow, RowEnded
  <2> QED
    BY <2>1, <2>2 DEF Plan
<1>5. \A e \in Dishes \ {d} : work'[e] = work[e] /\ grown'[e] = grown[e]
  BY <1>0, <1>4 DEF DishTypes
<1>6. /\ grown'[d] = grown[d] \/ grown'[d] = grown[d] + 1
      /\ work[d] \in RowEnded /\ grown'[d] = grown[d] => work'[d] = work[d]
      /\ work'[d] \in {"pending", "running"} \/ work'[d] = work[d]
  BY <1>0, <1>3, <1>4 DEF DishTypes, RowEnded
<1>7. Seeded'
  <2>1. \A e \in Made : work[e] \in {"pending", "running"} \cup RowEnded
    BY DEF Seeded
  <2>2. work'[d] \in {"pending", "running"} \cup RowEnded
    <3>1. CASE d \in Made
      BY <1>6, <2>1, <3>1
    <3>2. CASE d \notin Made
      <4>1. work[d] = "none"
        BY <1>0, <1>3, <3>2 DEF DishTypes, Made
      <4> QED
        BY <1>0, <1>3, <1>4, <4>1 DEF DishTypes
    <3> QED
      BY <3>1, <3>2
  <2>3. \A e \in Made : e \in Dishes
    BY DEF Made
  <2> QED
    BY <1>1, <1>5, <2>1, <2>2, <2>3 DEF Seeded
<1>8. DishesMove
  BY <1>1, <1>3, <1>5, <1>6, <1>7 DEF DishesMove, Made
<1> QED
  BY <1>1, <1>3, <1>5, <1>8 DEF ActiveOf, ActiveDishes

(* A step that dispatches, as one of the plans it may be.                  *)
Dispatches ==
  \E p \in {"firing", "resolving"}, recipe \in Recipes :
    Plan(p, recipe) /\ (order = "new" \/ order = "resolving")

(* A step that leaves the dishes alone.                                    *)
DishesRest == UNCHANGED << phase, dish, work, grown, revived, early >>

(* Every step as what it does to the dishes.                               *)
LEMMA StepKinds ==
  ASSUME Plain, KitchenTypes, Seeded, Next
  PROVE  \/ DishesRest
         \/ Dispatches /\ UNCHANGED history
         \/ \E c \in Cooks : Mark(c) /\ work[on[c]] = "pending" /\ on[c] \in Made
         \/ \E c \in Cooks : Flag(c) /\ on[c] \in Made
         \/ \E c \in Cooks : EndDish(c) /\ on[c] \in Made
         \/ \E d \in Made : RowEnds(d)
<1>0. DishTypes /\ CookTypes
  BY DEF KitchenTypes
<1>1. CASE AlertFires \/ AlertResolves \/ PrepDispatchNothing
  BY <1>1 DEF AlertFires, AlertResolves, PrepDispatchNothing, DispatchNothing, dishVars, history, DishesRest
<1>2. CASE PrepDispatch \/ \E c \in Cooks : Redispatch(c)
  <2>1. PICK recipe \in Recipes : Dispatch(recipe)
    BY <1>2 DEF PrepDispatch, Redispatch
  <2>2. Dispatches
    BY <2>1 DEF Dispatch, DispatchFiring, DispatchResolving, Dispatches
  <2> QED
    BY <1>2, <2>2 DEF PrepDispatch, Redispatch
<1>3. CASE Suppress
  BY <1>3 DEF Suppress, Plain
<1>4. CASE \E c \in Cooks, d \in Made : Advance(c, d)
  BY <1>4 DEF Advance, ReadBlocked, ReadPending, ReadEnded, dishVars, history, DishesRest
<1>5. ASSUME NEW c \in Cooks, Mark(c) PROVE work[on[c]] = "pending" /\ on[c] \in Made
  <2>1. on[c] \in Made
    BY <1>0, <1>5, OnMade DEF Mark
  <2> QED
    BY <1>5, <2>1 DEF Mark, Seeded, RowEnded
<1>6. CASE \E c \in Cooks : MarkLost(c) \/ RedispatchNothing(c) \/ RedispatchRefused(c) \/ Crash(c)
  BY <1>6 DEF MarkLost, RedispatchNothing, RedispatchRefused, Crash, DispatchNothing, dishVars, history, DishesRest
<1>7. ASSUME NEW c \in Cooks, Flag(c) PROVE on[c] \in Made
  BY <1>0, <1>7, OnMade DEF Flag
<1>8. ASSUME NEW c \in Cooks,
             EndDishOnly(c) \/ EndFiringResolved(c) \/ EndFiring(c) \/ EndResolving(c)
      PROVE  EndDish(c) /\ on[c] \in Made
  <2>1. EndDish(c)
    BY <1>8 DEF EndDishOnly, EndFiringResolved, EndFiring, EndResolving
  <2> QED
    BY <1>0, <2>1, OnMade DEF EndDish
<1>9. ASSUME NEW d \in Dishes, RowEnds(d) PROVE d \in Made
  BY <1>0, <1>9 DEF RowEnds, DishTypes, Made
<1> QED
  BY <1>1, <1>2, <1>3, <1>4, <1>5, <1>6, <1>7, <1>8, <1>9 DEF Next, Work, CookStep

(* What the kinds do.                                                      *)
LEMMA DishesMoveStep ==
  ASSUME Plain, KitchenTypes, Seeded, Decided, RowsEndFirst, Next
  PROVE  DishesMove /\ RowsEndFirst'
<1>0. DishTypes /\ CookTypes
  BY DEF KitchenTypes
<1>1. CASE DishesRest
  BY <1>1 DEF DishesRest, DishesMove, RowsEndFirst, Seeded, Made
<1>2. CASE Dispatches /\ UNCHANGED history
  <2>1. PICK p \in {"firing", "resolving"}, recipe \in Recipes : Plan(p, recipe)
    BY <1>2 DEF Dispatches
  <2>2. /\ DishesMove
        /\ dish' = dish
        /\ \A e \in Dishes \ {DishFor(p)} : work'[e] = work[e]
        /\ DishFor(p) \in ActiveOf(p) \/ DishFor(p) \in Dishes \ Made
    BY <1>2, <2>1, DispatchMoves
  <2>3. dish[DishFor(p)] \notin Ended
    BY <1>0, <2>2 DEF DishTypes, Made, ActiveOf, ActiveDishes, Active, Ended
  <2>4. RowsEndFirst'
    BY <1>2, <2>2, <2>3 DEF RowsEndFirst, history
  <2> QED
    BY <2>2, <2>4
<1>3. ASSUME NEW c \in Cooks, Mark(c), work[on[c]] = "pending", on[c] \in Made
      PROVE  DishesMove /\ RowsEndFirst'
  <2>1. /\ work' = [work EXCEPT ![on[c]] = "running"]
        /\ UNCHANGED << phase, dish, grown, revived, early >>
    BY <1>3 DEF Mark, history
  <2>2. on[c] \in Dishes /\ Made' = Made
    BY <1>3, <2>1 DEF Made
  <2>3. \A d \in Dishes : work'[d] = IF d = on[c] THEN "running" ELSE work[d]
    BY <1>0, <2>1, <2>2 DEF DishTypes
  <2>4. \A d \in Made : d \in Dishes
    BY DEF Made
  <2>5. RowsEndFirst'
    BY <1>3, <2>1, <2>2, <2>3 DEF RowsEndFirst
  <2>6. Seeded'
    BY <2>2, <2>3, <2>4 DEF Seeded
  <2> QED
    BY <1>3, <2>1, <2>2, <2>3, <2>4, <2>5, <2>6 DEF DishesMove, RowEnded
<1>4. ASSUME NEW c \in Cooks, Flag(c), on[c] \in Made
      PROVE  DishesMove /\ RowsEndFirst'
  <2>1. /\ dish' = [dish EXCEPT ![on[c]] = "processing"]
        /\ UNCHANGED << phase, work, grown, early >>
        /\ revived' = IF dish[on[c]] \in Ended THEN revived \cup {on[c]} ELSE revived
    BY <1>4 DEF Flag
  <2>2. on[c] \in Dishes /\ Made' = Made /\ \A d \in Made : d \in Dishes
    BY <1>4, <2>1 DEF Made
  <2>3. \A d \in Dishes : dish'[d] = IF d = on[c] THEN "processing" ELSE dish[d]
    BY <1>0, <2>1, <2>2 DEF DishTypes
  <2> QED
    BY <2>1, <2>2, <2>3 DEF DishesMove, RowsEndFirst, Seeded, Ended
<1>5. ASSUME NEW c \in Cooks, EndDish(c), on[c] \in Made
      PROVE  DishesMove /\ RowsEndFirst'
  <2>1. /\ dish' = [dish EXCEPT ![on[c]] = IF saw[c] = verdict[c] THEN @ ELSE verdict[c]]
        /\ UNCHANGED << phase, work, grown, revived >>
        /\ early' = IF Outdated(c) THEN early \cup {on[c]} ELSE early
    BY <1>5 DEF EndDish
  <2>2. on[c] \in Dishes /\ Made' = Made /\ \A d \in Made : d \in Dishes
    BY <1>5, <2>1 DEF Made
  <2>3. \A d \in Dishes : dish'[d] = IF d = on[c] /\ saw[c] # verdict[c] THEN verdict[c] ELSE dish[d]
    BY <1>0, <2>1, <2>2 DEF DishTypes
  <2>4. verdict[c] \in Ended /\ (work[on[c]] \in RowEnded \/ Outdated(c))
    BY <1>0, <1>5 DEF CookTypes, Decided, EndDish
  <2>5. work[on[c]] \notin {"pending", "running"} \/ on[c] \in early'
    BY <2>1, <2>4 DEF RowEnded
  <2>6. RowsEndFirst'
    BY <2>1, <2>3, <2>5 DEF RowsEndFirst
  <2> QED
    BY <2>1, <2>2, <2>3, <2>4, <2>6 DEF DishesMove, Seeded
<1>6. ASSUME NEW d \in Made, RowEnds(d)
      PROVE  DishesMove /\ RowsEndFirst'
  <2>1. PICK s \in RowEnded : work' = [work EXCEPT ![d] = s]
    BY <1>6 DEF RowEnds
  <2>2. UNCHANGED << phase, dish, grown, revived, early >> /\ work[d] = "running"
    BY <1>6 DEF RowEnds, cookVars, history
  <2>3. Made' = Made /\ \A e \in Made : e \in Dishes
    BY <2>2 DEF Made
  <2>4. \A e \in Dishes : work'[e] = IF e = d THEN s ELSE work[e]
    BY <1>0, <2>1 DEF DishTypes
  <2>5. s \notin {"pending", "running"}
    BY DEF RowEnded
  <2>6. RowsEndFirst'
    BY <2>2, <2>4, <2>5 DEF RowsEndFirst
  <2>7. DishesMove
    BY <2>2, <2>3, <2>4 DEF DishesMove, Seeded, RowEnded
  <2> QED
    BY <2>6, <2>7
<1> QED
  BY <1>1, <1>2, <1>3, <1>4, <1>5, <1>6, StepKinds

(* A request that is about to end a dish was so before, or has just read   *)
(* the rows.                                                               *)
LEMMA EndingCook ==
  ASSUME KitchenTypes, Next, NEW c \in Cooks, pc'[c] = "ending"
  PROVE  \/ /\ pc[c] = "ending" /\ on'[c] = on[c]
            /\ saw'[c] = saw[c] /\ verdict'[c] = verdict[c] /\ read'[c] = read[c]
         \/ \E d \in Made :
              /\ DishesRest /\ work[d] \notin {"pending", "running"}
              /\ on'[c] = d /\ saw'[c] = dish[d] /\ verdict'[c] = VerdictOf(work[d])
              /\ read'[c] = grown[d]
<1>0. CookTypes
  BY DEF KitchenTypes
<1>1. ASSUME NEW e \in Cooks, Rest(e)
      PROVE  /\ pc[c] = "ending" /\ on'[c] = on[c]
             /\ saw'[c] = saw[c] /\ verdict'[c] = verdict[c] /\ read'[c] = read[c]
  BY <1>0, <1>1 DEF Rest, CookTypes
<1>2. ASSUME NEW e \in Cooks, NEW where, where # "ending", NEW d, Goto(e, where, d),
             \A f \in Cooks \ {e} : saw'[f] = saw[f] /\ verdict'[f] = verdict[f] /\ read'[f] = read[f]
      PROVE  /\ pc[c] = "ending" /\ on'[c] = on[c]
             /\ saw'[c] = saw[c] /\ verdict'[c] = verdict[c] /\ read'[c] = read[c]
  BY <1>0, <1>2 DEF Goto, CookTypes
<1>3. CASE UNCHANGED cookVars
  BY <1>3 DEF cookVars
<1>4. CASE PrepDispatch
  BY <1>0, <1>2, <1>4 DEF PrepDispatch, Cooks
<1>5. CASE Suppress
  BY <1>1, <1>5 DEF Suppress, Cooks
<1>6. ASSUME NEW e \in Cooks, NEW d \in Made, ReadBlocked(e, d) \/ ReadPending(e, d)
      PROVE  /\ pc[c] = "ending" /\ on'[c] = on[c]
             /\ saw'[c] = saw[c] /\ verdict'[c] = verdict[c] /\ read'[c] = read[c]
  <2>1. CASE ReadBlocked(e, d)
    BY <1>1, <2>1 DEF ReadBlocked
  <2>2. CASE ReadPending(e, d)
    <3>1. \A f \in Cooks \ {e} : saw'[f] = saw[f] /\ verdict'[f] = verdict[f] /\ read'[f] = read[f]
      BY <1>0, <2>2 DEF ReadPending, CookTypes
    <3> QED
      BY <1>2, <2>2, <3>1 DEF ReadPending
  <2> QED
    BY <1>6, <2>1, <2>2
<1>7. ASSUME NEW e \in Cooks, NEW d \in Made, ReadEnded(e, d), e # c
      PROVE  /\ pc[c] = "ending" /\ on'[c] = on[c]
             /\ saw'[c] = saw[c] /\ verdict'[c] = verdict[c] /\ read'[c] = read[c]
  BY <1>0, <1>7 DEF ReadEnded, Goto, CookTypes
<1>8. ASSUME NEW d \in Made, ReadEnded(c, d)
      PROVE  /\ DishesRest /\ work[d] \notin {"pending", "running"}
             /\ on'[c] = d /\ saw'[c] = dish[d] /\ verdict'[c] = VerdictOf(work[d])
             /\ read'[c] = grown[d]
  BY <1>0, <1>8 DEF ReadEnded, Goto, CookTypes, VerdictOf, DishesRest, dishVars, history
<1>9. ASSUME NEW e \in Cooks, CookStep(e) \/ Crash(e)
      PROVE  /\ pc[c] = "ending" /\ on'[c] = on[c]
             /\ saw'[c] = saw[c] /\ verdict'[c] = verdict[c] /\ read'[c] = read[c]
  <2>1. CASE Rest(e)
    BY <1>1, <2>1
  <2>2. CASE Mark(e)
    BY <1>1, <1>2, <2>2 DEF Mark
  <2>3. CASE EndFiringResolved(e)
    BY <1>2, <2>3 DEF EndFiringResolved
  <2> QED
    BY <1>9, <2>1, <2>2, <2>3
       DEF CookStep, Crash, MarkLost, Flag, EndDishOnly, EndFiring, EndResolving, Redispatch,
           RedispatchNothing, RedispatchRefused
<1>10. CASE \E e \in Cooks, d \in Made : Advance(e, d)
  BY <1>6, <1>7, <1>8, <1>10 DEF Advance
<1> QED
  BY <1>3, <1>4, <1>5, <1>9, <1>10
     DEF Next, Work, AlertFires, AlertResolves, PrepDispatchNothing, RowEnds

(* What a request decided, and what it saw, still holds when it writes.    *)
LEMMA DecidedStep ==
  ASSUME Plain, KitchenTypes, Seeded, Decided, SeenEnded, RowsEndFirst, Next
  PROVE  Decided' /\ SeenEnded'
<1>0. DishesMove /\ CookTypes /\ DishTypes
  BY DishesMoveStep DEF KitchenTypes
<1> SUFFICES ASSUME NEW c \in Cooks, pc'[c] = "ending"
             PROVE  /\ read'[c] <= grown'[on'[c]]
                    /\ read'[c] = grown'[on'[c]] =>
                         work'[on'[c]] \in RowEnded /\ verdict'[c] = VerdictOf(work'[on'[c]])
                    /\ saw'[c] \in Ended => dish'[on'[c]] \in Ended \/ on'[c] \in revived'
  BY DEF Decided, SeenEnded, Outdated
<1>1. CASE /\ pc[c] = "ending" /\ on'[c] = on[c]
           /\ saw'[c] = saw[c] /\ verdict'[c] = verdict[c] /\ read'[c] = read[c]
  <2>1. on[c] \in Made
    BY <1>0, <1>1, OnMade DEF KitchenTypes
  <2>2. /\ read[c] \in Nat /\ grown[on[c]] \in Nat /\ read[c] <= grown[on[c]]
        /\ grown'[on[c]] = grown[on[c]] \/ grown'[on[c]] = grown[on[c]] + 1
    BY <1>0, <1>1, <2>1 DEF DishesMove, Decided, CookTypes, DishTypes, Made
  <2>3. /\ read[c] <= grown'[on[c]]
        /\ read[c] = grown'[on[c]] => grown'[on[c]] = grown[on[c]] /\ read[c] = grown[on[c]]
    BY <2>2
  <2>4. ASSUME read[c] = grown'[on[c]]
        PROVE  /\ work'[on[c]] = work[on[c]] /\ work[on[c]] \in RowEnded
               /\ verdict[c] = VerdictOf(work[on[c]])
    <3>1. ~ Outdated(c)
      BY <2>3, <2>4 DEF Outdated
    <3> QED
      BY <1>0, <1>1, <2>1, <2>3, <2>4, <3>1 DEF DishesMove, Decided
  <2>5. saw[c] \in Ended => dish'[on[c]] \in Ended \/ on[c] \in revived'
    BY <1>0, <1>1, <2>1 DEF DishesMove, SeenEnded
  <2> QED
    BY <1>1, <2>3, <2>4, <2>5
<1>2. ASSUME NEW d \in Made, DishesRest, work[d] \notin {"pending", "running"},
             on'[c] = d, saw'[c] = dish[d], verdict'[c] = VerdictOf(work[d]), read'[c] = grown[d]
      PROVE  /\ read'[c] <= grown'[on'[c]]
             /\ work'[on'[c]] \in RowEnded /\ verdict'[c] = VerdictOf(work'[on'[c]])
             /\ saw'[c] \in Ended => dish'[on'[c]] \in Ended \/ on'[c] \in revived'
  BY <1>0, <1>2 DEF DishesRest, Seeded, DishTypes, Made
<1> QED
  BY <1>1, <1>2, EndingCook

-----------------------------------------------------------------------------
(* A dish is made for an open order only, and beside no active dish of its *)
(* phase.                                                                  *)
LEMMA DishesMade ==
  ASSUME Plain, KitchenTypes, Seeded, Next
  PROVE  \/ Made' = Made
         \/ /\ order \notin Ended /\ UNCHANGED history
            /\ \E p \in {"firing", "resolving"} :
                 ActiveOf(p) = {} /\ \E d \in Dishes : phase'[d] = p /\ Made' = Made \cup {d}
<1>1. CASE Dispatches /\ UNCHANGED history
  <2>1. PICK p \in {"firing", "resolving"}, recipe \in Recipes :
          Plan(p, recipe) /\ (order = "new" \/ order = "resolving")
    BY <1>1 DEF Dispatches
  <2>2. /\ phase'[DishFor(p)] = p
        /\ \/ Made' = Made
           \/ /\ ActiveOf(p) = {} /\ DishFor(p) \in Dishes
              /\ Made' = Made \cup {DishFor(p)}
    BY <1>1, <2>1, DispatchMoves
  <2>3. order \notin Ended
    BY <2>1 DEF Ended
  <2> QED
    BY <1>1, <2>2, <2>3
<1>2. CASE UNCHANGED phase
  BY <1>2 DEF Made
<1> QED
  BY <1>1, <1>2, StepKinds DEF DishesRest, Mark, Flag, EndDish, RowEnds

(* An active dish that no late write revived was active before the step,   *)
(* or is made by it.                                                       *)
LEMMA ActiveBefore ==
  ASSUME KitchenTypes, DishesMove, NEW d \in Made, d \in ActiveDishes', d \notin revived'
  PROVE  d \in ActiveDishes \ revived
<1>1. dish[d] \in Active \cup Ended
  BY DEF KitchenTypes, DishTypes, Made
<1>2. dish'[d] \in Active /\ dish'[d] \notin Ended
  BY DEF ActiveDishes, Active, Ended
<1> QED
  BY <1>1, <1>2 DEF DishesMove, ActiveDishes

(* The order ends by a dish that ends, and is the last to do so.           *)
LEMMA OrderEnds ==
  ASSUME Plain, KitchenTypes, Next, order \notin Ended, order' \in Ended
  PROVE  \E c \in Cooks : (EndFiring(c) \/ EndResolving(c)) /\ EndDish(c) /\ ~ OrderLeftAlone(c)
<1>1. "new" \notin Ended /\ "processing" \notin Ended /\ "resolving" \notin Ended
  BY DEF Ended
<1>2. ~ (AlertFires \/ AlertResolves)
  BY <1>1 DEF AlertFires, AlertResolves
<1>3. ASSUME NEW recipe \in Recipes, Dispatch(recipe) PROVE FALSE
  BY <1>1, <1>3 DEF Dispatch, DispatchFiring, DispatchResolving, orderVars
<1>4. ~ (PrepDispatch \/ PrepDispatchNothing \/ Suppress)
  BY <1>1, <1>3 DEF PrepDispatch, PrepDispatchNothing, DispatchNothing, Suppress, Plain
<1>5. ASSUME NEW c \in Cooks, NEW d \in Made, Advance(c, d) PROVE FALSE
  BY <1>5 DEF Advance, ReadBlocked, ReadPending, ReadEnded, orderVars
<1>6. ASSUME NEW c \in Cooks, CookStep(c) \/ Crash(c), ~ (EndFiring(c) \/ EndResolving(c))
      PROVE  FALSE
  BY <1>1, <1>3, <1>6 DEF CookStep, Crash, Mark, MarkLost, Flag, EndDishOnly, EndFiringResolved,
        Redispatch, RedispatchNothing, RedispatchRefused, DispatchNothing, orderVars
<1>7. ASSUME NEW d \in Dishes, RowEnds(d) PROVE FALSE
  BY <1>7 DEF RowEnds, orderVars
<1>8. PICK c \in Cooks : EndFiring(c) \/ EndResolving(c)
  BY <1>2, <1>4, <1>5, <1>6, <1>7 DEF Next, Work
<1> QED
  BY <1>8 DEF EndFiring, EndResolving

(* The order ends only when its last active dish does.                     *)
LEMMA QuietStep ==
  ASSUME Plain, KitchenInv, Next
  PROVE  EndedOrderQuiet'
<1>0. DishesMove
  BY DishesMoveStep DEF KitchenInv
<1> SUFFICES ASSUME order' \in Ended, NEW d \in ActiveDishes', d \notin revived' PROVE FALSE
  BY DEF EndedOrderQuiet
<1>1. CASE order \in Ended
  <2>1. Made' = Made
    BY <1>1, DishesMade DEF KitchenInv
  <2>2. d \in Made
    BY <2>1 DEF ActiveDishes
  <2> QED
    BY <1>0, <1>1, <2>2, ActiveBefore DEF KitchenInv, EndedOrderQuiet
<1>2. CASE order \notin Ended
  <2>1. PICK c \in Cooks : EndDish(c) /\ ~ OrderLeftAlone(c)
    BY <1>2, OrderEnds DEF KitchenInv
  <2>2. /\ pc[c] = "ending" /\ UNCHANGED << phase, revived >>
        /\ dish' = [dish EXCEPT ![on[c]] = IF saw[c] = verdict[c] THEN @ ELSE verdict[c]]
    BY <2>1 DEF EndDish
  <2>3. Made' = Made
    BY <2>2 DEF Made
  <2>4. d \in ActiveDishes \ revived
    BY <1>0, <2>3, ActiveBefore DEF ActiveDishes, KitchenInv
  <2>5. d = on[c]
    BY <2>1, <2>4 DEF OrderLeftAlone
  <2>6. d \in Dishes /\ dish \in [Dishes -> Active \cup Ended] /\ verdict[c] \in Ended
    BY <2>4 DEF ActiveDishes, Made, KitchenInv, KitchenTypes, DishTypes, CookTypes
  <2>7. dish'[d] \notin Ended /\ dish[d] \notin Ended
    BY <2>4 DEF ActiveDishes, Active, Ended
  <2>8. saw[c] \in Ended
    BY <2>2, <2>5, <2>6, <2>7
  <2> QED
    BY <2>2, <2>4, <2>5, <2>7, <2>8 DEF KitchenInv, SeenEnded
<1> QED
  BY <1>1, <1>2

(* A dish that is made is the only active one of its phase.                *)
LEMMA OneActiveStep ==
  ASSUME Plain, KitchenInv, Next
  PROVE  OneActive'
<1>0. DishesMove
  BY DishesMoveStep DEF KitchenInv
<1> SUFFICES ASSUME NEW p \in {"firing", "resolving"},
                    NEW d \in ActiveOf(p)' \ revived', NEW e \in ActiveOf(p)' \ revived'
             PROVE  d = e
  BY DEF OneActive
<1>1. ASSUME NEW f \in Made, f \in ActiveOf(p)' \ revived' PROVE f \in ActiveOf(p) \ revived
  <2>1. f \in ActiveDishes' /\ phase'[f] = p
    BY <1>1 DEF ActiveOf
  <2>2. phase[f] = p
    BY <1>0, <2>1 DEF DishesMove
  <2>3. f \in ActiveDishes \ revived
    BY <1>0, <1>1, <2>1, ActiveBefore DEF KitchenInv
  <2> QED
    BY <2>2, <2>3 DEF ActiveOf
<1>2. d \in Made' /\ e \in Made' /\ phase'[d] = p /\ phase'[e] = p
  BY DEF ActiveOf, ActiveDishes
<1>3. CASE Made' = Made
  BY <1>1, <1>2, <1>3 DEF KitchenInv, OneActive
<1>4. ASSUME NEW q \in {"firing", "resolving"}, ActiveOf(q) = {}, NEW f \in Dishes,
             phase'[f] = q, Made' = Made \cup {f}
      PROVE  d = e
  <2>1. CASE p = q
    BY <1>1, <1>2, <1>4, <2>1
  <2>2. CASE p # q
    BY <1>1, <1>2, <1>4, <2>2 DEF KitchenInv, OneActive
  <2> QED
    BY <2>1, <2>2
<1> QED
  BY <1>3, <1>4, DishesMade DEF KitchenInv

(* The outcome is written by a dispatch, as pending or none, or by a       *)
(* firing dish that ends, as the verdict says.                             *)
LEMMA OutcomeWritten ==
  ASSUME Plain, Next, remediation' # remediation, remediation' \in {"succeeded", "failed"}
  PROVE  \E c \in Cooks : /\ pc[c] = "ending" /\ phase[on[c]] = "firing" /\ EndDish(c)
                          /\ remediation' = RemediationOf(verdict[c])
<1>1. ASSUME NEW recipe \in Recipes, Dispatch(recipe) PROVE FALSE
  BY <1>1 DEF Dispatch, DispatchFiring, DispatchResolving, orderVars
<1>2. ~ (AlertFires \/ AlertResolves)
  BY DEF AlertFires, AlertResolves
<1>3. ~ (PrepDispatch \/ PrepDispatchNothing \/ Suppress)
  BY <1>1 DEF PrepDispatch, PrepDispatchNothing, DispatchNothing, Suppress, Plain
<1>4. ASSUME NEW c \in Cooks, NEW d \in Made, Advance(c, d) PROVE FALSE
  BY <1>4 DEF Advance, ReadBlocked, ReadPending, ReadEnded, orderVars
<1>5. ASSUME NEW c \in Cooks, CookStep(c) \/ Crash(c), ~ (EndFiring(c) \/ EndFiringResolved(c))
      PROVE  FALSE
  BY <1>1, <1>5 DEF CookStep, Crash, Mark, MarkLost, Flag, EndDishOnly, EndResolving,
        Redispatch, RedispatchNothing, RedispatchRefused, DispatchNothing, orderVars
<1>6. ASSUME NEW d \in Dishes, RowEnds(d) PROVE FALSE
  BY <1>6 DEF RowEnds, orderVars
<1>7. PICK c \in Cooks : EndFiring(c) \/ EndFiringResolved(c)
  BY <1>2, <1>3, <1>4, <1>5, <1>6 DEF Next, Work
<1> QED
  BY <1>7 DEF EndFiring, EndFiringResolved, EndDish

(* A firing dish grows by a dispatch, which takes the outcome back.        *)
LEMMA GrowsFiring ==
  ASSUME Plain, KitchenTypes, Seeded, Next, NEW d \in Made, phase[d] = "firing",
         grown'[d] # grown[d]
  PROVE  remediation' \in {"pending", "none"}
<1>1. ASSUME NEW recipe \in Recipes, Dispatch(recipe), UNCHANGED history
      PROVE  remediation' \in {"pending", "none"}
  <2>1. CASE DispatchFiring(recipe)
    BY <2>1 DEF DispatchFiring
  <2>2. CASE DispatchResolving(recipe)
    <3>1. Plan("resolving", recipe)
      BY <2>2 DEF DispatchResolving
    <3>2. /\ \A e \in Dishes \ {DishFor("resolving")} : grown'[e] = grown[e]
          /\ DishFor("resolving") \in ActiveOf("resolving") \/ DishFor("resolving") \notin Made
      BY <1>1, <3>1, DispatchMoves
    <3>3. d # DishFor("resolving")
      BY <3>2 DEF ActiveOf
    <3> QED
      BY <3>2, <3>3 DEF Made
  <2> QED
    BY <1>1, <2>1, <2>2 DEF Dispatch
<1>2. CASE UNCHANGED grown
  BY <1>2
<1>3. ASSUME NEW c \in Cooks, NEW e \in Made, Advance(c, e) PROVE UNCHANGED grown
  BY <1>3 DEF Advance, ReadBlocked, ReadPending, ReadEnded, dishVars
<1>4. ASSUME NEW c \in Cooks, CookStep(c) \/ Crash(c), ~ Redispatch(c) PROVE UNCHANGED grown
  BY <1>4 DEF CookStep, Crash, Mark, MarkLost, Flag, EndDish, EndDishOnly, EndFiringResolved,
        EndFiring, EndResolving, RedispatchNothing, RedispatchRefused, DispatchNothing, dishVars
<1>5. CASE PrepDispatch \/ \E c \in Cooks : Redispatch(c)
  BY <1>1, <1>5 DEF PrepDispatch, Redispatch
<1>6. CASE AlertFires \/ AlertResolves \/ PrepDispatchNothing \/ Suppress
           \/ \E e \in Dishes : RowEnds(e)
  <2>1. UNCHANGED grown
    BY <1>6 DEF AlertFires, AlertResolves, PrepDispatchNothing, DispatchNothing, Suppress, RowEnds,
                dishVars
  <2> QED
    BY <1>2, <2>1
<1> QED
  BY <1>2, <1>3, <1>4, <1>5, <1>6 DEF Next, Work

(* The rows that earned the outcome stay as they ended, until a dispatch   *)
(* takes the outcome back.                                                 *)
LEMMA OutcomeStep ==
  ASSUME Plain, KitchenInv, Next
  PROVE  OutcomeEarned'
<1>0. DishesMove
  BY DishesMoveStep DEF KitchenInv
<1>1. ASSUME NEW s \in {"succeeded", "failed"}, remediation' = s,
             NEW d \in Dishes, phase[d] = "firing", work[d] = s \/ d \in early
      PROVE  phase'[d] = "firing" /\ (work'[d] = s \/ d \in early')
  <2>1. d \in Made
    BY <1>1 DEF Made
  <2>2. grown'[d] = grown[d]
    BY <1>1, <2>1, GrowsFiring DEF KitchenInv
  <2> QED
    BY <1>0, <1>1, <2>1, <2>2 DEF DishesMove, RowEnded
<1>2. ASSUME NEW s \in {"succeeded", "failed"}, remediation' = s
      PROVE  \E d \in Dishes : phase'[d] = "firing" /\ (work'[d] = s \/ d \in early')
  <2>1. CASE remediation' = remediation
    <3>1. PICK d \in Dishes : /\ phase[d] = "firing"
                              /\ s = "succeeded" =>
                                   d \in early \/ work[d] \in {"succeeded", "none", "deleted"}
                              /\ s = "failed" => d \in early \/ work[d] = "failed"
      BY <1>2, <2>1 DEF KitchenInv, OutcomeEarned
    <3>2. d \in Made
      BY <3>1 DEF Made
    <3>3. work[d] \notin {"none", "deleted"}
      BY <3>2 DEF KitchenInv, Seeded, RowEnded
    <3> QED
      BY <1>1, <1>2, <3>1, <3>3
  <2>2. CASE remediation' # remediation
    <3>1. PICK c \in Cooks : /\ pc[c] = "ending" /\ phase[on[c]] = "firing" /\ EndDish(c)
                             /\ s = RemediationOf(verdict[c])
      BY <1>2, <2>2, OutcomeWritten
    <3>2. on[c] \in Dishes /\ UNCHANGED << phase, work >>
      BY <3>1, OnMade DEF KitchenInv, KitchenTypes, Made, EndDish
    <3>3. CASE Outdated(c)
      <4>1. on[c] \in early'
        BY <3>1, <3>3 DEF EndDish
      <4> QED
        BY <3>1, <3>2, <4>1
    <3>4. CASE ~ Outdated(c)
      <4>1. work[on[c]] \in RowEnded /\ verdict[c] = VerdictOf(work[on[c]])
        BY <3>1, <3>4 DEF KitchenInv, Decided
      <4>2. work[on[c]] = s
        BY <3>1, <4>1 DEF RemediationOf, VerdictOf, RowEnded
      <4> QED
        BY <3>1, <3>2, <4>2
    <3> QED
      BY <3>3, <3>4
  <2> QED
    BY <2>1, <2>2
<1>3. remediation' = "succeeded" => \E d \in Dishes : phase'[d] = "firing" /\ (work'[d] = "succeeded" \/ d \in early')
  BY <1>2
<1>4. remediation' = "failed" => \E d \in Dishes : phase'[d] = "firing" /\ (work'[d] = "failed" \/ d \in early')
  BY <1>2
<1> QED
  BY <1>3, <1>4 DEF OutcomeEarned

-----------------------------------------------------------------------------
(* Every step keeps the inductive invariant.                               *)
LEMMA KitchenStep == Plain /\ KitchenInv /\ [Next]_vars => KitchenInv'
<1> SUFFICES ASSUME Plain, KitchenInv, [Next]_vars PROVE KitchenInv'
  OBVIOUS
<1>1. KitchenTypes'
  BY TypesStep DEF KitchenInv
<1>2. CASE Next
  <2>1. Seeded' /\ RowsEndFirst'
    BY <1>2, DishesMoveStep DEF KitchenInv, DishesMove
  <2>2. Decided' /\ SeenEnded'
    BY <1>2, DecidedStep DEF KitchenInv
  <2> QED
    BY <1>1, <1>2, <2>1, <2>2, QuietStep, OneActiveStep, OutcomeStep DEF KitchenInv
<1>3. CASE UNCHANGED vars
  <2>1. UNCHANGED << phase, dish, work, grown, revived, early, pc, on, saw, verdict, read, order,
                     remediation >>
    BY <1>3 DEF vars, orderVars, dishVars, cookVars, history
  <2>2. UNCHANGED << Made, ActiveDishes >>
    BY <2>1 DEF Made, ActiveDishes
  <2>3. \A p : ActiveOf(p)' = ActiveOf(p)
    BY <2>1, <2>2 DEF ActiveOf
  <2> QED
    BY <1>1, <2>1, <2>2, <2>3
       DEF KitchenInv, Seeded, Decided, Outdated, SeenEnded, RowsEndFirst, EndedOrderQuiet, OneActive,
           OutcomeEarned
<1> QED
  BY <1>2, <1>3

(* The inductive invariant.                                                *)
LEMMA KitchenInvHolds == ASSUME Plain PROVE Spec => []KitchenInv
<1>1. Init => KitchenInv
  <2> SUFFICES ASSUME Init PROVE KitchenInv
    OBVIOUS
  <2>1. Made = {} /\ 0 \in 0 .. MaxDishes /\ {} = 1 .. 0
    BY KitchenAssumption DEF Init, Made
  <2>2. KitchenTypes
    BY <2>1, KitchenAssumption
       DEF Init, KitchenTypes, OrderTypes, DishTypes, CookTypes, Places, Active, Ended
  <2>3. \A p \in {"firing", "resolving"} : ActiveOf(p) = {}
    BY <2>1 DEF ActiveOf, ActiveDishes
  <2>4. OneActive
    BY <2>3 DEF OneActive
  <2> QED
    BY <2>1, <2>2, <2>4
       DEF Init, KitchenInv, Seeded, Decided, SeenEnded, RowsEndFirst, EndedOrderQuiet,
           OutcomeEarned, Ended
<1>2. KitchenInv /\ [Next]_vars => KitchenInv'
  BY KitchenStep
<1> QED
  BY <1>1, <1>2, PTL DEF Spec

-----------------------------------------------------------------------------
(* Recipes that remediate, and a suppression only where one notification   *)
(* is all there is: the setting of KitchenSettles, for every number of    *)
(* dishes and requests, and of notifications that nothing suppresses.      *)
Remediating ==
  /\ Recipes \subseteq {"remediate", "silent"}
  /\ Suppressing => MaxCounter = 1

DishesOf(p) == {d \in Dishes : phase[d] = p}

(* A firing notification that waits to be dispatched has no dish yet.      *)
FiringCounted ==
  Cardinality(DishesOf("firing")) + (IF order = "new" THEN 1 ELSE 0) <= counter

(* The order turns to its resolving phase with the alert, and not back     *)
(* without it.                                                             *)
ResolvesWithAlert ==
  /\ order = "resolving" => alert = "resolved"
  /\ alert = "resolved" => order = "resolving" \/ order \in Ended

(* A dispatch of the resolving phase knows by remediation_outcome whether  *)
(* a firing dish is at work.                                               *)
PendingWhileActive == ActiveOf("firing") # {} => remediation = "pending"

(* A resolution is dispatched once: the dish it is owed is missing, or is  *)
(* active alone, so that the order ends with it.                           *)
ResolvingCounted ==
  /\ Cardinality(DishesOf("resolving")) <= counter
  /\ alert = "firing" => Cardinality(DishesOf("resolving")) < counter
  /\ (order = "resolving" /\ Cardinality(DishesOf("resolving")) = counter) =>
        ActiveOf("resolving") # {} /\ ActiveOf("firing") = {}

Counted ==
  /\ FiringCounted /\ ResolvesWithAlert
  /\ revived = {} => PendingWhileActive /\ ResolvingCounted

CountInv == SeenEnded /\ Counted

(* The dishes of a phase are finitely many.                                *)
LEMMA DishesCount ==
  ASSUME NEW p
  PROVE  IsFiniteSet(DishesOf(p)) /\ Cardinality(DishesOf(p)) \in Nat
<1>1. IsFiniteSet(Dishes)
  BY FS_Interval, KitchenAssumption DEF Dishes
<1>2. DishesOf(p) \subseteq Dishes
  BY DEF DishesOf
<1> QED
  BY <1>1, <1>2, FS_Subset, FS_CardinalityType

(* The counts follow the phases.                                           *)
LEMMA SameCount ==
  ASSUME UNCHANGED phase, NEW p
  PROVE  DishesOf(p)' = DishesOf(p)
BY DEF DishesOf

(* A dispatch makes at most one dish, of its phase and active, and only    *)
(* where the phase has no active dish.                                     *)
LEMMA PlanCounts ==
  ASSUME KitchenTypes, NEW p \in {"firing", "resolving"}, NEW recipe, Plan(p, recipe),
         UNCHANGED history
  PROVE  /\ \/ DishesOf(p)' = DishesOf(p)
            \/ ActiveOf(p) = {} /\ Cardinality(DishesOf(p)') = Cardinality(DishesOf(p)) + 1
         /\ ActiveOf(p)' # {}
         /\ \A q : q # p /\ q # "none" =>
              DishesOf(q)' = DishesOf(q) /\ ActiveOf(q)' = ActiveOf(q)
<1> DEFINE d == DishFor(p)
<1>0. DishTypes
  BY DEF KitchenTypes
<1>1. /\ dish' = dish /\ phase'[d] = p /\ Made' = Made \cup {d}
      /\ \A e \in Made : phase'[e] = phase[e]
      /\ d \in ActiveOf(p) \/ (ActiveOf(p) = {} /\ d \notin Made)
  BY <1>0, PlanStep
<1>2. d \in Dishes /\ phase' = [phase EXCEPT ![d] = p]
  BY DEF Plan
<1>3. \A e \in Dishes : phase'[e] = IF e = d THEN p ELSE phase[e]
  BY <1>0, <1>2 DEF DishTypes
<1>4. CASE d \in ActiveOf(p)
  <2>1. phase[d] = p /\ d \in Made /\ dish[d] \in Active
    BY <1>4 DEF ActiveOf, ActiveDishes
  <2>2. phase' = phase /\ Made' = Made
    BY <1>0, <1>1, <1>2, <2>1 DEF DishTypes
  <2>3. \A q : ActiveOf(q)' = ActiveOf(q) /\ DishesOf(q)' = DishesOf(q)
    BY <1>1, <2>2 DEF ActiveOf, ActiveDishes, DishesOf
  <2> QED
    BY <1>4, <2>3
<1>5. CASE ActiveOf(p) = {} /\ d \notin Made
  <2>1. phase[d] = "none" /\ dish[d] = "new" /\ p # "none"
    BY <1>0, <1>2, <1>5 DEF DishTypes, Made
  <2>2. DishesOf(p)' = DishesOf(p) \cup {d} /\ d \notin DishesOf(p)
    BY <1>2, <1>3, <2>1 DEF DishesOf
  <2>3. Cardinality(DishesOf(p)') = Cardinality(DishesOf(p)) + 1
    BY <2>2, DishesCount, FS_AddElement
  <2>4. d \in ActiveOf(p)'
    BY <1>1, <2>1 DEF ActiveOf, ActiveDishes, Active
  <2>5. ASSUME NEW q, q # p, q # "none"
        PROVE  DishesOf(q)' = DishesOf(q) /\ ActiveOf(q)' = ActiveOf(q)
    <3>1. DishesOf(q)' = DishesOf(q)
      BY <1>3, <2>1, <2>5 DEF DishesOf
    <3>2. \A e : e \in Made' /\ phase'[e] = q <=> e \in Made /\ phase[e] = q
      BY <1>1, <2>1, <2>5
    <3>3. ActiveOf(q)' = ActiveOf(q)
      BY <1>1, <3>2 DEF ActiveOf, ActiveDishes
    <3> QED
      BY <3>1, <3>3
  <2> QED
    BY <1>5, <2>3, <2>4, <2>5
<1> QED
  BY <1>1, <1>4, <1>5

(* Every step as what it does to the order and to the status of a dish.    *)
LEMMA OrderSteps ==
  ASSUME Remediating, Next
  PROVE  \/ UNCHANGED << orderVars, phase, dish, revived >>
         \/ AlertFires \/ AlertResolves \/ Suppress
         \/ \E recipe \in Recipes : Dispatch(recipe) /\ UNCHANGED history
         \/ \E c \in Cooks : Flag(c)
         \/ \E c \in Cooks : EndDishOnly(c) \/ EndFiringResolved(c) \/ EndFiring(c)
                               \/ EndResolving(c)
<1>1. "none" \notin Recipes
  BY DEF Remediating
<1>2. ASSUME NEW c \in Cooks, NEW d \in Made, Advance(c, d)
      PROVE  UNCHANGED << orderVars, phase, dish, revived >>
  BY <1>2 DEF Advance, ReadBlocked, ReadPending, ReadEnded, dishVars, history
<1>3. ASSUME NEW c \in Cooks, Mark(c) \/ MarkLost(c) \/ RedispatchRefused(c) \/ Crash(c)
      PROVE  UNCHANGED << orderVars, phase, dish, revived >>
  BY <1>3 DEF Mark, MarkLost, RedispatchRefused, Crash, dishVars, history
<1>4. ASSUME NEW d \in Dishes, RowEnds(d)
      PROVE  UNCHANGED << orderVars, phase, dish, revived >>
  BY <1>4 DEF RowEnds, history
<1>5. ~ PrepDispatchNothing /\ \A c \in Cooks : ~ RedispatchNothing(c)
  BY <1>1 DEF PrepDispatchNothing, RedispatchNothing, DispatchNothing
<1>6. ASSUME PrepDispatch \/ \E c \in Cooks : Redispatch(c)
      PROVE  \E recipe \in Recipes : Dispatch(recipe) /\ UNCHANGED history
  BY <1>6 DEF PrepDispatch, Redispatch
<1> QED
  BY <1>2, <1>3, <1>4, <1>5, <1>6 DEF Next, Work, CookStep

(* A dish ends but once, unless a late write revives it.                   *)
LEMMA EndedStay ==
  ASSUME Remediating, KitchenTypes, Next
  PROVE  /\ revived \subseteq revived' /\ Made \subseteq Made'
         /\ \A d \in Made : dish[d] \in Ended => dish'[d] \in Ended \/ d \in revived'
<1>0. DishTypes /\ CookTypes /\ (\A d \in Made : d \in Dishes) /\ "complete" \in Ended
  BY DEF KitchenTypes, Made, Ended
<1>1. CASE UNCHANGED << phase, dish, revived >>
  BY <1>1 DEF Made
<1>2. CASE Suppress
  BY <1>0, <1>2 DEF Suppress, DishTypes, Made, history
<1>3. ASSUME NEW recipe \in Recipes, Dispatch(recipe), UNCHANGED history
      PROVE  dish' = dish /\ Made \subseteq Made'
  BY <1>0, <1>3, PlanStep DEF Dispatch, DispatchFiring, DispatchResolving
<1>4. ASSUME NEW c \in Cooks, Flag(c)
      PROVE  /\ revived \subseteq revived' /\ Made \subseteq Made'
             /\ \A d \in Made : dish[d] \in Ended => dish'[d] \in Ended \/ d \in revived'
  BY <1>0, <1>4 DEF Flag, DishTypes, Made
<1>5. ASSUME NEW c \in Cooks, EndDish(c)
      PROVE  /\ revived \subseteq revived' /\ Made \subseteq Made'
             /\ \A d \in Made : dish[d] \in Ended => dish'[d] \in Ended
  BY <1>0, <1>5 DEF EndDish, DishTypes, CookTypes, Made
<1>6. CASE AlertFires \/ AlertResolves
  BY <1>1, <1>6 DEF AlertFires, AlertResolves, dishVars, history
<1> QED
  BY <1>1, <1>2, <1>3, <1>4, <1>5, <1>6, OrderSteps
     DEF orderVars, EndDishOnly, EndFiringResolved, EndFiring, EndResolving, history

(* What a request saw ended is ended when it writes, or revived.           *)
LEMMA SeenEndedStep ==
  ASSUME Remediating, KitchenTypes, SeenEnded, Next
  PROVE  SeenEnded'
<1> SUFFICES ASSUME NEW c \in Cooks, pc'[c] = "ending", saw'[c] \in Ended
             PROVE  dish'[on'[c]] \in Ended \/ on'[c] \in revived'
  BY DEF SeenEnded
<1>1. CASE pc[c] = "ending" /\ on'[c] = on[c] /\ saw'[c] = saw[c]
  <2>1. on[c] \in Made
    BY <1>1, OnMade DEF KitchenTypes
  <2> QED
    BY <1>1, <2>1, EndedStay DEF SeenEnded
<1>2. ASSUME NEW d \in Made, DishesRest, on'[c] = d, saw'[c] = dish[d]
      PROVE  dish'[on'[c]] \in Ended
  BY <1>2 DEF DishesRest
<1> QED
  BY <1>1, <1>2, EndingCook

(* The webhook counts a notification before it is dispatched.              *)
LEMMA AlertCounts ==
  ASSUME KitchenTypes, CountInv, AlertFires \/ AlertResolves
  PROVE  Counted'
<1> USE DEF Counted
<1> DEFINE F == Cardinality(DishesOf("firing")) R == Cardinality(DishesOf("resolving"))
<1>1. F \in Nat /\ R \in Nat /\ counter \in Nat
  BY DishesCount DEF KitchenTypes, OrderTypes
<1>2. UNCHANGED << phase, dish, remediation, revived >>
  BY DEF AlertFires, AlertResolves, dishVars, history
<1>3. /\ \A p : DishesOf(p)' = DishesOf(p) /\ ActiveOf(p)' = ActiveOf(p)
  BY <1>2 DEF DishesOf, ActiveOf, ActiveDishes, Made
<1>4. F' = F /\ R' = R
  BY <1>3
<1>5. "new" \notin Ended /\ "resolving" \notin Ended
  BY DEF Ended
<1>6. F + (IF order = "new" THEN 1 ELSE 0) <= counter /\ ResolvesWithAlert
      /\ (revived = {} => PendingWhileActive /\ R <= counter /\ (alert = "firing" => R < counter)
            /\ (order = "resolving" /\ R = counter
                  => ActiveOf("resolving") # {} /\ ActiveOf("firing") = {}))
  BY DEF CountInv, FiringCounted, ResolvingCounted
<1> HIDE DEF F, R
<1>7. PendingWhileActive => PendingWhileActive'
  BY <1>2, <1>3 DEF PendingWhileActive
<1>8. CASE AlertFires
  <2>1. F' + (IF order' = "new" THEN 1 ELSE 0) <= counter'
    BY <1>1, <1>4, <1>6, <1>8 DEF AlertFires
  <2>2. R <= counter => R' < counter'
    BY <1>1, <1>4, <1>8 DEF AlertFires
  <2>3. ResolvesWithAlert'
    BY <1>8 DEF AlertFires, ResolvesWithAlert
  <2>4. ASSUME R' < counter' PROVE ResolvingCounted'
    <3>1. R' \in Nat /\ counter' \in Nat
      BY <1>1, <1>4, <1>8 DEF AlertFires
    <3>2. R' <= counter' /\ R' # counter'
      BY <2>4, <3>1
    <3> QED
      BY <1>8, <2>4, <3>2 DEF ResolvingCounted, AlertFires, R
  <2> QED
    BY <1>2, <1>6, <1>7, <2>1, <2>2, <2>3, <2>4 DEF FiringCounted, F
<1>9. CASE AlertResolves
  <2>1. /\ counter' = counter /\ alert' = "resolved"
        /\ order' = IF order \in Ended /\ alert = "resolved" THEN order ELSE "resolving"
    BY <1>9 DEF AlertResolves
  <2>2. F' + (IF order' = "new" THEN 1 ELSE 0) <= counter'
    BY <1>1, <1>4, <1>5, <1>6, <2>1
  <2>3. ResolvesWithAlert'
    BY <2>1 DEF ResolvesWithAlert
  <2>4. CASE alert = "resolved"
    <3>1. order' = order
      BY <1>6, <2>1, <2>4 DEF ResolvesWithAlert
    <3>2. ResolvingCounted => ResolvingCounted'
      BY <1>3, <1>4, <2>1, <3>1 DEF ResolvingCounted
    <3> QED
      BY <1>2, <1>7, <2>2, <2>3, <3>2 DEF CountInv, FiringCounted, F
  <2>5. CASE alert = "firing"
    <3>1. ResolvingCounted => ResolvingCounted'
      BY <1>1, <1>4, <2>1, <2>5 DEF ResolvingCounted, R
    <3> QED
      BY <1>2, <1>7, <2>2, <2>3, <3>1 DEF CountInv, FiringCounted, F
  <2> QED
    BY <2>4, <2>5 DEF KitchenTypes, OrderTypes
<1> QED
  BY <1>8, <1>9

(* A dispatch takes up a notification or a resolution that has no dish.    *)
LEMMA DispatchCounts ==
  ASSUME Remediating, KitchenTypes, CountInv,
         NEW recipe \in Recipes, Dispatch(recipe), UNCHANGED history
  PROVE  Counted'
<1> USE DEF Counted
<1> DEFINE F == Cardinality(DishesOf("firing")) R == Cardinality(DishesOf("resolving"))
<1>1. F \in Nat /\ R \in Nat /\ counter \in Nat
  BY DishesCount DEF KitchenTypes, OrderTypes
<1>2. FiringCounted /\ ResolvesWithAlert /\ (revived = {} => PendingWhileActive /\ ResolvingCounted)
  BY DEF CountInv
<1>3. CASE DispatchFiring(recipe)
  <2>1. /\ order = "new" /\ order' = "processing" /\ remediation' = "pending"
        /\ UNCHANGED << alert, counter >> /\ Plan("firing", recipe)
    BY <1>3 DEF DispatchFiring, Remediates, Remediating
  <2>2. /\ DishesOf("firing")' = DishesOf("firing") \/ F' = F + 1
        /\ DishesOf("resolving")' = DishesOf("resolving")
    BY <2>1, PlanCounts
  <2>3. F' \in {F, F + 1} /\ R' = R
    BY <2>2
  <2>4. alert = "firing"
    BY <1>2, <2>1 DEF ResolvesWithAlert, Ended, KitchenTypes, OrderTypes
  <2>5. F + 1 <= counter
    BY <1>2, <2>1 DEF FiringCounted
  <2> HIDE DEF F
  <2>6. F' <= counter'
    BY <1>1, <2>1, <2>3, <2>5
  <2> USE DEF F
  <2>7. FiringCounted'
    BY <1>1, <2>1, <2>3, <2>6 DEF FiringCounted
  <2>8. ResolvesWithAlert' /\ PendingWhileActive'
    BY <2>1, <2>4 DEF ResolvesWithAlert, PendingWhileActive
  <2>9. ResolvingCounted => ResolvingCounted'
    BY <2>1, <2>2 DEF ResolvingCounted
  <2> QED
    BY <1>2, <2>7, <2>8, <2>9 DEF history
<1>4. CASE DispatchResolving(recipe)
  <2>1. /\ order = "resolving" /\ ~ AwaitsRemediation
        /\ UNCHANGED << alert, counter, order, remediation >> /\ Plan("resolving", recipe)
    BY <1>4 DEF DispatchResolving, orderVars
  <2>2. /\ DishesOf("resolving")' = DishesOf("resolving") \/ (ActiveOf("resolving") = {} /\ R' = R + 1)
        /\ ActiveOf("resolving")' # {}
        /\ DishesOf("firing")' = DishesOf("firing") /\ ActiveOf("firing")' = ActiveOf("firing")
    BY <2>1, PlanCounts
  <2>3. alert = "resolved"
    BY <1>2, <2>1 DEF ResolvesWithAlert
  <2>4. FiringCounted' /\ ResolvesWithAlert'
    BY <1>2, <2>1, <2>2 DEF FiringCounted, ResolvesWithAlert
  <2>5. PendingWhileActive => PendingWhileActive' /\ ActiveOf("firing")' = {}
    BY <2>1, <2>2 DEF PendingWhileActive, AwaitsRemediation
  <2>6. ASSUME ResolvingCounted, ActiveOf("firing")' = {} PROVE ResolvingCounted'
    <3>1. CASE DishesOf("resolving")' = DishesOf("resolving")
      BY <2>1, <2>2, <2>6, <3>1 DEF ResolvingCounted
    <3>2. CASE ActiveOf("resolving") = {} /\ R' = R + 1
      <4>1. R <= counter /\ R # counter
        BY <2>1, <2>6, <3>2 DEF ResolvingCounted
      <4> HIDE DEF R
      <4>2. R' <= counter'
        BY <1>1, <2>1, <3>2, <4>1
      <4> QED
        BY <2>1, <2>2, <2>3, <2>6, <4>2 DEF ResolvingCounted, R
    <3> QED
      BY <2>2, <3>1, <3>2
  <2> QED
    BY <1>2, <2>4, <2>5, <2>6 DEF history
<1> QED
  BY <1>3, <1>4 DEF Dispatch

(* A suppressed order has no other firing dish: its alert fired once.      *)
LEMMA SuppressCounts ==
  ASSUME Remediating, KitchenTypes, CountInv, Suppress
  PROVE  Counted'
<1> USE DEF Counted
<1> DEFINE d == on[Prep] F == Cardinality(DishesOf("firing"))
<1>1. F \in Nat /\ counter = 1 /\ IsFiniteSet(DishesOf("firing"))
  BY DishesCount DEF KitchenTypes, OrderTypes, Suppress, Remediating
<1>2. /\ phase[d] = "firing" /\ alert = "firing" /\ order' = "complete"
      /\ dish' = [dish EXCEPT ![d] = "complete"]
      /\ UNCHANGED << alert, counter, phase, revived >>
  BY DEF Suppress, history
<1>3. d \in Dishes /\ dish \in [Dishes -> Active \cup Ended]
  BY OnMade DEF Suppress, Cooks, KitchenTypes, DishTypes, Made
<1>4. FiringCounted /\ ResolvesWithAlert /\ (revived = {} => PendingWhileActive /\ ResolvingCounted)
  BY DEF CountInv
<1>5. F <= 1
  <2>1. F + (IF order = "new" THEN 1 ELSE 0) <= counter
    BY <1>4 DEF FiringCounted
  <2> HIDE DEF F
  <2> QED
    BY <1>1, <2>1
<1>6. DishesOf("firing") = {d}
  <2>1. {d} \subseteq DishesOf("firing") /\ Cardinality({d}) = 1
    BY <1>2, <1>3, FS_Singleton DEF DishesOf
  <2>2. Cardinality({d}) = F
    BY <1>1, <1>5, <2>1, FS_Subset
  <2> QED
    BY <1>1, <2>1, <2>2, FS_Subset
<1>7. ActiveOf("firing")' = {}
  <2>1. \A e \in ActiveOf("firing")' : e \in DishesOf("firing") /\ dish'[e] \in Active
    BY <1>2 DEF ActiveOf, ActiveDishes, Made, DishesOf
  <2>2. dish'[d] \notin Active
    BY <1>2, <1>3 DEF Active
  <2> QED
    BY <1>6, <2>1, <2>2
<1>8. DishesOf("firing")' = DishesOf("firing") /\ DishesOf("resolving")' = DishesOf("resolving")
  BY <1>2 DEF DishesOf
<1>9. FiringCounted'
  <2>1. F' = F
    BY <1>8
  <2> HIDE DEF F
  <2>2. F' + (IF order' = "new" THEN 1 ELSE 0) <= counter'
    BY <1>1, <1>2, <1>5, <2>1
  <2> QED
    BY <2>2 DEF FiringCounted, F
<1>10. ResolvesWithAlert' /\ PendingWhileActive'
  BY <1>2, <1>7 DEF ResolvesWithAlert, PendingWhileActive
<1>11. ResolvingCounted => ResolvingCounted'
  BY <1>2, <1>8 DEF ResolvingCounted
<1> QED
  BY <1>2, <1>4, <1>9, <1>10, <1>11

(* A late write that revives no dish leaves the active ones as they are.   *)
LEMMA FlagCounts ==
  ASSUME KitchenTypes, CountInv, NEW c \in Cooks, Flag(c)
  PROVE  Counted'
<1> USE DEF Counted
<1> DEFINE d == on[c]
<1>1. /\ dish' = [dish EXCEPT ![d] = "processing"] /\ UNCHANGED << phase, alert, order, remediation, counter >>
      /\ revived' = IF dish[d] \in Ended THEN revived \cup {d} ELSE revived
  BY DEF Flag, orderVars
<1>2. \A p : DishesOf(p)' = DishesOf(p)
  BY <1>1 DEF DishesOf
<1>3. FiringCounted' /\ ResolvesWithAlert'
  BY <1>1, <1>2 DEF CountInv, FiringCounted, ResolvesWithAlert
<1>4. ASSUME revived' = {} PROVE PendingWhileActive' /\ ResolvingCounted'
  <2>1. revived = {} /\ dish[d] \notin Ended
    BY <1>1, <1>4
  <2>2. d \in Dishes /\ dish \in [Dishes -> Active \cup Ended]
    BY OnMade DEF Flag, KitchenTypes, DishTypes, Made
  <2>3. \A e \in Dishes : dish'[e] \in Active <=> dish[e] \in Active
    BY <1>1, <2>1, <2>2 DEF Active
  <2>4. \A p : ActiveOf(p)' = ActiveOf(p)
    BY <1>1, <2>3 DEF ActiveOf, ActiveDishes, Made
  <2> QED
    BY <1>1, <1>2, <2>1, <2>4 DEF CountInv, PendingWhileActive, ResolvingCounted
<1> QED
  BY <1>3, <1>4

(* The end of a dish leaves the others active, and it alone is not.        *)
LEMMA EndsOne ==
  ASSUME KitchenTypes, SeenEnded, NEW c \in Cooks, EndDish(c), revived = {}
  PROVE  \A p : ActiveOf(p)' = ActiveOf(p) \ {on[c]}
<1> DEFINE d == on[c]
<1>1. /\ dish' = [dish EXCEPT ![d] = IF saw[c] = verdict[c] THEN @ ELSE verdict[c]]
      /\ phase' = phase /\ pc[c] = "ending"
  BY DEF EndDish
<1>2. d \in Dishes /\ dish \in [Dishes -> Active \cup Ended] /\ verdict[c] \in Ended
  BY <1>1, OnMade DEF KitchenTypes, DishTypes, CookTypes, Made
<1>3. dish'[d] \in Ended
  BY <1>1, <1>2 DEF SeenEnded
<1>4. dish'[d] \notin Active
  BY <1>3 DEF Active, Ended
<1>5. \A e \in Dishes \ {d} : dish'[e] = dish[e]
  BY <1>1, <1>2
<1> QED
  BY <1>1, <1>4, <1>5 DEF ActiveOf, ActiveDishes, Made

(* The order goes on with a dish that is left, or ends with the last one.  *)
LEMMA EndCounts ==
  ASSUME KitchenTypes, CountInv, NEW c \in Cooks,
         EndDishOnly(c) \/ EndFiringResolved(c) \/ EndFiring(c) \/ EndResolving(c)
  PROVE  Counted'
<1> USE DEF Counted
<1> DEFINE d == on[c] F == Cardinality(DishesOf("firing")) R == Cardinality(DishesOf("resolving"))
<1>1. EndDish(c) /\ UNCHANGED << alert, counter, phase, revived >> /\ verdict[c] \in Ended
  BY DEF EndDishOnly, EndFiringResolved, EndFiring, EndResolving, EndDish, KitchenTypes, CookTypes
<1>2. \A p : DishesOf(p)' = DishesOf(p)
  BY <1>1 DEF DishesOf
<1>3. F \in Nat /\ counter \in Nat /\ "new" \notin Ended /\ "resolving" \notin Ended /\ "complete" \in Ended
  BY DishesCount DEF KitchenTypes, OrderTypes, Ended
<1>4. FiringCounted /\ ResolvesWithAlert /\ SeenEnded /\ (revived = {} => PendingWhileActive /\ ResolvingCounted)
  BY DEF CountInv
<1>5. \/ order' = order /\ remediation' = remediation /\ OrderLeftAlone(c)
      \/ order' \in Ended /\ ~ OrderLeftAlone(c)
      \/ order' = "resolving" /\ alert = "resolved" /\ phase[d] = "firing" /\ ~ OrderLeftAlone(c)
  BY <1>1, <1>3 DEF EndDishOnly, EndFiringResolved, EndFiring, EndResolving
<1>6. FiringCounted'
  <2>1. F' = F /\ counter' = counter
    BY <1>1, <1>2
  <2>2. F + (IF order = "new" THEN 1 ELSE 0) <= counter
    BY <1>4 DEF FiringCounted
  <2> HIDE DEF F
  <2>3. F' + (IF order' = "new" THEN 1 ELSE 0) <= counter'
    BY <1>3, <1>5, <2>1, <2>2
  <2> QED
    BY <2>3 DEF FiringCounted, F
<1>7. ResolvesWithAlert'
  BY <1>1, <1>3, <1>4, <1>5 DEF ResolvesWithAlert
<1>8. ASSUME revived' = {} PROVE PendingWhileActive' /\ ResolvingCounted'
  <2>1. revived = {} /\ PendingWhileActive /\ ResolvingCounted
    BY <1>1, <1>4, <1>8
  <2>2. \A p : ActiveOf(p)' = ActiveOf(p) \ {d}
    BY <1>1, <1>4, <2>1, EndsOne
  <2>3. ActiveDishes = ActiveOf("firing") \cup ActiveOf("resolving")
    BY DEF ActiveOf, ActiveDishes, Made, KitchenTypes, DishTypes
  <2>4. CASE order' = order /\ remediation' = remediation /\ OrderLeftAlone(c)
    <3>1. PendingWhileActive'
      BY <2>1, <2>2, <2>4 DEF PendingWhileActive
    <3>2. ASSUME order = "resolving", R = counter
          PROVE  ActiveOf("resolving")' # {} /\ ActiveOf("firing")' = {}
      <4>1. ActiveOf("firing") = {} /\ ActiveDishes \ {d} # {}
        BY <1>3, <2>1, <2>4, <3>2 DEF ResolvingCounted, OrderLeftAlone
      <4> QED
        BY <2>2, <2>3, <4>1
    <3> QED
      BY <1>1, <1>2, <2>1, <2>4, <3>1, <3>2 DEF ResolvingCounted
  <2>5. ASSUME ~ OrderLeftAlone(c)
        PROVE  ActiveOf("firing")' = {} /\ ActiveOf("resolving")' = {}
    BY <2>2, <2>3, <2>5 DEF OrderLeftAlone
  <2>6. CASE order' \in Ended /\ ~ OrderLeftAlone(c)
    BY <1>1, <1>2, <1>3, <2>1, <2>5, <2>6 DEF ResolvingCounted, PendingWhileActive
  <2>7. CASE order' = "resolving" /\ alert = "resolved" /\ phase[d] = "firing" /\ ~ OrderLeftAlone(c)
    <3>1. order = "resolving" /\ ActiveDishes \ {d} = {}
      BY <1>4, <2>7 DEF OrderLeftAlone, ResolvesWithAlert
    <3>2. d \notin ActiveOf("resolving")
      BY <2>7 DEF ActiveOf
    <3>3. ActiveOf("resolving") = {}
      BY <2>3, <3>1, <3>2
    <3>4. R # counter
      BY <2>1, <3>1, <3>3 DEF ResolvingCounted
    <3> QED
      BY <1>1, <1>2, <2>1, <2>5, <2>7, <3>4 DEF ResolvingCounted, PendingWhileActive
  <2> QED
    BY <1>5, <2>4, <2>6, <2>7
<1> QED
  BY <1>6, <1>7, <1>8

(* Every step keeps the counts.                                            *)
LEMMA CountStep == Remediating /\ KitchenTypes /\ CountInv /\ [Next]_vars => CountInv'
<1> SUFFICES ASSUME Remediating, KitchenTypes, CountInv, [Next]_vars PROVE CountInv'
  OBVIOUS
<1> USE DEF Counted
<1>1. ASSUME UNCHANGED << orderVars, phase, dish, revived >>
      PROVE  Counted'
  <2>1. UNCHANGED << alert, order, remediation, counter, phase, dish, revived >>
    BY <1>1 DEF orderVars
  <2>2. \A p : DishesOf(p)' = DishesOf(p) /\ ActiveOf(p)' = ActiveOf(p)
    BY <2>1 DEF DishesOf, ActiveOf, ActiveDishes, Made
  <2> QED
    BY <2>1, <2>2 DEF CountInv, FiringCounted, ResolvesWithAlert, PendingWhileActive, ResolvingCounted
<1>2. CASE UNCHANGED vars
  <2>1. SeenEnded'
    BY <1>2 DEF vars, dishVars, cookVars, CountInv, SeenEnded, history
  <2> QED
    BY <1>1, <1>2, <2>1 DEF vars, dishVars, CountInv, history
<1>3. CASE Next
  <2>1. SeenEnded'
    BY <1>3, SeenEndedStep DEF CountInv
  <2>2. Counted'
    BY <1>1, <1>3, OrderSteps, AlertCounts, DispatchCounts, SuppressCounts, FlagCounts, EndCounts
  <2> QED
    BY <2>1, <2>2 DEF CountInv
<1> QED
  BY <1>2, <1>3

-----------------------------------------------------------------------------
(* Every variable of the order, its dishes and its requests keeps its type *)
(* (cook.py, pre_heat.py).                                                 *)
THEOREM TypeCorrect == Spec => []TypeOK
BY TypesHold, TypesAreTypeOK, PTL

(* The webhook, dispatch, suppression and finalization agree on is_active: *)
(* an order is active exactly while it has not ended, suppressed or not.   *)
THEOREM ActiveAgrees == Spec => []ActiveWhileOpen
<1>1. Init => ActiveWhileOpen
  BY DEF Init, ActiveWhileOpen, Ended
<1>2. KitchenTypes /\ ActiveWhileOpen /\ [Next]_vars => ActiveWhileOpen'
  <2> SUFFICES ASSUME KitchenTypes, ActiveWhileOpen, [Next]_vars PROVE ActiveWhileOpen'
    OBVIOUS
  <2>0. "new" \notin Ended /\ "processing" \notin Ended /\ "resolving" \notin Ended
        /\ "complete" \in Ended
    BY DEF Ended
  <2>1. CASE UNCHANGED << order, active >>
    BY <2>1 DEF ActiveWhileOpen
  <2>2. CASE AlertFires
    BY <2>0, <2>2 DEF AlertFires, ActiveWhileOpen
  <2>3. CASE AlertResolves
    BY <2>3 DEF AlertResolves, ActiveWhileOpen
  <2>4. ASSUME NEW recipe \in Recipes, Dispatch(recipe) PROVE ActiveWhileOpen'
    BY <2>0, <2>4 DEF Dispatch, DispatchFiring, DispatchResolving, orderVars, ActiveWhileOpen
  <2>5. CASE DispatchNothing \/ Suppress
    BY <2>0, <2>5 DEF DispatchNothing, Suppress, ActiveWhileOpen
  <2>6. ASSUME NEW c \in Cooks, EndFiring(c) \/ EndResolving(c) \/ EndFiringResolved(c)
        PROVE  ActiveWhileOpen'
    <3>1. CASE EndFiringResolved(c)
      BY <2>0, <3>1 DEF EndFiringResolved, ActiveWhileOpen
    <3>2. CASE EndFiring(c) \/ EndResolving(c)
      <4>1. verdict[c] \in Ended
        BY DEF KitchenTypes, CookTypes
      <4> QED
        BY <2>0, <3>2, <4>1 DEF EndFiring, EndResolving, ActiveWhileOpen
    <3> QED
      BY <2>6, <3>1, <3>2
  <2>7. CASE UNCHANGED orderVars
    BY <2>1, <2>7 DEF orderVars
  <2>8. ASSUME NEW c \in Cooks, CookStep(c) PROVE ActiveWhileOpen'
    BY <2>1, <2>4, <2>5, <2>6, <2>7, <2>8
       DEF CookStep, Mark, MarkLost, Flag, EndDishOnly, Redispatch, RedispatchNothing,
           RedispatchRefused
  <2> QED
    BY <2>2, <2>3, <2>4, <2>5, <2>7, <2>8
       DEF Next, Work, PrepDispatch, PrepDispatchNothing, Advance, ReadBlocked, ReadPending,
           ReadEnded, RowEnds, Crash, vars
<1> QED
  BY <1>1, <1>2, TypesHold, PTL DEF Spec

(* An advance decides on one reading of the rows and ends the dish in a    *)
(* later transaction: its dish has no row left to run even then            *)
(* (_advance_dish), for any number of crossing advances, unless a dispatch *)
(* after an edit of the recipe gave the dish rows in between.              *)
THEOREM RowsBeforeDishes == ASSUME Plain PROVE Spec => []RowsEndFirst
<1>1. KitchenInv => RowsEndFirst
  BY DEF KitchenInv
<1> QED
  BY <1>1, KitchenInvHolds, PTL

(* No dish is active behind an order that has ended but one that a late    *)
(* write revived (_finalize_order_for_dish and the order's row lock), for  *)
(* any number of dishes and advances.                                      *)
THEOREM EndsQuietly == ASSUME Plain PROVE Spec => []EndedOrderQuiet
<1>1. KitchenInv => EndedOrderQuiet
  BY DEF KitchenInv
<1> QED
  BY <1>1, KitchenInvHolds, PTL

(* Concurrent dispatches share the phase's active dish                     *)
(* (_dispatch_order_once), however many requests dispatch.                 *)
THEOREM PhasesShareADish == ASSUME Plain PROVE Spec => []OnePerPhase
<1>1. KitchenInv => OnePerPhase
  <2> SUFFICES ASSUME KitchenInv, NEW p \in {"firing", "resolving"}
               PROVE  Cardinality(ActiveOf(p) \ revived) <= 1
    BY DEF OnePerPhase
  <2> DEFINE S == ActiveOf(p) \ revived
  <2>1. \A d, e \in S : d = e
    BY DEF KitchenInv, OneActive
  <2>2. CASE S = {}
    BY <2>2, FS_EmptySet
  <2>3. CASE S # {}
    <3>1. PICK d \in S : TRUE
      BY <2>3
    <3>2. S = {d}
      BY <2>1, <3>1
    <3> HIDE DEF S
    <3>3. Cardinality(S) = 1
      BY <3>2, FS_Singleton
    <3> QED
      BY <3>3 DEF S
  <2> QED
    BY <2>2, <2>3
<1> QED
  BY <1>1, KitchenInvHolds, PTL

(* remediation_outcome reports an end that a firing dish really had        *)
(* (_finalize_order_for_dish), through reopenings, repeated advances and   *)
(* any number of dispatches that give a dish more rows, unless the dish    *)
(* was ended by an advance that had not read them.                         *)
THEOREM OutcomesAreEarned == ASSUME Plain PROVE Spec => []OutcomeEarned
<1>1. KitchenInv => OutcomeEarned
  BY DEF KitchenInv
<1> QED
  BY <1>1, KitchenInvHolds, PTL

(* An ended order keeps its status until its alert resolves, under every   *)
(* late and repeated advance and every dispatch.                           *)
THEOREM EndedStaysEnded == ASSUME Plain PROVE Spec => EndedUntilResolved
<1> DEFINE Stays == (order \in Ended /\ order' # order) =>
                      order' = "resolving" /\ alert = "firing" /\ alert' = "resolved"
<1>1. KitchenTypes /\ [Next]_vars => [Stays]_vars
  <2> SUFFICES ASSUME KitchenTypes, Next, order \in Ended, order' # order
               PROVE  order' = "resolving" /\ alert = "firing" /\ alert' = "resolved"
    OBVIOUS
  <2>0. order # "new" /\ order # "processing" /\ order # "resolving"
    BY DEF Ended
  <2>1. CASE AlertResolves
    BY <2>1 DEF AlertResolves, KitchenTypes, OrderTypes
  <2>2. ASSUME NEW recipe \in Recipes, Dispatch(recipe) PROVE FALSE
    BY <2>0, <2>2 DEF Dispatch, DispatchFiring, DispatchResolving
  <2>3. ~ DispatchNothing /\ ~ AlertFires /\ ~ Suppress
    BY <2>0 DEF DispatchNothing, AlertFires, Suppress, Plain
  <2>4. ASSUME NEW c \in Cooks, CookStep(c) PROVE FALSE
    BY <2>2, <2>3, <2>4
       DEF CookStep, Mark, MarkLost, Flag, EndDishOnly, EndFiringResolved, EndFiring,
           EndResolving, OrderLeftAlone, Redispatch, RedispatchNothing, RedispatchRefused, orderVars
  <2> QED
    BY <2>1, <2>2, <2>3, <2>4
       DEF Next, Work, PrepDispatch, PrepDispatchNothing, Advance, ReadBlocked, ReadPending,
           ReadEnded, RowEnds, Crash, orderVars
<1>2. [][Stays]_vars => EndedUntilResolved
  BY PTL DEF EndedUntilResolved
<1> QED
  BY <1>1, <1>2, TypesHold, PTL DEF Spec
(* Each notification is remediated at most once and each resolution has at *)
(* most one resolving dish (_dispatch_order_once, _finalize_order_for_dish *)
(* and _process_alert together), for any number of dishes, notifications   *)
(* and crossing requests, while no late write has revived a dish.          *)
THEOREM OneDishPerAlert == ASSUME Remediating PROVE Spec => []DishesPerAlert
<1>1. Init => CountInv
  <2> SUFFICES ASSUME Init PROVE CountInv
    OBVIOUS
  <2>1. \A p \in {"firing", "resolving"} :
          Cardinality(DishesOf(p)) = 0 /\ ActiveOf(p) = {}
    BY FS_EmptySet DEF Init, DishesOf, ActiveOf, ActiveDishes, Made
  <2> QED
    BY <2>1 DEF Init, CountInv, Counted, FiringCounted, ResolvesWithAlert, SeenEnded, PendingWhileActive,
                ResolvingCounted
<1>2. KitchenTypes /\ CountInv => DishesPerAlert
  <2> SUFFICES ASSUME KitchenTypes, CountInv, revived = {}
               PROVE  /\ Cardinality(DishesOf("firing")) <= counter
                      /\ Cardinality(DishesOf("resolving")) <= counter
    BY DEF DishesPerAlert, DishesOf
  <2>1. Cardinality(DishesOf("firing")) \in Nat /\ counter \in Nat
    BY DishesCount DEF KitchenTypes, OrderTypes
  <2>2. Cardinality(DishesOf("firing")) + (IF order = "new" THEN 1 ELSE 0) <= counter
    BY DEF CountInv, Counted, FiringCounted
  <2> QED
    BY <2>1, <2>2 DEF CountInv, Counted, ResolvingCounted
<1> QED
  BY <1>1, <1>2, CountStep, TypesHold, PTL DEF Spec
=============================================================================
