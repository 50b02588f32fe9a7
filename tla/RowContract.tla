---------------------------- MODULE RowContract -----------------------------
(***************************************************************************)
(* What a runtime row promises the Cook that plans dishes: it waits until  *)
(* Cook makes it ready, is worked on only after that, ends once with a     *)
(* status that never changes, or is skipped before it is ready and then    *)
(* never worked on.  Who claims, dispatches, polls and reconciles is left  *)
(* to RuntimeRow, which implements this.                                   *)
(***************************************************************************)
CONSTANTS Rows, Terminal

VARIABLES
  outcome,      \* "waiting", "ready" or how the row ended
  made,         \* rows that Cook made ready
  started       \* rows whose work was handed to a provider

contractVars == << outcome, made, started >>

TypeOK ==
  /\ outcome \in [Rows -> {"waiting", "ready"} \cup Terminal]
  /\ made \subseteq Rows
  /\ started \subseteq Rows

Init ==
  /\ outcome = [r \in Rows |-> "waiting"]
  /\ made = {}
  /\ started = {}

MakeReady(r) ==
  /\ outcome[r] = "waiting"
  /\ outcome' = [outcome EXCEPT ![r] = "ready"]
  /\ made' = made \cup {r}
  /\ UNCHANGED started

(* A provider may learn of the work after the row has ended: the call that *)
(* hands it over can outlive the worker that made it.                      *)
Start(r) ==
  /\ r \in made
  /\ started' = started \cup {r}
  /\ UNCHANGED << outcome, made >>

End(r, s) ==
  /\ outcome[r] = "ready"
  /\ outcome' = [outcome EXCEPT ![r] = s]
  /\ UNCHANGED << made, started >>

Skip(r) ==
  /\ outcome[r] = "waiting"
  /\ outcome' = [outcome EXCEPT ![r] = "canceled"]
  /\ UNCHANGED << made, started >>

Next ==
  \E r \in Rows :
    \/ MakeReady(r)
    \/ Start(r)
    \/ \E s \in Terminal : End(r, s)
    \/ Skip(r)

Spec == Init /\ [][Next]_contractVars
=============================================================================
