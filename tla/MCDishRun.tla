----------------------------- MODULE MCDishRun -----------------------------
(* A small instance of DishRun for TLC. *)
EXTENDS DishRun, TLC

(* Two rows side by side, another two, and a last one.  The buckets do not *)
(* follow the ids: a row seeded late runs among the first.                 *)
Recipe == (1 :> 2) @@ (2 :> 1) @@ (3 :> 1) @@ (4 :> 2) @@ (5 :> 3)
=============================================================================
