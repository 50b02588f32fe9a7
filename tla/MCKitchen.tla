----------------------------- MODULE MCKitchen -----------------------------
(* Small instances of Kitchen for TLC. *)
EXTENDS Kitchen, TLC

Symmetry == Permutations(Callers)
=============================================================================
