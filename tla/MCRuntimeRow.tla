---------------------------- MODULE MCRuntimeRow ----------------------------
(* Small instances of RuntimeRow for TLC. *)
EXTENDS RuntimeRow, TLC

Symmetry == Permutations(Rows) \cup Permutations(Runners) \cup Permutations(Timers)
=============================================================================
