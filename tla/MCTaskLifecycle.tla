----------------------------- MODULE MCTaskLifecycle -----------------------------
(* Model-checking instances of TaskLifecycle. *)
EXTENDS TaskLifecycle, TLC

Symmetry == Permutations(Orch)
================================================================================
