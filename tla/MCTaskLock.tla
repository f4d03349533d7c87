------------------------------- MODULE MCTaskLock -------------------------------
(* Model-checking instances of TaskLock. *)
EXTENDS TaskLock, TLC

\* Processes of one kind are interchangeable: sound for the safety runs, and
\* left out of the liveness run.
Symmetry == Permutations(Orch) \cup Permutations(Resumer) \cup Permutations(Discarder)
================================================================================
