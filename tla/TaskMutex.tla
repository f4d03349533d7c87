------------------------------- MODULE TaskMutex -------------------------------
(***************************************************************************)
(* What the per-task lock promises to the rest of the program: at any time *)
(* at most one process owns a task.  TaskLock, the flock protocol of       *)
(* internal/store/tasks/lock.go, is shown to implement this module, and    *)
(* TaskLifecycle uses it for the one lock of the task it models.           *)
(***************************************************************************)
CONSTANTS
  Proc,    \* processes that may own the task
  Nobody   \* not a process: the value of owner when the task is free

VARIABLE owner

Init == owner = Nobody

Acquire(p) ==
  /\ owner = Nobody
  /\ owner' = p

\* A release, a crash and the end of the process are the same step here: the
\* kernel drops the lock when the descriptor goes away.
Release(p) ==
  /\ owner = p
  /\ owner' = Nobody

Next == \E p \in Proc : Acquire(p) \/ Release(p)

Spec == Init /\ [][Next]_owner
================================================================================
