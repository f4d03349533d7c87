--------------------------------- MODULE TaskFSM ---------------------------------
(***************************************************************************)
(* The status machine of a task (internal/store/tasks/fsm.go): the table   *)
(* of legal edges, and Apply.                                              *)
(* Constant level: TaskLifecycle applies it to rows.                       *)
(***************************************************************************)

Statuses == {"planning", "plan-pending-approval", "plan-done", "working", "work-done",
             "verifying", "needs-clarification", "completed", "failed", "help"}

New == "new"   \* the zero TaskStatus of a row that was never persisted

\* The edges that `events` open from each of `from` to `to`.
Edges(from, to, events) ==
  {[From |-> f, Event |-> e, To |-> to] : f \in from, e \in events}

Restartable == {"failed", "completed", "help"}

transitions == UNION {
  Edges({New}, "planning", {"PlanBegin"}),
  Edges({"planning"}, "plan-done", {"PlanDone", "ReaperPlanDone"}),
  Edges({"planning"}, "plan-pending-approval",
        {"PlanAwaitApproval", "ReaperPlanAwaitApproval"}),
  Edges({"planning"}, "help", {"PlanError", "PlanQuit", "ReaperPlanFail"}),
  Edges({"planning"}, "needs-clarification",
        {"PlanNeedsClarification", "ReaperPlanNeedsClarification"}),
  Edges({"plan-pending-approval"}, "plan-done", {"PlanApprove"}),
  Edges({"plan-done"}, "working", {"WorkBegin"}),
  Edges({"working"}, "work-done", {"WorkDone", "ReaperWorkDone"}),
  Edges({"working"}, "help", {"WorkQuit", "WorkError"}),
  Edges({"working"}, "needs-clarification",
        {"WorkNeedsClarification", "ReaperWorkNeedsClarification"}),
  Edges({"planning", "plan-done", "work-done", "verifying"}, "verifying", {"VerifyBegin"}),
  Edges({"verifying"}, "completed", {"VerifyPass"}),
  Edges({"verifying"}, "failed", {"VerifyFail", "VerifyStuck"}),
  Edges({"verifying"}, "help", {"VerifyError", "VerifyQuit"}),
  Edges({"verifying"}, "needs-clarification",
        {"VerifyNeedsClarification", "ReaperVerifyNeedsClarification"}),
  \* restarts
  Edges({"planning", "plan-pending-approval", "plan-done", "working", "work-done"}
          \cup Restartable, "planning", {"PlanRestart"}),
  Edges({"planning", "plan-done", "working", "work-done"} \cup Restartable,
        "working", {"WorkRestart"}),
  Edges({"working", "work-done", "verifying"} \cup Restartable,
        "verifying", {"VerifyRestart"}),
  \* resumes
  Edges({"planning", "plan-pending-approval", "plan-done", "needs-clarification"}
          \cup Restartable, "planning", {"PlanResume"}),
  Edges({"working", "needs-clarification"} \cup Restartable, "working", {"WorkResume"}),
  Edges({"plan-done", "verifying", "needs-clarification"} \cup Restartable,
        "verifying", {"VerifyResume"})}

\* Where Apply's search through the table ends, for the pairs it finds an edge for.
Target ==
  [k \in {<<t.From, t.Event>> : t \in transitions} |->
     (CHOOSE t \in transitions : t.From = k[1] /\ t.Event = k[2]).To]

Legal(from, e) == <<from, e>> \in DOMAIN Target

\* Apply on a legal edge; an illegal one is an IllegalTransitionError.
Apply(from, e) == Target[<<from, e>>]

================================================================================
