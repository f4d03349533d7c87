SPECIFICATION Spec
CONSTANTS
  Nobody = Nobody
  Orch = {o1, o2, o3}
  Reaper = {}
  MaxIterations = 2
  PlanRequiresApproval = FALSE
  Commands = {"start", "override", "resume", "kill"}
SYMMETRY Symmetry
INVARIANTS VerifierWaitsForAnswer
PROPERTIES StatusFollowsTable AskerKept
CHECK_DEADLOCK FALSE
