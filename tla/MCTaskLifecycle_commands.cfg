SPECIFICATION Spec
CONSTANTS
  Nobody = Nobody
  Orch = {o1, o2, o3}
  Reaper = {}
  MaxIterations = 1
  PlanRequiresApproval = TRUE
  Commands = {"start", "replan", "continue", "resume", "kill"}
SYMMETRY Symmetry
INVARIANTS TypeOK AgentsBounded AlwaysResumable
CHECK_DEADLOCK FALSE
