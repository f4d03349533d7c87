SPECIFICATION Spec
CONSTANTS
  Nobody = Nobody
  Orch = {o1}
  Reaper = {}
  MaxIterations = 1
  PlanRequiresApproval = TRUE
  Commands = {"start", "override"}
INVARIANTS PlanGate
CHECK_DEADLOCK FALSE
