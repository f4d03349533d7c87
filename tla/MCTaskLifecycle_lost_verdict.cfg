SPECIFICATION Spec
CONSTANTS
  Nobody = Nobody
  Orch = {o1, o2}
  Reaper = {}
  MaxIterations = 1
  PlanRequiresApproval = FALSE
  Commands = {"start", "continue"}
PROPERTIES PassCompletes
CHECK_DEADLOCK FALSE
