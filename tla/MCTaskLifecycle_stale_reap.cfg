SPECIFICATION Spec
CONSTANTS
  Nobody = Nobody
  Orch = {o1, o2}
  Reaper = {k1}
  MaxIterations = 1
  PlanRequiresApproval = FALSE
  Commands = {"start", "continue"}
PROPERTIES ReapsOnlyUnheld
CHECK_DEADLOCK FALSE
