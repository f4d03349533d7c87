SPECIFICATION Spec
CONSTANTS
  Nobody = Nobody
  Orch = {o1, o2}
  Reaper = {}
  MaxIterations = 1
  PlanRequiresApproval = TRUE
  Commands = {"start", "detach", "continue"}
PROPERTIES StatusFollowsTable
CHECK_DEADLOCK FALSE
