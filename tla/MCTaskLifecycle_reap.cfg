SPECIFICATION FairSpec
CONSTANTS
  Nobody = Nobody
  Orch = {o1, o2}
  Reaper = {k1}
  MaxIterations = 2
  PlanRequiresApproval = TRUE
  Commands = {"start", "continue", "kill"}
PROPERTIES OrchEnds InFlightReaped
CHECK_DEADLOCK FALSE
