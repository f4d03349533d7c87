SPECIFICATION Spec
CONSTANTS
  Nobody = Nobody
  Orch = {o1, o2}
  Reaper = {}
  MaxIterations = 1
  PlanRequiresApproval = FALSE
  Commands = {"start", "discard", "resume"}
SYMMETRY Symmetry
INVARIANTS DoneMeansCompleted
CHECK_DEADLOCK FALSE
