SPECIFICATION Spec
CONSTANTS
  Command = {c1, c2}
  Feedback = {f1}
  Invented = inv
  NoOne = noone
  Orchestrator = orch
  NoFile = nofile
  MaxRounds = 1
SYMMETRY Interchangeable
INVARIANTS OnePlannerPerRound
CHECK_DEADLOCK FALSE
