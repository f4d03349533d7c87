SPECIFICATION Spec
CONSTANTS
  Command = {c1, c2}
  Feedback = {f1}
  Invented = inv
  NoOne = noone
  Orchestrator = orch
  NoFile = nofile
  MaxRounds = 2
SYMMETRY Interchangeable
INVARIANTS TypeOK FreshRoundUndisturbed
PROPERTIES FreshRoundWhole QuestionFoundByNext
CHECK_DEADLOCK FALSE
