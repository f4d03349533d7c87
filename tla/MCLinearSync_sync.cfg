SPECIFICATION Spec
CONSTANTS
  Writer = {w1, w2}
  Starts = {"planning"}
  Events <- SomeEvents
  Tokens <- SomeTokens
  Titles <- SomeTitles
  MaxFires = 2
  MaxRenames = 1
INVARIANTS TypeOK Mirrors WordsKept OwnerPaged
PROPERTIES NotifyEnds
CHECK_DEADLOCK FALSE
