SPECIFICATION FairSpec
CONSTANTS
  Nobody = Nobody
  Orch = {o1, o2}
  Resumer = {r1}
  Reaper = {}
  Discarder = {d1}
INVARIANTS ExclusiveUntilDiscard HoldersBoundedByDiscards
PROPERTIES TakeoverEnds
CHECK_DEADLOCK FALSE
