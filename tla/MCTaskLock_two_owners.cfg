SPECIFICATION Spec
CONSTANTS
  Nobody = Nobody
  Orch = {o1, o2}
  Resumer = {}
  Reaper = {}
  Discarder = {d1}
INVARIANTS AtMostOneHolder
CHECK_DEADLOCK FALSE
