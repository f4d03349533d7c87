SPECIFICATION Spec
CONSTANTS
  Nobody = Nobody
  Orch = {o1, o2}
  Resumer = {r1, r2}
  Reaper = {k1}
  Discarder = {}
SYMMETRY Symmetry
INVARIANTS TypeOK MetadataNamesHolder
PROPERTIES SpawnsIntoFreeTask ImplementsMutex
CHECK_DEADLOCK FALSE
