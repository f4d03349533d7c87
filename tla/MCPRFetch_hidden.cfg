SPECIFICATION Spec
CONSTANTS
  PageSize = 1
  InnerCap = 2
  MaxPosts = 3
  MaxDeletes = 0
INVARIANTS FetchWhole
CHECK_DEADLOCK FALSE
