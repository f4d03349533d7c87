SPECIFICATION Spec
CONSTANTS
  PageSize = 1
  InnerCap = 2
  MaxPosts = 4
  MaxDeletes = 2
INVARIANTS TypeOK FetchComplete ItemsOnceInOrder AnsweredAreMarked
CHECK_DEADLOCK FALSE
