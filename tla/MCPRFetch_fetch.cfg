SPECIFICATION Spec
CONSTANTS
  PageSize = 1
  InnerCap = 2
  MaxPosts = 3
  MaxDeletes = 2
INVARIANTS TypeOK FetchComplete ItemsOnceInOrder AnsweredAreMarked
PROPERTIES FetchEnds
CHECK_DEADLOCK FALSE
