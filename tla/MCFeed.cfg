CONSTANTS
  Threads = {t1, t2, t3}
  Text = {hello}
  Empty = empty
  FeedMaxSize = 2
  IdModulus = 5
  MaxPosts = 4
SYMMETRY Symmetry
SPECIFICATION Spec
INVARIANTS TypeOK FeedIsTail EveryIdAccounted SameThreadInOrder
PROPERTY ImplementsTimeline
