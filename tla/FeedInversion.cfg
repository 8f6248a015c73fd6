CONSTANTS
  Threads = {t1, t2}
  Text = {hello}
  Empty = empty
  FeedMaxSize = 2
  IdModulus = 8
  MaxPosts = 3
SPECIFICATION Spec
INVARIANT NewestFirst
