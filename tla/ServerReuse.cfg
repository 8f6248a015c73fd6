CONSTANTS
  p = p  q = q  r = r
  ana = ana  bia = bia  caio = caio  long = long  oi = oi
  Conns = {p, q, r}
  NoConn = noconn
  Text = {ana, bia, caio, long, oi}
  Empty = empty
  FeedMaxSize = 2
  IdModulus = 8
  MaxFollows = 2
  MaxClients = 2
  NumFds = 3
  Stored <- Cut
  Scripts <- ReuseOrLongTexts
  LeavingPeers = {q, r}
  SlowPeers = {}
  CreateMayFail = TRUE
  MaxPosts = 1
SPECIFICATION Spec
INVARIANTS TypeOK SlotOwnership NothingLeaks SendMutexExclusive InterruptedOnlyByReuse PushForFollowerUnlessGone FollowersReached PushesInPostOrder
PROPERTY NameKept
CHECK_DEADLOCK FALSE
