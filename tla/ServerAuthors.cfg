CONSTANTS
  p = p  q = q  r = r
  ana = ana  bia = bia  caio = caio  long = long  oi = oi
  Conns = {p, q, r}
  NoConn = noconn
  Text = {ana, bia, caio, long, oi}
  Empty = empty
  FeedMaxSize = 2
  IdModulus = 8
  MaxFollows = 4
  MaxClients = 3
  NumFds = 3
  Stored <- Cut
  Scripts <- SeveralAuthors
  LeavingPeers = {}
  SlowPeers = {}
  CreateMayFail = FALSE
  MaxPosts = 3
SPECIFICATION Spec
INVARIANTS AnswersGoToAsker PushesInPostOrder FollowersReached FollowListSound
PROPERTY ImplementsFeed
CHECK_DEADLOCK FALSE
