CONSTANTS
  p = p  q = q  r = r
  ana = ana  bia = bia  caio = caio  long = long  oi = oi
  Conns = {p, q, r}
  NoConn = noconn
  Text = {ana, bia, caio, long, oi}
  Empty = empty
  FeedMaxSize = 2
  IdModulus = 8
  MaxFollows = 3
  MaxClients = 2
  NumFds = 3
  Stored <- Cut
  Scripts <- AuthorFollowerReader
  LeavingPeers = {q}
  SlowPeers = {}
  CreateMayFail = FALSE
  MaxPosts = 1
SPECIFICATION Spec
INVARIANT ServerStaysUp
CHECK_DEADLOCK FALSE
