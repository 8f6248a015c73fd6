CONSTANTS
  Inputs <- TwoReads
  ServerArgs <- OneServer
  ClientArgs <- TwoClients
  FeedMaxSize = 2
  MaxPushes = 2
SPECIFICATION FairSpec
INVARIANTS TypeOK FlagOnlyWhileWaiting FeedPrintedAsFeed NeverRefused
PROPERTY FlagIsCleared
CHECK_DEADLOCK FALSE
