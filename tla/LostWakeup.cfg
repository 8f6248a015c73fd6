CONSTANTS
  Threads = {t1, t2}
  MaxReuses = 1
SPECIFICATION FairSpec
PROPERTY NobodyIsHeldUp
CHECK_DEADLOCK FALSE
