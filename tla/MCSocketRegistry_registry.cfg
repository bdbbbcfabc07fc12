CONSTANTS
  Socket = {s1, s2}
  Feed = {f1}
  MaxPush = 3
  MaxRestart = 1
SPECIFICATION FairSpec
INVARIANTS TypeOK RegistryExact BroadcastReachesEveryone
PROPERTIES LeavesOnlyWhenClosed FeedSpec PushArrives DeadHandlerLeaves
CHECK_DEADLOCK FALSE
