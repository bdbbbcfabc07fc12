CONSTANTS
  Request = {r1, r2, r3}
  Kind = {"free", "bad", "page"}
  MaxWorkers = 1
  MaxRestart = 1
  None = None
SPECIFICATION FairSpec
PROPERTIES EveryQueryIsAnswered PagesAreServed
CHECK_DEADLOCK FALSE
