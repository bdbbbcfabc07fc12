SPECIFICATION FairSpec
CONSTANTS
  Kind = {"get", "post", "last", "upgrade", "malformed", "badLength"}
  MaxRequest = 3
INVARIANTS ResponsesInOrder OneHandlerAtATime NothingIsCutOff
PROPERTIES ConnectionIsReleased RequestIsAnswered
CHECK_DEADLOCK FALSE
