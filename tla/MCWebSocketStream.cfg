SPECIFICATION FairSpec
CONSTANTS
  Me = me
  MaxFrame = 2
  MaxPush = 1
INVARIANTS PendingIsExact NeverDeaf MessagesArriveWhole NothingAfterClose
PROPERTIES OverIsOver RegistrySpec ConnectionIsReleased MessageIsHandled
CHECK_DEADLOCK FALSE
