CONSTANTS
  Page = {"dec"}
  Key = {k1}
  Filter = {"ALL"}
  Table = {"dec"}
  MaxUpdate = 2
  MaxClick = 2
  MaxRestart = 1
  MaxInput = 3
SPECIFICATION FairSpec
PROPERTIES PageSpec LeavingEmptiesTheList UpdatesAreDrawn
CHECK_DEADLOCK FALSE
