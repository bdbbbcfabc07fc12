CONSTANTS
  Socket = {s1, s2}
  Feed = {}
  MaxPush = 1
  MaxRestart = 0
SPECIFICATION Spec
PROPERTIES BroadcastRemovesClosed
CHECK_DEADLOCK FALSE
