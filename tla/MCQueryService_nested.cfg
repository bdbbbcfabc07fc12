CONSTANTS
  Request = {r1}
  Kind = {"free"}
  MaxWorkers = 1
  MaxRestart = 0
  None = None
SPECIFICATION Spec
INVARIANTS NestedErrorIsReported
CHECK_DEADLOCK FALSE
