CONSTANTS
  Request = {r1, r2, r3}
  Kind = {"stats", "drop", "bad", "page"}
  MaxWorkers = 2
  MaxRestart = 1
  None = None
SYMMETRY Symmetry
SPECIFICATION Spec
INVARIANTS TypeOK PoolExact FirstComeFirstServed ReplyTellsOutcome
PROPERTIES ReplySpec
CHECK_DEADLOCK FALSE
