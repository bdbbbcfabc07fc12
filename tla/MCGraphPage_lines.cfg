CONSTANTS
  Page = {"dec", "mrg", "tst"}
  Key = {k1}
  MaxUpdate = 2
  MaxClick = 1
  MaxInput = 3
SYMMETRY Symmetry
SPECIFICATION Spec
INVARIANTS LinesShowTheirOwn
CHECK_DEADLOCK FALSE
