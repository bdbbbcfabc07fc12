CONSTANTS
  Page = {"dec", "mrg", "sql", "tst", "ver"}
  Key = {k1}
  MaxUpdate = 3
  MaxClick = 3
  MaxInput = 4
SYMMETRY Symmetry
SPECIFICATION Spec
INVARIANTS ChartIsOneGraph StreamIsFaithful
CHECK_DEADLOCK FALSE
