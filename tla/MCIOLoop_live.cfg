SPECIFICATION FairSpec
CONSTANTS
  Job = {j1, j2}
  Timer = {t1}
  Fd = {listener}
  Listener = listener
  Waker = waker
  Plain = plain
  None = none
  CompactAt = 0
  MaxTime = 1
INVARIANT NoLostWakeup
PROPERTIES HandoffSpec EventsAreHandled TimeoutsRun
