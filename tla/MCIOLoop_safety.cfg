SPECIFICATION Spec
CONSTANTS
  Job = {j1}
  Timer = {t1, t2, t3}
  Fd = {listener, f1}
  Listener = listener
  Waker = waker
  Plain = plain
  None = none
  CompactAt = 0
  MaxTime = 2
INVARIANTS NoOversleep EventsHaveHandlers
PROPERTIES TimeoutsRunInOrder HeapIsMostlyLive
SYMMETRY Symmetry
