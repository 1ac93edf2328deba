SPECIFICATION Spec
CONSTANTS
  Threads = {t1, t2}
  NoThread = NoThread
  Forbidden = {}
  Lifetimes = {2}
  Margin = 1
  MaxClock = 0
  MaxCalls = 2
  MaxRevocations = 1
INVARIANT SecondRefusalIsReal
CHECK_DEADLOCK FALSE
