SPECIFICATION FairSpec
CONSTANTS
  Threads = {t1, t2}
  NoThread = NoThread
  Interval = 2
  Start = 1
  MaxClock = 5
  MaxWaits = 4
INVARIANTS TypeOK AverageRate OneRequestPerSlot SlotsInv
PROPERTIES ImplementsBudget WaitReturns
CHECK_DEADLOCK FALSE
