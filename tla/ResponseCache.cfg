SPECIFICATION Spec
CONSTANTS
  Threads = {t1, t2}
  Keys = {k1, k2}
  Tagged = {k1}
  Patterns <- AnyPattern
  TTL = 2
  MaxEntries = 1
  Timeout = 1
  MaxClock = 4
  MaxVersion = 2
  MaxCalls = 3
INVARIANTS TypeOK Bounded ChangesBecomeVisible AskedIsCurrent ClearedStaysCleared
CHECK_DEADLOCK FALSE
