SPECIFICATION FairSpec
CONSTANTS
  Methods = {"GET", "DELETE", "POST"}
  Idempotent = {"GET", "DELETE"}
  MaxRetries = 2
  RetryDelay = 1
  Retries <- RetryValues
  Caps = {0, 2}
  Delays = {0, 2, 3}
INVARIANTS TypeOK RequestsBounded NeverRepeatedBlindly GivesUpLast SleepBounded 
PROPERTY CallEnds
CHECK_DEADLOCK FALSE
