SPECIFICATION FairSpec
CONSTANTS
  Threads = {t1, t2}
  NoThread = NoThread
  Forbidden = {t2}
  Lifetimes = {0, 2}
  Margin = 1
  MaxClock = 1
  MaxCalls = 3
  MaxRevocations = 1
INVARIANTS TypeOK FetchedForAReason FieldsAgree RetryCarriesAnotherToken
PROPERTY CallsEnd
CHECK_DEADLOCK FALSE
