SPECIFICATION Spec
CONSTANTS
  Methods = {"GET", "POST"}
  Idempotent = {"GET"}
  MaxRetries = 2
  RetryDelay = 1
  Retries = {0}
  Caps = {0}
  Delays = {0}
INVARIANT SomeCallPromiseKept
CHECK_DEADLOCK FALSE
