SPECIFICATION Spec
CONSTANTS
  Apis = 2
  Threads = {t1}
  Contents = {"v1", "v2", "v3", "half"}
  Broken = {"half"}
  Boot = "v1"
  Offers <- OfferedBy
  MaxEdits = 3
  NONE = NONE
INVARIANT SomeReloadPromiseKept
CHECK_DEADLOCK FALSE
