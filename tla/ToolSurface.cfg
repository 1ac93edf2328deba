SPECIFICATION FairSpec
CONSTANTS
  Apis = 2
  Threads = {t1}
  Contents = {"v1", "v2", "v3", "half"}
  Broken = {"half"}
  Boot = "v1"
  Offers <- OfferedBy
  MaxEdits = 3
  NONE = NONE
INVARIANTS TypeOK SurfaceAgrees NeverBehindItsTool
PROPERTIES UnknownMeansRemoved EditIsServed
CHECK_DEADLOCK FALSE
