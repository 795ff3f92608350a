SPECIFICATION FairSpec
CONSTANTS
  Callers = {ui, api}
  Keys = {"k"}
  Toggles = {"volume"}
  Limit = 2
  MaxCalls = 4
INVARIANTS InputIsPending EdgesKeepOrder MotionIsSentOnce
PROPERTIES StopReleases
CHECK_DEADLOCK FALSE
