SPECIFICATION FairSpec
CONSTANTS
  Callers = {ui, api}
  MaxCalls = 5
  MaxRuns = 2
INVARIANTS StopsOnlyItsOwn OnePlayback PhaseIsTrue LiveIsServed
CHECK_DEADLOCK FALSE
PROPERTIES StopEndsPlayback DestructorReturns
