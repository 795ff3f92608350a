SPECIFICATION Spec
CONSTANTS
  Callers = {ui, api}
  MaxCalls = 4
  MaxRuns = 2
CHECK_DEADLOCK FALSE
INVARIANT AtMostOnePlayback
