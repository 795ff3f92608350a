SPECIFICATION Spec
CONSTANTS
  Callers = {ui, api}
  Keys = {"k"}
  Toggles = {"volume"}
  Limit = 2
  MaxCalls = 4
CHECK_DEADLOCK FALSE
INVARIANT MovesAddUp
