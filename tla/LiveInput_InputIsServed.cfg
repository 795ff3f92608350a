SPECIFICATION FairSpec
CONSTANTS
  Callers = {ui, api}
  Keys = {"k"}
  Toggles = {"volume"}
  Limit = 2
  MaxCalls = 3
PROPERTY InputIsServed
CHECK_DEADLOCK FALSE
