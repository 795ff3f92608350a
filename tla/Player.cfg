SPECIFICATION FairSpec
CONSTANTS
  Controllers = {c1, c2}
  Keys = {"k"}
  LastRow = 1
  HeldAt <- MCHeldAt
  Speeds = {1, 2}
  MaxCalls = 3
INVARIANTS TypeOK NoLostWakeup ControlsAgree HoldsTheScript
CHECK_DEADLOCK FALSE
PROPERTIES StopEndsTheRun RequestsAreTaken LiveInputIsPumped ImplementsPlayback
