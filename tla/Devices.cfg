CONSTANTS
  Devices = {1, 2}
  Profiles = {"key", "touch"}
  Controls <- MCControls
  ProfileOf <- MCProfileOf
  Rank <- MCRank
  Invalid = 9
  Selections <- MCSelections
  Wanted <- MCWanted
  Refusals <- MCRefusals
  Rows <- MCRows
  Inputs <- MCInputs
  Targets <- MCTargets
  MaxRequests = 1
  MaxFaults = 1
SPECIFICATION Spec
INVARIANTS RetryIsEnough HeldIsRecorded Lockstep BatteryIsTold
PROPERTIES NodesStayWhilePlaying RequestsAreAnswered
CHECK_DEADLOCK FALSE
