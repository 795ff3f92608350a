SPECIFICATION PartsSpec
CONSTANTS
  Controls = {0, 100}
  MaxLap = 7
  MaxErrors = 2
  Alphabets <- MCAlphabets
  MaxLines <- MCMaxLines
  MaxControls <- MCMaxControls
  Speeds = {1, 2}
  Offsets = {0, 1}
  MaxTime = 5
  LoopLimit = 3
  max_slots = 1
  PanelSlots = {0, 1}
  Places = {1, 2}
  Keys = {100}
  Filtered = FALSE
  MaxFrames = 3
  MaxClock = 2
  Phones = {1, 2}
  MaxSwitches = 2
  MaxConnects = 2
  MaxOthers = 1
  MaxActs = 5
  MaxUnheard = 3
  MaxEdits = 3
  MaxEnds = 1
  Handlers = {r1, r2}
  MaxRequests = 2
  MaxOdd = 1
  MaxMoves = 1
INVARIANTS AcceptsTheFormat RowsRunWhereWritten LapSearchIsExact HeldMatchesStateAt LapsDoNotDrift
INVARIANTS RowsFollowThePanel BridgesAreFollowed ClosedIsDropped PhoneFollowsTheHand SavedIsOnDisk 
PROPERTIES LapsAreComplete
CHECK_DEADLOCK FALSE
