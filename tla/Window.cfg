SPECIFICATION WindowSpec
CONSTANTS
  Threads = {c1, c2}
  MaxPosts = 2
  MaxEvents = 1
  MaxHalves = 4
  MaxRecordings = 2
INVARIANTS  RecordingIsKept
PROPERTIES CallsAreAnswered RecorderEnds
CHECK_DEADLOCK FALSE
