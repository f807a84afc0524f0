SPECIFICATION StreamFairSpec
CONSTANTS
  NumFrames = 3
  ReorderWindow = 2
  MaxChunks = 1
  MaxSessions = 0
PROPERTIES CutOnlyByTooManyWaiting
CHECK_DEADLOCK FALSE
