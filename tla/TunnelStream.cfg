SPECIFICATION StreamFairSpec
CONSTANTS
  NumFrames = 5
  ReorderWindow = 2
  MaxChunks = 3
  MaxSessions = 2
INVARIANTS StreamTypeOK OutgoingInOrder
PROPERTIES InOrder LivesOnce NoCutBeforeWindow ReceiverGoesOn
CHECK_DEADLOCK FALSE
