SPECIFICATION WatchSpec
CONSTANTS
  Keys = {k1}
  Low = low
  TailLines = 3
  FollowLines = 1
  Ring = 3
  DedupTtl = 1
  PruneTtl = 2
  Capacity = 1
  Cost = 2
  MaxLines = 5
  MaxNow = 3
INVARIANTS WatchTypeOK NothingSwallowed RateBound
PROPERTIES OnceEach
CHECK_DEADLOCK FALSE
