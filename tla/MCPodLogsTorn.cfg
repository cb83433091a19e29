SPECIFICATION MCLogsSpec
CONSTANTS
  Pods = {p1}
  MaxLines = 3
  MaxTears = 1
  Times = {2, 3, 4}
  Sizes = {1, 4}
  MaxBytes = 5
  ChunkBytes = 2
  MarkerBytes = 3
  Tears = {"stamp", "content"}
INVARIANTS
  FinishedReplayHasEvents
CHECK_DEADLOCK FALSE
