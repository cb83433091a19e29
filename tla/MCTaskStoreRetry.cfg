SPECIFICATION StoreSpec
CONSTANTS
  MaxAttempts = 3
  WorkerEvents = {}
  Commits = {c1}
  Numbers = {1}
  Keys = {k1}
  Versions = {v1}
  Feedback = {f1}
  NoEvent = NoEvent
  NoCommit = NoCommit
  NoVersion = NoVersion
  NoKey = NoKey
PROPERTIES
  RetryOpensBranch
CHECK_DEADLOCK FALSE
