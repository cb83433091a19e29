SPECIFICATION Spec
CONSTANTS
  MaxAttempts = 1
  MaxJobs = 1
  MaxLines = 2
  Commands = 1
  MaxFixes = 0
  Commits = {c1}
  NoCommit = NoCommit
  Numbers = {1}
  WorkerEvents <- MCWorkerEvents
  Keys = {}
  Versions = {v1}
  Feedback = {}
  NoEvent = NoEvent
  NoVersion = NoVersion
  NoKey = NoKey
  PermanentErrors = FALSE
  SpuriousEOF = TRUE
  Expiry = FALSE
PROPERTY ReplayFinishedFirst
CHECK_DEADLOCK FALSE
