SPECIFICATION FairFollowUpSpec
CONSTANTS
  MaxAttempts = 2
  MaxJobs = 2
  MaxLines = 6
  Commands = 1
  MaxFixes = 0
  Commits = {c1, c2}
  NoCommit = NoCommit
  Numbers = {1}
  WorkerEvents <- MCWorkerEvents
  Keys = {}
  Versions = {v1}
  Feedback = {f1}
  NoEvent = NoEvent
  NoVersion = NoVersion
  NoKey = NoKey
  PermanentErrors = FALSE
  SpuriousEOF = FALSE
  Expiry = TRUE
CONSTRAINTS QuietWorker
PROPERTIES
  CancellationEnds
CHECK_DEADLOCK FALSE
