SPECIFICATION Spec
CONSTANTS
  MaxAttempts = 1
  MaxJobs = 2
  MaxLines = 10
  Commands = 1
  MaxFixes = 1
  Commits = {c1, c2}
  NoCommit = NoCommit
  Numbers = {1}
  WorkerEvents <- MCWorkerEvents
  Keys = {}
  Versions = {v1}
  Feedback = {}
  NoEvent = NoEvent
  NoVersion = NoVersion
  NoKey = NoKey
  PermanentErrors = TRUE
  SpuriousEOF = FALSE
  Expiry = TRUE
SYMMETRY Symmetry
CONSTRAINT ShortLogs
INVARIANTS
  ControllerTypeOK
  ConfirmedCancellation
  PushedHeadPassedValidation
  ReadyIsNotDropped
PROPERTIES
  OutcomeFollowsLog
CHECK_DEADLOCK FALSE
