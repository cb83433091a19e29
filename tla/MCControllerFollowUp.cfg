SPECIFICATION FollowUpSpec
CONSTANTS
  MaxAttempts = 3
  MaxJobs = 2
  MaxLines = 6
  Commands = 1
  MaxFixes = 0
  Commits = {c1, c2, c3}
  NoCommit = NoCommit
  Numbers = {1, 2}
  WorkerEvents <- MCWorkerEvents
  Keys = {}
  Versions = {v1}
  Feedback = {f1}
  NoEvent = NoEvent
  NoVersion = NoVersion
  NoKey = NoKey
  PermanentErrors = FALSE
  SpuriousEOF = FALSE
  Expiry = TRUE
INVARIANTS
  PredecessorsStopped
  FeedbackIsAnswered
  CancellationReleasesFeedback
CHECK_DEADLOCK FALSE
