SPECIFICATION StoreSpec
CONSTANTS
  MaxAttempts = 3
  WorkerEvents = {e1, e2}
  Commits = {c1, c2}
  Numbers = {1, 2}
  Keys = {k1}
  Versions = {v1}
  Feedback = {f1}
  NoEvent = NoEvent
  NoCommit = NoCommit
  NoVersion = NoVersion
  NoKey = NoKey
CONSTRAINT LineageOrWorker
SYMMETRY Symmetry
INVARIANTS
  PullRequestIsDurable
  PredecessorsAreSilent
  FeedbackOwnsCurrentAttempt
  OnePullRequestPerBranch
  CommandsRunOnce
PROPERTIES
  ReceiptsAreFinal
  AttemptsAreHistory
  KeepsContract
CHECK_DEADLOCK FALSE
