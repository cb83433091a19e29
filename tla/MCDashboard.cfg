SPECIFICATION FairDashSpec
CONSTANTS
  MaxTasks = 2
  MaxAttempts = 2
  TaskLimit = 2
  Queries = {{1}}
  Payloads = {p1, p2}
  NoPayload = NoPayload
  LogQueue = 1
  MaxPresses = 5
  MaxFaults = 1
CONSTRAINT FormAlone
INVARIANTS
  PanesAgree
  OneTaskPerSubmission
PROPERTIES
  SelectionSurvives
  ListConverges
CHECK_DEADLOCK FALSE
