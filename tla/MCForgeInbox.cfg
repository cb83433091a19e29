SPECIFICATION FairInboxSpec
CONSTANTS
  Tasks = {t1}
  Nobody = Nobody
  MaxEvents = 2
  MaxHeads = 1
  MaxRetries = 1
  MaxFaults = 1
  WindowSize = 1
  BatchSize = 2
  ReviewDelay = 1
  YieldDelay = 1
  MaxDelay = 2
CONSTRAINT FewAccidents
INVARIANTS
  FailedTogether
PROPERTIES
  QuietPeriod
  KeepsFeedbackContract
  EventsAreDecided
CHECK_DEADLOCK FALSE
