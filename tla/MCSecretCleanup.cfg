SPECIFICATION FairCleanupSpec
CONSTANTS
  Runs = {r1, r2}
  Passes = {"watch"}
  NoRun = NoRun
  MaxJobs = 2
  MaxSecrets = 2
  MaxFaults = 1
CONSTRAINT ReplacedAlone
INVARIANTS
  CompleteMeansGone
  OneCleanup
PROPERTIES
  OnlyOrphansAreDeleted
  SecretsAreRemoved
CHECK_DEADLOCK FALSE
