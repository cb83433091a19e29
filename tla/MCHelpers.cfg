SPECIFICATION HelpersSpec
CONSTANTS
  Goroutines = {g1, g2, g3}
  TaskIDs = {t1, t2}
  LockEntries = {e1, e2, e3}
  NoLockEntry = NoLockEntry
  Pods = {1, 2}
  Ports = {1, 2}
  MaxFaults = 3
INVARIANTS
  OneOperationPerTask
  EntriesAreExact
  NothingLeaks
  PortIsStable
PROPERTIES
  WaitingEnds
  ForwardSettles
CHECK_DEADLOCK FALSE
