\* An alert for the second session, over edits, gaps, failed writes and restarts.
SPECIFICATION LiveSpec
CONSTANTS
  a1 = a1
  Ids = {a1}
  Bell = 2
  Selections = {{2}}
  QueueSize = 1
  MaxAge = 1
  MaxClock = 3
  MaxPrints = 2
  MaxCalls = 2
  Upsets = {"storage", "outage", "gap", "crash"}
  MaxUpsets = 1
INVARIANTS
  TypeOK
  FiresOnce
  NothingStaleFires
  MemoryIsDisk
  RetryUndoesNothing
  DemandKept
  MonitoringHasHeard
  ShownIsCurrent
PROPERTIES
  TouchIsKept
CHECK_DEADLOCK FALSE
