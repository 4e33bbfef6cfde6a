\* One order of two shares, replaced up to twice, over timeouts, rejects,
\* expiries, drops and restarts.
SPECIFICATION Spec
CONSTANTS
  MaxQty = 2
  MaxLegs = 2
  Upsets = {"timeout", "refuse", "expire", "drop", "crash", "request", "snapshot", "poll"}
  MaxUpsets = 2
INVARIANTS
  TypeOK
  OneLegLive
  InSize
  NeverOvercounts
  DoneIsDone
  LiveIsHeld
PROPERTIES
  FillsNeverFall
CHECK_DEADLOCK FALSE
