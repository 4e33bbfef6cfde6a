\* One partly filling BUY over crashes, drops and failed snapshots.
SPECIFICATION Spec
CONSTANTS
  b1 = b1
  Orders = {b1}
  Sells = {}
  HeldIds = {}
  MaxQty = 2
  MaxClock = 0
  Deadline = 0
  MaxAge = 0
  Oddly = {"CANCELED"}
  Opening = 0
  Upsets = {"drop", "snapshot", "crash", "expire"}
  MaxUpsets = 3
  Commands = {"cancel", "kill"}
INVARIANTS
  TerminalTruth
  SettledPosition
PROPERTIES
  NeverRevived
CHECK_DEADLOCK FALSE
