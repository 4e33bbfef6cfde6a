\* The cancel of a held order whose child is on its way.
SPECIFICATION LiveSpec
CONSTANTS
  h1 = h1
  Orders = {h1}
  Sells = {h1}
  HeldIds = {h1}
  MaxQty = 1
  MaxClock = 2
  Deadline = 2
  MaxAge = 1
  Oddly = {}
  Opening = 1
  Upsets = {"request", "refuse", "expire", "stale"}
  MaxUpsets = 1
  Commands = {"cancel", "kill", "disarm"}
PROPERTIES
  CancelReaches
CHECK_DEADLOCK FALSE
