\* Two competing SELLs whose sizes are replaced, over lost answers and drops.
SPECIFICATION Spec
CONSTANTS
  s1 = s1
  s2 = s2
  Orders = {s1, s2}
  Sells = {s1, s2}
  HeldIds = {}
  MaxQty = 2
  MaxClock = 0
  Deadline = 0
  MaxAge = 0
  Oddly = {"REPLACED"}
  Opening = 2
  Upsets = {"request", "refuse", "expire", "drop"}
  MaxUpsets = 1
  Commands = {"replace"}
INVARIANTS
  NoOversell
  Reserved
  SettledOrders
SYMMETRY IdSymmetry
CHECK_DEADLOCK FALSE
