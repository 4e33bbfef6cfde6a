\* A cancel sent over an unanswered larger replace.
SPECIFICATION Spec
CONSTANTS
  s1 = s1
  s2 = s2
  Orders = {s1, s2}
  Sells = {s1, s2}
  HeldIds = {}
  MaxQty = 2
  MaxClock = 0
  Deadline = 0
  MaxAge = 0
  Oddly = {}
  Opening = 2
  Upsets = {}
  MaxUpsets = 0
  Commands = {"cancel", "replace"}
INVARIANTS
  NoOversell
CHECK_DEADLOCK FALSE
