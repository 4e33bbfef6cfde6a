\* A held SELL and a BUY around a Flatten and its snapshot.
SPECIFICATION Spec
CONSTANTS
  h1 = h1
  b1 = b1
  Orders = {h1, b1}
  Sells = {h1}
  HeldIds = {h1}
  MaxQty = 1
  MaxClock = 1
  Deadline = 2
  MaxAge = 1
  Oddly = {}
  Opening = 1
  Upsets = {"drop", "snapshot"}
  MaxUpsets = 1
  Commands = {"flatten", "resume"}
INVARIANTS
  HeldSellLiveOnlyWhenReady
CHECK_DEADLOCK FALSE
