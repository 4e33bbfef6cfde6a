\* One held SELL through every command, deadline and restart.
SPECIFICATION Spec
CONSTANTS
  h1 = h1
  Orders = {h1}
  Sells = {h1}
  HeldIds = {h1}
  MaxQty = 1
  MaxClock = 2
  Deadline = 2
  MaxAge = 1
  Oddly = {}
  Opening = 1
  Upsets = {"request", "refuse", "drop", "crash"}
  MaxUpsets = 1
  Commands = {"cancel", "kill", "disarm", "resume", "shutdown", "replace"}
INVARIANTS
  TypeOK
  AtMostOnePost
  IntentBeforePost
  PretriggerHasNoChild
  CustodyDurable
  DisarmedIsPaused
PROPERTIES
  LivesAsPromised
CHECK_DEADLOCK FALSE
