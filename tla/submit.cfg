\* A submit whose answer is lost, over drops and restarts.
SPECIFICATION LiveSpec
CONSTANTS
  s1 = s1
  Orders = {s1}
  Sells = {s1}
  HeldIds = {}
  MaxQty = 1
  MaxClock = 0
  Deadline = 0
  MaxAge = 0
  Oddly = {}
  Opening = 1
  Upsets = {"request", "drop", "crash"}
  MaxUpsets = 2
  Commands = {"cancel", "kill"}
PROPERTIES
  SubmitSettles
CHECK_DEADLOCK FALSE
