\* One order, no failure: it fills before SubmitOrder returns.
SPECIFICATION Spec
CONSTANTS
  MaxQty = 2
  MaxLegs = 2
  Upsets = {}
  MaxUpsets = 0
PROPERTIES
  DoneStaysDone
CHECK_DEADLOCK FALSE
