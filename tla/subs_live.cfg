\* One chart and the recorder on two slots, one of them the headroom.
SPECIFICATION LiveSpec
CONSTANTS
  NSymbols = 1
  Demands <- OneDemand
  Bad <- NoSymbol
  Budget = 2
  Headroom = 1
  Threshold = 2
  MaxRoom = 2
  MaxDrops = 1
  MaxCalls = 3
  Upsets = {"refuse", "old"}
  MaxUpsets = 1
PROPERTIES
  EventuallyServed
CHECK_DEADLOCK FALSE
