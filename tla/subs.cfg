\* Two symbols, the second bad, and the recorder on three slots.
SPECIFICATION Spec
CONSTANTS
  NSymbols = 2
  Demands <- TwoDemands
  Bad <- BadSecond
  Budget = 3
  Headroom = 1
  Threshold = 2
  MaxRoom = 3
  MaxDrops = 1
  MaxCalls = 2
  Upsets = {"timeout", "refuse", "shrink", "lag"}
  MaxUpsets = 1
CONSTRAINT NotLagged
INVARIANTS
  TypeOK
  SlotsKnown
  LiveIsServed
  HeadroomKept
  ReadingSettled
  OnlyBadQuarantined
CHECK_DEADLOCK FALSE
