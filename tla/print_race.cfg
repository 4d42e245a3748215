SPECIFICATION Spec
CONSTANTS
  MaxFrames = 3
  Junk = Junk
INVARIANTS PrintsEachNode
CHECK_DEADLOCK FALSE
