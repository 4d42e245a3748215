SPECIFICATION MCSpec
CONSTANTS
  MaxFrames = 3
  Junk = Junk
  Size = 3
  RingFrames = 6
INVARIANTS IntactUnlessRaced WalkStaysInList OutputInFileOrder
PROPERTIES PrintsWholeList PrintEnds NoUnwrittenOverwritten EndsUnlessCaughtUp
\* The threads end.
CHECK_DEADLOCK FALSE
