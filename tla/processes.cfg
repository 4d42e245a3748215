SPECIFICATION FairSpec
CONSTANTS
  Size = 2
  MaxFrames = 3
INVARIANTS FileMatchesOutput StreamIsComplete KilledOnlyAfterCtrlC WaitIsForFfmpeg
PROPERTIES KeyEndsProgram
\* The processes end.
CHECK_DEADLOCK FALSE
