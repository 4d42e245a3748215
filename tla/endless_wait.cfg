SPECIFICATION FairSpec
CONSTANTS
  Size = 2
  MaxFrames = 3
  Consumers = {c1}
  NoThread = NoThread
PROPERTIES NoEndlessWaiting
CHECK_DEADLOCK FALSE
