\* One consumer, as the code is built.
SPECIFICATION Spec
CONSTANTS
  Size = 3
  MaxFrames = 6
  Consumers = {c1}
  NoThread = NoThread
INVARIANTS StuckOnlyByLostUpdate
CHECK_DEADLOCK FALSE
