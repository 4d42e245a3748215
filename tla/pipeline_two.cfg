\* Two consumers: more than the code starts, as many as it takes for the
\* mutex to matter.
SPECIFICATION FairSpec
CONSTANTS
  Size = 2
  MaxFrames = 4
  Consumers = {c1, c2}
  NoThread = NoThread
INVARIANTS TypeOK SlotConservation OutputInFileOrder TailLossAtMostRing
PROPERTIES NoUnwrittenOverwritten DeliverySpec TakenIsReturned FinStopsConsumers
\* The threads end, and may block for ever: see endless_wait.
CHECK_DEADLOCK FALSE
