CONSTANTS
  Cgis = {c1, c2}
  NoCgi = NoCgi
  Values = {1}
  AskedRequests <- KindsOfRequests
  MaxRequests = 3
  MaxStops = 1
SPECIFICATION FairSpec
INVARIANTS TokenAccount OwnAnswer SavedBeforeAnswered
PROPERTIES EveryRequestAnswered
