CONSTANTS
    Heads = {a, b}
    Nodes = {n1, n2, n3}
    None = None
    Poison = Poison
SPECIFICATION MCSpec
SYMMETRY Interchangeable
INVARIANTS TwoWays TailIsKnown
PROPERTIES DoesWhatItPromises MacrosDoWhatTheyPromise
\* A behaviour stops after a call of which nothing is promised.
CHECK_DEADLOCK FALSE
