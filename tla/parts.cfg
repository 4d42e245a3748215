CONSTANTS
    Rep = 2
    MaxTags = 6
    MaxFilled = 3
    MaxEmpty = 3
    Roots <- SomeRoots
    Accounts = {"admin"}
    Strangers = {"guest"}
    Values = {1, 2}
    MaxRequests = 3
    MaxStops = 2
    Sizes = {0, 1, 2}
    Buffers = 2
    Frames = 2
    MaxPictures = 3
    MaxSockets = 4
SPECIFICATION MCSpec
INVARIANTS
    ReadsAsWritten RoundTrip
    AcceptedIsSaved RejectedChangesNothing AnsweredOnce
    FreshOrEmpty
PROPERTIES Reconnects
\* A document ends; a password inside the ranges stops the parser thread for
\* ever; the camera is not opened; the daemon dies.
CHECK_DEADLOCK FALSE
