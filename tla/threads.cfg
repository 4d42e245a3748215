CONSTANTS
    Fds = {1, 2}
    MaxSent = 3
    MaxConnections = 2
    Threads = {t1, t2}
    Half = 3
    MaxLines = 5
    MaxRestarts = 1
SPECIFICATION MCSpec
INVARIANTS HandledInOrder NoTwoLostInARow FilesStaySmall SentInOrder
\* The daemon ends, or dies.
CHECK_DEADLOCK FALSE
