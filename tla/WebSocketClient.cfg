SPECIFICATION FairSpec
CONSTANTS
    MaxBuffer = 1
    MaxAttempts = 2
    Tasks = {t1, t2, t3}
    First = t1
    MaxMessages = 2
    MaxOutages = 2
INVARIANTS
    NothingForgotten
PROPERTIES
    Reconnects
    BufferDrains
    StopEndsThread
\* A stopped client ends.
CHECK_DEADLOCK FALSE
