SPECIFICATION FairSpec
PROPERTIES
    SignalEndsAgent
    DeadIsRestarted
\* The process exits.
CHECK_DEADLOCK FALSE
