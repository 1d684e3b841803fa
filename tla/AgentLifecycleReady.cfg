SPECIFICATION FairSpec
PROPERTIES
    HealthyBecomesReady
\* The process exits.
CHECK_DEADLOCK FALSE
