SPECIFICATION FairSpec
CONSTANTS
    Actions = {a1, a2}
    Signed = {a1, a2}
    SignedFields = {"id", "type", "parameters"}
    Malformed = {}
    MaxFaults = 0
PROPERTIES
    SignedIsExecuted
\* A stopped actuator ends.
CHECK_DEADLOCK FALSE
