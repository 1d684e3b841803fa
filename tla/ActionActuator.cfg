SPECIFICATION FairSpec
CONSTANTS
    Actions = {a1, a2, m, u}
    Signed = {a1, a2, m}
    SignedFields = {"id", "type", "parameters", "signature"}
    Malformed = {m}
    MaxFaults = 1
INVARIANTS
    SuccessIsEarned
    ExecutionsPaid
    ExecutedInOrder
PROPERTIES
    EveryActionIsAnswered
\* A stopped actuator ends.
CHECK_DEADLOCK FALSE
