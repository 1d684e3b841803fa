SPECIFICATION FairSpec
CONSTANTS
    Instances <- MCInstances
    Actions <- MCActions
    Policies <- MCPolicies
    MaxActions = 3
INVARIANTS
    BestOfResourceIsExecuted
    TerminationIsJustified
    CompletedIsReplaced
PROPERTY
    EveryActionIsReported
CHECK_DEADLOCK FALSE
