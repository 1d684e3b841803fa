SPECIFICATION Spec
CONSTANTS
    Instances <- MCInstances
    Actions <- MCActions
    Policies <- MCPolicies
    MaxActions = 1
PROPERTY
    ReplacementRunsFirst
CHECK_DEADLOCK FALSE
