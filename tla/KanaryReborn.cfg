SPECIFICATION Spec
CONSTANTS
    None = None
    a = a
    b = b
    w1 = w1
    w2 = w2
    Kanaries = {a}
    Services = {"v1"}
    Workers = {w1}
    Specs <- MCSpecs
    SubsetLists <- MCSubsetLists
    Refused <- MCAllCalls
    Unanswered <- MCAllCalls
    Calm = FALSE
    Limits <- MCLimitsReborn
INVARIANTS
    TypeOK
    StatusBacked
    DeploymentHasConfig
PROPERTIES
    ImplementsProvisioning
CHECK_DEADLOCK FALSE
