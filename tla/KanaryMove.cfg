SPECIFICATION FairSpec
CONSTANTS
    None = None
    a = a
    b = b
    w1 = w1
    w2 = w2
    Kanaries = {a}
    Services = {"v1"}
    Workers = {w1}
    Specs <- MCSpecs
    SubsetLists <- MCSubsetLists
    Refused = {"recreateService"}
    Unanswered = {}
    Calm = TRUE
    Limits <- MCLimitsMove
PROPERTIES
    DestinationIsExposed
CHECK_DEADLOCK FALSE
