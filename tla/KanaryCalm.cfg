SPECIFICATION FairSpec
CONSTANTS
    None = None
    a = a
    b = b
    w1 = w1
    w2 = w2
    Kanaries = {a}
    Services = {"v1"}
    Workers = {w1}
    Specs <- MCSpecs
    SubsetLists <- MCSubsetLists
    Refused <- MCRefusedCalm
    Unanswered <- MCUnansweredCalm
    Calm = TRUE
    Limits <- MCLimitsCalm
PROPERTIES
    Converges
CHECK_DEADLOCK FALSE
