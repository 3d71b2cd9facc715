SPECIFICATION Spec
CONSTANTS
    None = None
    a = a
    b = b
    w1 = w1
    w2 = w2
    Kanaries = {a}
    Services = {"v1"}
    Workers = {w1}
    Specs <- MCSpecsShared
    SubsetLists <- MCSubsetLists
    Refused = {}
    Unanswered = {}
    Calm = FALSE
    Limits <- MCLimitsRelist
INVARIANTS
    NoPanic
CHECK_DEADLOCK FALSE
