SPECIFICATION Spec
CONSTANTS
    None = None
    a = a
    b = b
    w1 = w1
    w2 = w2
    Kanaries = {a, b}
    Services = {"v1"}
    Workers = {w1, w2}
    Specs <- MCSpecsShared
    SubsetLists <- MCSubsetListsShared
    Refused = {}
    Unanswered = {}
    Calm = FALSE
    Limits <- MCLimitsShared
SYMMETRY MCSymmetry
PROPERTIES
    RefsKept
CHECK_DEADLOCK FALSE
