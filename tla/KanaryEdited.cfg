SPECIFICATION Spec
CONSTANTS
    None = None
    a = a
    b = b
    w1 = w1
    w2 = w2
    Kanaries = {a}
    Services = {"v1"}
    Workers = {w1}
    Specs <- MCSpecs
    SubsetLists <- MCSubsetLists
    Refused <- MCAllCalls
    Unanswered <- MCAllCalls
    Calm = FALSE
    Limits <- MCLimitsEdited
PROPERTIES
    StatusMonotone
    SpecUntouched
    RecordedRoutesAreCurrent
    RecordedIsRolledOut
CHECK_DEADLOCK FALSE
