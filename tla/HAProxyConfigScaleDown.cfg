SPECIFICATION Spec
CONSTANTS
    Services <- MCServices
    RouteLists <- MCRouteLists
    SubsetLists <- MCSubsetLists
INVARIANTS
    NoDeadPodIsServed
CHECK_DEADLOCK FALSE
