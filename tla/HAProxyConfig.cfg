SPECIFICATION Spec
CONSTANTS
    Services <- MCServices
    RouteLists <- MCRouteLists
    SubsetLists <- MCSubsetLists
INVARIANTS
    TypeOK
    EveryReadyPodIsServed
    RouteWeightIsShared
    CopiesAreIndependent
    CachedObjectsAreNotWritten
CHECK_DEADLOCK FALSE
