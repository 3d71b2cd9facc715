SPECIFICATION FairSpec
CONSTANTS
    None = None
    Keys = {k1, k2}
    Workers = {w1, w2}
    Kinds = {"kanary", "endpoints"}
    Handlers = {"kanary"}
    MaxRetries = 1
    Buffer = 1
INVARIANTS
    ProcessTypeOK
    QueueHoldsWhatIsDirty
    NoSleeperIsMissed
    RetriesAreBounded
    WorkersReadFullCaches
PROPERTIES
    ImplementsKeyQueue
    WorkersStart
    StopsWhenTold
    KeysAreServed
CHECK_DEADLOCK FALSE
