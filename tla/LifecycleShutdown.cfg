SPECIFICATION Spec
CONSTANTS
    None = None
    Keys = {k1}
    Workers = {w1}
    Kinds = {"kanary", "endpoints"}
    Handlers = {"kanary"}
    MaxRetries = 1
    Buffer = 1
INVARIANT
    RunWaitsForWorkers
CHECK_DEADLOCK FALSE
