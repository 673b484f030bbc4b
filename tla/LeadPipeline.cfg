SPECIFICATION Spec
CONSTANTS
    MaxTasks = 3
    MaxFaults = 1
    MaxRetries = 1
    Qualities <- LowLane
INVARIANTS TypeOK WorkOncePerRun PredecessorCommitted
PROPERTIES EventuallySettled ContextKept
CHECK_DEADLOCK FALSE
