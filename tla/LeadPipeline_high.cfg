SPECIFICATION Spec
CONSTANTS
    MaxTasks = 2
    MaxFaults = 2
    MaxRetries = 1
    Qualities <- HighLane
INVARIANTS ReviewedBeforeDraft
CHECK_DEADLOCK FALSE
