SPECIFICATION Spec
CONSTANTS
    MaxTasks = 2
    MaxFaults = 0
    MaxRetries = 1
    Qualities <- LowLane
PROPERTIES DraftTaskSucceeds
CHECK_DEADLOCK FALSE
