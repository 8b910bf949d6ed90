\* Windows of 2 and 5 ticks, a queue of one and six updates.
SPECIFICATION Spec
CONSTANTS
    DebounceTicks = 2
    MinIntervalTicks = 5
    MaxQueueSize = 1
    MaxUpdates = 6
INVARIANTS UpdatesInOneJob QueueMatchesStates
PROPERTIES WindowTriggers JobsEnd
CHECK_DEADLOCK FALSE
