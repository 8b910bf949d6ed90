\* A queue nothing empties.
SPECIFICATION Spec
CONSTANTS
    Keys = {k1, k2}
    Handlers = {h1}
    Threads = {}
    MaxQueueSize = 1
    MaxEvents = 2
    MaxDay = 0
    MaxRestarts = 0
    MaxErrors = 0
INVARIANT ShedOnlyUnderLoad
CHECK_DEADLOCK FALSE
