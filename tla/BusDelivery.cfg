\* Publishers on the loop and in a thread, three days, two restarts and a failed write.
SPECIFICATION Spec
CONSTANTS
    Keys = {k1, k2}
    Handlers = {h1}
    Threads = {t1}
    MaxQueueSize = 1
    MaxEvents = 3
    MaxDay = 2
    MaxRestarts = 2
    MaxErrors = 1
INVARIANTS NoDuplicateOnDisk TasksOnce
PROPERTY ProtectedHandled
CHECK_DEADLOCK FALSE
