CONSTANTS
    r1 = r1
    r2 = r2
    loop = loop
    A = A
    Threads <- MCThreads
    Loop = loop
    Signs <- MCSigns
    Records <- MCRecords
    Payloads <- MCPayloads
    Answers <- MCAnswers
    MaxRetries = 2
    Configured = {}
    Sources <- MCSources
    Ticks <- MCTicks
    MaxClock = 19800
    MaxJobs = 2
    MaxHistory = 2
    s1 = s1
    s2 = s2
    Sockets = {s1, s2}
    Capacity = 1
    Gap = 1
    ReplayLimit = 1
    MaxVersion = 2
    MaxStored = 2
SYMMETRY MCSymmetry
SPECIFICATION LiveSpec
INVARIANTS
    
    RowsTraceable
    FlagTellsRunning
    ModeSettles
    ChainTellsMode
    NothingMissed
PROPERTIES
    ObservationsKept
CHECK_DEADLOCK FALSE
