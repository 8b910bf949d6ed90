CONSTANTS
    c1 = c1
    c2 = c2
    w1 = w1
    w2 = w2
    q1 = q1
    q2 = q2
    runA = runA
    runB = runB
    Callers = {c1, c2}
    LimitKeys = {"login"}
    MaxRequests = 2
    Window = 3
    Lockout = 2
    MaxDelay = 1
    MaxTime = 6
    Pool = {w1, w2}
    Runs = {runA, runB}
    Surfaces <- MCSurfaces
    MaxEntries = 1
    Ttl = 2
    MaxPuts = 4
    Stations = {"A", "B"}
    Variables = {"stage", "rain"}
    Bounds <- MCBounds
    JumpRate <- MCJumpRate
    Watched = {"stage"}
    FlatlineLimit = 2
    Payloads <- MCPayloads
    Injected <- MCInjected
    MaxRecords = 6
    Requests = {q1, q2}
    Adapters <- MCAdapters
    MaxOutages = 3
    NumSubs = 2
    Locality <- OneLocality
    Verified = {1}
    AlertEvents <- OneAlert
    Areas <- EveryArea
    CooldownTicks = 2
    MaxEvents = 3
    u1 = u1
    u2 = u2
    u3 = u3
    Updates = {u1, u2, u3}
    MaxAtOnce = 2
    MaxHistory = 2
SPECIFICATION ServicesSpec
INVARIANTS
    QuotaKept
    LockoutHolds
    CacheBounded
    FrozenTellsReadings
    StreakTellsRecords
    ConfidenceTellsOutage
    SuppressedAlreadyTold
    StormBounded
    LoneUpdateKept
CHECK_DEADLOCK FALSE
