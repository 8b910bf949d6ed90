\* Four messages with two retries each, through failures and a shutdown.
SPECIFICATION Spec
CONSTANTS
    MaxRetries = 2
    MaxMessages = 4
INVARIANTS MetricsBalance OneOutcome OvertakenOnlyInRetry
PROPERTY EveryMessageSettles
CHECK_DEADLOCK FALSE
