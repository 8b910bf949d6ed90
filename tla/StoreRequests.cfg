\* Two request threads of one citizen, two OTPs, a subscription, a restart.
SPECIFICATION Spec
CONSTANTS
    Threads = {t1, t2}
    MaxOtpAttempts = 2
    MaxCodes = 2
    MaxSubs = 1
    MaxRestarts = 1
INVARIANTS CodeAcceptedOnce AttemptsBounded SubscriptionsListed
PROPERTY RequestsEndUnlessStuck
CHECK_DEADLOCK FALSE
