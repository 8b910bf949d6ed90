\* One thread, one OTP, one restart.
SPECIFICATION Spec
CONSTANTS
    Threads = {t1}
    MaxOtpAttempts = 3
    MaxCodes = 1
    MaxSubs = 0
    MaxRestarts = 1
PROPERTY LockIsReleased
CHECK_DEADLOCK FALSE
