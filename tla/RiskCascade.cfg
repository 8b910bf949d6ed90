\* Three runs or injections and a restart before any of their steps.
SPECIFICATION Spec
CONSTANTS
    Injected <- SurgeAndRecession
    MaxRequests = 3
    MaxRestarts = 1
INVARIANTS RiskVersionsIncrease NoStaleRisk
PROPERTY ChangesAssessed
CHECK_DEADLOCK FALSE
