\* One run, and an incident that an operator acknowledges.
SPECIFICATION WarningSpec
CONSTANTS
    NumSubs = 1
    Locality <- OneCitizen
    Verified = {1}
    AlertEvents <- RedEvents
    Areas <- TheArea
    CooldownTicks = 1
    MaxEvents = 2
    Runs = {r1}
PROPERTY ConfirmedIsDispatched
