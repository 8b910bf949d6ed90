\* Two request threads over the live feed and three stages of the demo.
SPECIFICATION Spec
CONSTANTS
    Threads = {t1, t2}
    Conditions <- MixedConditions
    DemoIds = {"DEMO"}
    MaxIncidents = 2
    MaxReviews = 2
    NoIncident = NoIncident
SYMMETRY ThreadSymmetry
INVARIANTS TypeOK ReviewGate ClosedIsAudited
PROPERTY ImplementsGate
CHECK_DEADLOCK FALSE
