\* Every walk through the stages, with one review thread.
SPECIFICATION DemoSpec
CONSTANTS
    Threads = {t1}
    Conditions <- CalmToWatch
    DemoIds = {"DEMO"}
    DemoId = "DEMO"
    MaxIncidents = 2
    MaxReviews = 1
    NoIncident = NoIncident
INVARIANTS ReviewedStageSigned RedSignaturesReal
CHECK_DEADLOCK FALSE
