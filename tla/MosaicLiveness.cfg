SPECIFICATION FairSpec
CONSTANTS
    Jobs = {m1}
    Ingests = {}
    NoJob = NoJob
    Slots = {s1}
    Sweepers = {w1}
    MaxRetries = 2
    MaxFiles = 1
    MaxCopies = 1
    Faults <- RecurringFaults
PROPERTIES
    StuckJobsAreResolved
    DispatchedJobsSettle
CHECK_DEADLOCK FALSE
