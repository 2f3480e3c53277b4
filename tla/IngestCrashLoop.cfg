SPECIFICATION FairSpec
CONSTANTS
    Jobs = {b1}
    Ingests = {b1}
    NoJob = NoJob
    Slots = {s1}
    Sweepers = {w1}
    MaxRetries = 1
    MaxFiles = 1
    MaxCopies = 1
    Faults <- OnlyLostWorkers
PROPERTIES
    StuckJobsAreResolved
CHECK_DEADLOCK FALSE
