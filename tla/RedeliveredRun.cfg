SPECIFICATION Spec
CONSTANTS
    Jobs = {b1}
    Ingests = {b1}
    NoJob = NoJob
    Slots = {s1, s2}
    Sweepers = {w1}
    MaxRetries = 1
    MaxFiles = 1
    MaxCopies = 1
    Faults <- OnlyLostWorkers
PROPERTY FailedIsNeverRevived
CHECK_DEADLOCK FALSE
