SPECIFICATION Spec
CONSTANTS
    Jobs = {b1, m1}
    Ingests = {b1}
    NoJob = NoJob
    Slots = {s1, s2}
    Sweepers = {w1, w2}
    MaxRetries = 1
    MaxFiles = 1
    MaxCopies = 1
    Faults <- CalmFaults
PROPERTIES
    ContractSpec
CHECK_DEADLOCK FALSE
