SPECIFICATION Spec
CONSTANTS
    Jobs = {b1}
    Ingests = {b1}
    NoJob = NoJob
    Slots = {s1, s2}
    Sweepers = {w1}
    MaxRetries = 1
    MaxFiles = 1
    MaxCopies = 1
    Faults <- OverlapFaults
SYMMETRY SlotSymmetry
INVARIANTS
    TypeOK
    CompleteMeansStored
    PendingHasCarrier
PROPERTIES
    GivenUpIsFinal
    FinishedIsFinal
    RowSpec
CHECK_DEADLOCK FALSE
