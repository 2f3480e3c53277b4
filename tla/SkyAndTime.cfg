SPECIFICATION Spec
CONSTANTS
    MaxCell = 4
    MaxTime = 12
    MaxTimes = 3
    Length = 24
    Cells <- McCells
    Observations <- McObservations
    Thresholds <- McThresholds
    Axes <- McAxes
CHECK_DEADLOCK FALSE
INVARIANTS
    GridMissesOnlyTheSeam
    ClustersAreFeasible
    SeparatedVisitsGetOwnEpochs
    FootprintsSurvive
    OverlapIsSharedCell
