SPECIFICATION Spec
CONSTANTS
    f1 = f1
    f2 = f2
    Files = {f1, f2}
    Projects = {p1, p2}
    Batches = {r1, r2, r3}
    Listings <- McListings
    Nil = Nil
SYMMETRY RunSymmetry
INVARIANTS
    TypeOK
    NoImageIsLost
    WaitsAscend
    OrderedRunsProceed
PROPERTIES
    UpsertIsOneStep
CHECK_DEADLOCK FALSE
