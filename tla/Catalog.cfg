SPECIFICATION Spec
CONSTANTS
    f1 = f1
    f2 = f2
    b1 = b1
    b2 = b2
    wide = wide
    narrow = narrow
    Files = {f1, f2}
    Prefixes <- McPrefixes
    Projects = {p1, p2}
    Bands = {b1, b2}
    Instruments = {i1}
    Shapes = {wide, narrow}
    Intervals <- McIntervals
    TileIds = {t1, t2}
    EpochIds = {e1}
    Clients = {c1, c2}
    Nil = Nil
    MaxMosaics = 1
    MaxEarly = 1
    MjdOf <- McMjdOf
    BandOf <- McBandOf
    Covers <- McCovers
SYMMETRY RowSymmetry
INVARIANTS
    TypeOK
    GapsAreLate
    EpochIsExact
    MosaicIsItsConstituents
    MosaicIsSound
CHECK_DEADLOCK FALSE
