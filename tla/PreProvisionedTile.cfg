SPECIFICATION FairSpec
CONSTANTS
    f1 = f1
    f2 = f2
    b1 = b1
    b2 = b2
    wide = wide
    narrow = narrow
    Files = {f1, f2}
    Prefixes <- McPrefixes
    Projects = {p1}
    Bands = {b1}
    Instruments = {i1}
    Shapes = {wide, narrow}
    Intervals <- McIntervals
    TileIds = {t1}
    EpochIds = {}
    Clients = {c1}
    MaxMosaics = 0
    MaxEarly = 1
    Nil = Nil
    MjdOf <- McMjdOf
    BandOf <- McBandOf
    Covers <- McCovers
PROPERTIES
    ProvisionedTilesFill
CHECK_DEADLOCK FALSE
