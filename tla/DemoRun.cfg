SPECIFICATION FairSpec
CONSTANTS
    f1 = f1
    f2 = f2
    f3 = f3
    t1 = t1
    t2 = t2
    Demos = {d1, d2}
    Files = {f1, f2, f3}
    BandFiles = {f1}
    Tiles = {t1, t2}
    Covers <- TwoTiles
    Nobody = Nobody
INVARIANTS
    TypeOK
    BuiltOnStored
    AbortsAreHonest
    MosaicHasBandData
    OneBuilderPerSlug
PROPERTIES
    DemosEnd
CHECK_DEADLOCK FALSE
