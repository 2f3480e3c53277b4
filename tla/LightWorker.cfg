SPECIFICATION Spec
CONSTANTS
    c1 = c1
    c2 = c2
    s1 = s1
    s2 = s2
    Children = {c1, c2}
    Seeders = {s1, s2}
    Limit = 3
    Staleness = 2
    Visibility = 11
    MaxLead = 1
    MaxSlow = 6
    MaxRare = 1
SYMMETRY Alike
INVARIANTS
    TypeOK
    MirrorsAreReaped
    LateForHangsOnly
    SweepsKeepUp
    WatchdogComesFirst
    WatchdogIsSeeded
