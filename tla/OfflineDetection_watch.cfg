\* A tick is half a minute; the threshold is shortened to three ticks, still longer than
\* the life of a position key, as five minutes are longer than one.
SPECIFICATION FairSpec
CONSTANTS
    Null = Null
    Truck = {t1}
    Report = {g1}
    Sweep = {s1}
    Period = 2
    PositionTTL = 2
    Threshold = 3
    GraceTTL = 5
    MaxFailures = 1
INVARIANT TypeOK
PROPERTIES WatchIsFair SilenceNoticed
