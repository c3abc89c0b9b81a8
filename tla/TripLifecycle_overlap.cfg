\* One driver whose two requests overlap.
SPECIFICATION Spec
CONSTANTS
    Null = Null
    Driver = {d1}
    Truck = {t1, t2}
    Trip = {i1, i2}
    Stop = {s1}
    Km <- MCKmPair
    Request = {r1, r2}
    ForeignStatus = {"ACTIVE", "OFFLINE"}
    Disorder <- OnlyOverlap
INVARIANT OneActiveTripPerDriver
CHECK_DEADLOCK FALSE
