\* A driver names a trip that is COMPLETED.
SPECIFICATION Spec
CONSTANTS
    Null = Null
    Driver = {d1}
    Truck = {t1, t2}
    Trip = {i1, i2}
    Stop = {s1}
    Km <- MCKmPair
    Request = {r1, r2}
    ForeignStatus = {"ACTIVE", "OFFLINE"}
    Disorder <- OnlyReplay
PROPERTY CompletedIsFinal
CHECK_DEADLOCK FALSE
