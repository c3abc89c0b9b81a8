\* Every handler overlapping every other, replayed on completed trips, failing anywhere;
\* other services write his truck and its status at any moment.
SPECIFICATION Spec
CONSTANTS
    Null = Null
    Driver = {d1}
    Truck = {t1}
    Trip = {i1}
    Stop = {s1}
    Km <- MCKmPair
    Request = {r1, r2}
    ForeignStatus = {"ACTIVE", "OFFLINE"}
    Disorder <- AnyDisorder
SYMMETRY Symmetry
INVARIANTS TypeOK StopEvidence ProgressEvidence KmForward
