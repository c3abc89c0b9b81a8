\* Two drivers who wait for each answer; any handler may fail; other services write
\* drivers' trucks and trucks' statuses.
SPECIFICATION StatusSpec
CONSTANTS
    Null = Null
    Driver = {d1, d2}
    Truck = {t1}
    Trip = {i1, i2}
    Stop = {s1}
    Km <- MCKmPair
    Request = {r1, r2}
    ForeignStatus = {"ACTIVE", "OFFLINE"}
    Disorder <- AbortAndOffice
SYMMETRY Symmetry
INVARIANTS KmConsistent OneActiveTripPerDriver TruckFollowsTrips
PROPERTY ImplementsContract
