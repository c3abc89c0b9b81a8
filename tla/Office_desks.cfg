\* Accounts, fuel log, reports and live map, each on its own (see MCOffice).
SPECIFICATION OfficeSpec
CONSTANTS
    Null = Null
    \* accounts
    Account = {u1, u2}
    Seed = u1
    Email = {"first", "second"}
    SeedEmail = "first"
    NewRoles = {"DRIVER", "FLEET_MANAGER"}
    Patches <- MCPatches
    AdminCall = {c1, c2}
    Session = {k1}
    \* fuel log
    FuelEntry = {e1, e2, e3}
    Moment = {1, 2, 3}
    Haul <- MCHaul
    HaulDriver <- MCOf
    HaulTruck <- MCOf
    PageSize = 1
    \* reports
    Journey = {j1, j2}
    Bill = {b1}
    DayTicks = 2
    MonthDays = 2
    Days = 3
    BillTick = {2}
    Distance = {0, 1}
    Zones <- MCZones
    \* live map
    MapTruck = {t1}
    Time = {1, 2}
    GpsCall = {g1, g2}
    Round = {n1}
INVARIANTS
    OfficeTypeOK
    EmailUnique ProfileComplete
    WalkMissesNone
    CustomIsSumOfDays MonthsPartition KpisBetween ReportBracketed TodayWithinMonth
    NothingUnstored KeyNewest MapAgrees
PROPERTIES DeactivationSticks LockOut MapCatchesUp
\* The office can lock itself out for good: the last active account of it may be deactivated.
CHECK_DEADLOCK FALSE
