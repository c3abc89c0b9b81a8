\* A type with a dedupe key and a push message, and one without.  A key lives two ticks.
\* The page shows all alerts, but has room for one of the two.
SPECIFICATION FairSpec
CONSTANTS
    Null = Null
    Truck = {t1}
    Caller = {c1, c2}
    Raised = {"OVERSPEED", "LOW_FUEL"}
    Window = 2
    Selected = "all"
    PageLimit = 1
    MaxAlerts = 2
    MaxFailures = 1
INVARIANTS TypeOK NoFlood KeyTells PageMissesNone
PROPERTY AlertsReachPage
