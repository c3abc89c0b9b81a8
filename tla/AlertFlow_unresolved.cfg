\* The page as it opens: its Status box says Unresolved.
SPECIFICATION Spec
CONSTANTS
    Null = Null
    Truck = {t1}
    Caller = {c1}
    Raised = {"OVERSPEED"}
    Window = 2
    Selected = "unresolved"
    PageLimit = 2
    MaxAlerts = 1
    MaxFailures = 0
INVARIANT PageMissesNone
