SPECIFICATION FairSpec
CONSTANTS
    Null = Null
    User = {manager, admin, driver}
    Driver = {driver}
    Request = {r1, r2}
    MaxTokens = 5
INVARIANTS TypeOK SessionAgrees
PROPERTIES OnlyDeniedSessionsEnd EveryRequestEnds LiveUpdates
