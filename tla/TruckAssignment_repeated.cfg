\* Assignments and reassignments one at a time, edits between them, any handler may
\* fail, and what failed is repeated; a handler's next step is taken in time.
SPECIFICATION FairSpec
CONSTANTS
    Null = Null
    Driver = {d1, d2, d3}
    Truck = {t1, t2}
    Request = {r1}
    Disorder <- ReassignsAndAbort
INVARIANTS TypeOK UnmovedInSync
PROPERTIES ImplementsPairing AssignTakesEffect
