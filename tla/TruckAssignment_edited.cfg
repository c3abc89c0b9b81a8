\* A truck's row is loaded before an assignment and saved after it.
SPECIFICATION Spec
CONSTANTS
    Null = Null
    Driver = {d1, d2}
    Truck = {t1, t2}
    Request = {r1, r2}
    Disorder <- OnlyEdits
INVARIANT InSync
