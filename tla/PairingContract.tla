-------------------------- MODULE PairingContract --------------------------
(***************************************************************************)
(* What assigning trucks promises the office: at every moment a driver has *)
(* at most one truck and a truck at most one driver, and giving a truck to *)
(* a driver parts each of them from the partner they had.                  *)
(***************************************************************************)
CONSTANTS Driver, Truck

VARIABLE pairs  \* the driver and truck pairs

Matching(P) == \A p, q \in P : p[1] = q[1] \/ p[2] = q[2] => p = q

Init == pairs \in SUBSET (Driver \X Truck) /\ Matching(pairs)

\* The truck is taken from whoever has it.
Part(t) == pairs' = {p \in pairs : p[2] # t}

\* Driver d gets truck t, which nobody else has.
Join(d, t) ==
    /\ \A p \in pairs : p[2] = t => p[1] = d
    /\ pairs' = {p \in pairs : p[1] # d} \union {<<d, t>>}

Next ==
    \/ \E t \in Truck : Part(t)
    \/ \E d \in Driver, t \in Truck : Join(d, t)

Spec == Init /\ [][Next]_pairs

=============================================================================
