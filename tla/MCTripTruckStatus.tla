------------------------- MODULE MCTripTruckStatus -------------------------
(* TripTruckStatus on small sets, for TLC. *)
EXTENDS TripTruckStatus, TLC

\* Two odometer readings: a final one can be below, at or above the first.
MCKmPair == {1, 2}

AbortAndOffice == {"abort", "office"}

\* Identifiers, slots and drivers are interchangeable, in the initial states too;
\* every property checked under symmetry is an invariant or a box formula.
Symmetry ==
    Permutations(Trip) \union Permutations(Request) \union Permutations(Stop)
        \union Permutations(Driver) \union Permutations(Truck)

=============================================================================
