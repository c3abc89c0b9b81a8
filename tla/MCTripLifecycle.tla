-------------------------- MODULE MCTripLifecycle --------------------------
(* TripLifecycle on small sets, for TLC. *)
EXTENDS TripLifecycle, TLC

\* Two odometer readings: a final one can be below, at or above the first.
MCKmPair == {1, 2}

\* The subsets of what may go wrong that the runs use.
AnyDisorder == {"overlap", "replay", "abort", "office"}
OnlyOverlap == {"overlap"}
OnlyReplay == {"replay"}

\* Identifiers, slots and drivers are interchangeable, in the initial states too;
\* every property checked under symmetry is an invariant or a box formula.
Symmetry ==
    Permutations(Trip) \union Permutations(Request) \union Permutations(Stop)
        \union Permutations(Driver) \union Permutations(Truck)

=============================================================================
