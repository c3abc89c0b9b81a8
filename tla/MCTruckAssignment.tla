------------------------- MODULE MCTruckAssignment -------------------------
(* TruckAssignment on small sets, for TLC. *)
EXTENDS TruckAssignment

\* The subsets of what may go wrong that the runs use.
OnlyEdits == {"edits"}
ReassignsAndAbort == {"reassigns", "abort"}

=============================================================================
