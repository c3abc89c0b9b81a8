------------------------------ MODULE MCOffice ------------------------------
(***************************************************************************)
(* Four parts of the system that share no data, on small sets, for TLC:    *)
(* the accounts, the fuel log, the reports and the live map.  Since no     *)
(* step of one can be told apart by another, their interleavings show      *)
(* nothing: a behaviour of this module is one of the part its desk names.  *)
(***************************************************************************)
EXTENDS Accounts, FuelEntries, FleetReports, LiveMap, TLC

VARIABLE desk   \* the part that moves, chosen at the start

MCPatches ==
    {[NoPatch EXCEPT !.active = "off"], [NoPatch EXCEPT !.active = "on"],
     [NoPatch EXCEPT !.email = "second", !.role = "DRIVER"]}

MCHaul == {1}

\* Trip h is on truck h with driver h.
MCOf == [h \in MCHaul |-> h]

\* Behind UTC, in it, and ahead of it.
MCZones == {-1, 0, 1}

OfficeInit ==
    /\ AccountsInit /\ FuelInit /\ ReportsInit /\ MapInit
    /\ desk \in {"accounts", "fuel", "reports", "map"}

OfficeNext ==
    \/ /\ desk = "accounts" /\ AccountsNext
       /\ UNCHANGED <<fuelVars, reportVars, mapVars, desk>>
    \/ /\ desk = "fuel" /\ FuelNext
       /\ UNCHANGED <<accountVars, reportVars, mapVars, desk>>
    \/ /\ desk = "reports" /\ ReportsNext
       /\ UNCHANGED <<accountVars, fuelVars, mapVars, desk>>
    \/ /\ desk = "map" /\ MapNext
       /\ UNCHANGED <<accountVars, fuelVars, reportVars, desk>>

OfficeSpec ==
    /\ OfficeInit
    /\ [][OfficeNext]_<<accountVars, fuelVars, reportVars, mapVars, desk>>
    /\ AccountsFairness /\ MapFairness

\* Every row, request and page of the four parts keeps its shape.
OfficeTypeOK == AccountsTypeOK /\ FuelTypeOK /\ ReportsTypeOK /\ MapTypeOK

=============================================================================
