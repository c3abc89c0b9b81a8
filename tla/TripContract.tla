---------------------------- MODULE TripContract ----------------------------
(***************************************************************************)
(* What the trips API promises a driver and the office, without requests,  *)
(* rows or stops: a driver has at most one open trip; closing a trip fixes *)
(* its distance; and a closed trip stays as it was closed.                 *)
(***************************************************************************)
CONSTANTS Driver, Trip, Distance, Null

VARIABLES
    phase,      \* phase[i]: trip i does not exist, is open, or is closed
    owner,      \* the driver of a trip that exists
    distance    \* the kilometres of a closed trip

vars == <<phase, owner, distance>>

Init ==
    /\ phase = [i \in Trip |-> "none"]
    /\ owner = [i \in Trip |-> Null]
    /\ distance = [i \in Trip |-> Null]

Begin(i, d) ==
    /\ phase[i] = "none"
    /\ \A j \in Trip : phase[j] = "open" => owner[j] # d
    /\ phase' = [phase EXCEPT ![i] = "open"]
    /\ owner' = [owner EXCEPT ![i] = d]
    /\ UNCHANGED distance

Close(i, n) ==
    /\ phase[i] = "open"
    /\ phase' = [phase EXCEPT ![i] = "closed"]
    /\ distance' = [distance EXCEPT ![i] = n]
    /\ UNCHANGED owner

Next ==
    \E i \in Trip :
        \/ \E d \in Driver : Begin(i, d)
        \/ \E n \in Distance : Close(i, n)

Spec == Init /\ [][Next]_vars

=============================================================================
