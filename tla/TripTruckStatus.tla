-------------------------- MODULE TripTruckStatus --------------------------
(***************************************************************************)
(* The truck's status as TripsService keeps it.                            *)
(*                                                                         *)
(* startTrip saves the trip and then the truck, endTrip saves the trip and *)
(* then the truck, and nothing ties the two saves together.  Meanwhile the *)
(* office and the offline job write the status for reasons of their own,   *)
(* and an assignment of a truck writes back the status it read.  This      *)
(* module runs TripLifecycle with a history of the trucks for which status *)
(* and trips can have come apart.                                          *)
(***************************************************************************)
EXTENDS TripLifecycle

VARIABLES
    upset,      \* trucks whose status was not written, or by others, since a handler wrote it
    shared      \* trucks given to a driver while somebody else had to do with them

histories == <<upset, shared>>

\* No request is at work on truck t.
Undisturbed(t) ==
    \A r \in Request :
        Busy(r) => job[r].truck # t /\ (job[r].trip # Null => trips[job[r].trip].truck # t)

\* Some trip on truck t is not COMPLETED.
OnTrip(t) == \E i \in Trip : Open(i) /\ trips[i].truck = t

\* The trucks whose trip the handler in slot r has saved and whose status it has not.
HalfSaved(r) ==
    IF At(r, "activateTruck") THEN {job[r].truck}
    ELSE IF At(r, "truckOffline") THEN {trips[job[r].trip].truck}
    ELSE {}

\* The second of the two saves puts right what happened to the status before.
HandlerStep(r) ==
    /\ Handle(r) \/ \E d \in Driver : Receive(r, d)
    /\ upset' = upset \ HalfSaved(r)
    /\ UNCHANGED shared

HandlerStops(r) ==
    /\ Abort(r)
    /\ upset' = upset \union HalfSaved(r)
    /\ UNCHANGED shared

\* Driver d has to do with truck t: it is his, he is on the road with it, or a request of
\* his is at work on it.
Involved(d, t) ==
    \/ assigned[d] = t
    \/ \E i \in Trip : Open(i) /\ trips[i].truck = t /\ trips[i].driver = d
    \/ \E r \in Request :
        /\ Busy(r)
        /\ job[r].driver = d
        /\ job[r].truck = t \/ (job[r].trip # Null /\ trips[job[r].trip].truck = t)

\* Somebody else than driver d has to do with truck t.
Taken(t, d) == \E e \in Driver \ {d} : Involved(e, t)

\* A driver is given a truck, or freed of his.
GiveTruck(d, t) ==
    /\ "office" \in Disorder
    /\ SaveDriver(d, t)
    /\ shared' = IF t # Null /\ Taken(t, d) THEN shared \union {t} ELSE shared
    /\ UNCHANGED upset

\* Others write a status, a new one or a stale one.
WriteStatus(t, status) ==
    /\ "office" \in Disorder
    /\ truckStatus[t] # status
    /\ SaveTruck(t, status)
    /\ upset' = upset \union {t}
    /\ UNCHANGED shared

GraceStep ==
    /\ \E t \in Truck : GraceEnds(t)
    /\ UNCHANGED histories

StatusInit == Init /\ upset = {} /\ shared = {}

StatusNext ==
    \/ \E r \in Request : HandlerStep(r) \/ HandlerStops(r)
    \/ \E d \in Driver, t \in Truck \union {Null} : GiveTruck(d, t)
    \/ \E t \in Truck, status \in ForeignStatus : WriteStatus(t, status)
    \/ GraceStep

StatusSpec == StatusInit /\ [][StatusNext]_<<vars, histories>>

\* A truck no request is at work on is ACTIVE exactly while a trip on it is open, whatever
\* other drivers' requests, failures elsewhere and assignments happen: the separate saves of
\* the trip and of the truck in startTrip and endTrip agree.  A truck is excepted from the
\* moment the second save is lost or anybody else writes the status until the next trip
\* starts or ends on it, and for good once two drivers have to do with it.
TruckFollowsTrips ==
    \A t \in Truck \ (upset \union shared) :
        Undisturbed(t) => (truckStatus[t] = "ACTIVE" <=> OnTrip(t))

=============================================================================
