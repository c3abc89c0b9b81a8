--------------------------- MODULE TripLifecycle ---------------------------
(***************************************************************************)
(* The driver's working day: TripsService of the backend.                  *)
(*                                                                         *)
(* Five HTTP handlers (startTrip, addStops, confirmLoad, completeDelivery, *)
(* endTrip) read and write the tables trips, trip_stops, load_pickups,     *)
(* delivery_records and trucks.  None of them opens a transaction: each    *)
(* `await` lets every other request run, and a handler that throws, or a   *)
(* process that dies, leaves behind the writes it has already made.  Here  *)
(* a request slot has a program counter and the handler's local values,    *)
(* and a step of the specification is what the code does between awaits.   *)
(*                                                                         *)
(* repository.save(entity) is the ORM's: it SELECTs the row, keeps the     *)
(* columns in which the entity differs from it, and UPDATEs those.  For    *)
(* the trip row, where several columns belong together, the two            *)
(* statements are two steps; for a row with one modelled mutable column    *)
(* (a stop, a truck) the two amount to one atomic write of that column.    *)
(***************************************************************************)
EXTENDS FleetTypes, Naturals

CONSTANTS
    Driver,     \* drivers, one per DRIVER account
    Truck,      \* trucks
    Trip,       \* identifiers the trips table can hand out
    Stop,       \* identifiers the trip_stops table can hand out
    Km,         \* odometer readings a driver may type in
    Request,    \* requests the server can be handling at once
    ForeignStatus,  \* statuses other services give a truck
    Disorder    \* what may go wrong, see Disorders

\* overlap:  a driver may have several requests in flight (a retry after a
\*           timeout, a double tap, two devices)
\* replay:   a request may name a trip of the driver that is COMPLETED
\* abort:    a handler may stop between two awaits, its remaining steps lost
\* office:   other services may write which truck a driver is assigned to, and
\*           the status of a truck
Disorders == {"overlap", "replay", "abort", "office"}

ASSUME ConstantsAssumption ==
    /\ Km \subseteq Nat
    /\ Null \notin Driver \union Truck \union Trip \union Stop \union Nat
    /\ Null \notin TripStatus \union StopType
    /\ ForeignStatus \subseteq TruckStatus
    /\ Disorder \subseteq Disorders

VARIABLES
    trips,          \* trips[i]: the row of trip i
    stops,          \* stops[s]: the row of stop s
    pickups,        \* stops that have a row in load_pickups
    deliveries,     \* stops that have a row in delivery_records
    truckStatus,    \* trucks.status
    assigned,       \* drivers.assigned_truck_id
    activeSince,    \* trucks whose Redis key active_since is set
    pc,             \* pc[r]: the next step of the handler in slot r, or "idle"
    job,            \* job[r]: the arguments of that handler and what it loaded
    changed         \* changed[r]: the columns its save of the trip will write

tables == <<trips, stops, pickups, deliveries, truckStatus, assigned, activeSince>>

vars == <<tables, pc, job, changed>>

-----------------------------------------------------------------------------
(* Rows, entities and requests *)

TripRow == [driver: Driver \union {Null}, truck: Truck \union {Null},
            status: TripStatus \union {Null}, startingKm: Km \union {0},
            endingKm: Km \union {Null}, totalKm: Nat \union {Null}]

\* The row of an identifier that has not been inserted yet.
NoTrip == [driver |-> Null, truck |-> Null, status |-> Null, startingKm |-> 0,
           endingKm |-> Null, totalKm |-> Null]

StopRow == [trip: Trip \union {Null}, type: StopType \union {Null}, status: StopStatus]

NoStop == [trip |-> Null, type |-> Null, status |-> "PENDING"]

\* The columns of a trip that a handler ever changes.
Column == {"status", "endingKm", "totalKm"}

\* A handler's copy of those columns, as loaded and then as modified.
Entity == [status: TripStatus \union {Null}, endingKm: Km \union {Null},
           totalKm: Nat \union {Null}]

NoEntity == [status |-> Null, endingKm |-> Null, totalKm |-> Null]

Operation == {"startTrip", "addStops", "confirmLoad", "completeDelivery", "endTrip"}

Label == {"checkActive", "insertTrip", "activateTruck", "seedGrace", "insertStops",
          "insertRecord", "saveStop", "selectTrip", "updateTrip", "truckOffline"}

Job == [op: Operation \union {Null}, driver: Driver \union {Null},
        truck: Truck \union {Null}, held: Truck \union {Null}, km: Km \union {0},
        trip: Trip \union {Null}, stop: Stop \union {Null}, entity: Entity]

NoJob == [op |-> Null, driver |-> Null, truck |-> Null, held |-> Null, km |-> 0,
          trip |-> Null, stop |-> Null, entity |-> NoEntity]

\* The row of trip i exists.
Exists(i) == trips[i].status # Null

\* Trip i is what startTrip's query looks for: not COMPLETED.
Open(i) == Exists(i) /\ trips[i].status # "COMPLETED"

TypeOK ==
    /\ trips \in [Trip -> TripRow]
    /\ stops \in [Stop -> StopRow]
    /\ pickups \subseteq Stop
    /\ deliveries \subseteq Stop
    /\ truckStatus \in [Truck -> TruckStatus]
    /\ assigned \in [Driver -> Truck \union {Null}]
    /\ activeSince \subseteq Truck
    /\ pc \in [Request -> Label \union {"idle"}]
    /\ job \in [Request -> Job]
    /\ changed \in [Request -> SUBSET Column]

Init ==
    /\ trips = [i \in Trip |-> NoTrip]
    /\ stops = [s \in Stop |-> NoStop]
    /\ pickups = {}
    /\ deliveries = {}
    /\ truckStatus = [t \in Truck |-> "OFFLINE"]
    /\ assigned \in [Driver -> Truck \union {Null}]
    /\ \A d1, d2 \in Driver : assigned[d1] = assigned[d2] /\ assigned[d1] # Null => d1 = d2
    /\ activeSince = {}
    /\ pc = [r \in Request |-> "idle"]
    /\ job = [r \in Request |-> NoJob]
    /\ changed = [r \in Request |-> {}]

-----------------------------------------------------------------------------
(* Control of a request *)

Busy(r) == pc[r] # "idle"

At(r, label) == pc[r] = label

\* Driver d's next request reaches the server in slot r; its first step has
\* read what j holds.
Arrive(r, d, label, j) ==
    /\ ~Busy(r)
    /\ "overlap" \in Disorder \/ \A q \in Request : Busy(q) => job[q].driver # d
    /\ pc' = [pc EXCEPT ![r] = label]
    /\ job' = [job EXCEPT ![r] = j]
    /\ UNCHANGED <<tables, changed>>

\* The handler goes on to its next await.
Goto(r, label) ==
    /\ pc' = [pc EXCEPT ![r] = label]
    /\ UNCHANGED <<job, changed>>

\* The handler returns or throws.
Finish(r) ==
    /\ pc' = [pc EXCEPT ![r] = "idle"]
    /\ job' = [job EXCEPT ![r] = NoJob]
    /\ changed' = [changed EXCEPT ![r] = {}]

-----------------------------------------------------------------------------
(* POST /trips *)

\* The driver's row is read first; its assigned truck is used two awaits later.
StartTrip(r, d, t, km) ==
    Arrive(r, d, "checkActive",
        [op |-> "startTrip", driver |-> d, truck |-> t, held |-> assigned[d], km |-> km,
         trip |-> Null, stop |-> Null, entity |-> NoEntity])

\* Mutant: the search takes a trip to be open only once it is on the road.
HasMovingTrip(d) ==
    \E i \in Trip : trips[i].status \in {"IN_PROGRESS", "DELIVERING"} /\ trips[i].driver = d

HasOpenTrip(d) == \E i \in Trip : Open(i) /\ trips[i].driver = d

\* Mutant: any truck will do.
AcceptAnyTruck(r) ==
    /\ At(r, "checkActive")
    /\ ~HasOpenTrip(job[r].driver)
    /\ Goto(r, "insertTrip")
    /\ UNCHANGED tables

\* The search for an open trip, then the check on the assigned truck: it
\* compares two values that no longer change, so it is part of this step.
AcceptStart(r) ==
    /\ At(r, "checkActive")
    /\ ~HasOpenTrip(job[r].driver)
    /\ job[r].held = job[r].truck
    /\ Goto(r, "insertTrip")
    /\ UNCHANGED tables

\* 409 ACTIVE_TRIP_EXISTS or 403 TRUCK_NOT_ASSIGNED.
RejectStart(r) ==
    /\ At(r, "checkActive")
    /\ HasOpenTrip(job[r].driver) \/ job[r].held # job[r].truck
    /\ Finish(r)
    /\ UNCHANGED tables

InsertTrip(r, i) ==
    /\ At(r, "insertTrip")
    /\ ~Exists(i)
    /\ trips' = [trips EXCEPT ![i] =
            [driver |-> job[r].driver, truck |-> job[r].truck, status |-> "CREATED",
             startingKm |-> job[r].km, endingKm |-> Null, totalKm |-> Null]]
    /\ Goto(r, "activateTruck")
    /\ UNCHANGED <<stops, pickups, deliveries, truckStatus, assigned, activeSince>>

ActivateTruck(r) ==
    /\ At(r, "activateTruck")
    /\ truckStatus' = [truckStatus EXCEPT ![job[r].truck] = "ACTIVE"]
    /\ Goto(r, "seedGrace")
    /\ UNCHANGED <<trips, stops, pickups, deliveries, assigned, activeSince>>

SeedGrace(r) ==
    /\ At(r, "seedGrace")
    /\ activeSince' = activeSince \union {job[r].truck}
    /\ Finish(r)
    /\ UNCHANGED <<trips, stops, pickups, deliveries, truckStatus, assigned>>

-----------------------------------------------------------------------------
(* Handlers on an existing trip: getDriverTrip loads it for its driver *)

\* The status the handler will save depends on the loaded copy alone, so that the
\* entity carries it from here on, before the handler's other writes.
LoadTrip(r, d, i, op, label, s, entity) ==
    /\ trips[i].driver = d
    /\ "replay" \in Disorder \/ Open(i)
    /\ Arrive(r, d, label,
            [op |-> op, driver |-> d, truck |-> Null, held |-> Null, km |-> 0,
             trip |-> i, stop |-> s, entity |-> entity])

\* The copy of row i, its status already replaced.
LoadedWith(i, status) ==
    [status |-> status, endingKm |-> trips[i].endingKm, totalKm |-> trips[i].totalKm]

\* Mutant: planning the stops already sets the trip in progress.
AddStopsAndGo(r, d, i) ==
    LoadTrip(r, d, i, "addStops", "insertStops", Null, LoadedWith(i, "IN_PROGRESS"))

\* POST /trips/:id/stops.  The list of stops is an input of InsertStops.
AddStops(r, d, i) ==
    LoadTrip(r, d, i, "addStops", "insertStops", Null, LoadedWith(i, "ROUTE_PLANNED"))

\* One save for the whole list, which may be empty: a single transaction.
InsertStops(r, type) ==
    /\ At(r, "insertStops")
    /\ \A s \in DOMAIN type : stops[s].trip = Null
    /\ stops' = [s \in Stop |->
            IF s \in DOMAIN type
            THEN [trip |-> job[r].trip, type |-> type[s], status |-> "PENDING"]
            ELSE stops[s]]
    /\ Goto(r, "selectTrip")
    /\ UNCHANGED <<trips, pickups, deliveries, truckStatus, assigned, activeSince>>

\* Mutant: a stop of the trip, of either type.
StopOnTrip(i, s, type) == stops[s].trip = i

\* The stop is looked up one await after the trip.  Its trip and its type
\* never change and its identifier exists only once it is inserted, so the
\* two reads are one step.
StopMatches(i, s, type) == stops[s].trip = i /\ stops[s].type = type

\* Mutant: the trip is given the status of its stop.
AfterLoadStop(status) == IF status = "ROUTE_PLANNED" THEN "IN_PROGRESS" ELSE "CONFIRMED"

\* The trip status confirmLoad derives from the one it loaded.
AfterLoad(status) == IF status = "ROUTE_PLANNED" THEN "IN_PROGRESS" ELSE "DELIVERING"

\* PATCH /trips/:id/stops/:stopId/confirm
ConfirmLoad(r, d, i, s) ==
    /\ StopMatches(i, s, "LOAD_PICKUP")
    /\ LoadTrip(r, d, i, "confirmLoad", "insertRecord", s,
            LoadedWith(i, AfterLoad(trips[i].status)))

\* PATCH /trips/:id/stops/:stopId/deliver
CompleteDelivery(r, d, i, s) ==
    /\ StopMatches(i, s, "DELIVERY")
    /\ LoadTrip(r, d, i, "completeDelivery", "insertRecord", s,
            LoadedWith(i, "DELIVERING"))

\* The load_pickups row of confirmLoad.
InsertPickup(r) ==
    /\ At(r, "insertRecord")
    /\ job[r].op = "confirmLoad"
    /\ pickups' = pickups \union {job[r].stop}
    /\ Goto(r, "saveStop")
    /\ UNCHANGED <<trips, stops, deliveries, truckStatus, assigned, activeSince>>

\* The delivery_records row of completeDelivery.
InsertDelivery(r) ==
    /\ At(r, "insertRecord")
    /\ job[r].op = "completeDelivery"
    /\ deliveries' = deliveries \union {job[r].stop}
    /\ Goto(r, "saveStop")
    /\ UNCHANGED <<trips, stops, pickups, truckStatus, assigned, activeSince>>

WithStatus(stop, status) == [trip |-> stop.trip, type |-> stop.type, status |-> status]

SaveConfirmedStop(r) ==
    /\ At(r, "saveStop")
    /\ job[r].op = "confirmLoad"
    /\ stops' = [stops EXCEPT ![job[r].stop] = WithStatus(@, "CONFIRMED")]
    /\ Goto(r, "selectTrip")
    /\ UNCHANGED <<trips, pickups, deliveries, truckStatus, assigned, activeSince>>

SaveCompletedStop(r) ==
    /\ At(r, "saveStop")
    /\ job[r].op = "completeDelivery"
    /\ stops' = [stops EXCEPT ![job[r].stop] = WithStatus(@, "COMPLETED")]
    /\ Goto(r, "selectTrip")
    /\ UNCHANGED <<trips, pickups, deliveries, truckStatus, assigned, activeSince>>

\* Mutant: the two readings are not compared.
EndTripUnchecked(r, d, i, km) ==
    LoadTrip(r, d, i, "endTrip", "selectTrip", Null,
        [status |-> "COMPLETED", endingKm |-> km, totalKm |-> km - trips[i].startingKm])

\* Mutant: the readings are saved, the status is forgotten.
EndTripStillOpen(r, d, i, km) ==
    /\ km >= trips[i].startingKm
    /\ LoadTrip(r, d, i, "endTrip", "selectTrip", Null,
            [status |-> trips[i].status, endingKm |-> km, totalKm |-> km - trips[i].startingKm])

\* Mutant: the distance is the final reading.
EndTripReadingOnly(r, d, i, km) ==
    /\ km >= trips[i].startingKm
    /\ LoadTrip(r, d, i, "endTrip", "selectTrip", Null,
            [status |-> "COMPLETED", endingKm |-> km, totalKm |-> km])

\* PATCH /trips/:id/end
EndTrip(r, d, i, km) ==
    /\ km >= trips[i].startingKm
    /\ LoadTrip(r, d, i, "endTrip", "selectTrip", Null,
            [status |-> "COMPLETED", endingKm |-> km, totalKm |-> km - trips[i].startingKm])

-----------------------------------------------------------------------------
(* tripRepository.save(trip): the same two statements for four handlers *)

\* The columns save() will write.  total_km is a decimal, which the driver of
\* the database returns as a string: a freshly computed number always differs.
Differing(row, entity, op) ==
    {c \in Column : entity[c] # row[c]}
        \union (IF op = "endTrip" THEN {"totalKm"} ELSE {})

SelectTrip(r) ==
    /\ At(r, "selectTrip")
    /\ pc' = [pc EXCEPT ![r] = "updateTrip"]
    /\ changed' = [changed EXCEPT ![r] =
            Differing(trips[job[r].trip], job[r].entity, job[r].op)]
    /\ UNCHANGED <<tables, job>>

\* row with the columns cs taken from the entity
Overwrite(row, entity, cs) ==
    [driver |-> row.driver, truck |-> row.truck, startingKm |-> row.startingKm,
     status |-> IF "status" \in cs THEN entity.status ELSE row.status,
     endingKm |-> IF "endingKm" \in cs THEN entity.endingKm ELSE row.endingKm,
     totalKm |-> IF "totalKm" \in cs THEN entity.totalKm ELSE row.totalKm]

UpdateTrip(r) ==
    /\ At(r, "updateTrip")
    /\ trips' = [trips EXCEPT ![job[r].trip] = Overwrite(@, job[r].entity, changed[r])]
    /\ IF job[r].op = "endTrip" THEN Goto(r, "truckOffline") ELSE Finish(r)
    /\ UNCHANGED <<stops, pickups, deliveries, truckStatus, assigned, activeSince>>

\* endTrip's last write; the summary it returns only reads.
TruckOffline(r) ==
    /\ At(r, "truckOffline")
    /\ truckStatus' = [truckStatus EXCEPT ![trips[job[r].trip].truck] = "OFFLINE"]
    /\ Finish(r)
    /\ UNCHANGED <<trips, stops, pickups, deliveries, assigned, activeSince>>

-----------------------------------------------------------------------------
(* What happens around the handlers *)

\* A database or Redis call of the handler fails, or the process stops.
Abort(r) ==
    /\ "abort" \in Disorder
    /\ Busy(r)
    /\ Finish(r)
    /\ UNCHANGED tables

\* One save of a driver's row.  DriversService.assignTruck frees the driver who had the
\* truck and later gives it to another, each in a save of its own, and may stop between them.
SaveDriver(d, t) ==
    /\ assigned' = [assigned EXCEPT ![d] = t]
    /\ UNCHANGED <<trips, stops, pickups, deliveries, truckStatus, activeSince, pc, job, changed>>

\* One save of a truck's row.  TrucksService.updateStatus and update write the status a
\* manager names; assignTruck writes back, for both trucks, the one it loaded, whatever it
\* is by now, and so does update; the offline job writes OFFLINE.
SaveTruck(t, status) ==
    /\ truckStatus' = [truckStatus EXCEPT ![t] = status]
    /\ UNCHANGED <<trips, stops, pickups, deliveries, assigned, activeSince, pc, job, changed>>

\* Any of the other services writes a row this one reads or writes.
OthersSave ==
    /\ "office" \in Disorder
    /\ \/ \E d \in Driver, t \in Truck \union {Null} : SaveDriver(d, t)
       \/ \E t \in Truck, status \in ForeignStatus : SaveTruck(t, status)

\* active_since expires, or a GPS update of the truck deletes it.
GraceEnds(t) ==
    /\ t \in activeSince
    /\ activeSince' = activeSince \ {t}
    /\ UNCHANGED <<trips, stops, pickups, deliveries, truckStatus, assigned, pc, job, changed>>

Handle(r) ==
    \/ AcceptStart(r) \/ RejectStart(r)
    \/ \E i \in Trip : InsertTrip(r, i)
    \/ ActivateTruck(r) \/ SeedGrace(r)
    \/ \E S \in SUBSET Stop : \E type \in [S -> StopType] : InsertStops(r, type)
    \/ InsertPickup(r) \/ InsertDelivery(r)
    \/ SaveConfirmedStop(r) \/ SaveCompletedStop(r)
    \/ SelectTrip(r) \/ UpdateTrip(r) \/ TruckOffline(r)

Receive(r, d) ==
    \/ \E t \in Truck, km \in Km : StartTrip(r, d, t, km)
    \/ \E i \in Trip :
        \/ AddStops(r, d, i)
        \/ \E s \in Stop : ConfirmLoad(r, d, i, s) \/ CompleteDelivery(r, d, i, s)
        \/ \E km \in Km : EndTrip(r, d, i, km)

Next ==
    \/ \E r \in Request : Handle(r) \/ Abort(r) \/ \E d \in Driver : Receive(r, d)
    \/ OthersSave
    \/ \E t \in Truck : GraceEnds(t)

Spec == Init /\ [][Next]_vars

-----------------------------------------------------------------------------
(* Properties that hold however requests interleave, repeat and fail *)

\* A stop is CONFIRMED only if it is a pickup whose load_pickups row exists,
\* and COMPLETED only if it is a delivery whose delivery_records row exists:
\* confirmLoad and completeDelivery write the evidence before the status, so
\* that a failure between the two never leaves a status without evidence.
StopEvidence ==
    \A s \in Stop :
        /\ stops[s].status = "CONFIRMED" => stops[s].type = "LOAD_PICKUP" /\ s \in pickups
        /\ stops[s].status = "COMPLETED" => stops[s].type = "DELIVERY" /\ s \in deliveries

\* The stops of trip i.
StopsOf(i) == {s \in Stop : stops[s].trip = i}

\* A trip is IN_PROGRESS only after a load of that very trip was recorded, and
\* DELIVERING only after a load or a delivery of it was, whatever stale copy of
\* the trip a concurrent handler saves (confirmLoad, completeDelivery, addStops).
ProgressEvidence ==
    \A i \in Trip :
        /\ trips[i].status = "IN_PROGRESS" => StopsOf(i) \intersect pickups # {}
        /\ trips[i].status = "DELIVERING" => StopsOf(i) \intersect (pickups \union deliveries) # {}

\* The final odometer reading of a trip is never below the first: endTrip checks
\* it against the copy it loaded, and saves it two awaits later.
KmForward ==
    \A i \in Trip : trips[i].endingKm # Null => trips[i].endingKm >= trips[i].startingKm

-----------------------------------------------------------------------------
(* Properties that need the driver's requests to come one at a time *)

\* endTrip's arithmetic survives in the row: the distance is set exactly when the
\* final reading is, and is the difference of the two readings.
KmConsistent ==
    \A i \in Trip :
        /\ trips[i].endingKm = Null <=> trips[i].totalKm = Null
        /\ trips[i].endingKm # Null =>
                trips[i].totalKm = trips[i].endingKm - trips[i].startingKm

\* startTrip lets a driver have one trip that is not COMPLETED.
OneActiveTripPerDriver ==
    \A i, j \in Trip :
        Open(i) /\ Open(j) /\ trips[i].driver = trips[j].driver => i = j

\* COMPLETED is the last state of a trip: no handler takes it back.
CompletedIsFinal ==
    [][\A i \in Trip : trips[i].status = "COMPLETED" => trips'[i].status = "COMPLETED"]_trips

\* The abstract view of a row: its phase, its driver and its final distance.
PhaseOf(status) ==
    CASE status = Null -> "none" [] status = "COMPLETED" -> "closed" [] OTHER -> "open"

\* The kilometres two readings can be apart.
Distances == {k - m : k \in Km, m \in Km} \intersect Nat

Contract == INSTANCE TripContract WITH
    Distance <- Distances,
    phase <- [i \in Trip |-> PhaseOf(trips[i].status)],
    owner <- [i \in Trip |-> trips[i].driver],
    distance <- [i \in Trip |-> trips[i].totalKm]

\* The handlers, with the interleavings of different drivers and with failures
\* anywhere, implement the contract of the trips API.
ImplementsContract == Contract!Spec

=============================================================================
