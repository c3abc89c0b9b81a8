------------------------ MODULE TripLifecycleProofs ------------------------
(***************************************************************************)
(* Proofs about TripLifecycle, for every set of drivers, trucks, trips,    *)
(* stops, readings and request slots: first what holds whatever the        *)
(* drivers do, then, for drivers whose requests come one at a time, the    *)
(* arithmetic of endTrip, the single active trip and the contract.         *)
(***************************************************************************)
EXTENDS TripLifecycle, TLAPS

-----------------------------------------------------------------------------
(* Well-formedness: types, and what a request's label says about its job *)

\* A row is either unused or complete, and a stop belongs to a trip that exists.
RowsOK ==
    /\ \A i \in Trip :
        IF Exists(i)
        THEN trips[i].driver \in Driver /\ trips[i].truck \in Truck /\ trips[i].startingKm \in Km
        ELSE trips[i] = NoTrip
    /\ \A s \in Stop :
        IF stops[s].trip = Null
        THEN stops[s] = NoStop
        ELSE Exists(stops[s].trip) /\ stops[s].type \in StopType

\* Labels of startTrip, of the handlers that load a trip, and of those on a stop.
StartLabel == {"checkActive", "insertTrip", "activateTruck", "seedGrace"}
TripLabel == {"insertStops", "insertRecord", "saveStop", "selectTrip", "updateTrip",
              "truckOffline"}

\* A handler on a trip works for the trip's driver, and on a stop of that trip.
JobOK ==
    \A r \in Request :
        /\ pc[r] \in StartLabel =>
            /\ job[r].op = "startTrip"
            /\ job[r].driver \in Driver
            /\ job[r].truck \in Truck
            /\ job[r].km \in Km
        /\ pc[r] \in TripLabel =>
            /\ job[r].op \in Operation \ {"startTrip"}
            /\ job[r].trip \in Trip
            /\ Exists(job[r].trip)
            /\ trips[job[r].trip].driver = job[r].driver
            /\ job[r].entity.status # Null
            /\ job[r].op = "confirmLoad" =>
                job[r].stop \in Stop /\ StopMatches(job[r].trip, job[r].stop, "LOAD_PICKUP")
            /\ job[r].op = "completeDelivery" =>
                job[r].stop \in Stop /\ StopMatches(job[r].trip, job[r].stop, "DELIVERY")
        /\ pc[r] = "insertStops" => job[r].op = "addStops"
        /\ pc[r] \in {"insertRecord", "saveStop"} =>
            job[r].op \in {"confirmLoad", "completeDelivery"}
        /\ pc[r] = "truckOffline" => job[r].op = "endTrip"

WellFormed == TypeOK /\ RowsOK /\ JobOK

USE ConstantsAssumption
    DEF TripRow, StopRow, Entity, Job, Column, Operation, Label,
        TripStatus, TruckStatus, StopType, StopStatus,
        NoTrip, NoStop, NoEntity, NoJob, At, tables, StartLabel, TripLabel

LEMMA ReadingNat == \A k \in Km \union {0} : k \in Nat
  OBVIOUS

LEMMA InitWellFormed == Init => WellFormed
  BY DEF Init, WellFormed, TypeOK, RowsOK, JobOK, Exists

LEMMA NextType == WellFormed /\ [Next]_vars => TypeOK'
  <1> SUFFICES ASSUME WellFormed, [Next]_vars
               PROVE  TypeOK'
    OBVIOUS
  <1> USE DEF WellFormed
  <1>1. ASSUME NEW r \in Request, NEW d \in Driver, NEW t \in Truck, NEW km \in Km, StartTrip(r, d, t, km)
        PROVE  TypeOK'
    BY <1>1 DEF StartTrip, Arrive, Busy, TypeOK, JobOK, Goto, Finish
  <1>2. ASSUME NEW r \in Request, AcceptStart(r) PROVE TypeOK'
    BY <1>2 DEF AcceptStart, TypeOK, JobOK, Goto, Finish
  <1>3. ASSUME NEW r \in Request, RejectStart(r) PROVE TypeOK'
    BY <1>3 DEF RejectStart, TypeOK, JobOK, Goto, Finish
  <1>4. ASSUME NEW r \in Request, NEW i \in Trip, InsertTrip(r, i) PROVE TypeOK'
    BY <1>4 DEF InsertTrip, TypeOK, JobOK, Goto, Finish
  <1>5. ASSUME NEW r \in Request, ActivateTruck(r) PROVE TypeOK'
    BY <1>5 DEF ActivateTruck, TypeOK, JobOK, Goto, Finish
  <1>6. ASSUME NEW r \in Request, SeedGrace(r) PROVE TypeOK'
    BY <1>6 DEF SeedGrace, TypeOK, JobOK, Goto, Finish
  <1>7. ASSUME NEW r \in Request, NEW d \in Driver, NEW i \in Trip, AddStops(r, d, i) PROVE TypeOK'
    BY <1>7 DEF AddStops, LoadTrip, LoadedWith, Arrive, Busy, TypeOK, JobOK, Goto, Finish
  <1>8. ASSUME NEW r \in Request, NEW S \in SUBSET Stop, NEW type \in [S -> StopType], InsertStops(r, type)
        PROVE  TypeOK'
    BY <1>8 DEF InsertStops, TypeOK, JobOK, Goto, Finish
  <1>9. ASSUME NEW r \in Request, NEW d \in Driver, NEW i \in Trip, NEW s \in Stop, ConfirmLoad(r, d, i, s)
        PROVE  TypeOK'
    BY <1>9 DEF ConfirmLoad, LoadTrip, LoadedWith, Arrive, Busy, AfterLoad, StopMatches, TypeOK, JobOK, Goto, Finish
  <1>10. ASSUME NEW r \in Request, NEW d \in Driver, NEW i \in Trip, NEW s \in Stop, CompleteDelivery(r, d, i, s)
        PROVE  TypeOK'
    BY <1>10 DEF CompleteDelivery, LoadTrip, LoadedWith, Arrive, Busy, StopMatches, TypeOK, JobOK, Goto, Finish
  <1>11. ASSUME NEW r \in Request, InsertPickup(r) PROVE TypeOK'
    BY <1>11 DEF InsertPickup, TypeOK, JobOK, Goto, Finish
  <1>12. ASSUME NEW r \in Request, InsertDelivery(r) PROVE TypeOK'
    BY <1>12 DEF InsertDelivery, TypeOK, JobOK, Goto, Finish
  <1>13. ASSUME NEW r \in Request, SaveConfirmedStop(r) PROVE TypeOK'
    BY <1>13 DEF SaveConfirmedStop, WithStatus, TypeOK, JobOK, Goto, Finish
  <1>14. ASSUME NEW r \in Request, SaveCompletedStop(r) PROVE TypeOK'
    BY <1>14 DEF SaveCompletedStop, WithStatus, TypeOK, JobOK, Goto, Finish
  <1>15. ASSUME NEW r \in Request, NEW d \in Driver, NEW i \in Trip, NEW km \in Km, EndTrip(r, d, i, km)
        PROVE  TypeOK'
    <2>0. trips[i] \in TripRow
      BY DEF TypeOK
    <2>1. km \in Nat /\ trips[i].startingKm \in Nat
      BY <2>0, ReadingNat
    <2>2. km - trips[i].startingKm \in Nat
      BY <1>15, <2>1, SMT DEF EndTrip
    <2> DEFINE e == [status |-> "COMPLETED", endingKm |-> km,
                     totalKm |-> km - trips[i].startingKm]
    <2>3. e \in Entity
      BY <2>2
    <2>4. [op |-> "endTrip", driver |-> d, truck |-> Null, held |-> Null, km |-> 0,
           trip |-> i, stop |-> Null, entity |-> e] \in Job
      BY <2>3
    <2> HIDE DEF e
    <2>5. QED
      BY <1>15, <2>4 DEF e, EndTrip, LoadTrip, Arrive, TypeOK
  <1>16. ASSUME NEW r \in Request, SelectTrip(r) PROVE TypeOK'
    BY <1>16 DEF SelectTrip, Differing, TypeOK, JobOK, Goto, Finish
  <1>17. ASSUME NEW r \in Request, UpdateTrip(r) PROVE TypeOK'
    <2> DEFINE i == job[r].trip
               row == Overwrite(trips[i], job[r].entity, changed[r])
    <2>1. i \in Trip /\ trips[i] \in TripRow /\ job[r].entity \in Entity
      BY <1>17 DEF UpdateTrip, TypeOK, JobOK
    <2>2. row \in TripRow
      BY <2>1 DEF Overwrite
    <2>3. trips' = [trips EXCEPT ![i] = row]
      BY <1>17 DEF UpdateTrip
    <2>4. /\ pc' \in [Request -> Label \union {"idle"}]
          /\ job' \in [Request -> Job]
          /\ changed' \in [Request -> SUBSET Column]
      <3>1. CASE job[r].op = "endTrip"
        BY <1>17, <3>1 DEF UpdateTrip, TypeOK, Goto
      <3>2. CASE job[r].op # "endTrip"
        <4>1. Finish(r) /\ NoJob \in Job
          BY <1>17, <3>2 DEF UpdateTrip
        <4>2. QED
          BY <4>1 DEF Finish, TypeOK
      <3>3. QED
        BY <3>1, <3>2
    <2> HIDE DEF row, i
    <2>5. trips' \in [Trip -> TripRow]
      BY <2>1, <2>2, <2>3 DEF TypeOK
    <2>6. QED
      BY <1>17, <2>4, <2>5 DEF UpdateTrip, TypeOK
  <1>18. ASSUME NEW r \in Request, TruckOffline(r) PROVE TypeOK'
    BY <1>18 DEF TruckOffline, TypeOK, JobOK, Goto, Finish
  <1>19. ASSUME NEW r \in Request, Abort(r) PROVE TypeOK'
    BY <1>19 DEF Abort, TypeOK, JobOK, Goto, Finish
  <1>20. CASE OthersSave
    <2>1. ASSUME NEW d \in Driver, NEW t \in Truck \union {Null}, SaveDriver(d, t) PROVE TypeOK'
      BY <2>1 DEF SaveDriver, TypeOK
    <2>2. ASSUME NEW t \in Truck, NEW s \in ForeignStatus, SaveTruck(t, s) PROVE TypeOK'
      BY <2>2, ConstantsAssumption DEF SaveTruck, TypeOK
    <2>3. QED
      BY <1>20, <2>1, <2>2 DEF OthersSave
  <1>21. ASSUME NEW t \in Truck, GraceEnds(t) PROVE TypeOK'
    BY <1>21 DEF GraceEnds, TypeOK, JobOK, Goto, Finish
  <1>22. CASE UNCHANGED vars
    BY <1>22 DEF vars, TypeOK
  <1>23. QED
    BY <1>1, <1>2, <1>3, <1>4, <1>5, <1>6, <1>7, <1>8, <1>9, <1>10, <1>11, <1>12, <1>13, <1>14, <1>15, <1>16, <1>17, <1>18, <1>19, <1>20, <1>21, <1>22 DEF Next, Handle, Receive

LEMMA NextRows == WellFormed /\ [Next]_vars => RowsOK'
  <1> SUFFICES ASSUME WellFormed, [Next]_vars
               PROVE  RowsOK'
    OBVIOUS
  <1> USE DEF WellFormed
  <1>1. ASSUME NEW r \in Request, NEW d \in Driver, NEW t \in Truck, NEW km \in Km, StartTrip(r, d, t, km)
        PROVE  RowsOK'
    BY <1>1 DEF StartTrip, Arrive, Busy, TypeOK, RowsOK, JobOK, Exists, Goto, Finish
  <1>2. ASSUME NEW r \in Request, AcceptStart(r) PROVE RowsOK'
    BY <1>2 DEF AcceptStart, TypeOK, RowsOK, JobOK, Exists, Goto, Finish
  <1>3. ASSUME NEW r \in Request, RejectStart(r) PROVE RowsOK'
    BY <1>3 DEF RejectStart, TypeOK, RowsOK, JobOK, Exists, Goto, Finish
  <1>4. ASSUME NEW r \in Request, NEW i \in Trip, InsertTrip(r, i) PROVE RowsOK'
    BY <1>4 DEF InsertTrip, TypeOK, RowsOK, JobOK, Exists, Goto, Finish
  <1>5. ASSUME NEW r \in Request, ActivateTruck(r) PROVE RowsOK'
    BY <1>5 DEF ActivateTruck, TypeOK, RowsOK, JobOK, Exists, Goto, Finish
  <1>6. ASSUME NEW r \in Request, SeedGrace(r) PROVE RowsOK'
    BY <1>6 DEF SeedGrace, TypeOK, RowsOK, JobOK, Exists, Goto, Finish
  <1>7. ASSUME NEW r \in Request, NEW d \in Driver, NEW i \in Trip, AddStops(r, d, i) PROVE RowsOK'
    BY <1>7 DEF AddStops, LoadTrip, LoadedWith, Arrive, Busy, TypeOK, RowsOK, JobOK, Exists, Goto, Finish
  <1>8. ASSUME NEW r \in Request, NEW S \in SUBSET Stop, NEW type \in [S -> StopType], InsertStops(r, type)
        PROVE  RowsOK'
    BY <1>8 DEF InsertStops, TypeOK, RowsOK, JobOK, Exists, Goto, Finish
  <1>9. ASSUME NEW r \in Request, NEW d \in Driver, NEW i \in Trip, NEW s \in Stop, ConfirmLoad(r, d, i, s)
        PROVE  RowsOK'
    BY <1>9 DEF ConfirmLoad, LoadTrip, LoadedWith, Arrive, Busy, AfterLoad, StopMatches, TypeOK, RowsOK, JobOK, Exists, Goto, Finish
  <1>10. ASSUME NEW r \in Request, NEW d \in Driver, NEW i \in Trip, NEW s \in Stop, CompleteDelivery(r, d, i, s)
        PROVE  RowsOK'
    BY <1>10 DEF CompleteDelivery, LoadTrip, LoadedWith, Arrive, Busy, StopMatches, TypeOK, RowsOK, JobOK, Exists, Goto, Finish
  <1>11. ASSUME NEW r \in Request, InsertPickup(r) PROVE RowsOK'
    BY <1>11 DEF InsertPickup, TypeOK, RowsOK, JobOK, Exists, Goto, Finish
  <1>12. ASSUME NEW r \in Request, InsertDelivery(r) PROVE RowsOK'
    BY <1>12 DEF InsertDelivery, TypeOK, RowsOK, JobOK, Exists, Goto, Finish
  <1>13. ASSUME NEW r \in Request, SaveConfirmedStop(r) PROVE RowsOK'
    BY <1>13 DEF SaveConfirmedStop, WithStatus, StopMatches, TypeOK, RowsOK, JobOK, Exists, Goto
  <1>14. ASSUME NEW r \in Request, SaveCompletedStop(r) PROVE RowsOK'
    BY <1>14 DEF SaveCompletedStop, WithStatus, StopMatches, TypeOK, RowsOK, JobOK, Exists, Goto
  <1>15. ASSUME NEW r \in Request, NEW d \in Driver, NEW i \in Trip, NEW km \in Km, EndTrip(r, d, i, km)
        PROVE  RowsOK'
    BY <1>15 DEF EndTrip, LoadTrip, LoadedWith, Arrive, Busy, TypeOK, RowsOK, JobOK, Exists, Goto, Finish
  <1>16. ASSUME NEW r \in Request, SelectTrip(r) PROVE RowsOK'
    BY <1>16 DEF SelectTrip, Differing, TypeOK, RowsOK, JobOK, Exists, Goto, Finish
  <1>17. ASSUME NEW r \in Request, UpdateTrip(r) PROVE RowsOK'
    BY <1>17 DEF UpdateTrip, Overwrite, TypeOK, RowsOK, JobOK, Exists, Goto, Finish
  <1>18. ASSUME NEW r \in Request, TruckOffline(r) PROVE RowsOK'
    BY <1>18 DEF TruckOffline, TypeOK, RowsOK, JobOK, Exists, Goto, Finish
  <1>19. ASSUME NEW r \in Request, Abort(r) PROVE RowsOK'
    BY <1>19 DEF Abort, TypeOK, RowsOK, JobOK, Exists, Goto, Finish
  <1>20. CASE OthersSave
    BY <1>20 DEF OthersSave, SaveDriver, SaveTruck, TypeOK, RowsOK, JobOK, Exists, Goto, Finish
  <1>21. ASSUME NEW t \in Truck, GraceEnds(t) PROVE RowsOK'
    BY <1>21 DEF GraceEnds, TypeOK, RowsOK, JobOK, Exists, Goto, Finish
  <1>22. CASE UNCHANGED vars
    BY <1>22 DEF vars, TypeOK, RowsOK, Exists
  <1>23. QED
    BY <1>1, <1>2, <1>3, <1>4, <1>5, <1>6, <1>7, <1>8, <1>9, <1>10, <1>11, <1>12, <1>13, <1>14, <1>15, <1>16, <1>17, <1>18, <1>19, <1>20, <1>21, <1>22 DEF Next, Handle, Receive

LEMMA NextJob == WellFormed /\ [Next]_vars => JobOK'
  <1> SUFFICES ASSUME WellFormed, [Next]_vars
               PROVE  JobOK'
    OBVIOUS
  <1> USE DEF WellFormed, StopMatches
  <1>1. ASSUME NEW r \in Request, NEW d \in Driver, NEW t \in Truck, NEW km \in Km, StartTrip(r, d, t, km)
        PROVE  JobOK'
    BY <1>1 DEF StartTrip, Arrive, Busy, TypeOK, RowsOK, JobOK, Exists, Goto, Finish
  <1>2. ASSUME NEW r \in Request, AcceptStart(r) PROVE JobOK'
    BY <1>2 DEF AcceptStart, TypeOK, RowsOK, JobOK, Exists, Goto, Finish
  <1>3. ASSUME NEW r \in Request, RejectStart(r) PROVE JobOK'
    BY <1>3 DEF RejectStart, TypeOK, RowsOK, JobOK, Exists, Goto, Finish
  <1>4. ASSUME NEW r \in Request, NEW i \in Trip, InsertTrip(r, i) PROVE JobOK'
    BY <1>4 DEF InsertTrip, TypeOK, RowsOK, JobOK, Exists, Goto, Finish
  <1>5. ASSUME NEW r \in Request, ActivateTruck(r) PROVE JobOK'
    BY <1>5 DEF ActivateTruck, TypeOK, RowsOK, JobOK, Exists, Goto, Finish
  <1>6. ASSUME NEW r \in Request, SeedGrace(r) PROVE JobOK'
    BY <1>6 DEF SeedGrace, TypeOK, RowsOK, JobOK, Exists, Goto, Finish
  <1>7. ASSUME NEW r \in Request, NEW d \in Driver, NEW i \in Trip, AddStops(r, d, i) PROVE JobOK'
    BY <1>7 DEF AddStops, LoadTrip, LoadedWith, Arrive, Busy, TypeOK, RowsOK, JobOK, Exists, Goto, Finish
  <1>8. ASSUME NEW r \in Request, NEW S \in SUBSET Stop, NEW type \in [S -> StopType], InsertStops(r, type)
        PROVE  JobOK'
    BY <1>8 DEF InsertStops, TypeOK, RowsOK, JobOK, Exists, Goto, Finish
  <1>9. ASSUME NEW r \in Request, NEW d \in Driver, NEW i \in Trip, NEW s \in Stop, ConfirmLoad(r, d, i, s)
        PROVE  JobOK'
    BY <1>9 DEF ConfirmLoad, LoadTrip, LoadedWith, Arrive, Busy, AfterLoad, StopMatches, TypeOK, RowsOK, JobOK, Exists, Goto, Finish
  <1>10. ASSUME NEW r \in Request, NEW d \in Driver, NEW i \in Trip, NEW s \in Stop, CompleteDelivery(r, d, i, s)
        PROVE  JobOK'
    BY <1>10 DEF CompleteDelivery, LoadTrip, LoadedWith, Arrive, Busy, StopMatches, TypeOK, RowsOK, JobOK, Exists, Goto, Finish
  <1>11. ASSUME NEW r \in Request, InsertPickup(r) PROVE JobOK'
    BY <1>11 DEF InsertPickup, TypeOK, RowsOK, JobOK, Exists, Goto, Finish
  <1>12. ASSUME NEW r \in Request, InsertDelivery(r) PROVE JobOK'
    BY <1>12 DEF InsertDelivery, TypeOK, RowsOK, JobOK, Exists, Goto, Finish
  <1>13. ASSUME NEW r \in Request, SaveConfirmedStop(r) PROVE JobOK'
    BY <1>13 DEF SaveConfirmedStop, WithStatus, TypeOK, RowsOK, JobOK, Exists, Goto, Finish
  <1>14. ASSUME NEW r \in Request, SaveCompletedStop(r) PROVE JobOK'
    BY <1>14 DEF SaveCompletedStop, WithStatus, TypeOK, RowsOK, JobOK, Exists, Goto, Finish
  <1>15. ASSUME NEW r \in Request, NEW d \in Driver, NEW i \in Trip, NEW km \in Km, EndTrip(r, d, i, km)
        PROVE  JobOK'
    BY <1>15 DEF EndTrip, LoadTrip, LoadedWith, Arrive, Busy, TypeOK, RowsOK, JobOK, Exists, Goto, Finish
  <1>16. ASSUME NEW r \in Request, SelectTrip(r) PROVE JobOK'
    BY <1>16 DEF SelectTrip, Differing, TypeOK, RowsOK, JobOK, Exists, Goto, Finish
  <1>17. ASSUME NEW r \in Request, UpdateTrip(r) PROVE JobOK'
    BY <1>17 DEF UpdateTrip, Overwrite, TypeOK, RowsOK, JobOK, Exists, Goto, Finish
  <1>18. ASSUME NEW r \in Request, TruckOffline(r) PROVE JobOK'
    BY <1>18 DEF TruckOffline, TypeOK, RowsOK, JobOK, Exists, Goto, Finish
  <1>19. ASSUME NEW r \in Request, Abort(r) PROVE JobOK'
    BY <1>19 DEF Abort, TypeOK, RowsOK, JobOK, Exists, Goto, Finish
  <1>20. CASE OthersSave
    BY <1>20 DEF OthersSave, SaveDriver, SaveTruck, TypeOK, RowsOK, JobOK, Exists, Goto, Finish
  <1>21. ASSUME NEW t \in Truck, GraceEnds(t) PROVE JobOK'
    BY <1>21 DEF GraceEnds, TypeOK, RowsOK, JobOK, Exists, Goto, Finish
  <1>22. CASE UNCHANGED vars
    BY <1>22 DEF vars, TypeOK, JobOK, Exists
  <1>23. QED
    BY <1>1, <1>2, <1>3, <1>4, <1>5, <1>6, <1>7, <1>8, <1>9, <1>10, <1>11, <1>12, <1>13, <1>14, <1>15, <1>16, <1>17, <1>18, <1>19, <1>20, <1>21, <1>22 DEF Next, Handle, Receive

LEMMA WellFormedness == Spec => []WellFormed
  <1>1. WellFormed /\ [Next]_vars => WellFormed'
    BY NextType, NextRows, NextJob DEF WellFormed
  <1>2. QED
    BY InitWellFormed, <1>1, PTL DEF Spec

\* Every column, every entity and every request keeps its type.
THEOREM TypeCorrect == Spec => []TypeOK
  BY WellFormedness, PTL DEF WellFormed

-----------------------------------------------------------------------------
(* Evidence: the record of a load or a delivery precedes every status *)

\* Two actions write the trips table.
LEMMA TripsChange ==
    [Next]_vars =>
        \/ \E r \in Request, i \in Trip : InsertTrip(r, i)
        \/ \E r \in Request : UpdateTrip(r)
        \/ UNCHANGED trips
  BY DEF Next, Handle, Receive, vars, StartTrip, AcceptStart, RejectStart,
         ActivateTruck, SeedGrace, AddStops, InsertStops, ConfirmLoad, CompleteDelivery,
         InsertPickup, InsertDelivery, SaveConfirmedStop, SaveCompletedStop, EndTrip, SelectTrip,
         TruckOffline, Abort, OthersSave, SaveDriver, SaveTruck, GraceEnds, LoadTrip, Arrive

\* The status a handler saves is the one of its operation.
JobStatus ==
    \A r \in Request : pc[r] \in TripLabel =>
        /\ job[r].op = "addStops" => job[r].entity.status = "ROUTE_PLANNED"
        /\ job[r].op = "confirmLoad" => job[r].entity.status \in {"IN_PROGRESS", "DELIVERING"}
        /\ job[r].op = "completeDelivery" => job[r].entity.status = "DELIVERING"
        /\ job[r].op = "endTrip" => job[r].entity.status = "COMPLETED"

\* Past its first insert, a handler on a stop has left its evidence.
JobEvidence ==
    \A r \in Request : pc[r] \in {"saveStop", "selectTrip", "updateTrip"} =>
        /\ job[r].op = "confirmLoad" => job[r].stop \in pickups
        /\ job[r].op = "completeDelivery" => job[r].stop \in deliveries

Evidence == JobStatus /\ JobEvidence /\ StopEvidence /\ ProgressEvidence

LEMMA InitEvidence == Init => Evidence
  BY DEF Init, Evidence, JobStatus, JobEvidence, StopEvidence, ProgressEvidence

LEMMA NextJobStatus == WellFormed /\ JobStatus /\ [Next]_vars => JobStatus'
  <1> SUFFICES ASSUME WellFormed, JobStatus, [Next]_vars
               PROVE  JobStatus'
    OBVIOUS
  <1> USE DEF WellFormed
  <1>1. ASSUME NEW r \in Request, NEW d \in Driver, NEW t \in Truck, NEW km \in Km, StartTrip(r, d, t, km)
        PROVE  JobStatus'
    BY <1>1 DEF StartTrip, Arrive, Busy, TypeOK, JobOK, JobStatus, Goto, Finish
  <1>2. ASSUME NEW r \in Request, AcceptStart(r) PROVE JobStatus'
    BY <1>2 DEF AcceptStart, TypeOK, JobOK, JobStatus, Goto, Finish
  <1>3. ASSUME NEW r \in Request, RejectStart(r) PROVE JobStatus'
    BY <1>3 DEF RejectStart, TypeOK, JobOK, JobStatus, Goto, Finish
  <1>4. ASSUME NEW r \in Request, NEW i \in Trip, InsertTrip(r, i) PROVE JobStatus'
    BY <1>4 DEF InsertTrip, TypeOK, JobOK, JobStatus, Goto, Finish
  <1>5. ASSUME NEW r \in Request, ActivateTruck(r) PROVE JobStatus'
    BY <1>5 DEF ActivateTruck, TypeOK, JobOK, JobStatus, Goto, Finish
  <1>6. ASSUME NEW r \in Request, SeedGrace(r) PROVE JobStatus'
    BY <1>6 DEF SeedGrace, TypeOK, JobOK, JobStatus, Goto, Finish
  <1>7. ASSUME NEW r \in Request, NEW d \in Driver, NEW i \in Trip, AddStops(r, d, i)
        PROVE  JobStatus'
    BY <1>7 DEF AddStops, LoadTrip, LoadedWith, Arrive, Busy, TypeOK, JobOK, JobStatus, Goto, Finish
  <1>8. ASSUME NEW r \in Request, NEW S \in SUBSET Stop, NEW type \in [S -> StopType], InsertStops(r, type)
        PROVE  JobStatus'
    BY <1>8 DEF InsertStops, TypeOK, JobOK, JobStatus, Goto, Finish
  <1>9. ASSUME NEW r \in Request, NEW d \in Driver, NEW i \in Trip, NEW s \in Stop, ConfirmLoad(r, d, i, s)
        PROVE  JobStatus'
    BY <1>9 DEF ConfirmLoad, LoadTrip, LoadedWith, Arrive, Busy, AfterLoad, StopMatches, TypeOK, JobOK, JobStatus, Goto, Finish
  <1>10. ASSUME NEW r \in Request, NEW d \in Driver, NEW i \in Trip, NEW s \in Stop, CompleteDelivery(r, d, i, s)
        PROVE  JobStatus'
    BY <1>10 DEF CompleteDelivery, LoadTrip, LoadedWith, Arrive, Busy, StopMatches, TypeOK, JobOK, JobStatus, Goto, Finish
  <1>11. ASSUME NEW r \in Request, InsertPickup(r) PROVE JobStatus'
    BY <1>11 DEF InsertPickup, TypeOK, JobOK, JobStatus, Goto, Finish
  <1>12. ASSUME NEW r \in Request, InsertDelivery(r) PROVE JobStatus'
    BY <1>12 DEF InsertDelivery, TypeOK, JobOK, JobStatus, Goto, Finish
  <1>13. ASSUME NEW r \in Request, SaveConfirmedStop(r) PROVE JobStatus'
    BY <1>13 DEF SaveConfirmedStop, WithStatus, TypeOK, JobOK, JobStatus, Goto, Finish
  <1>14. ASSUME NEW r \in Request, SaveCompletedStop(r) PROVE JobStatus'
    BY <1>14 DEF SaveCompletedStop, WithStatus, TypeOK, JobOK, JobStatus, Goto, Finish
  <1>15. ASSUME NEW r \in Request, NEW d \in Driver, NEW i \in Trip, NEW km \in Km, EndTrip(r, d, i, km)
        PROVE  JobStatus'
    BY <1>15 DEF EndTrip, LoadTrip, LoadedWith, Arrive, Busy, TypeOK, JobOK, JobStatus, Goto, Finish
  <1>16. ASSUME NEW r \in Request, SelectTrip(r) PROVE JobStatus'
    BY <1>16 DEF SelectTrip, Differing, TypeOK, JobOK, JobStatus, Goto, Finish
  <1>17. ASSUME NEW r \in Request, UpdateTrip(r) PROVE JobStatus'
    BY <1>17 DEF UpdateTrip, Overwrite, TypeOK, JobOK, JobStatus, Goto, Finish
  <1>18. ASSUME NEW r \in Request, TruckOffline(r) PROVE JobStatus'
    BY <1>18 DEF TruckOffline, TypeOK, JobOK, JobStatus, Goto, Finish
  <1>19. ASSUME NEW r \in Request, Abort(r) PROVE JobStatus'
    BY <1>19 DEF Abort, TypeOK, JobOK, JobStatus, Goto, Finish
  <1>20. CASE OthersSave
    BY <1>20 DEF OthersSave, SaveDriver, SaveTruck, TypeOK, JobOK, JobStatus, Goto, Finish
  <1>21. ASSUME NEW t \in Truck, GraceEnds(t) PROVE JobStatus'
    BY <1>21 DEF GraceEnds, TypeOK, JobOK, JobStatus, Goto, Finish
  <1>22. CASE UNCHANGED vars
    BY <1>22 DEF vars, TypeOK, JobStatus
  <1>23. QED
    BY <1>1, <1>2, <1>3, <1>4, <1>5, <1>6, <1>7, <1>8, <1>9, <1>10, <1>11, <1>12, <1>13, <1>14, <1>15, <1>16, <1>17, <1>18, <1>19, <1>20, <1>21, <1>22 DEF Next, Handle, Receive

LEMMA NextJobEvidence == WellFormed /\ JobEvidence /\ [Next]_vars => JobEvidence'
  <1> SUFFICES ASSUME WellFormed, JobEvidence, [Next]_vars
               PROVE  JobEvidence'
    OBVIOUS
  <1> USE DEF WellFormed
  <1>1. ASSUME NEW r \in Request, NEW d \in Driver, NEW t \in Truck, NEW km \in Km, StartTrip(r, d, t, km)
        PROVE  JobEvidence'
    BY <1>1 DEF StartTrip, Arrive, Busy, TypeOK, JobOK, JobEvidence, Goto, Finish
  <1>2. ASSUME NEW r \in Request, AcceptStart(r) PROVE JobEvidence'
    BY <1>2 DEF AcceptStart, TypeOK, JobOK, JobEvidence, Goto, Finish
  <1>3. ASSUME NEW r \in Request, RejectStart(r) PROVE JobEvidence'
    BY <1>3 DEF RejectStart, TypeOK, JobOK, JobEvidence, Goto, Finish
  <1>4. ASSUME NEW r \in Request, NEW i \in Trip, InsertTrip(r, i) PROVE JobEvidence'
    BY <1>4 DEF InsertTrip, TypeOK, JobOK, JobEvidence, Goto, Finish
  <1>5. ASSUME NEW r \in Request, ActivateTruck(r) PROVE JobEvidence'
    BY <1>5 DEF ActivateTruck, TypeOK, JobOK, JobEvidence, Goto, Finish
  <1>6. ASSUME NEW r \in Request, SeedGrace(r) PROVE JobEvidence'
    BY <1>6 DEF SeedGrace, TypeOK, JobOK, JobEvidence, Goto, Finish
  <1>7. ASSUME NEW r \in Request, NEW d \in Driver, NEW i \in Trip, AddStops(r, d, i)
        PROVE  JobEvidence'
    BY <1>7 DEF AddStops, LoadTrip, LoadedWith, Arrive, Busy, TypeOK, JobOK, JobEvidence, Goto, Finish
  <1>8. ASSUME NEW r \in Request, NEW S \in SUBSET Stop, NEW type \in [S -> StopType], InsertStops(r, type)
        PROVE  JobEvidence'
    BY <1>8 DEF InsertStops, TypeOK, JobOK, JobEvidence, Goto, Finish
  <1>9. ASSUME NEW r \in Request, NEW d \in Driver, NEW i \in Trip, NEW s \in Stop, ConfirmLoad(r, d, i, s)
        PROVE  JobEvidence'
    BY <1>9 DEF ConfirmLoad, LoadTrip, LoadedWith, Arrive, Busy, AfterLoad, StopMatches, TypeOK, JobOK, JobEvidence, Goto, Finish
  <1>10. ASSUME NEW r \in Request, NEW d \in Driver, NEW i \in Trip, NEW s \in Stop, CompleteDelivery(r, d, i, s)
        PROVE  JobEvidence'
    BY <1>10 DEF CompleteDelivery, LoadTrip, LoadedWith, Arrive, Busy, StopMatches, TypeOK, JobOK, JobEvidence, Goto, Finish
  <1>11. ASSUME NEW r \in Request, InsertPickup(r) PROVE JobEvidence'
    BY <1>11 DEF InsertPickup, TypeOK, JobOK, JobEvidence, Goto, Finish
  <1>12. ASSUME NEW r \in Request, InsertDelivery(r) PROVE JobEvidence'
    BY <1>12 DEF InsertDelivery, TypeOK, JobOK, JobEvidence, Goto, Finish
  <1>13. ASSUME NEW r \in Request, SaveConfirmedStop(r) PROVE JobEvidence'
    BY <1>13 DEF SaveConfirmedStop, WithStatus, TypeOK, JobOK, JobEvidence, Goto, Finish
  <1>14. ASSUME NEW r \in Request, SaveCompletedStop(r) PROVE JobEvidence'
    BY <1>14 DEF SaveCompletedStop, WithStatus, TypeOK, JobOK, JobEvidence, Goto, Finish
  <1>15. ASSUME NEW r \in Request, NEW d \in Driver, NEW i \in Trip, NEW km \in Km, EndTrip(r, d, i, km)
        PROVE  JobEvidence'
    BY <1>15 DEF EndTrip, LoadTrip, LoadedWith, Arrive, Busy, TypeOK, JobOK, JobEvidence, Goto, Finish
  <1>16. ASSUME NEW r \in Request, SelectTrip(r) PROVE JobEvidence'
    BY <1>16 DEF SelectTrip, Differing, TypeOK, JobOK, JobEvidence, Goto, Finish
  <1>17. ASSUME NEW r \in Request, UpdateTrip(r) PROVE JobEvidence'
    BY <1>17 DEF UpdateTrip, Overwrite, TypeOK, JobOK, JobEvidence, Goto, Finish
  <1>18. ASSUME NEW r \in Request, TruckOffline(r) PROVE JobEvidence'
    BY <1>18 DEF TruckOffline, TypeOK, JobOK, JobEvidence, Goto, Finish
  <1>19. ASSUME NEW r \in Request, Abort(r) PROVE JobEvidence'
    BY <1>19 DEF Abort, TypeOK, JobOK, JobEvidence, Goto, Finish
  <1>20. CASE OthersSave
    BY <1>20 DEF OthersSave, SaveDriver, SaveTruck, TypeOK, JobOK, JobEvidence, Goto, Finish
  <1>21. ASSUME NEW t \in Truck, GraceEnds(t) PROVE JobEvidence'
    BY <1>21 DEF GraceEnds, TypeOK, JobOK, JobEvidence, Goto, Finish
  <1>22. CASE UNCHANGED vars
    BY <1>22 DEF vars, TypeOK, JobEvidence
  <1>23. QED
    BY <1>1, <1>2, <1>3, <1>4, <1>5, <1>6, <1>7, <1>8, <1>9, <1>10, <1>11, <1>12, <1>13, <1>14, <1>15, <1>16, <1>17, <1>18, <1>19, <1>20, <1>21, <1>22 DEF Next, Handle, Receive

LEMMA NextStopEvidence ==
    WellFormed /\ JobEvidence /\ StopEvidence /\ [Next]_vars => StopEvidence'
  <1> SUFFICES ASSUME WellFormed, JobEvidence, StopEvidence, [Next]_vars
               PROVE  StopEvidence'
    OBVIOUS
  <1> USE DEF WellFormed
  <1>1. ASSUME NEW r \in Request, NEW d \in Driver, NEW t \in Truck, NEW km \in Km, StartTrip(r, d, t, km)
        PROVE  StopEvidence'
    BY <1>1 DEF StartTrip, Arrive, Busy, TypeOK, JobOK, JobEvidence, StopEvidence, StopMatches, Goto, Finish
  <1>2. ASSUME NEW r \in Request, AcceptStart(r) PROVE StopEvidence'
    BY <1>2 DEF AcceptStart, TypeOK, JobOK, JobEvidence, StopEvidence, StopMatches, Goto, Finish
  <1>3. ASSUME NEW r \in Request, RejectStart(r) PROVE StopEvidence'
    BY <1>3 DEF RejectStart, TypeOK, JobOK, JobEvidence, StopEvidence, StopMatches, Goto, Finish
  <1>4. ASSUME NEW r \in Request, NEW i \in Trip, InsertTrip(r, i) PROVE StopEvidence'
    BY <1>4 DEF InsertTrip, TypeOK, JobOK, JobEvidence, StopEvidence, StopMatches, Goto, Finish
  <1>5. ASSUME NEW r \in Request, ActivateTruck(r) PROVE StopEvidence'
    BY <1>5 DEF ActivateTruck, TypeOK, JobOK, JobEvidence, StopEvidence, StopMatches, Goto, Finish
  <1>6. ASSUME NEW r \in Request, SeedGrace(r) PROVE StopEvidence'
    BY <1>6 DEF SeedGrace, TypeOK, JobOK, JobEvidence, StopEvidence, StopMatches, Goto, Finish
  <1>7. ASSUME NEW r \in Request, NEW d \in Driver, NEW i \in Trip, AddStops(r, d, i)
        PROVE  StopEvidence'
    BY <1>7 DEF AddStops, LoadTrip, LoadedWith, Arrive, Busy, TypeOK, JobOK, JobEvidence, StopEvidence, StopMatches, Goto, Finish
  <1>8. ASSUME NEW r \in Request, NEW S \in SUBSET Stop, NEW type \in [S -> StopType], InsertStops(r, type)
        PROVE  StopEvidence'
    BY <1>8 DEF InsertStops, TypeOK, JobOK, JobEvidence, StopEvidence, StopMatches, Goto, Finish
  <1>9. ASSUME NEW r \in Request, NEW d \in Driver, NEW i \in Trip, NEW s \in Stop, ConfirmLoad(r, d, i, s)
        PROVE  StopEvidence'
    BY <1>9 DEF ConfirmLoad, LoadTrip, LoadedWith, Arrive, Busy, AfterLoad, StopMatches, TypeOK, JobOK, JobEvidence, StopEvidence, StopMatches, Goto, Finish
  <1>10. ASSUME NEW r \in Request, NEW d \in Driver, NEW i \in Trip, NEW s \in Stop, CompleteDelivery(r, d, i, s)
        PROVE  StopEvidence'
    BY <1>10 DEF CompleteDelivery, LoadTrip, LoadedWith, Arrive, Busy, StopMatches, TypeOK, JobOK, JobEvidence, StopEvidence, StopMatches, Goto, Finish
  <1>11. ASSUME NEW r \in Request, InsertPickup(r) PROVE StopEvidence'
    BY <1>11 DEF InsertPickup, TypeOK, JobOK, JobEvidence, StopEvidence, StopMatches, Goto, Finish
  <1>12. ASSUME NEW r \in Request, InsertDelivery(r) PROVE StopEvidence'
    BY <1>12 DEF InsertDelivery, TypeOK, JobOK, JobEvidence, StopEvidence, StopMatches, Goto, Finish
  <1>13. ASSUME NEW r \in Request, SaveConfirmedStop(r) PROVE StopEvidence'
    BY <1>13 DEF SaveConfirmedStop, WithStatus, TypeOK, JobOK, JobEvidence, StopEvidence, StopMatches, Goto, Finish
  <1>14. ASSUME NEW r \in Request, SaveCompletedStop(r) PROVE StopEvidence'
    BY <1>14 DEF SaveCompletedStop, WithStatus, TypeOK, JobOK, JobEvidence, StopEvidence, StopMatches, Goto, Finish
  <1>15. ASSUME NEW r \in Request, NEW d \in Driver, NEW i \in Trip, NEW km \in Km, EndTrip(r, d, i, km)
        PROVE  StopEvidence'
    BY <1>15 DEF EndTrip, LoadTrip, LoadedWith, Arrive, Busy, TypeOK, JobOK, JobEvidence, StopEvidence, StopMatches, Goto, Finish
  <1>16. ASSUME NEW r \in Request, SelectTrip(r) PROVE StopEvidence'
    BY <1>16 DEF SelectTrip, Differing, TypeOK, JobOK, JobEvidence, StopEvidence, StopMatches, Goto, Finish
  <1>17. ASSUME NEW r \in Request, UpdateTrip(r) PROVE StopEvidence'
    BY <1>17 DEF UpdateTrip, Overwrite, TypeOK, JobOK, JobEvidence, StopEvidence, StopMatches, Goto, Finish
  <1>18. ASSUME NEW r \in Request, TruckOffline(r) PROVE StopEvidence'
    BY <1>18 DEF TruckOffline, TypeOK, JobOK, JobEvidence, StopEvidence, StopMatches, Goto, Finish
  <1>19. ASSUME NEW r \in Request, Abort(r) PROVE StopEvidence'
    BY <1>19 DEF Abort, TypeOK, JobOK, JobEvidence, StopEvidence, StopMatches, Goto, Finish
  <1>20. CASE OthersSave
    BY <1>20 DEF OthersSave, SaveDriver, SaveTruck, TypeOK, JobOK, JobEvidence, StopEvidence, StopMatches, Goto, Finish
  <1>21. ASSUME NEW t \in Truck, GraceEnds(t) PROVE StopEvidence'
    BY <1>21 DEF GraceEnds, TypeOK, JobOK, JobEvidence, StopEvidence, StopMatches, Goto, Finish
  <1>22. CASE UNCHANGED vars
    BY <1>22 DEF vars, StopEvidence
  <1>23. QED
    BY <1>1, <1>2, <1>3, <1>4, <1>5, <1>6, <1>7, <1>8, <1>9, <1>10, <1>11, <1>12, <1>13, <1>14, <1>15, <1>16, <1>17, <1>18, <1>19, <1>20, <1>21, <1>22 DEF Next, Handle, Receive

\* Stops keep their trip and records are never deleted.
LEMMA EvidenceStays ==
    WellFormed /\ [Next]_vars =>
        \A i \in Trip :
            /\ StopsOf(i) \intersect pickups \subseteq (StopsOf(i) \intersect pickups)'
            /\ StopsOf(i) \intersect deliveries \subseteq (StopsOf(i) \intersect deliveries)'
  <1> SUFFICES ASSUME WellFormed, [Next]_vars, NEW s \in Stop, stops[s].trip \in Trip
               PROVE  /\ stops'[s].trip = stops[s].trip
                      /\ s \in pickups => s \in pickups'
                      /\ s \in deliveries => s \in deliveries'
    BY DEF StopsOf
  <1> DEFINE P == /\ stops'[s].trip = stops[s].trip
                  /\ s \in pickups => s \in pickups'
                  /\ s \in deliveries => s \in deliveries'
  <1> USE DEF WellFormed
  <1>1. ASSUME NEW r \in Request, NEW d \in Driver, NEW t \in Truck, NEW km \in Km, StartTrip(r, d, t, km)
        PROVE  P
    BY <1>1 DEF StartTrip, Arrive, Busy, TypeOK, RowsOK, JobOK, StopMatches, Goto, Finish
  <1>2. ASSUME NEW r \in Request, AcceptStart(r) PROVE P
    BY <1>2 DEF AcceptStart, TypeOK, RowsOK, JobOK, StopMatches, Goto, Finish
  <1>3. ASSUME NEW r \in Request, RejectStart(r) PROVE P
    BY <1>3 DEF RejectStart, TypeOK, RowsOK, JobOK, StopMatches, Goto, Finish
  <1>4. ASSUME NEW r \in Request, NEW i \in Trip, InsertTrip(r, i) PROVE P
    BY <1>4 DEF InsertTrip, TypeOK, RowsOK, JobOK, StopMatches, Goto, Finish
  <1>5. ASSUME NEW r \in Request, ActivateTruck(r) PROVE P
    BY <1>5 DEF ActivateTruck, TypeOK, RowsOK, JobOK, StopMatches, Goto, Finish
  <1>6. ASSUME NEW r \in Request, SeedGrace(r) PROVE P
    BY <1>6 DEF SeedGrace, TypeOK, RowsOK, JobOK, StopMatches, Goto, Finish
  <1>7. ASSUME NEW r \in Request, NEW d \in Driver, NEW i \in Trip, AddStops(r, d, i) PROVE P
    BY <1>7 DEF AddStops, LoadTrip, LoadedWith, Arrive, Busy, TypeOK, RowsOK, JobOK, StopMatches, Goto, Finish
  <1>8. ASSUME NEW r \in Request, NEW S \in SUBSET Stop, NEW type \in [S -> StopType], InsertStops(r, type)
        PROVE  P
    BY <1>8 DEF InsertStops, TypeOK, RowsOK, JobOK, StopMatches, Goto, Finish
  <1>9. ASSUME NEW r \in Request, NEW d \in Driver, NEW i \in Trip, NEW z \in Stop, ConfirmLoad(r, d, i, z)
        PROVE  P
    BY <1>9 DEF ConfirmLoad, LoadTrip, LoadedWith, Arrive, Busy, AfterLoad, StopMatches, TypeOK, RowsOK, JobOK, StopMatches, Goto, Finish
  <1>10. ASSUME NEW r \in Request, NEW d \in Driver, NEW i \in Trip, NEW z \in Stop, CompleteDelivery(r, d, i, z)
        PROVE  P
    BY <1>10 DEF CompleteDelivery, LoadTrip, LoadedWith, Arrive, Busy, StopMatches, TypeOK, RowsOK, JobOK, StopMatches, Goto, Finish
  <1>11. ASSUME NEW r \in Request, InsertPickup(r) PROVE P
    BY <1>11 DEF InsertPickup, TypeOK, RowsOK, JobOK, StopMatches, Goto, Finish
  <1>12. ASSUME NEW r \in Request, InsertDelivery(r) PROVE P
    BY <1>12 DEF InsertDelivery, TypeOK, RowsOK, JobOK, StopMatches, Goto, Finish
  <1>13. ASSUME NEW r \in Request, SaveConfirmedStop(r) PROVE P
    BY <1>13 DEF SaveConfirmedStop, WithStatus, TypeOK, RowsOK, JobOK, StopMatches, Goto, Finish
  <1>14. ASSUME NEW r \in Request, SaveCompletedStop(r) PROVE P
    BY <1>14 DEF SaveCompletedStop, WithStatus, TypeOK, RowsOK, JobOK, StopMatches, Goto, Finish
  <1>15. ASSUME NEW r \in Request, NEW d \in Driver, NEW i \in Trip, NEW km \in Km, EndTrip(r, d, i, km)
        PROVE  P
    BY <1>15 DEF EndTrip, LoadTrip, LoadedWith, Arrive, Busy, TypeOK, RowsOK, JobOK, StopMatches, Goto, Finish
  <1>16. ASSUME NEW r \in Request, SelectTrip(r) PROVE P
    BY <1>16 DEF SelectTrip, Differing, TypeOK, RowsOK, JobOK, StopMatches, Goto, Finish
  <1>17. ASSUME NEW r \in Request, UpdateTrip(r) PROVE P
    BY <1>17 DEF UpdateTrip, Overwrite, TypeOK, RowsOK, JobOK, StopMatches, Goto, Finish
  <1>18. ASSUME NEW r \in Request, TruckOffline(r) PROVE P
    BY <1>18 DEF TruckOffline, TypeOK, RowsOK, JobOK, StopMatches, Goto, Finish
  <1>19. ASSUME NEW r \in Request, Abort(r) PROVE P
    BY <1>19 DEF Abort, TypeOK, RowsOK, JobOK, StopMatches, Goto, Finish
  <1>20. CASE OthersSave
    BY <1>20 DEF OthersSave, SaveDriver, SaveTruck, TypeOK, RowsOK, JobOK, StopMatches, Goto, Finish
  <1>21. ASSUME NEW t \in Truck, GraceEnds(t) PROVE P
    BY <1>21 DEF GraceEnds, TypeOK, RowsOK, JobOK, StopMatches, Goto, Finish
  <1>22. CASE UNCHANGED vars
    BY <1>22 DEF vars, TypeOK
  <1>23. QED
    BY <1>1, <1>2, <1>3, <1>4, <1>5, <1>6, <1>7, <1>8, <1>9, <1>10, <1>11, <1>12, <1>13, <1>14, <1>15, <1>16, <1>17, <1>18, <1>19, <1>20, <1>21, <1>22 DEF Next, Handle, Receive

LEMMA NextProgressEvidence ==
    WellFormed /\ Evidence /\ [Next]_vars => ProgressEvidence'
  <1> SUFFICES ASSUME WellFormed, Evidence, [Next]_vars, NEW i \in Trip
               PROVE  /\ trips'[i].status = "IN_PROGRESS" =>
                            (StopsOf(i) \intersect pickups)' # {}
                      /\ trips'[i].status = "DELIVERING" =>
                            (StopsOf(i) \intersect pickups)' # {}
                                \/ (StopsOf(i) \intersect deliveries)' # {}
    BY DEF ProgressEvidence, StopsOf
  <1>1. \/ trips'[i].status \notin {"IN_PROGRESS", "DELIVERING"}
        \/ trips'[i].status = trips[i].status
        \/ \E r \in Request :
            /\ UpdateTrip(r)
            /\ job[r].trip = i
            /\ trips'[i].status = job[r].entity.status
    <2>1. ASSUME NEW r \in Request, NEW j \in Trip, InsertTrip(r, j)
          PROVE  trips'[i].status = "CREATED" \/ trips'[i].status = trips[i].status
      BY <2>1 DEF InsertTrip, WellFormed, TypeOK
    <2>2. ASSUME NEW r \in Request, UpdateTrip(r)
          PROVE  \/ trips'[i].status = trips[i].status
                 \/ job[r].trip = i /\ trips'[i].status = job[r].entity.status
      BY <2>2 DEF UpdateTrip, Overwrite, WellFormed, TypeOK, JobOK
    <2>3. QED
      BY <2>1, <2>2, TripsChange
  <1>2. CASE trips'[i].status = trips[i].status
    BY <1>2, EvidenceStays DEF Evidence, ProgressEvidence
  <1>3. ASSUME NEW r \in Request, UpdateTrip(r), job[r].trip = i,
               trips'[i].status = job[r].entity.status,
               trips'[i].status \in {"IN_PROGRESS", "DELIVERING"}
        PROVE  \/ (StopsOf(i) \intersect pickups)' # {}
               \/ /\ (StopsOf(i) \intersect deliveries)' # {}
                  /\ trips'[i].status = "DELIVERING"
    <2>1. CASE job[r].op = "confirmLoad"
      BY <1>3, <2>1, EvidenceStays
      DEF UpdateTrip, WellFormed, JobOK, Evidence, JobEvidence, StopMatches, StopsOf
    <2>2. CASE job[r].op = "completeDelivery"
      BY <1>3, <2>2, EvidenceStays
      DEF UpdateTrip, WellFormed, JobOK, Evidence, JobStatus, JobEvidence, StopMatches, StopsOf
    <2>3. QED
      BY <1>3, <2>1, <2>2 DEF UpdateTrip, WellFormed, JobOK, Evidence, JobStatus
  <1>4. QED
    BY <1>1, <1>2, <1>3

LEMMA EvidenceInvariant == Spec => []Evidence
  <1>1. WellFormed /\ Evidence /\ [Next]_vars => Evidence'
    BY NextJobStatus, NextJobEvidence, NextStopEvidence, NextProgressEvidence DEF Evidence
  <1>2. QED
    BY InitEvidence, WellFormedness, <1>1, PTL DEF Spec

\* No interleaving, replay or failure leaves a stop marked without its record.
THEOREM StopEvidenceHolds == Spec => []StopEvidence
  BY EvidenceInvariant, PTL DEF Evidence

\* No interleaving, replay or failure moves a trip ahead of what was recorded of it.
THEOREM ProgressEvidenceHolds == Spec => []ProgressEvidence
  BY EvidenceInvariant, PTL DEF Evidence

-----------------------------------------------------------------------------
(* Odometer readings *)

\* What a trip is created with, it keeps.
LEMMA TripIdentity ==
    WellFormed /\ [Next]_vars =>
        \A i \in Trip : Exists(i) =>
            /\ trips'[i].status # Null
            /\ trips'[i].driver = trips[i].driver
            /\ trips'[i].truck = trips[i].truck
            /\ trips'[i].startingKm = trips[i].startingKm
  <1> SUFFICES ASSUME WellFormed, [Next]_vars, NEW j \in Trip, Exists(j)
               PROVE  /\ trips'[j].status # Null
                      /\ trips'[j].driver = trips[j].driver
                      /\ trips'[j].truck = trips[j].truck
                      /\ trips'[j].startingKm = trips[j].startingKm
    OBVIOUS
  <1>1. ASSUME NEW r \in Request, NEW i \in Trip, InsertTrip(r, i)
        PROVE  trips'[j] = trips[j]
    BY <1>1 DEF InsertTrip, WellFormed, TypeOK
  <1>2. ASSUME NEW r \in Request, UpdateTrip(r)
        PROVE  /\ trips'[j].status # Null
               /\ trips'[j].driver = trips[j].driver
               /\ trips'[j].truck = trips[j].truck
               /\ trips'[j].startingKm = trips[j].startingKm
    BY <1>2 DEF UpdateTrip, Overwrite, WellFormed, TypeOK, JobOK, Exists
  <1>3. CASE UNCHANGED trips
    BY <1>3 DEF Exists
  <1>4. QED
    BY <1>1, <1>2, <1>3, TripsChange DEF Exists

\* Every copy of a final reading that a handler may still save is not below the first.
JobKm ==
    \A r \in Request : pc[r] \in TripLabel /\ job[r].entity.endingKm # Null =>
        job[r].entity.endingKm >= trips[job[r].trip].startingKm

LEMMA NextJobKm == WellFormed /\ JobKm /\ KmForward /\ [Next]_vars => JobKm'
  <1> SUFFICES ASSUME WellFormed, JobKm, KmForward, [Next]_vars,
                      NEW q \in Request, pc'[q] \in TripLabel, job'[q].entity.endingKm # Null
               PROVE  job'[q].entity.endingKm >= trips'[job'[q].trip].startingKm
    BY DEF JobKm
  <1> DEFINE P == job'[q].entity.endingKm >= trips'[job'[q].trip].startingKm
  <1>a. ASSUME job'[q] = job[q], pc[q] \in TripLabel
        PROVE  P
    BY <1>a, TripIdentity DEF WellFormed, JobOK, JobKm
  <1>b. ASSUME NEW i \in Trip, UNCHANGED trips, job'[q].trip = i,
               job'[q].entity.endingKm = trips[i].endingKm
        PROVE  P
    BY <1>b DEF KmForward
  <1> USE DEF WellFormed
  <1>1. ASSUME NEW r \in Request, NEW d \in Driver, NEW t \in Truck, NEW km \in Km, StartTrip(r, d, t, km)
        PROVE  P
    BY <1>1, <1>a, <1>b DEF StartTrip, Arrive, Busy, TypeOK, Goto, Finish
  <1>2. ASSUME NEW r \in Request, AcceptStart(r) PROVE P
    BY <1>2, <1>a, <1>b DEF AcceptStart, TypeOK, Goto, Finish
  <1>3. ASSUME NEW r \in Request, RejectStart(r) PROVE P
    BY <1>3, <1>a, <1>b DEF RejectStart, TypeOK, Goto, Finish
  <1>4. ASSUME NEW r \in Request, NEW i \in Trip, InsertTrip(r, i) PROVE P
    BY <1>4, <1>a, <1>b DEF InsertTrip, TypeOK, Goto, Finish
  <1>5. ASSUME NEW r \in Request, ActivateTruck(r) PROVE P
    BY <1>5, <1>a, <1>b DEF ActivateTruck, TypeOK, Goto, Finish
  <1>6. ASSUME NEW r \in Request, SeedGrace(r) PROVE P
    BY <1>6, <1>a, <1>b DEF SeedGrace, TypeOK, Goto, Finish
  <1>7. ASSUME NEW r \in Request, NEW d \in Driver, NEW i \in Trip, AddStops(r, d, i) PROVE P
    BY <1>7, <1>a, <1>b DEF AddStops, LoadTrip, LoadedWith, Arrive, Busy, TypeOK, Goto, Finish
  <1>8. ASSUME NEW r \in Request, NEW S \in SUBSET Stop, NEW type \in [S -> StopType], InsertStops(r, type)
        PROVE  P
    BY <1>8, <1>a, <1>b DEF InsertStops, TypeOK, Goto, Finish
  <1>9. ASSUME NEW r \in Request, NEW d \in Driver, NEW i \in Trip, NEW s \in Stop, ConfirmLoad(r, d, i, s)
        PROVE  P
    BY <1>9, <1>a, <1>b DEF ConfirmLoad, LoadTrip, LoadedWith, Arrive, Busy, AfterLoad, StopMatches, TypeOK, Goto, Finish
  <1>10. ASSUME NEW r \in Request, NEW d \in Driver, NEW i \in Trip, NEW s \in Stop, CompleteDelivery(r, d, i, s)
        PROVE  P
    BY <1>10, <1>a, <1>b DEF CompleteDelivery, LoadTrip, LoadedWith, Arrive, Busy, StopMatches, TypeOK, Goto, Finish
  <1>11. ASSUME NEW r \in Request, InsertPickup(r) PROVE P
    BY <1>11, <1>a, <1>b DEF InsertPickup, TypeOK, Goto, Finish
  <1>12. ASSUME NEW r \in Request, InsertDelivery(r) PROVE P
    BY <1>12, <1>a, <1>b DEF InsertDelivery, TypeOK, Goto, Finish
  <1>13. ASSUME NEW r \in Request, SaveConfirmedStop(r) PROVE P
    BY <1>13, <1>a, <1>b DEF SaveConfirmedStop, WithStatus, TypeOK, Goto, Finish
  <1>14. ASSUME NEW r \in Request, SaveCompletedStop(r) PROVE P
    BY <1>14, <1>a, <1>b DEF SaveCompletedStop, WithStatus, TypeOK, Goto, Finish
  <1>15. ASSUME NEW r \in Request, NEW d \in Driver, NEW i \in Trip, NEW km \in Km, EndTrip(r, d, i, km)
        PROVE  P
    BY <1>15, <1>a, <1>b DEF EndTrip, LoadTrip, LoadedWith, Arrive, Busy, TypeOK, Goto, Finish
  <1>16. ASSUME NEW r \in Request, SelectTrip(r) PROVE P
    BY <1>16, <1>a, <1>b DEF SelectTrip, Differing, TypeOK, Goto, Finish
  <1>17. ASSUME NEW r \in Request, UpdateTrip(r) PROVE P
    BY <1>17, <1>a, <1>b DEF UpdateTrip, Overwrite, TypeOK, Goto, Finish
  <1>18. ASSUME NEW r \in Request, TruckOffline(r) PROVE P
    BY <1>18, <1>a, <1>b DEF TruckOffline, TypeOK, Goto, Finish
  <1>19. ASSUME NEW r \in Request, Abort(r) PROVE P
    BY <1>19, <1>a, <1>b DEF Abort, TypeOK, Goto, Finish
  <1>20. CASE OthersSave
    BY <1>20, <1>a, <1>b DEF OthersSave, SaveDriver, SaveTruck, TypeOK, Goto, Finish
  <1>21. ASSUME NEW t \in Truck, GraceEnds(t) PROVE P
    BY <1>21, <1>a, <1>b DEF GraceEnds, TypeOK, Goto, Finish
  <1>22. CASE UNCHANGED vars
    BY <1>22, <1>a, <1>b DEF vars, TypeOK
  <1>23. QED
    BY <1>1, <1>2, <1>3, <1>4, <1>5, <1>6, <1>7, <1>8, <1>9, <1>10, <1>11, <1>12, <1>13, <1>14, <1>15, <1>16, <1>17, <1>18, <1>19, <1>20, <1>21, <1>22 DEF Next, Handle, Receive

LEMMA NextKmForward == WellFormed /\ JobKm /\ KmForward /\ [Next]_vars => KmForward'
  <1> SUFFICES ASSUME WellFormed, JobKm, KmForward, [Next]_vars,
                      NEW j \in Trip, trips'[j].endingKm # Null
               PROVE  trips'[j].endingKm >= trips'[j].startingKm
    BY DEF KmForward
  <1>1. ASSUME NEW r \in Request, NEW i \in Trip, InsertTrip(r, i)
        PROVE  trips'[j] = trips[j]
    BY <1>1 DEF InsertTrip, WellFormed, TypeOK
  <1>2. ASSUME NEW r \in Request, UpdateTrip(r)
        PROVE  trips'[j].endingKm >= trips'[j].startingKm
    BY <1>2 DEF UpdateTrip, Overwrite, WellFormed, TypeOK, JobOK, JobKm, KmForward
  <1>3. CASE trips'[j] = trips[j]
    BY <1>3 DEF KmForward
  <1>4. QED
    BY <1>1, <1>2, <1>3, TripsChange

\* No stale copy brings a final reading below the first into a row.
THEOREM KmForwardHolds == Spec => []KmForward
  <1>1. Init => JobKm /\ KmForward
    BY DEF Init, JobKm, KmForward
  <1>2. WellFormed /\ JobKm /\ KmForward /\ [Next]_vars => (JobKm /\ KmForward)'
    BY NextJobKm, NextKmForward
  <1>3. QED
    BY <1>1, <1>2, WellFormedness, PTL DEF Spec

-----------------------------------------------------------------------------
(* Drivers whose requests come one at a time *)

\* A driver has at most one request in flight.
OneAtATime ==
    \A q, r \in Request :
        pc[q] # "idle" /\ pc[r] # "idle" /\ job[q].driver = job[r].driver => q = r

LEMMA OneAtATimeHolds == "overlap" \notin Disorder /\ Spec => []OneAtATime
  <1> SUFFICES ASSUME "overlap" \notin Disorder
               PROVE  Spec => []OneAtATime
    OBVIOUS
  <1>1. Init => OneAtATime
    BY DEF Init, OneAtATime
  <1>2. WellFormed /\ OneAtATime /\ [Next]_vars => OneAtATime'
    <2> SUFFICES ASSUME WellFormed, OneAtATime, [Next]_vars
                 PROVE  OneAtATime'
      OBVIOUS
    <2> USE DEF WellFormed
    <2>1. ASSUME NEW r \in Request, NEW d \in Driver, NEW t \in Truck, NEW km \in Km, StartTrip(r, d, t, km)
          PROVE  OneAtATime'
      BY <2>1 DEF StartTrip, Arrive, Busy, TypeOK, OneAtATime, Goto, Finish
    <2>2. ASSUME NEW r \in Request, AcceptStart(r) PROVE OneAtATime'
      BY <2>2 DEF AcceptStart, TypeOK, OneAtATime, Goto, Finish, Busy
    <2>3. ASSUME NEW r \in Request, RejectStart(r) PROVE OneAtATime'
      BY <2>3 DEF RejectStart, TypeOK, OneAtATime, Goto, Finish, Busy
    <2>4. ASSUME NEW r \in Request, NEW i \in Trip, InsertTrip(r, i) PROVE OneAtATime'
      BY <2>4 DEF InsertTrip, TypeOK, OneAtATime, Goto, Finish, Busy
    <2>5. ASSUME NEW r \in Request, ActivateTruck(r) PROVE OneAtATime'
      BY <2>5 DEF ActivateTruck, TypeOK, OneAtATime, Goto, Finish, Busy
    <2>6. ASSUME NEW r \in Request, SeedGrace(r) PROVE OneAtATime'
      BY <2>6 DEF SeedGrace, TypeOK, OneAtATime, Goto, Finish, Busy
    <2>7. ASSUME NEW r \in Request, NEW d \in Driver, NEW i \in Trip, AddStops(r, d, i)
          PROVE  OneAtATime'
      BY <2>7 DEF AddStops, LoadTrip, LoadedWith, Arrive, Busy, TypeOK, OneAtATime, Goto, Finish
    <2>8. ASSUME NEW r \in Request, NEW S \in SUBSET Stop, NEW type \in [S -> StopType], InsertStops(r, type)
          PROVE  OneAtATime'
      BY <2>8 DEF InsertStops, TypeOK, OneAtATime, Goto, Finish, Busy
    <2>9. ASSUME NEW r \in Request, NEW d \in Driver, NEW i \in Trip, NEW s \in Stop, ConfirmLoad(r, d, i, s)
          PROVE  OneAtATime'
      BY <2>9 DEF ConfirmLoad, LoadTrip, LoadedWith, Arrive, Busy, AfterLoad, StopMatches, TypeOK, OneAtATime, Goto, Finish, Busy
    <2>10. ASSUME NEW r \in Request, NEW d \in Driver, NEW i \in Trip, NEW s \in Stop, CompleteDelivery(r, d, i, s)
          PROVE  OneAtATime'
      BY <2>10 DEF CompleteDelivery, LoadTrip, LoadedWith, Arrive, Busy, StopMatches, TypeOK, OneAtATime, Goto, Finish, Busy
    <2>11. ASSUME NEW r \in Request, InsertPickup(r) PROVE OneAtATime'
      BY <2>11 DEF InsertPickup, TypeOK, OneAtATime, Goto, Finish, Busy
    <2>12. ASSUME NEW r \in Request, InsertDelivery(r) PROVE OneAtATime'
      BY <2>12 DEF InsertDelivery, TypeOK, OneAtATime, Goto, Finish, Busy
    <2>13. ASSUME NEW r \in Request, SaveConfirmedStop(r) PROVE OneAtATime'
      BY <2>13 DEF SaveConfirmedStop, WithStatus, TypeOK, OneAtATime, Goto, Finish, Busy
    <2>14. ASSUME NEW r \in Request, SaveCompletedStop(r) PROVE OneAtATime'
      BY <2>14 DEF SaveCompletedStop, WithStatus, TypeOK, OneAtATime, Goto, Finish, Busy
    <2>15. ASSUME NEW r \in Request, NEW d \in Driver, NEW i \in Trip, NEW km \in Km, EndTrip(r, d, i, km)
          PROVE  OneAtATime'
      BY <2>15 DEF EndTrip, LoadTrip, LoadedWith, Arrive, Busy, TypeOK, OneAtATime, Goto, Finish
    <2>16. ASSUME NEW r \in Request, SelectTrip(r) PROVE OneAtATime'
      BY <2>16 DEF SelectTrip, Differing, TypeOK, OneAtATime, Goto, Finish, Busy
    <2>17. ASSUME NEW r \in Request, UpdateTrip(r) PROVE OneAtATime'
      BY <2>17 DEF UpdateTrip, Overwrite, TypeOK, OneAtATime, Goto, Finish, Busy
    <2>18. ASSUME NEW r \in Request, TruckOffline(r) PROVE OneAtATime'
      BY <2>18 DEF TruckOffline, TypeOK, OneAtATime, Goto, Finish, Busy
    <2>19. ASSUME NEW r \in Request, Abort(r) PROVE OneAtATime'
      BY <2>19 DEF Abort, TypeOK, OneAtATime, Goto, Finish, Busy
    <2>20. CASE OthersSave
      BY <2>20 DEF OthersSave, SaveDriver, SaveTruck, TypeOK, OneAtATime, Goto, Finish, Busy
    <2>21. ASSUME NEW t \in Truck, GraceEnds(t) PROVE OneAtATime'
      BY <2>21 DEF GraceEnds, TypeOK, OneAtATime, Goto, Finish, Busy
    <2>22. CASE UNCHANGED vars
      BY <2>22 DEF vars, OneAtATime
    <2>23. QED
      BY <2>1, <2>2, <2>3, <2>4, <2>5, <2>6, <2>7, <2>8, <2>9, <2>10, <2>11, <2>12, <2>13, <2>14, <2>15, <2>16, <2>17, <2>18, <2>19, <2>20, <2>21, <2>22 DEF Next, Handle, Receive
  <1>3. QED
    BY <1>1, <1>2, WellFormedness, PTL DEF Spec

-----------------------------------------------------------------------------
(* The distance of a trip *)

\* The final reading and the distance of endTrip's copy agree; every other copy
\* holds what the row holds; and what save() leaves out already agrees.
JobArithmetic ==
    \A r \in Request : pc[r] \in TripLabel \ {"truckOffline"} =>
        LET row == trips[job[r].trip]
            e == job[r].entity
        IN  IF job[r].op = "endTrip"
            THEN /\ e.endingKm \in Km
                 /\ e.totalKm = e.endingKm - row.startingKm
                 /\ e.totalKm \in Nat
                 /\ pc[r] = "updateTrip" =>
                        /\ "totalKm" \in changed[r]
                        /\ "endingKm" \notin changed[r] => row.endingKm = e.endingKm
            ELSE e.endingKm = row.endingKm /\ e.totalKm = row.totalKm

Arithmetic == JobArithmetic /\ KmConsistent

LEMMA NextJobArithmetic ==
    WellFormed /\ OneAtATime /\ JobArithmetic /\ [Next]_vars => JobArithmetic'
  <1> SUFFICES ASSUME WellFormed, OneAtATime, JobArithmetic, [Next]_vars
               PROVE  JobArithmetic'
    OBVIOUS
  <1> USE DEF WellFormed
  <1>1. ASSUME NEW r \in Request, NEW d \in Driver, NEW t \in Truck, NEW km \in Km, StartTrip(r, d, t, km)
        PROVE  JobArithmetic'
    BY <1>1 DEF StartTrip, Arrive, Busy, TypeOK, JobOK, JobArithmetic, Goto, Finish
  <1>2. ASSUME NEW r \in Request, AcceptStart(r) PROVE JobArithmetic'
    BY <1>2 DEF AcceptStart, TypeOK, JobOK, JobArithmetic, Goto, Finish
  <1>3. ASSUME NEW r \in Request, RejectStart(r) PROVE JobArithmetic'
    BY <1>3 DEF RejectStart, TypeOK, JobOK, JobArithmetic, Goto, Finish
  <1>4. ASSUME NEW r \in Request, NEW i \in Trip, InsertTrip(r, i) PROVE JobArithmetic'
    BY <1>4 DEF InsertTrip, TypeOK, JobOK, JobArithmetic, Goto, Finish
  <1>5. ASSUME NEW r \in Request, ActivateTruck(r) PROVE JobArithmetic'
    BY <1>5 DEF ActivateTruck, TypeOK, JobOK, JobArithmetic, Goto, Finish
  <1>6. ASSUME NEW r \in Request, SeedGrace(r) PROVE JobArithmetic'
    BY <1>6 DEF SeedGrace, TypeOK, JobOK, JobArithmetic, Goto, Finish
  <1>7. ASSUME NEW r \in Request, NEW d \in Driver, NEW i \in Trip, AddStops(r, d, i)
        PROVE  JobArithmetic'
    BY <1>7 DEF AddStops, LoadTrip, LoadedWith, Arrive, Busy, TypeOK, JobOK, JobArithmetic, Goto, Finish
  <1>8. ASSUME NEW r \in Request, NEW S \in SUBSET Stop, NEW type \in [S -> StopType], InsertStops(r, type)
        PROVE  JobArithmetic'
    BY <1>8 DEF InsertStops, TypeOK, JobOK, JobArithmetic, Goto, Finish
  <1>9. ASSUME NEW r \in Request, NEW d \in Driver, NEW i \in Trip, NEW s \in Stop, ConfirmLoad(r, d, i, s)
        PROVE  JobArithmetic'
    BY <1>9 DEF ConfirmLoad, LoadTrip, LoadedWith, Arrive, Busy, AfterLoad, StopMatches, TypeOK, JobOK, JobArithmetic, Goto, Finish
  <1>10. ASSUME NEW r \in Request, NEW d \in Driver, NEW i \in Trip, NEW s \in Stop, CompleteDelivery(r, d, i, s)
        PROVE  JobArithmetic'
    BY <1>10 DEF CompleteDelivery, LoadTrip, LoadedWith, Arrive, Busy, StopMatches, TypeOK, JobOK, JobArithmetic, Goto, Finish
  <1>11. ASSUME NEW r \in Request, InsertPickup(r) PROVE JobArithmetic'
    BY <1>11 DEF InsertPickup, TypeOK, JobOK, JobArithmetic, Goto, Finish
  <1>12. ASSUME NEW r \in Request, InsertDelivery(r) PROVE JobArithmetic'
    BY <1>12 DEF InsertDelivery, TypeOK, JobOK, JobArithmetic, Goto, Finish
  <1>13. ASSUME NEW r \in Request, SaveConfirmedStop(r) PROVE JobArithmetic'
    BY <1>13 DEF SaveConfirmedStop, WithStatus, TypeOK, JobOK, JobArithmetic, Goto, Finish
  <1>14. ASSUME NEW r \in Request, SaveCompletedStop(r) PROVE JobArithmetic'
    BY <1>14 DEF SaveCompletedStop, WithStatus, TypeOK, JobOK, JobArithmetic, Goto, Finish
  <1>15. ASSUME NEW r \in Request, NEW d \in Driver, NEW i \in Trip, NEW km \in Km, EndTrip(r, d, i, km)
        PROVE  JobArithmetic'
    <2> DEFINE n == km - trips[i].startingKm
               e == [status |-> "COMPLETED", endingKm |-> km, totalKm |-> n]
    <2>0. trips[i] \in TripRow
      BY DEF TypeOK
    <2>1. km \in Nat /\ trips[i].startingKm \in Nat
      BY <2>0, ReadingNat
    <2>2. n \in Nat
      BY <1>15, <2>1, SMT DEF EndTrip
    <2>3. /\ pc' = [pc EXCEPT ![r] = "selectTrip"]
          /\ job' = [job EXCEPT ![r] =
                [op |-> "endTrip", driver |-> d, truck |-> Null, held |-> Null, km |-> 0,
                 trip |-> i, stop |-> Null, entity |-> e]]
          /\ UNCHANGED <<trips, changed>>
      BY <1>15 DEF EndTrip, LoadTrip, Arrive
    <2>4. e.endingKm \in Km /\ e.totalKm = e.endingKm - trips[i].startingKm /\ e.totalKm \in Nat
      BY <2>2
    <2> HIDE DEF e
    <2>5. SUFFICES ASSUME NEW q \in Request, pc'[q] \in TripLabel \ {"truckOffline"}
                   PROVE  JobArithmetic!(q)'
      BY DEF JobArithmetic
    <2>6. CASE q = r
      BY <2>3, <2>4, <2>6 DEF TypeOK
    <2>7. CASE q # r
      BY <2>3, <2>5, <2>7 DEF TypeOK, JobArithmetic
    <2>8. QED
      BY <2>6, <2>7
  <1>16. ASSUME NEW r \in Request, SelectTrip(r) PROVE JobArithmetic'
    BY <1>16 DEF SelectTrip, Differing, TypeOK, JobOK, JobArithmetic, Goto, Finish
  <1>17. ASSUME NEW r \in Request, UpdateTrip(r) PROVE JobArithmetic'
    <2>1. pc'[r] \in {"truckOffline", "idle"}
      BY <1>17 DEF UpdateTrip, Goto, Finish, TypeOK
    <2>2. ASSUME NEW q \in Request, q # r
          PROVE  pc'[q] = pc[q] /\ job'[q] = job[q] /\ changed'[q] = changed[q]
      BY <1>17, <2>2 DEF UpdateTrip, Goto, Finish, TypeOK
    <2>3. ASSUME NEW q \in Request, q # r, pc[q] \in TripLabel
          PROVE  trips'[job[q].trip] = trips[job[q].trip]
      <3>1. pc[r] \in TripLabel
        BY <1>17 DEF UpdateTrip
      <3>2. job[q].trip # job[r].trip
        BY <2>3, <3>1 DEF OneAtATime, JobOK
      <3>3. QED
        BY <1>17, <2>3, <3>2 DEF UpdateTrip, TypeOK, JobOK
    <2>4. QED
      BY <2>1, <2>2, <2>3 DEF JobArithmetic
  <1>18. ASSUME NEW r \in Request, TruckOffline(r) PROVE JobArithmetic'
    BY <1>18 DEF TruckOffline, TypeOK, JobOK, JobArithmetic, Goto, Finish
  <1>19. ASSUME NEW r \in Request, Abort(r) PROVE JobArithmetic'
    BY <1>19 DEF Abort, TypeOK, JobOK, JobArithmetic, Goto, Finish
  <1>20. CASE OthersSave
    BY <1>20 DEF OthersSave, SaveDriver, SaveTruck, TypeOK, JobOK, JobArithmetic, Goto, Finish
  <1>21. ASSUME NEW t \in Truck, GraceEnds(t) PROVE JobArithmetic'
    BY <1>21 DEF GraceEnds, TypeOK, JobOK, JobArithmetic, Goto, Finish
  <1>22. CASE UNCHANGED vars
    BY <1>22 DEF vars, TypeOK, JobArithmetic
  <1>23. QED
    BY <1>1, <1>2, <1>3, <1>4, <1>5, <1>6, <1>7, <1>8, <1>9, <1>10, <1>11, <1>12, <1>13, <1>14, <1>15, <1>16, <1>17, <1>18, <1>19, <1>20, <1>21, <1>22 DEF Next, Handle, Receive

LEMMA NextKmConsistent ==
    WellFormed /\ Arithmetic /\ [Next]_vars => KmConsistent'
  <1> SUFFICES ASSUME WellFormed, Arithmetic, [Next]_vars
               PROVE  KmConsistent'
    OBVIOUS
  <1>1. ASSUME NEW r \in Request, NEW i \in Trip, InsertTrip(r, i)
        PROVE  KmConsistent'
    BY <1>1 DEF InsertTrip, Arithmetic, KmConsistent, WellFormed, TypeOK
  <1>2. ASSUME NEW r \in Request, UpdateTrip(r)
        PROVE  KmConsistent'
    <2> DEFINE i == job[r].trip
               e == job[r].entity
               row == Overwrite(trips[i], e, changed[r])
    <2>1. /\ i \in Trip /\ trips[i] \in TripRow /\ e \in Entity
          /\ trips' = [trips EXCEPT ![i] = row]
          /\ pc[r] \in TripLabel \ {"truckOffline"}
          /\ pc[r] = "updateTrip"
      BY <1>2 DEF UpdateTrip, WellFormed, TypeOK, JobOK
    <2>2. /\ row.startingKm = trips[i].startingKm
          /\ row.endingKm = IF "endingKm" \in changed[r] THEN e.endingKm ELSE trips[i].endingKm
          /\ row.totalKm = IF "totalKm" \in changed[r] THEN e.totalKm ELSE trips[i].totalKm
      BY DEF Overwrite
    <2> HIDE DEF row
    <2>3. CASE job[r].op = "endTrip"
      <3>1. row.endingKm = e.endingKm /\ row.totalKm = e.totalKm
        BY <2>1, <2>2, <2>3 DEF Arithmetic, JobArithmetic
      <3>2. e.endingKm # Null /\ e.totalKm # Null /\ e.totalKm = e.endingKm - trips[i].startingKm
        BY <2>1, <2>3, ReadingNat DEF Arithmetic, JobArithmetic
      <3>3. QED
        BY <2>1, <2>2, <3>1, <3>2 DEF Arithmetic, KmConsistent, WellFormed, TypeOK
    <2>4. CASE job[r].op # "endTrip"
      <3>1. row.endingKm = trips[i].endingKm /\ row.totalKm = trips[i].totalKm
        BY <2>1, <2>2, <2>4 DEF Arithmetic, JobArithmetic
      <3>2. QED
        BY <2>1, <2>2, <3>1 DEF Arithmetic, KmConsistent, WellFormed, TypeOK
    <2>5. QED
      BY <2>3, <2>4
  <1>3. CASE UNCHANGED trips
    BY <1>3 DEF Arithmetic, KmConsistent
  <1>4. QED
    BY <1>1, <1>2, <1>3, TripsChange

LEMMA ArithmeticInvariant == "overlap" \notin Disorder /\ Spec => []Arithmetic
  <1> SUFFICES ASSUME "overlap" \notin Disorder
               PROVE  Spec => []Arithmetic
    OBVIOUS
  <1>1. Init => Arithmetic
    BY DEF Init, Arithmetic, JobArithmetic, KmConsistent
  <1>2. WellFormed /\ OneAtATime /\ Arithmetic /\ [Next]_vars => Arithmetic'
    BY NextJobArithmetic, NextKmConsistent DEF Arithmetic
  <1>3. Spec => []OneAtATime
    BY OneAtATimeHolds
  <1>4. QED
    BY <1>1, <1>2, <1>3, WellFormedness, PTL DEF Spec

\* A driver who waits for each answer has distances that are the difference of
\* the readings, whichever handlers fail and whichever trip a request names.
THEOREM KmConsistentHolds == "overlap" \notin Disorder /\ Spec => []KmConsistent
  <1>1. Arithmetic => KmConsistent
    BY DEF Arithmetic
  <1>2. QED
    BY <1>1, ArithmeticInvariant, PTL

-----------------------------------------------------------------------------
(* One open trip, and the contract *)

\* The search of startTrip stays true up to its insert, the trip a handler loaded
\* stays open until that handler saves it, and the save of endTrip closes it.
JobOpen ==
    \A r \in Request :
        /\ pc[r] = "insertTrip" => ~HasOpenTrip(job[r].driver)
        /\ pc[r] \in TripLabel \ {"truckOffline"} => Open(job[r].trip)
        /\ pc[r] = "updateTrip" /\ job[r].op = "endTrip" => "status" \in changed[r]

Orderliness == JobStatus /\ JobOpen /\ OneActiveTripPerDriver

\* A handler's save of its trip touches no other trip, and closes or leaves open.
LEMMA UpdateOpen ==
    ASSUME WellFormed, JobStatus, JobOpen, NEW r \in Request, UpdateTrip(r)
    PROVE  /\ job[r].trip \in Trip /\ Open(job[r].trip)
           /\ \A j \in Trip \ {job[r].trip} : trips'[j] = trips[j]
           /\ trips'[job[r].trip].driver = trips[job[r].trip].driver
           /\ IF job[r].op = "endTrip"
              THEN trips'[job[r].trip].status = "COMPLETED"
              ELSE trips'[job[r].trip].status \notin {Null, "COMPLETED"}
  <1> DEFINE i == job[r].trip
             row == Overwrite(trips[i], job[r].entity, changed[r])
  <1>1. /\ pc[r] = "updateTrip" /\ pc[r] \in TripLabel \ {"truckOffline"}
        /\ trips' = [trips EXCEPT ![i] = row]
    BY DEF UpdateTrip
  <1>2. i \in Trip /\ Open(i) /\ trips[i] \in TripRow /\ job[r].op \in Operation \ {"startTrip"}
    BY <1>1 DEF WellFormed, TypeOK, JobOK, JobOpen
  <1>3. row.driver = trips[i].driver
    BY DEF Overwrite
  <1>4. row.status = IF "status" \in changed[r] THEN job[r].entity.status ELSE trips[i].status
    BY DEF Overwrite
  <1>5. IF job[r].op = "endTrip" THEN row.status = "COMPLETED" ELSE row.status \notin {Null, "COMPLETED"}
    BY <1>1, <1>2, <1>4 DEF JobOpen, JobStatus, Open, Exists
  <1> HIDE DEF row
  <1>6. QED
    BY <1>1, <1>2, <1>3, <1>5 DEF WellFormed, TypeOK

LEMMA NextJobOpen ==
    WellFormed /\ OneAtATime /\ Orderliness /\ "replay" \notin Disorder /\ [Next]_vars
        => JobOpen'
  <1> SUFFICES ASSUME WellFormed, OneAtATime, Orderliness, "replay" \notin Disorder, [Next]_vars
               PROVE  JobOpen'
    OBVIOUS
  <1> USE DEF WellFormed, Orderliness
  <1>1. ASSUME NEW r \in Request, NEW d \in Driver, NEW t \in Truck, NEW km \in Km, StartTrip(r, d, t, km)
        PROVE  JobOpen'
    BY <1>1 DEF StartTrip, Arrive, Busy, TypeOK, JobOK, JobOpen, HasOpenTrip, Open, Exists, Goto, Finish
  <1>2. ASSUME NEW r \in Request, AcceptStart(r) PROVE JobOpen'
    BY <1>2 DEF AcceptStart, TypeOK, JobOK, JobOpen, HasOpenTrip, Open, Exists, Goto, Finish
  <1>3. ASSUME NEW r \in Request, RejectStart(r) PROVE JobOpen'
    BY <1>3 DEF RejectStart, TypeOK, JobOK, JobOpen, HasOpenTrip, Open, Exists, Goto, Finish
  <1>4. ASSUME NEW r \in Request, NEW i \in Trip, InsertTrip(r, i) PROVE JobOpen'
    <2>1. ASSUME NEW q \in Request, pc'[q] = "insertTrip"
          PROVE  ~HasOpenTrip(job[q].driver)' /\ job'[q] = job[q]
      <3>1. q # r /\ pc[q] = "insertTrip" /\ job'[q] = job[q]
        BY <1>4, <2>1 DEF InsertTrip, Goto, TypeOK
      <3>2. job[q].driver # job[r].driver
        BY <1>4, <3>1 DEF InsertTrip, OneAtATime
      <3>3. QED
        BY <1>4, <3>1, <3>2 DEF InsertTrip, HasOpenTrip, Open, Exists, TypeOK, JobOpen
    <2>2. ASSUME NEW q \in Request, pc'[q] \in TripLabel \ {"truckOffline"}
          PROVE  Open(job[q].trip)' /\ pc'[q] = pc[q] /\ job'[q] = job[q] /\ changed'[q] = changed[q]
      BY <1>4, <2>2 DEF InsertTrip, Goto, TypeOK, JobOK, JobOpen, Open, Exists
    <2>3. QED
      BY <2>1, <2>2 DEF JobOpen, HasOpenTrip, Open, Exists
  <1>5. ASSUME NEW r \in Request, ActivateTruck(r) PROVE JobOpen'
    BY <1>5 DEF ActivateTruck, TypeOK, JobOK, JobOpen, HasOpenTrip, Open, Exists, Goto, Finish
  <1>6. ASSUME NEW r \in Request, SeedGrace(r) PROVE JobOpen'
    BY <1>6 DEF SeedGrace, TypeOK, JobOK, JobOpen, HasOpenTrip, Open, Exists, Goto, Finish
  <1>7. ASSUME NEW r \in Request, NEW d \in Driver, NEW i \in Trip, AddStops(r, d, i) PROVE JobOpen'
    BY <1>7 DEF AddStops, LoadTrip, LoadedWith, Arrive, Busy, TypeOK, JobOK, JobOpen, HasOpenTrip, Open, Exists, Goto, Finish
  <1>8. ASSUME NEW r \in Request, NEW S \in SUBSET Stop, NEW type \in [S -> StopType], InsertStops(r, type)
        PROVE  JobOpen'
    BY <1>8 DEF InsertStops, TypeOK, JobOK, JobOpen, HasOpenTrip, Open, Exists, Goto, Finish
  <1>9. ASSUME NEW r \in Request, NEW d \in Driver, NEW i \in Trip, NEW s \in Stop, ConfirmLoad(r, d, i, s)
        PROVE  JobOpen'
    BY <1>9 DEF ConfirmLoad, LoadTrip, LoadedWith, Arrive, Busy, AfterLoad, StopMatches, TypeOK, JobOK, JobOpen, HasOpenTrip, Open, Exists, Goto, Finish
  <1>10. ASSUME NEW r \in Request, NEW d \in Driver, NEW i \in Trip, NEW s \in Stop, CompleteDelivery(r, d, i, s)
        PROVE  JobOpen'
    BY <1>10 DEF CompleteDelivery, LoadTrip, LoadedWith, Arrive, Busy, StopMatches, TypeOK, JobOK, JobOpen, HasOpenTrip, Open, Exists, Goto, Finish
  <1>11. ASSUME NEW r \in Request, InsertPickup(r) PROVE JobOpen'
    BY <1>11 DEF InsertPickup, TypeOK, JobOK, JobOpen, HasOpenTrip, Open, Exists, Goto, Finish
  <1>12. ASSUME NEW r \in Request, InsertDelivery(r) PROVE JobOpen'
    BY <1>12 DEF InsertDelivery, TypeOK, JobOK, JobOpen, HasOpenTrip, Open, Exists, Goto, Finish
  <1>13. ASSUME NEW r \in Request, SaveConfirmedStop(r) PROVE JobOpen'
    BY <1>13 DEF SaveConfirmedStop, WithStatus, TypeOK, JobOK, JobOpen, HasOpenTrip, Open, Exists, Goto, Finish
  <1>14. ASSUME NEW r \in Request, SaveCompletedStop(r) PROVE JobOpen'
    BY <1>14 DEF SaveCompletedStop, WithStatus, TypeOK, JobOK, JobOpen, HasOpenTrip, Open, Exists, Goto, Finish
  <1>15. ASSUME NEW r \in Request, NEW d \in Driver, NEW i \in Trip, NEW km \in Km, EndTrip(r, d, i, km)
        PROVE  JobOpen'
    BY <1>15 DEF EndTrip, LoadTrip, LoadedWith, Arrive, Busy, TypeOK, JobOK, JobOpen, HasOpenTrip, Open, Exists, Goto, Finish
  <1>16. ASSUME NEW r \in Request, SelectTrip(r) PROVE JobOpen'
    BY <1>16 DEF SelectTrip, Differing, TypeOK, JobOK, JobStatus, JobOpen, HasOpenTrip, Open, Exists, Goto, Finish
  <1>17. ASSUME NEW r \in Request, UpdateTrip(r) PROVE JobOpen'
    <2>1. /\ pc[r] \in TripLabel
          /\ pc'[r] \in {"truckOffline", "idle"}
      BY <1>17 DEF UpdateTrip, Goto, Finish, TypeOK
    <2>2. ASSUME NEW q \in Request, q # r
          PROVE  pc'[q] = pc[q] /\ job'[q] = job[q] /\ changed'[q] = changed[q]
      BY <1>17, <2>2 DEF UpdateTrip, Goto, Finish, TypeOK
    <2>3. \A j \in Trip : Open(j)' => Open(j) /\ trips'[j].driver = trips[j].driver
      BY <1>17, UpdateOpen DEF Open, Exists
    <2>4. ASSUME NEW q \in Request, q # r, pc[q] \in TripLabel
          PROVE  trips'[job[q].trip] = trips[job[q].trip]
      <3>1. job[q].trip \in Trip \ {job[r].trip}
        BY <2>1, <2>4 DEF OneAtATime, JobOK
      <3>2. QED
        BY <1>17, <3>1, UpdateOpen
    <2>5. ASSUME NEW q \in Request, pc'[q] = "insertTrip"
          PROVE  ~HasOpenTrip(job[q].driver)'
      BY <2>1, <2>2, <2>3, <2>5 DEF JobOpen, HasOpenTrip
    <2>6. ASSUME NEW q \in Request, pc'[q] \in TripLabel \ {"truckOffline"}
          PROVE  Open(job[q].trip)'
      BY <2>1, <2>2, <2>4, <2>6 DEF JobOpen, Open, Exists
    <2>7. QED
      BY <2>1, <2>2, <2>5, <2>6 DEF JobOpen, HasOpenTrip, Open, Exists
  <1>18. ASSUME NEW r \in Request, TruckOffline(r) PROVE JobOpen'
    BY <1>18 DEF TruckOffline, TypeOK, JobOK, JobOpen, HasOpenTrip, Open, Exists, Goto, Finish
  <1>19. ASSUME NEW r \in Request, Abort(r) PROVE JobOpen'
    BY <1>19 DEF Abort, TypeOK, JobOK, JobOpen, HasOpenTrip, Open, Exists, Goto, Finish
  <1>20. CASE OthersSave
    BY <1>20 DEF OthersSave, SaveDriver, SaveTruck, TypeOK, JobOK, JobOpen, HasOpenTrip, Open, Exists, Goto, Finish
  <1>21. ASSUME NEW t \in Truck, GraceEnds(t) PROVE JobOpen'
    BY <1>21 DEF GraceEnds, TypeOK, JobOK, JobOpen, HasOpenTrip, Open, Exists, Goto, Finish
  <1>22. CASE UNCHANGED vars
    BY <1>22 DEF vars, TypeOK, JobOpen, HasOpenTrip, Open, Exists
  <1>23. QED
    BY <1>1, <1>2, <1>3, <1>4, <1>5, <1>6, <1>7, <1>8, <1>9, <1>10, <1>11, <1>12, <1>13, <1>14, <1>15, <1>16, <1>17, <1>18, <1>19, <1>20, <1>21, <1>22 DEF Next, Handle, Receive

LEMMA NextOneActive ==
    WellFormed /\ Orderliness /\ [Next]_vars => OneActiveTripPerDriver'
  <1> SUFFICES ASSUME WellFormed, Orderliness, [Next]_vars
               PROVE  OneActiveTripPerDriver'
    OBVIOUS
  <1> USE DEF Orderliness
  <1>1. ASSUME NEW r \in Request, NEW i \in Trip, InsertTrip(r, i)
        PROVE  OneActiveTripPerDriver'
    BY <1>1 DEF InsertTrip, WellFormed, TypeOK, JobOpen, OneActiveTripPerDriver, HasOpenTrip, Open, Exists
  <1>2. ASSUME NEW r \in Request, UpdateTrip(r)
        PROVE  OneActiveTripPerDriver'
    <2>1. \A j \in Trip : Open(j)' => Open(j) /\ trips'[j].driver = trips[j].driver
      BY <1>2, UpdateOpen DEF Open, Exists
    <2>2. QED
      BY <2>1 DEF OneActiveTripPerDriver
  <1>3. CASE UNCHANGED trips
    BY <1>3 DEF OneActiveTripPerDriver, Open, Exists
  <1>4. QED
    BY <1>1, <1>2, <1>3, TripsChange

LEMMA OrderlinessInvariant ==
    "overlap" \notin Disorder /\ "replay" \notin Disorder /\ Spec => []Orderliness
  <1> SUFFICES ASSUME "overlap" \notin Disorder, "replay" \notin Disorder
               PROVE  Spec => []Orderliness
    OBVIOUS
  <1>1. Init => Orderliness
    BY DEF Init, Orderliness, JobStatus, JobOpen, OneActiveTripPerDriver, Open, Exists
  <1>2. WellFormed /\ OneAtATime /\ Orderliness /\ [Next]_vars => Orderliness'
    BY NextJobStatus, NextJobOpen, NextOneActive DEF Orderliness
  <1>3. Spec => []OneAtATime
    BY OneAtATimeHolds
  <1>4. QED
    BY <1>1, <1>2, <1>3, WellFormedness, PTL DEF Spec

\* A driver who waits for each answer and leaves finished trips alone never has
\* two open trips, whatever fails and whatever the office does.
THEOREM OneActiveTripHolds ==
    "overlap" \notin Disorder /\ "replay" \notin Disorder /\ Spec => []OneActiveTripPerDriver
  <1>1. Orderliness => OneActiveTripPerDriver
    BY DEF Orderliness
  <1>2. QED
    BY <1>1, OrderlinessInvariant, PTL

LEMMA InitContract == Init => Contract!Init
  BY DEF Init, Contract!Init, PhaseOf

LEMMA DistancesHold == \A k, m \in Km : k - m \in Nat => k - m \in Distances
  BY DEF Distances

LEMMA StepContract ==
    WellFormed /\ Arithmetic /\ Orderliness /\ [Next]_vars => [Contract!Next]_(Contract!vars)
  <1> SUFFICES ASSUME WellFormed, Arithmetic, Orderliness, [Next]_vars
               PROVE  [Contract!Next]_(Contract!vars)
    OBVIOUS
  <1> USE DEF Orderliness, Contract!vars
  <1>1. ASSUME NEW r \in Request, NEW i \in Trip, InsertTrip(r, i)
        PROVE  [Contract!Next]_(Contract!vars)
    <2> DEFINE new == [driver |-> job[r].driver, truck |-> job[r].truck, status |-> "CREATED",
                       startingKm |-> job[r].km, endingKm |-> Null, totalKm |-> Null]
    <2>1. /\ trips[i] = NoTrip
          /\ job[r].driver \in Driver
          /\ trips' = [trips EXCEPT ![i] = new]
          /\ ~HasOpenTrip(job[r].driver)
      BY <1>1 DEF InsertTrip, WellFormed, RowsOK, JobOK, JobOpen
    <2>2. new.status = "CREATED" /\ new.driver = job[r].driver /\ new.totalKm = Null
      OBVIOUS
    <2> HIDE DEF new
    <2>3. \A j \in Trip : PhaseOf(trips[j].status) = "open" => Open(j)
      BY DEF PhaseOf, Open, Exists
    <2>4. PhaseOf(trips[i].status) = "none" /\ trips[i].totalKm = Null /\ PhaseOf(new.status) = "open"
      BY <2>1, <2>2 DEF PhaseOf
    <2>5. trips'[i] = new /\ \A j \in Trip \ {i} : trips'[j] = trips[j]
      BY <2>1 DEF WellFormed, TypeOK
    <2>6. \A j \in Trip : PhaseOf(trips[j].status) = "open" => trips[j].driver # job[r].driver
      BY <2>1, <2>3 DEF HasOpenTrip
    <2>7. [j \in Trip |-> PhaseOf(trips[j].status)]'
            = [[j \in Trip |-> PhaseOf(trips[j].status)] EXCEPT ![i] = "open"]
      BY <2>4, <2>5
    <2>8. [j \in Trip |-> trips[j].driver]'
            = [[j \in Trip |-> trips[j].driver] EXCEPT ![i] = job[r].driver]
      BY <2>2, <2>5
    <2>9. UNCHANGED [j \in Trip |-> trips[j].totalKm]
      BY <2>2, <2>4, <2>5
    <2>10. PICK d \in Driver : d = job[r].driver
      BY <2>1
    <2>11. Contract!Begin(i, d)
      BY <2>1, <2>4, <2>6, <2>7, <2>8, <2>9, <2>10 DEF Contract!Begin
    <2>12. QED
      BY <2>11 DEF Contract!Next
  <1>2. ASSUME NEW r \in Request, UpdateTrip(r)
        PROVE  [Contract!Next]_(Contract!vars)
    <2> DEFINE i == job[r].trip
               e == job[r].entity
    <2>1. /\ i \in Trip /\ Open(i)
          /\ \A j \in Trip \ {i} : trips'[j] = trips[j]
          /\ trips'[i].driver = trips[i].driver
          /\ IF job[r].op = "endTrip"
             THEN trips'[i].status = "COMPLETED"
             ELSE trips'[i].status \notin {Null, "COMPLETED"}
      BY <1>2, UpdateOpen
    <2>2. /\ pc[r] = "updateTrip" /\ pc[r] \in TripLabel \ {"truckOffline"}
          /\ trips'[i].totalKm = IF "totalKm" \in changed[r] THEN e.totalKm ELSE trips[i].totalKm
      BY <1>2, <2>1 DEF UpdateTrip, Overwrite, WellFormed, TypeOK
    <2>3. CASE job[r].op = "endTrip"
      <3>1. trips'[i].totalKm = e.totalKm
        BY <2>2, <2>3 DEF Arithmetic, JobArithmetic
      <3>2. /\ e.endingKm \in Km /\ trips[i].startingKm \in Km
            /\ e.totalKm \in Nat /\ e.totalKm = e.endingKm - trips[i].startingKm
        BY <2>1, <2>2, <2>3 DEF Arithmetic, JobArithmetic, WellFormed, RowsOK, Open
      <3>3. e.totalKm \in Distances
        BY <3>2, DistancesHold
      <3>4. PICK j \in Trip, n \in Distances : j = i /\ n = e.totalKm
        BY <2>1, <3>3
      <3>5. Contract!Close(j, n)
        BY <2>1, <2>3, <3>1, <3>4 DEF Contract!Close, PhaseOf, Open, Exists
      <3>6. QED
        BY <3>5 DEF Contract!Next
    <2>4. CASE job[r].op # "endTrip"
      <3>1. trips'[i].totalKm = trips[i].totalKm
        BY <2>2, <2>4 DEF Arithmetic, JobArithmetic
      <3>2. QED
        BY <2>1, <2>4, <3>1 DEF PhaseOf, Open, Exists
    <2>5. QED
      BY <2>3, <2>4
  <1>3. CASE UNCHANGED trips
    BY <1>3
  <1>4. QED
    BY <1>1, <1>2, <1>3, TripsChange

\* The handlers of drivers who wait for each answer and leave finished trips alone
\* implement the contract of the trips API, whatever fails and wherever.
THEOREM ContractHolds ==
    "overlap" \notin Disorder /\ "replay" \notin Disorder /\ Spec => ImplementsContract
  <1> SUFFICES ASSUME "overlap" \notin Disorder, "replay" \notin Disorder
               PROVE  Spec => Contract!Spec
    BY DEF ImplementsContract
  <1>1. Spec => []Arithmetic /\ []Orderliness
    BY ArithmeticInvariant, OrderlinessInvariant
  <1>2. QED
    BY <1>1, InitContract, StepContract, WellFormedness, PTL DEF Spec, Contract!Spec


\* COMPLETED is the end of a trip for drivers who wait for each answer and leave finished
\* trips alone, whatever fails: it is the repeated request alone that reopens one, since a
\* trip the contract has closed can neither begin nor be closed again (getDriverTrip).
THEOREM CompletedIsFinalHolds ==
    "overlap" \notin Disorder /\ "replay" \notin Disorder /\ Spec => CompletedIsFinal
  <1> SUFFICES ASSUME "overlap" \notin Disorder, "replay" \notin Disorder
               PROVE  Spec => CompletedIsFinal
    OBVIOUS
  <1>1. ASSUME NEW i \in Trip
        PROVE  PhaseOf(trips[i].status) = "closed" <=> trips[i].status = "COMPLETED"
    BY DEF PhaseOf
  <1>2. ASSUME NEW i \in Trip
        PROVE  PhaseOf(trips'[i].status) = "closed" <=> trips'[i].status = "COMPLETED"
    BY DEF PhaseOf
  <1>3. ASSUME [Contract!Next]_(Contract!vars), NEW i \in Trip, trips[i].status = "COMPLETED"
        PROVE  trips'[i].status = "COMPLETED"
    <2>1. PhaseOf(trips[i].status) = "closed"
      BY <1>1, <1>3
    <2>2. PhaseOf(trips'[i].status) = "closed"
      BY <1>3, <2>1 DEF Contract!Next, Contract!Begin, Contract!Close, Contract!vars
    <2>3. QED
      BY <1>2, <2>2
  <1>4. [Contract!Next]_(Contract!vars)
            => [\A i \in Trip : trips[i].status = "COMPLETED" => trips'[i].status = "COMPLETED"]_trips
    BY <1>3
  <1>5. Spec => Contract!Spec
    BY ContractHolds DEF ImplementsContract
  <1>6. QED
    BY <1>4, <1>5, PTL DEF CompletedIsFinal, Contract!Spec

=============================================================================
