----------------------- MODULE TripTruckStatusProofs -----------------------
(***************************************************************************)
(* Proofs about the truck's status, for drivers whose requests come one at *)
(* a time and leave finished trips alone: any fleet, any number of         *)
(* requests of different drivers, failures, and other services' writes.    *)
(***************************************************************************)
EXTENDS TripTruckStatus, TripLifecycleProofs

-----------------------------------------------------------------------------
(* The steps that matter to a truck *)

\* With the history the handlers do what they did without it.
LEMMA StatusStepIsStep == [StatusNext]_<<vars, histories>> => [Next]_vars
  BY DEF StatusNext, HandlerStep, HandlerStops, GiveTruck, WriteStatus, GraceStep, OthersSave,
         Next

LEMMA StatusSpecIsSpec == StatusSpec => Spec
  BY StatusStepIsStep, PTL DEF StatusSpec, StatusInit, Spec

\* A step of slot r that writes no trip, no truck and no assignment, and brings r
\* neither into startTrip nor to the last write of endTrip.
Quiet(r) ==
    /\ UNCHANGED <<trips, truckStatus, assigned>>
    /\ \A q \in Request \ {r} : pc'[q] = pc[q] /\ job'[q] = job[q]
    /\ pc[r] \notin {"activateTruck", "truckOffline"}
    /\ \/ pc'[r] \notin StartLabel \union {"truckOffline"}
       \/ /\ pc[r] = "checkActive" /\ pc'[r] = "insertTrip"
          /\ job'[r] = job[r] /\ job[r].held = job[r].truck

Loud(r) ==
    \/ \E d \in Driver, t \in Truck, km \in Km : StartTrip(r, d, t, km)
    \/ \E i \in Trip : InsertTrip(r, i)
    \/ ActivateTruck(r) \/ UpdateTrip(r) \/ TruckOffline(r)

LEMMA HandlerSteps ==
    ASSUME WellFormed, NEW r \in Request, HandlerStep(r)
    PROVE  Quiet(r) \/ Loud(r)
  <1>0. pc \in [Request -> Label \union {"idle"}] /\ job \in [Request -> Job]
    BY DEF WellFormed, TypeOK
  <1>1. Handle(r) \/ \E d \in Driver : Receive(r, d)
    BY DEF HandlerStep
  <1>2. CASE AcceptStart(r)
    BY <1>0, <1>2 DEF AcceptStart, Goto, Quiet, At, tables
  <1>3. CASE RejectStart(r) \/ SeedGrace(r)
    BY <1>0, <1>3 DEF RejectStart, SeedGrace, Finish, Quiet, At, tables, StartLabel
  <1>4. ASSUME NEW S \in SUBSET Stop, NEW type \in [S -> StopType], InsertStops(r, type)
        PROVE  Quiet(r)
    BY <1>0, <1>4 DEF InsertStops, Goto, Quiet, At, StartLabel
  <1>5. CASE InsertPickup(r) \/ InsertDelivery(r) \/ SaveConfirmedStop(r) \/ SaveCompletedStop(r)
    BY <1>0, <1>5
    DEF InsertPickup, InsertDelivery, SaveConfirmedStop, SaveCompletedStop, Goto, Quiet, At,
        StartLabel
  <1>6. CASE SelectTrip(r)
    BY <1>0, <1>6 DEF SelectTrip, Quiet, At, tables, StartLabel
  <1>7. ASSUME NEW d \in Driver, NEW i \in Trip, NEW op, NEW s, NEW entity,
               NEW label \in {"insertStops", "insertRecord", "selectTrip"},
               LoadTrip(r, d, i, op, label, s, entity)
        PROVE  Quiet(r)
    BY <1>0, <1>7 DEF LoadTrip, Arrive, Busy, Quiet, tables, StartLabel
  <1>8. CASE \E d \in Driver : Receive(r, d)
    <2>1. PICK d \in Driver : Receive(r, d)
      BY <1>8
    <2>2. ASSUME NEW i \in Trip, AddStops(r, d, i)
          PROVE  Quiet(r)
      BY <1>7, <2>2 DEF AddStops
    <2>3. ASSUME NEW i \in Trip, NEW s \in Stop, ConfirmLoad(r, d, i, s) \/ CompleteDelivery(r, d, i, s)
          PROVE  Quiet(r)
      BY <1>7, <2>3 DEF ConfirmLoad, CompleteDelivery
    <2>4. ASSUME NEW i \in Trip, NEW km \in Km, EndTrip(r, d, i, km)
          PROVE  Quiet(r)
      BY <1>7, <2>4 DEF EndTrip
    <2>5. QED
      BY <1>0, <2>1, <2>2, <2>3, <2>4 DEF Receive, Loud
  <1>9. QED
    BY <1>0, <1>1, <1>2, <1>3, <1>4, <1>5, <1>6, <1>8 DEF Handle, Loud

-----------------------------------------------------------------------------
(* One driver per truck *)

\* Driver d has to do with truck t: it is assigned to d, a trip of d on it is open, or a
\* request of d will put such a trip there or has just closed one.
Uses(d, t) ==
    \/ assigned[d] = t
    \/ \E i \in Trip : Open(i) /\ trips[i].truck = t /\ trips[i].driver = d
    \/ \E r \in Request : /\ pc[r] \in StartLabel
                          /\ job[r].truck = t /\ job[r].held = t /\ job[r].driver = d
    \/ \E r \in Request : /\ pc[r] = "truckOffline"
                          /\ trips[job[r].trip].truck = t /\ job[r].driver = d

OneUser ==
    \A t \in Truck \ shared : \A d, e \in Driver : Uses(d, t) /\ Uses(e, t) => d = e

\* startTrip is past its check.
HeldOK ==
    \A r \in Request :
        pc[r] \in {"insertTrip", "activateTruck", "seedGrace"} => job[r].held = job[r].truck

LEMMA HeldStep ==
    ASSUME WellFormed, HeldOK, [StatusNext]_<<vars, histories>>
    PROVE  HeldOK'
  <1>0. pc \in [Request -> Label \union {"idle"}] /\ job \in [Request -> Job]
    BY DEF WellFormed, TypeOK
  <1>1. ASSUME NEW r \in Request, Quiet(r)
        PROVE  HeldOK'
    BY <1>1 DEF Quiet, HeldOK, StartLabel
  <1>2. ASSUME NEW r \in Request, Loud(r)
        PROVE  HeldOK'
    <2>1. /\ \A q \in Request \ {r} : pc'[q] = pc[q] /\ job'[q] = job[q]
          /\ \/ pc'[r] \notin {"insertTrip", "activateTruck", "seedGrace"}
             \/ /\ pc[r] \in {"insertTrip", "activateTruck"} /\ job'[r] = job[r]
      BY <1>0, <1>2
      DEF Loud, StartTrip, InsertTrip, ActivateTruck, UpdateTrip, TruckOffline, Arrive, Goto,
          Finish, At
    <2>2. QED
      BY <2>1 DEF HeldOK
  <1>3. ASSUME NEW r \in Request, HandlerStops(r)
        PROVE  HeldOK'
    BY <1>0, <1>3 DEF HandlerStops, Abort, Finish, HeldOK
  <1>4. CASE UNCHANGED <<pc, job>>
    BY <1>4 DEF HeldOK
  <1>5. QED
    BY <1>1, <1>2, <1>3, <1>4, HandlerSteps
    DEF StatusNext, GiveTruck, SaveDriver, WriteStatus, SaveTruck, GraceStep, GraceEnds, vars

\* No step but a gift of the truck makes a driver use one.
LEMMA NewUser ==
    ASSUME WellFormed, JobStatus, JobOpen, HeldOK,
           NEW t \in Truck, NEW d \in Driver,
           \E r \in Request : HandlerStep(r) \/ HandlerStops(r), Uses(d, t)'
    PROVE  Uses(d, t)
  <1>0. /\ pc \in [Request -> Label \union {"idle"}] /\ job \in [Request -> Job]
        /\ trips \in [Trip -> TripRow] /\ assigned \in [Driver -> Truck \union {Null}]
    BY DEF WellFormed, TypeOK
  <1>1. ASSUME NEW r \in Request, Quiet(r)
        PROVE  Uses(d, t)
    BY <1>1 DEF Quiet, Uses, Open, Exists, StartLabel
  <1>2. ASSUME NEW e \in Driver, NEW u \in Truck, NEW km \in Km, NEW r \in Request,
               StartTrip(r, e, u, km)
        PROVE  Uses(d, t)
    <2>1. /\ UNCHANGED <<trips, assigned>>
          /\ pc'[r] = "checkActive" /\ job'[r].truck = u /\ job'[r].held = assigned[e]
          /\ job'[r].driver = e
          /\ \A q \in Request \ {r} : pc'[q] = pc[q] /\ job'[q] = job[q]
      BY <1>0, <1>2 DEF StartTrip, Arrive, tables
    <2>2. QED
      BY <2>1 DEF Uses, Open, Exists
  <1>3. ASSUME NEW r \in Request, NEW i \in Trip, InsertTrip(r, i)
        PROVE  Uses(d, t)
    <2>1. /\ trips'[i].truck = job[r].truck /\ trips'[i].driver = job[r].driver
          /\ \A j \in Trip \ {i} : trips'[j] = trips[j]
          /\ UNCHANGED <<assigned, job>>
          /\ pc[r] = "insertTrip" /\ pc'[r] = "activateTruck"
          /\ \A q \in Request \ {r} : pc'[q] = pc[q]
          /\ ~Exists(i)
      BY <1>0, <1>3 DEF InsertTrip, Goto, At
    <2>2. job[r].held = job[r].truck
      BY <2>1 DEF HeldOK
    <2>3. ASSUME NEW q \in Request, pc[q] = "truckOffline"
          PROVE  job[q].trip \in Trip \ {i}
      BY <2>1, <2>3 DEF WellFormed, JobOK, TripLabel
    <2>4. QED
      BY <2>1, <2>2, <2>3 DEF Uses, Open, Exists, StartLabel
  <1>4. ASSUME NEW r \in Request, ActivateTruck(r)
        PROVE  Uses(d, t)
    BY <1>0, <1>4 DEF ActivateTruck, Goto, At, Uses, Open, Exists, StartLabel
  <1>5. ASSUME NEW r \in Request, UpdateTrip(r)
        PROVE  Uses(d, t)
    <2>1. /\ job[r].trip \in Trip /\ Open(job[r].trip)
          /\ \A j \in Trip \ {job[r].trip} : trips'[j] = trips[j]
          /\ trips'[job[r].trip].driver = trips[job[r].trip].driver
      BY <1>5, UpdateOpen
    <2>2. trips'[job[r].trip].truck = trips[job[r].trip].truck
      BY <1>0, <1>5, <2>1 DEF UpdateTrip, Overwrite
    <2>3. trips[job[r].trip].driver = job[r].driver
      BY <1>5 DEF UpdateTrip, At, WellFormed, JobOK, TripLabel
    <2>4. /\ UNCHANGED assigned
          /\ pc'[r] = "idle" \/ (pc'[r] = "truckOffline" /\ job'[r] = job[r])
          /\ \A q \in Request \ {r} : pc'[q] = pc[q] /\ job'[q] = job[q]
      BY <1>0, <1>5 DEF UpdateTrip, Goto, Finish
    <2>5. \A j \in Trip : Open(j)' => Open(j)
      BY <2>1 DEF Open, Exists
    <2>6. \A j \in Trip : trips'[j].truck = trips[j].truck /\ trips'[j].driver = trips[j].driver
      BY <2>1, <2>2
    <2>7. \A q \in Request : pc[q] = "truckOffline" => job[q].trip \in Trip
      BY DEF WellFormed, JobOK, TripLabel
    <2>8. ASSUME pc'[r] = "truckOffline", trips'[job[r].trip].truck = t, job[r].driver = d
          PROVE  Uses(d, t)
      BY <2>1, <2>2, <2>3, <2>8 DEF Uses
    <2>9. QED
      BY <2>4, <2>5, <2>6, <2>7, <2>8 DEF Uses, StartLabel
  <1>6. ASSUME NEW r \in Request, TruckOffline(r) \/ HandlerStops(r)
        PROVE  Uses(d, t)
    BY <1>0, <1>6 DEF TruckOffline, HandlerStops, Abort, Finish, Uses, Open, Exists, StartLabel, tables
  <1>7. QED
    BY <1>1, <1>2, <1>3, <1>4, <1>5, <1>6, HandlerSteps DEF Loud

\* Who uses a truck has to do with it.
LEMMA UserInvolved ==
    ASSUME WellFormed, NEW t \in Truck, NEW d \in Driver, Uses(d, t)
    PROVE  Involved(d, t)
  <1>1. \A r \in Request : pc[r] = "truckOffline" => job[r].trip # Null
    BY ConstantsAssumption DEF WellFormed, JobOK, TripLabel
  <1>2. QED
    BY <1>1 DEF Uses, Involved, Busy, StartLabel

LEMMA OneUserStep ==
    ASSUME WellFormed, JobStatus, JobOpen, HeldOK, OneUser, [StatusNext]_<<vars, histories>>
    PROVE  OneUser'
  <1> SUFFICES ASSUME NEW t \in Truck, t \notin shared', NEW d \in Driver, NEW e \in Driver,
                      Uses(d, t)', Uses(e, t)'
               PROVE  d = e
    BY DEF OneUser
  <1>1. CASE \E r \in Request : HandlerStep(r) \/ HandlerStops(r)
    <2>1. t \notin shared
      BY <1>1 DEF HandlerStep, HandlerStops
    <2>2. QED
      BY <1>1, <2>1, NewUser DEF OneUser
  <1>2. ASSUME NEW c \in Driver, NEW u \in Truck \union {Null}, GiveTruck(c, u)
        PROVE  d = e
    <2>0. t # Null
      BY ConstantsAssumption
    <2>1. UNCHANGED <<trips, pc, job>> /\ t \notin shared
      BY <1>2 DEF GiveTruck, SaveDriver
    <2>2. \A b \in Driver : assigned'[b] = IF b = c THEN u ELSE assigned[b]
      BY <1>2 DEF GiveTruck, SaveDriver, WellFormed, TypeOK
    <2>3. \A b \in Driver : Uses(b, t)' /\ ~(b = c /\ u = t) => Uses(b, t)
      BY <2>0, <2>1, <2>2 DEF Uses, Open, Exists
    <2>4. CASE t # u
      BY <2>1, <2>3, <2>4 DEF OneUser
    <2>5. CASE t = u
      <3>1. ~Taken(t, c)
        BY <1>2, <2>0, <2>5 DEF GiveTruck
      <3>2. \A b \in Driver : Uses(b, t) => b = c
        BY <3>1, UserInvolved DEF Taken
      <3>3. QED
        BY <2>3, <3>2
    <2>6. QED
      BY <2>4, <2>5
  <1>3. CASE UNCHANGED <<trips, assigned, pc, job, shared>>
    BY <1>3 DEF OneUser, Uses, Open, Exists
  <1>4. QED
    BY <1>1, <1>2, <1>3
    DEF StatusNext, WriteStatus, SaveTruck, GraceStep, GraceEnds, vars, tables, histories

-----------------------------------------------------------------------------
(* The truck's status follows its trip *)

\* Between its two saves startTrip has an open trip on the truck it will activate.
Started ==
    \A r \in Request : pc[r] = "activateTruck" =>
        \E i \in Trip : Open(i) /\ trips[i].truck = job[r].truck /\ trips[i].driver = job[r].driver

\* Between its two saves endTrip has left its driver without an open trip.
Ended == \A r \in Request : pc[r] = "truckOffline" => ~HasOpenTrip(job[r].driver)

\* The steps that write no trip bring no handler between its two saves.
LEMMA BetweenStays ==
    ASSUME Started, Ended, UNCHANGED trips,
           \A q \in Request : \/ pc'[q] \notin {"activateTruck", "truckOffline"}
                              \/ pc'[q] = pc[q] /\ job'[q] = job[q]
    PROVE  Started' /\ Ended'
  BY DEF Started, Ended, HasOpenTrip, Open, Exists

LEMMA BetweenStep ==
    ASSUME WellFormed, OneAtATime, Orderliness, Started, Ended, [StatusNext]_<<vars, histories>>
    PROVE  Started' /\ Ended'
  <1>0. /\ pc \in [Request -> Label \union {"idle"}] /\ job \in [Request -> Job]
        /\ trips \in [Trip -> TripRow]
    BY DEF WellFormed, TypeOK
  <1>a. JobStatus /\ JobOpen /\ OneActiveTripPerDriver
    BY DEF Orderliness
  <1>1. ASSUME NEW r \in Request, Quiet(r)
        PROVE  Started' /\ Ended'
    BY <1>1, BetweenStays DEF Quiet, StartLabel
  <1>2. ASSUME NEW d \in Driver, NEW u \in Truck, NEW km \in Km, NEW r \in Request,
               StartTrip(r, d, u, km)
        PROVE  Started' /\ Ended'
    <2>1. /\ UNCHANGED trips /\ pc'[r] = "checkActive"
          /\ \A q \in Request \ {r} : pc'[q] = pc[q] /\ job'[q] = job[q]
      BY <1>0, <1>2 DEF StartTrip, Arrive, tables
    <2>2. QED
      BY <2>1, BetweenStays
  <1>3. ASSUME NEW r \in Request, NEW i \in Trip, InsertTrip(r, i)
        PROVE  Started' /\ Ended'
    <2>1. /\ Open(i)' /\ trips'[i].truck = job[r].truck /\ trips'[i].driver = job[r].driver
          /\ \A j \in Trip \ {i} : trips'[j] = trips[j]
          /\ UNCHANGED job
          /\ pc[r] = "insertTrip" /\ pc'[r] = "activateTruck"
          /\ \A q \in Request \ {r} : pc'[q] = pc[q]
          /\ ~Exists(i)
      BY <1>0, <1>3, ConstantsAssumption DEF InsertTrip, Goto, At, Open, Exists, TripStatus
    <2>2. \A j \in Trip : Open(j) => j # i /\ Open(j)' /\ trips'[j] = trips[j]
      BY <2>1 DEF Open, Exists
    <2>3. Started'
      BY <2>1, <2>2 DEF Started
    <2>4. ASSUME NEW q \in Request, pc'[q] = "truckOffline"
          PROVE  ~HasOpenTrip(job[q].driver)'
      <3>1. q # r /\ pc[q] = "truckOffline"
        BY <2>1, <2>4
      <3>2. job[q].driver # job[r].driver
        BY <2>1, <3>1 DEF OneAtATime
      <3>3. \A j \in Trip : Open(j)' => j = i \/ Open(j)
        BY <2>1 DEF Open, Exists
      <3>4. QED
        BY <2>1, <3>1, <3>2, <3>3 DEF Ended, HasOpenTrip
    <2>5. QED
      BY <2>1, <2>3, <2>4 DEF Ended
  <1>4. ASSUME NEW r \in Request, ActivateTruck(r) \/ TruckOffline(r) \/ HandlerStops(r)
        PROVE  Started' /\ Ended'
    <2>1. /\ UNCHANGED trips /\ pc'[r] \in {"seedGrace", "idle"}
          /\ \A q \in Request \ {r} : pc'[q] = pc[q] /\ job'[q] = job[q]
      BY <1>0, <1>4 DEF ActivateTruck, TruckOffline, HandlerStops, Abort, Goto, Finish, tables
    <2>2. QED
      BY <2>1, BetweenStays
  <1>5. ASSUME NEW r \in Request, UpdateTrip(r)
        PROVE  Started' /\ Ended'
    <2>0. /\ job[r].trip \in Trip /\ Open(job[r].trip)
          /\ \A j \in Trip \ {job[r].trip} : trips'[j] = trips[j]
          /\ trips'[job[r].trip].driver = trips[job[r].trip].driver
          /\ job[r].op = "endTrip" => trips'[job[r].trip].status = "COMPLETED"
      BY <1>a, <1>5, UpdateOpen
    <2>1. /\ job[r].trip \in Trip /\ Open(job[r].trip)
          /\ \A j \in Trip \ {job[r].trip} : trips'[j] = trips[j]
          /\ trips'[job[r].trip].driver = trips[job[r].trip].driver
          /\ \A j \in Trip : j = job[r].trip /\ job[r].op = "endTrip" => ~Open(j)'
      BY <2>0 DEF Open
    <2>2. pc[r] = "updateTrip" /\ trips[job[r].trip].driver = job[r].driver
      BY <1>5 DEF UpdateTrip, At, WellFormed, JobOK, TripLabel
    <2>3. /\ pc'[r] = "idle" \/ (pc'[r] = "truckOffline" /\ job'[r] = job[r]
                                 /\ job[r].op = "endTrip")
          /\ \A q \in Request \ {r} : pc'[q] = pc[q] /\ job'[q] = job[q]
      BY <1>0, <1>5 DEF UpdateTrip, Goto, Finish
    <2>4. ASSUME NEW q \in Request, pc'[q] = "activateTruck"
          PROVE  \E i \in Trip : Open(i)' /\ trips'[i].truck = job'[q].truck
                                 /\ trips'[i].driver = job'[q].driver
      <3>1. q # r /\ pc[q] = "activateTruck" /\ job'[q] = job[q]
        BY <2>3, <2>4
      <3>2. PICK i \in Trip : /\ Open(i) /\ trips[i].truck = job[q].truck
                              /\ trips[i].driver = job[q].driver
        BY <3>1 DEF Started
      <3>3. i # job[r].trip
        BY <2>2, <3>1, <3>2 DEF OneAtATime
      <3>4. trips'[i] = trips[i]
        BY <2>1, <3>3
      <3>5. QED
        BY <3>1, <3>2, <3>4 DEF Open, Exists
    <2>5. \A j \in Trip : Open(j)' => Open(j) /\ trips'[j].driver = trips[j].driver
      BY <2>1 DEF Open, Exists
    <2>6. ASSUME NEW q \in Request, pc'[q] = "truckOffline"
          PROVE  ~HasOpenTrip(job[q].driver)'
      <3>1. CASE q # r
        BY <2>3, <2>5, <2>6, <3>1 DEF Ended, HasOpenTrip
      <3>2. CASE q = r
        <4>1. job'[q].driver = trips[job[r].trip].driver /\ job[r].op = "endTrip"
          BY <2>2, <2>3, <2>6, <3>2
        <4>2. ASSUME NEW j \in Trip, Open(j)', trips'[j].driver = job'[q].driver
              PROVE  FALSE
          <5>1. Open(j) /\ trips[j].driver = trips[job[r].trip].driver
            BY <2>5, <4>1, <4>2
          <5>2. j = job[r].trip
            BY <1>a, <2>1, <5>1 DEF OneActiveTripPerDriver
          <5>3. QED
            BY <2>1, <4>1, <4>2, <5>2
        <4>3. QED
          BY <4>2 DEF HasOpenTrip
      <3>3. QED
        BY <3>1, <3>2
    <2>7. QED
      BY <2>4, <2>6 DEF Started, Ended
  <1>6. CASE UNCHANGED <<trips, pc, job>>
    BY <1>6, BetweenStays
  <1>7. QED
    BY <1>1, <1>2, <1>3, <1>4, <1>5, <1>6, HandlerSteps
    DEF StatusNext, Loud, GiveTruck, SaveDriver, WriteStatus, SaveTruck, GraceStep, GraceEnds,
        vars, tables

\* No handler is between its two saves on truck t.
Settled(t) ==
    \A r \in Request :
        /\ ~(pc[r] = "activateTruck" /\ job[r].truck = t)
        /\ ~(pc[r] = "truckOffline" /\ trips[job[r].trip].truck = t)

StatusAgrees ==
    \A t \in Truck \ (upset \union shared) : Settled(t) => (truckStatus[t] = "ACTIVE" <=> OnTrip(t))

LEMMA AgreesStep ==
    ASSUME WellFormed, Orderliness, OneUser, Started, Ended, StatusAgrees,
           [StatusNext]_<<vars, histories>>
    PROVE  StatusAgrees'
  <1> SUFFICES ASSUME NEW t \in Truck, t \notin upset', t \notin shared', Settled(t)'
               PROVE  truckStatus'[t] = "ACTIVE" <=> OnTrip(t)'
    BY DEF StatusAgrees
  <1> DEFINE Goal == truckStatus'[t] = "ACTIVE" <=> OnTrip(t)'
  <1>0. /\ pc \in [Request -> Label \union {"idle"}] /\ job \in [Request -> Job]
        /\ trips \in [Trip -> TripRow] /\ truckStatus \in [Truck -> TruckStatus]
    BY DEF WellFormed, TypeOK
  <1>a. t \notin shared
    BY DEF StatusNext, HandlerStep, HandlerStops, GiveTruck, WriteStatus, GraceStep, histories
  <1>b. ASSUME t \notin upset, truckStatus'[t] = truckStatus[t], OnTrip(t)' <=> OnTrip(t),
               Settled(t)
        PROVE  Goal
    BY <1>a, <1>b DEF StatusAgrees
  <1>c. ASSUME UNCHANGED trips
        PROVE  OnTrip(t)' <=> OnTrip(t)
    BY <1>c DEF OnTrip, Open, Exists
  <1>d. \A r \in Request : pc[r] = "truckOffline" => job[r].trip \in Trip /\ Exists(job[r].trip)
    BY DEF WellFormed, JobOK, TripLabel
  <1>e. JobStatus /\ JobOpen
    BY DEF Orderliness
  <1>f. ASSUME NEW r \in Request, HandlerStep(r), HalfSaved(r) = {}
        PROVE  t \notin upset
    BY <1>f DEF HandlerStep
  <1>1. ASSUME NEW r \in Request, HandlerStep(r), Quiet(r)
        PROVE  Goal
    <2>1. Settled(t)
      BY <1>1 DEF Quiet, Settled
    <2>2. t \notin upset
      BY <1>1, <1>f DEF Quiet, HalfSaved, At
    <2>3. QED
      BY <1>1, <1>b, <1>c, <2>1, <2>2 DEF Quiet
  <1>2. ASSUME NEW d \in Driver, NEW u \in Truck, NEW km \in Km, NEW r \in Request,
               HandlerStep(r), StartTrip(r, d, u, km)
        PROVE  Goal
    <2>1. /\ UNCHANGED <<trips, truckStatus>> /\ pc[r] = "idle"
          /\ \A q \in Request \ {r} : pc'[q] = pc[q] /\ job'[q] = job[q]
      BY <1>0, <1>2 DEF StartTrip, Arrive, Busy, tables
    <2>2. Settled(t)
      BY <2>1 DEF Settled
    <2>3. t \notin upset
      BY <1>2, <1>f, <2>1 DEF HalfSaved, At
    <2>4. QED
      BY <1>b, <1>c, <2>1, <2>2, <2>3
  <1>3. ASSUME NEW r \in Request, HandlerStep(r), NEW i \in Trip, InsertTrip(r, i)
        PROVE  Goal
    <2>1. /\ trips'[i].truck = job[r].truck
          /\ \A j \in Trip \ {i} : trips'[j] = trips[j]
          /\ UNCHANGED <<job, truckStatus>>
          /\ pc[r] = "insertTrip" /\ pc'[r] = "activateTruck"
          /\ \A q \in Request \ {r} : pc'[q] = pc[q]
          /\ ~Exists(i)
      BY <1>0, <1>3 DEF InsertTrip, Goto, At
    <2>2. job[r].truck # t
      BY <2>1 DEF Settled
    <2>3. Settled(t)
      BY <1>d, <2>1 DEF Settled
    <2>4. OnTrip(t)' <=> OnTrip(t)
      BY <2>1, <2>2 DEF OnTrip, Open, Exists
    <2>5. t \notin upset
      BY <1>3, <1>f, <2>1 DEF HalfSaved, At
    <2>6. QED
      BY <1>b, <2>1, <2>3, <2>4, <2>5
  <1>4. ASSUME NEW r \in Request, HandlerStep(r), ActivateTruck(r)
        PROVE  Goal
    <2>1. /\ UNCHANGED <<trips, job>> /\ pc[r] = "activateTruck"
          /\ truckStatus' = [truckStatus EXCEPT ![job[r].truck] = "ACTIVE"]
          /\ \A q \in Request \ {r} : pc'[q] = pc[q]
      BY <1>0, <1>4 DEF ActivateTruck, Goto, At
    <2>2. CASE job[r].truck = t
      <3>1. truckStatus'[t] = "ACTIVE"
        BY <1>0, <2>1, <2>2
      <3>2. OnTrip(t)
        BY <2>1, <2>2 DEF Started, OnTrip
      <3>3. QED
        BY <1>c, <2>1, <3>1, <3>2
    <2>3. CASE job[r].truck # t
      <3>1. truckStatus'[t] = truckStatus[t]
        BY <1>0, <2>1, <2>3
      <3>2. Settled(t)
        BY <2>1, <2>3 DEF Settled
      <3>3. t \notin upset
        BY <1>4, <2>1, <2>3 DEF HandlerStep, HalfSaved, At
      <3>4. QED
        BY <1>b, <1>c, <2>1, <3>1, <3>2, <3>3
    <2>4. QED
      BY <2>2, <2>3
  <1>5. ASSUME NEW r \in Request, HandlerStep(r), UpdateTrip(r)
        PROVE  Goal
    <2>0. /\ job[r].trip \in Trip /\ Open(job[r].trip)
          /\ \A j \in Trip \ {job[r].trip} : trips'[j] = trips[j]
          /\ job[r].op # "endTrip" => trips'[job[r].trip].status \notin {Null, "COMPLETED"}
      BY <1>e, <1>5, UpdateOpen
    <2>1. /\ job[r].trip \in Trip /\ Open(job[r].trip)
          /\ \A j \in Trip \ {job[r].trip} : trips'[j] = trips[j]
          /\ \A j \in Trip : j = job[r].trip /\ job[r].op # "endTrip" => Open(j)'
      BY <2>0 DEF Open, Exists
    <2>2. trips'[job[r].trip].truck = trips[job[r].trip].truck
      BY <1>0, <1>5, <2>1 DEF UpdateTrip, Overwrite
    <2>3. /\ pc[r] = "updateTrip" /\ UNCHANGED truckStatus
          /\ job[r].op = "endTrip" => pc'[r] = "truckOffline" /\ job'[r] = job[r]
          /\ \A q \in Request \ {r} : pc'[q] = pc[q] /\ job'[q] = job[q]
      BY <1>0, <1>5 DEF UpdateTrip, Goto, Finish, At
    <2>4. \A j \in Trip : trips'[j].truck = trips[j].truck
      BY <2>1, <2>2
    <2>5. Settled(t)
      BY <1>d, <2>3, <2>4 DEF Settled
    <2>6. \A j \in Trip : trips[j].truck = t => (Open(j)' <=> Open(j))
      <3>1. CASE job[r].op # "endTrip"
        BY <2>1, <3>1 DEF Open, Exists
      <3>2. CASE job[r].op = "endTrip"
        <4>1. trips[job[r].trip].truck # t
          BY <2>2, <2>3, <3>2 DEF Settled
        <4>2. \A j \in Trip : trips[j].truck = t => trips'[j] = trips[j]
          BY <2>1, <4>1
        <4>3. QED
          BY <4>2 DEF Open, Exists
      <3>3. QED
        BY <3>1, <3>2
    <2>7. OnTrip(t)' <=> OnTrip(t)
      BY <2>4, <2>6 DEF OnTrip
    <2>8. t \notin upset
      BY <1>5, <1>f, <2>3 DEF HalfSaved, At
    <2>9. QED
      BY <1>b, <2>3, <2>5, <2>7, <2>8
  <1>6. ASSUME NEW r \in Request, HandlerStep(r), TruckOffline(r)
        PROVE  Goal
    <2>1. /\ UNCHANGED trips /\ pc[r] = "truckOffline"
          /\ truckStatus' = [truckStatus EXCEPT ![trips[job[r].trip].truck] = "OFFLINE"]
          /\ \A q \in Request \ {r} : pc'[q] = pc[q] /\ job'[q] = job[q]
      BY <1>0, <1>6 DEF TruckOffline, Finish, At
    <2>2. CASE trips[job[r].trip].truck = t
      <3>1. truckStatus'[t] # "ACTIVE"
        BY <1>0, <2>1, <2>2
      <3>2. ASSUME NEW i \in Trip, Open(i), trips[i].truck = t
            PROVE  FALSE
        <4>1. trips[i].driver \in Driver /\ job[r].driver \in Driver
          BY <1>d, <2>1, <3>2 DEF WellFormed, RowsOK, JobOK, TripLabel, Open
        <4>2. Uses(trips[i].driver, t) /\ Uses(job[r].driver, t)
          BY <2>1, <2>2, <3>2 DEF Uses
        <4>3. trips[i].driver = job[r].driver
          BY <1>a, <4>1, <4>2 DEF OneUser
        <4>4. QED
          BY <2>1, <3>2, <4>3 DEF Ended, HasOpenTrip
      <3>3. ~OnTrip(t)
        BY <3>2 DEF OnTrip
      <3>4. QED
        BY <1>c, <2>1, <3>1, <3>3
    <2>3. CASE trips[job[r].trip].truck # t
      <3>1. truckStatus'[t] = truckStatus[t]
        BY <1>0, <2>1, <2>3
      <3>2. Settled(t)
        BY <2>1, <2>3 DEF Settled
      <3>3. t \notin upset
        BY <1>6, <2>1, <2>3 DEF HandlerStep, HalfSaved, At
      <3>4. QED
        BY <1>b, <1>c, <2>1, <3>1, <3>2, <3>3
    <2>4. QED
      BY <2>2, <2>3
  <1>7. ASSUME NEW r \in Request, HandlerStops(r)
        PROVE  Goal
    <2>1. /\ UNCHANGED <<trips, truckStatus>> /\ t \notin HalfSaved(r) /\ t \notin upset
          /\ \A q \in Request \ {r} : pc'[q] = pc[q] /\ job'[q] = job[q]
      BY <1>0, <1>7 DEF HandlerStops, Abort, Finish, tables
    <2>2. Settled(t)
      BY <2>1 DEF Settled, HalfSaved, At
    <2>3. QED
      BY <1>b, <1>c, <2>1, <2>2
  <1>8. ASSUME NEW u \in Truck, NEW status \in ForeignStatus, WriteStatus(u, status)
        PROVE  Goal
    <2>1. /\ UNCHANGED <<trips, pc, job>> /\ t # u /\ t \notin upset
          /\ truckStatus'[t] = truckStatus[t]
      BY <1>0, <1>8 DEF WriteStatus, SaveTruck
    <2>2. Settled(t)
      BY <2>1 DEF Settled
    <2>3. QED
      BY <1>b, <1>c, <2>1, <2>2
  <1>9. CASE UNCHANGED <<trips, truckStatus, pc, job, upset>>
    <2>1. Settled(t)
      BY <1>9 DEF Settled
    <2>2. QED
      BY <1>9, <1>b, <1>c, <2>1
  <1>10. QED
    BY <1>1, <1>2, <1>3, <1>4, <1>5, <1>6, <1>7, <1>8, <1>9, HandlerSteps
    DEF StatusNext, Loud, GiveTruck, SaveDriver, GraceStep, GraceEnds, vars, tables, histories

\* However requests of different drivers interleave, wherever they fail and whatever
\* others write, a truck on which a trip's second save was the last to write the status,
\* and which no two drivers have had to do with, is ACTIVE exactly while a trip on it is
\* open.
THEOREM TruckFollowsTripsHolds ==
    "overlap" \notin Disorder /\ "replay" \notin Disorder /\ StatusSpec => []TruckFollowsTrips
  <1> SUFFICES ASSUME "overlap" \notin Disorder, "replay" \notin Disorder
               PROVE  StatusSpec => []TruckFollowsTrips
    OBVIOUS
  <1> DEFINE Inv == HeldOK /\ OneUser /\ Started /\ Ended /\ StatusAgrees
  <1>1. StatusInit => Inv
    <2> SUFFICES ASSUME StatusInit
                 PROVE  Inv
      OBVIOUS
    <2>1. \A r \in Request : pc[r] = "idle"
      BY DEF StatusInit, Init
    <2>2. \A i \in Trip : ~Open(i)
      BY DEF StatusInit, Init, NoTrip, Open, Exists
    <2>3. OneUser
      BY <2>1, <2>2, ConstantsAssumption DEF StatusInit, Init, OneUser, Uses, StartLabel
    <2>4. StatusAgrees
      BY <2>2 DEF StatusInit, Init, StatusAgrees, OnTrip
    <2>5. QED
      BY <2>1, <2>3, <2>4 DEF HeldOK, Started, Ended
  <1>2. WellFormed /\ OneAtATime /\ Orderliness /\ Inv /\ [StatusNext]_<<vars, histories>> => Inv'
    BY HeldStep, OneUserStep, BetweenStep, AgreesStep DEF Orderliness
  <1>3. WellFormed /\ Inv => TruckFollowsTrips
    <2> SUFFICES ASSUME WellFormed, StatusAgrees, NEW t \in Truck, t \notin upset, t \notin shared,
                        Undisturbed(t)
                 PROVE  truckStatus[t] = "ACTIVE" <=> OnTrip(t)
      BY DEF TruckFollowsTrips
    <2>1. \A r \in Request : pc[r] = "truckOffline" => job[r].trip # Null
      BY ConstantsAssumption DEF WellFormed, JobOK, TripLabel
    <2>2. Settled(t)
      BY <2>1 DEF Undisturbed, Settled, Busy
    <2>3. QED
      BY <2>2 DEF StatusAgrees
  <1>4. StatusSpec => []WellFormed /\ []OneAtATime /\ []Orderliness
    BY StatusSpecIsSpec, WellFormedness, OneAtATimeHolds, OrderlinessInvariant, PTL
  <1> HIDE DEF Inv
  <1>5. QED
    BY <1>1, <1>2, <1>3, <1>4, PTL DEF StatusSpec

=============================================================================
