----------------------- MODULE TruckAssignmentProofs -----------------------
(***************************************************************************)
(* Proofs about TruckAssignment, for every set of drivers, trucks and      *)
(* request slots: assignments one at a time keep the rows of drivers who   *)
(* were never moved from truck to truck in step, wherever they fail, as    *)
(* long as what failed is repeated.                                        *)
(***************************************************************************)
EXTENDS TruckAssignment, TLAPS

Discipline ==
    /\ "assigns" \notin Disorder
    /\ "edits" \notin Disorder
    /\ "giveUp" \notin Disorder

\* The columns agree on the unmoved but for driver d and truck t; what t's row says of
\* them is at most out of date, and an unmoved d has no truck but t.
Torn(d, t) ==
    /\ \A e \in Driver \ (moved \union {d}), x \in Truck \ {t} :
        /\ driverOf[x] = e => truckOf[e] = x
        /\ truckOf[e] = x /\ x \notin left => driverOf[x] = e
    /\ \A e \in Driver \ (moved \union {d}) :
        /\ truckOf[e] = t /\ t \notin left => driverOf[t] = e
        /\ driverOf[t] = e => truckOf[e] \in {t, Null}
    /\ d \notin moved => truckOf[d] \in {t, Null} /\ \A x \in Truck \ {t} : driverOf[x] # d

\* No unmoved driver but d has truck t, unless a moved driver has left it.
NoOtherDriver(d, t) == t \notin left => \A e \in Driver \ (moved \union {d}) : truckOf[e] # t

\* What an assignment has established by the label it has reached.
Stage(r) ==
    LET d == job[r].driver
        t == job[r].truck
    IN  /\ d \in Driver /\ t \in Truck /\ Torn(d, t)
        /\ job[r].hadTruck \notin {Null, t} => d \in moved /\ job[r].hadTruck \in left
        /\ pc[r] = "freeDriver" =>
                job[r].hadDriver \in Driver \ {d} /\ job[r].hadDriver = driverOf[t]
        /\ pc[r] = "freeTruck" => job[r].hadTruck \in Truck \ {t} /\ d \in moved
        /\ pc[r] \in {"freeTruck", "saveDriver", "saveTruck"} => NoOtherDriver(d, t)
        /\ pc[r] = "saveTruck" /\ d \notin moved => truckOf[d] = t

\* An edit holds its row's column as it is.
Current(r) ==
    /\ pc[r] = "saveTruckRow" => job[r].truck \in Truck /\ job[r].hadDriver = driverOf[job[r].truck]
    /\ pc[r] = "saveDriverRow" => job[r].driver \in Driver /\ job[r].hadTruck = truckOf[job[r].driver]

Inv ==
    /\ TypeOK
    /\ \A r \in Request :
        /\ Assigning(r) => Stage(r) /\ failed \in {Null, <<job[r].driver, job[r].truck>>}
        /\ Assigning(r) => \A q \in Request : Busy(q) => q = r
        /\ Current(r)
    /\ (\A r \in Request : ~Assigning(r)) =>
        IF failed = Null THEN AgreeUnmoved ELSE Torn(failed[1], failed[2])

-----------------------------------------------------------------------------
USE ConstantsAssumption
    DEF Label, Job, NoJob, Busy, At, Assigning, columns, history

\* An assignment is of some truck to some driver.
Named == \A r \in Request : Assigning(r) => job[r].driver \in Driver /\ job[r].truck \in Truck

LEMMA TypeNext == TypeOK /\ Named /\ [Next]_vars => TypeOK'
  <1> SUFFICES ASSUME TypeOK, Named, [Next]_vars
               PROVE  TypeOK'
    OBVIOUS
  <1>1. ASSUME NEW r \in Request, NEW d \in Driver, NEW t \in Truck, AssignTruck(r, d, t)
        PROVE  TypeOK'
    BY <1>1 DEF AssignTruck, Arrive, TypeOK
  <1>2. ASSUME NEW r \in Request, NEW t \in Truck, LoadTruckRow(r, t)
        PROVE  TypeOK'
    BY <1>2 DEF LoadTruckRow, Arrive, TypeOK
  <1>3. ASSUME NEW r \in Request, NEW d \in Driver, LoadDriverRow(r, d)
        PROVE  TypeOK'
    BY <1>3 DEF LoadDriverRow, Arrive, TypeOK
  <1>4. ASSUME NEW r \in Request, ReadTruck(r)
        PROVE  TypeOK'
    <2>1. job[r] \in Job /\ job[r].truck \in Truck
      BY <1>4 DEF ReadTruck, At, TypeOK, Named
    <2>2. [driver |-> job[r].driver, truck |-> job[r].truck, hadTruck |-> job[r].hadTruck,
           hadDriver |-> driverOf[job[r].truck]] \in Job
      BY <1>4, <2>1 DEF ReadTruck, TypeOK
    <2>3. QED
      BY <1>4, <2>2 DEF ReadTruck, Goto, AfterRead, AfterDriverFreed, TypeOK
  <1>5. ASSUME NEW r \in Request, FreeDriver(r)
        PROVE  TypeOK'
    BY <1>5 DEF FreeDriver, Goto, AfterDriverFreed, TypeOK
  <1>6. ASSUME NEW r \in Request, FreeTruck(r)
        PROVE  TypeOK'
    BY <1>6 DEF FreeTruck, Goto, TypeOK
  <1>7. ASSUME NEW r \in Request, SaveDriver(r)
        PROVE  TypeOK'
    BY <1>7 DEF SaveDriver, Goto, Stored, TypeOK
  <1>8. ASSUME NEW r \in Request, SaveTruck(r)
        PROVE  TypeOK'
    BY <1>8 DEF SaveTruck, Finish, TypeOK
  <1>9. ASSUME NEW r \in Request, SaveTruckRow(r)
        PROVE  TypeOK'
    BY <1>9 DEF SaveTruckRow, Finish, TypeOK
  <1>10. ASSUME NEW r \in Request, SaveDriverRow(r)
        PROVE  TypeOK'
    BY <1>10 DEF SaveDriverRow, Finish, TypeOK
  <1>11. ASSUME NEW r \in Request, Abort(r)
        PROVE  TypeOK'
    <2>1. failed' \in (Driver \X Truck) \union {Null}
      BY <1>11 DEF Abort, TypeOK, Named
    <2>2. QED
      BY <1>11, <2>1 DEF Abort, Finish, TypeOK
  <1>12. CASE UNCHANGED vars
    BY <1>12 DEF vars, TypeOK
  <1>13. QED
    BY <1>1, <1>2, <1>3, <1>4, <1>5, <1>6, <1>7, <1>8, <1>9, <1>10, <1>11, <1>12
       DEF Next, Handle, Receive

LEMMA NamedNext == TypeOK /\ Named /\ [Next]_vars => Named'
  <1> SUFFICES ASSUME TypeOK, Named, [Next]_vars, NEW q \in Request, Assigning(q)'
               PROVE  job'[q].driver \in Driver /\ job'[q].truck \in Truck
    BY DEF Named
  <1>1. ASSUME NEW r \in Request, NEW d \in Driver, NEW t \in Truck, AssignTruck(r, d, t)
        PROVE  job'[q].driver \in Driver /\ job'[q].truck \in Truck
    BY <1>1 DEF AssignTruck, Arrive, TypeOK, Named
  <1>2. ASSUME NEW r \in Request, NEW t \in Truck, LoadTruckRow(r, t)
        PROVE  job'[q].driver \in Driver /\ job'[q].truck \in Truck
    BY <1>2 DEF LoadTruckRow, Arrive, TypeOK, Named
  <1>3. ASSUME NEW r \in Request, NEW d \in Driver, LoadDriverRow(r, d)
        PROVE  job'[q].driver \in Driver /\ job'[q].truck \in Truck
    BY <1>3 DEF LoadDriverRow, Arrive, TypeOK, Named
  <1>4. ASSUME NEW r \in Request, ReadTruck(r)
        PROVE  job'[q].driver \in Driver /\ job'[q].truck \in Truck
    <2>1. q # r => pc'[q] = pc[q] /\ job'[q] = job[q]
      BY <1>4 DEF ReadTruck, Goto, TypeOK
    <2>2. q = r => job'[q].driver = job[q].driver /\ job'[q].truck = job[q].truck
      BY <1>4 DEF ReadTruck, TypeOK
    <2>3. Assigning(q)
      BY <1>4, <2>1 DEF ReadTruck
    <2>4. QED
      BY <2>1, <2>2, <2>3 DEF Named
  <1>5. ASSUME NEW r \in Request, FreeDriver(r) \/ FreeTruck(r)
        PROVE  job'[q].driver \in Driver /\ job'[q].truck \in Truck
    <2>1. job' = job /\ (q # r => pc'[q] = pc[q]) /\ Assigning(r)
      BY <1>5 DEF FreeDriver, FreeTruck, Goto, TypeOK
    <2>2. QED
      BY <2>1 DEF Named
  <1>6. ASSUME NEW r \in Request, SaveDriver(r)
        PROVE  job'[q].driver \in Driver /\ job'[q].truck \in Truck
    BY <1>6 DEF SaveDriver, Goto, TypeOK, Named
  <1>7. ASSUME NEW r \in Request,
               SaveTruck(r) \/ SaveTruckRow(r) \/ SaveDriverRow(r) \/ Abort(r)
        PROVE  job'[q].driver \in Driver /\ job'[q].truck \in Truck
    <2>1. q # r /\ pc'[q] = pc[q] /\ job'[q] = job[q]
      BY <1>7 DEF SaveTruck, SaveTruckRow, SaveDriverRow, Abort, Finish, TypeOK
    <2>2. QED
      BY <2>1 DEF Named
  <1>8. CASE UNCHANGED vars
    BY <1>8 DEF vars, Named
  <1>9. QED
    BY <1>1, <1>2, <1>3, <1>4, <1>5, <1>6, <1>7, <1>8 DEF Next, Handle, Receive

\* Rows, requests and what they hold keep their types, overlapping assignments, edits
\* and failures included (DriversService.assignTruck).
THEOREM TypeCorrect == Spec => []TypeOK
  <1>1. Init => TypeOK /\ Named
    BY DEF Init, TypeOK, Named
  <1>2. QED
    BY <1>1, TypeNext, NamedNext, PTL DEF Spec

LEMMA InvInit == Init => Inv
  BY DEF Init, Inv, TypeOK, Current, Agree, AgreeUnmoved

\* Before an assignment the rows are in step, or torn around its own pair.
LEMMA AssignBegins ==
    ASSUME TypeOK, NEW d \in Driver, NEW t \in Truck,
           AgreeUnmoved \/ Torn(d, t),
           truckOf[d] \in {Null, t} \/ d \in moved', moved \subseteq moved', left \subseteq left',
           UNCHANGED columns
    PROVE  Torn(d, t)'
  BY DEF TypeOK, AgreeUnmoved, Torn

\* An assignment at work is alone, and the rows are torn at most around its pair.
LEMMA Alone ==
    ASSUME Inv, NEW r \in Request, Assigning(r)
    PROVE  /\ Stage(r)
           /\ failed \in {Null, <<job[r].driver, job[r].truck>>}
           /\ \A q \in Request \ {r} : pc[q] = "idle"
  BY DEF Inv

LEMMA InvNext == Discipline /\ Inv /\ [Next]_vars => Inv'
  <1> SUFFICES ASSUME Discipline, Inv, TypeOK, TypeOK', [Next]_vars
               PROVE  Inv'
    BY TypeNext DEF Inv, Named, Stage
  <1>1. ASSUME NEW r \in Request, NEW d \in Driver, NEW t \in Truck, AssignTruck(r, d, t)
        PROVE  Inv'
    <2>1. /\ \A q \in Request : pc[q] = "idle"
          /\ failed \in {Null, <<d, t>>}
      BY <1>1 DEF AssignTruck, Discipline
    <2>2. AgreeUnmoved \/ Torn(d, t)
      BY <2>1 DEF Inv
    <2>3. /\ pc' = [pc EXCEPT ![r] = "readTruck"]
          /\ job' = [job EXCEPT ![r] =
                [driver |-> d, truck |-> t, hadTruck |-> truckOf[d], hadDriver |-> Null]]
          /\ UNCHANGED <<truckOf, driverOf, failed>>
          /\ moved \subseteq moved' /\ left \subseteq left'
          /\ truckOf[d] \notin {Null, t} => d \in moved' /\ truckOf[d] \in left'
      BY <1>1 DEF AssignTruck, Arrive
    <2>4. /\ pc'[r] = "readTruck" /\ \A q \in Request \ {r} : pc'[q] = "idle"
          /\ job'[r].driver = d /\ job'[r].truck = t /\ job'[r].hadTruck = truckOf[d]
      BY <2>1, <2>3 DEF TypeOK
    <2>5. Torn(d, t)'
      BY <2>2, <2>3, AssignBegins
    <2>6. Stage(r)'
      BY <2>3, <2>4, <2>5 DEF Stage
    <2>7. QED
      BY <2>1, <2>3, <2>4, <2>6 DEF Inv, Current
  <1>2. ASSUME NEW r \in Request, NEW t \in Truck, LoadTruckRow(r, t)
        PROVE  Inv'
    BY <1>2 DEF LoadTruckRow, Arrive, Discipline, Inv, TypeOK, Current, AgreeUnmoved, Torn
  <1>3. ASSUME NEW r \in Request, NEW d \in Driver, LoadDriverRow(r, d)
        PROVE  Inv'
    BY <1>3 DEF LoadDriverRow, Arrive, Discipline, Inv, TypeOK, Current, AgreeUnmoved, Torn
  <1>4. ASSUME NEW r \in Request, ReadTruck(r)
        PROVE  Inv'
    <2> DEFINE d == job[r].driver
               t == job[r].truck
    <2>1. Stage(r) /\ failed \in {Null, <<d, t>>} /\ \A q \in Request \ {r} : pc[q] = "idle"
      BY <1>4, Alone DEF ReadTruck
    <2>2. /\ pc' = [pc EXCEPT ![r] = AfterRead(job[r], driverOf[t])]
          /\ job' = [job EXCEPT ![r] =
                [driver |-> d, truck |-> t, hadTruck |-> job[r].hadTruck,
                 hadDriver |-> driverOf[t]]]
          /\ pc[r] = "readTruck"
          /\ UNCHANGED <<truckOf, driverOf, failed, moved, left>>
      BY <1>4 DEF ReadTruck, Goto
    <2>3. /\ pc'[r] = AfterRead(job[r], driverOf[t])
          /\ \A q \in Request \ {r} : pc'[q] = "idle"
          /\ job'[r].driver = d /\ job'[r].truck = t
          /\ job'[r].hadTruck = job[r].hadTruck /\ job'[r].hadDriver = driverOf[t]
      BY <2>1, <2>2 DEF TypeOK
    <2>4. Stage(r)'
      BY <2>1, <2>2, <2>3
      DEF Stage, Torn, NoOtherDriver, AfterRead, AfterDriverFreed, TypeOK
    <2>5. QED
      BY <2>1, <2>2, <2>3, <2>4 DEF Inv, Current, AfterRead, AfterDriverFreed
  <1>5. ASSUME NEW r \in Request, FreeDriver(r)
        PROVE  Inv'
    <2>1. /\ Stage(r) /\ failed \in {Null, <<job[r].driver, job[r].truck>>}
          /\ \A q \in Request \ {r} : pc[q] = "idle"
      BY <1>5, Alone DEF FreeDriver
    <2>2. /\ truckOf' = [truckOf EXCEPT ![job[r].hadDriver] = Null]
          /\ pc' = [pc EXCEPT ![r] = AfterDriverFreed(job[r])]
          /\ pc[r] = "freeDriver"
          /\ UNCHANGED <<driverOf, job, failed, moved, left>>
      BY <1>5 DEF FreeDriver, Goto
    <2>3. pc'[r] = AfterDriverFreed(job[r]) /\ \A q \in Request \ {r} : pc'[q] = "idle"
      BY <2>1, <2>2 DEF TypeOK
    <2>4. Stage(r)'
      BY <2>1, <2>2, <2>3
      DEF Stage, Torn, NoOtherDriver, AfterDriverFreed, TypeOK
    <2>5. QED
      BY <2>1, <2>2, <2>3, <2>4 DEF Inv, Current, AfterDriverFreed
  <1>6. ASSUME NEW r \in Request, FreeTruck(r)
        PROVE  Inv'
    <2>1. /\ Stage(r) /\ failed \in {Null, <<job[r].driver, job[r].truck>>}
          /\ \A q \in Request \ {r} : pc[q] = "idle"
      BY <1>6, Alone DEF FreeTruck
    <2>2. /\ driverOf' = [driverOf EXCEPT ![job[r].hadTruck] = Null]
          /\ pc' = [pc EXCEPT ![r] = "saveDriver"]
          /\ pc[r] = "freeTruck"
          /\ UNCHANGED <<truckOf, job, failed, moved, left>>
      BY <1>6 DEF FreeTruck, Goto
    <2>3. pc'[r] = "saveDriver" /\ \A q \in Request \ {r} : pc'[q] = "idle"
      BY <2>1, <2>2 DEF TypeOK
    <2>4. Stage(r)'
      BY <2>1, <2>2, <2>3 DEF Stage, Torn, NoOtherDriver, TypeOK
    <2>5. QED
      BY <2>1, <2>2, <2>3, <2>4 DEF Inv, Current
  <1>7. ASSUME NEW r \in Request, SaveDriver(r)
        PROVE  Inv'
    <2>1. /\ Stage(r) /\ failed \in {Null, <<job[r].driver, job[r].truck>>}
          /\ \A q \in Request \ {r} : pc[q] = "idle"
      BY <1>7, Alone DEF SaveDriver
    <2>2. /\ truckOf' = [truckOf EXCEPT ![job[r].driver] = Stored(job[r])]
          /\ pc' = [pc EXCEPT ![r] = "saveTruck"]
          /\ pc[r] = "saveDriver"
          /\ UNCHANGED <<driverOf, job, failed, moved, left>>
      BY <1>7 DEF SaveDriver, Goto
    <2>3. pc'[r] = "saveTruck" /\ \A q \in Request \ {r} : pc'[q] = "idle"
      BY <2>1, <2>2 DEF TypeOK
    <2>4. Stage(r)'
      BY <2>1, <2>2, <2>3 DEF Stage, Torn, NoOtherDriver, Stored, TypeOK
    <2>5. QED
      BY <2>1, <2>2, <2>3, <2>4 DEF Inv, Current
  <1>8. ASSUME NEW r \in Request, SaveTruck(r)
        PROVE  Inv'
    <2>1. Stage(r) /\ \A q \in Request \ {r} : pc[q] = "idle"
      BY <1>8, Alone DEF SaveTruck
    <2>2. /\ driverOf' = [driverOf EXCEPT ![job[r].truck] = job[r].driver]
          /\ pc' = [pc EXCEPT ![r] = "idle"]
          /\ pc[r] = "saveTruck"
          /\ failed' = Null
          /\ UNCHANGED <<truckOf, moved, left>>
      BY <1>8 DEF SaveTruck, Finish
    <2>3. \A q \in Request : pc'[q] = "idle"
      BY <2>1, <2>2 DEF TypeOK
    <2>4. AgreeUnmoved'
      BY <2>1, <2>2 DEF Stage, Torn, NoOtherDriver, AgreeUnmoved, TypeOK
    <2>5. QED
      BY <2>2, <2>3, <2>4 DEF Inv, Current
  <1>9. ASSUME NEW r \in Request, SaveTruckRow(r)
        PROVE  Inv'
    <2>1. /\ driverOf' = [driverOf EXCEPT ![job[r].truck] = job[r].hadDriver]
          /\ job[r].hadDriver = driverOf[job[r].truck]
      BY <1>9 DEF SaveTruckRow, Inv, Current
    <2>2. UNCHANGED driverOf
      BY <2>1 DEF TypeOK
    <2>3. QED
      BY <1>9, <2>2 DEF SaveTruckRow, Finish, Inv, Current, AgreeUnmoved, Torn, TypeOK
  <1>10. ASSUME NEW r \in Request, SaveDriverRow(r)
        PROVE  Inv'
    <2>1. /\ truckOf' = [truckOf EXCEPT ![job[r].driver] = job[r].hadTruck]
          /\ job[r].hadTruck = truckOf[job[r].driver]
      BY <1>10 DEF SaveDriverRow, Inv, Current
    <2>2. UNCHANGED truckOf
      BY <2>1 DEF TypeOK
    <2>3. QED
      BY <1>10, <2>2 DEF SaveDriverRow, Finish, Inv, Current, AgreeUnmoved, Torn, TypeOK
  <1>11. ASSUME NEW r \in Request, Abort(r)
        PROVE  Inv'
    <2>1. CASE Assigning(r)
      <3>1. Stage(r) /\ \A q \in Request \ {r} : pc[q] = "idle"
        BY <2>1, Alone
      <3>2. PICK d \in Driver, t \in Truck : d = job[r].driver /\ t = job[r].truck
        BY <3>1 DEF Stage
      <3>3. /\ \A q \in Request : pc'[q] = "idle"
            /\ failed' = <<d, t>> /\ failed'[1] = d /\ failed'[2] = t
            /\ UNCHANGED <<truckOf, driverOf, moved, left>>
        BY <1>11, <2>1, <3>1, <3>2 DEF Abort, Finish, TypeOK
      <3>4. Torn(d, t)
        BY <3>1, <3>2 DEF Stage
      <3>5. Torn(failed[1], failed[2])' /\ failed' # Null
        BY <3>3, <3>4 DEF Torn
      <3>6. QED
        BY <3>3, <3>5 DEF Inv, Current
    <2>2. CASE ~Assigning(r)
      BY <1>11, <2>2 DEF Abort, Finish, Inv, Current, AgreeUnmoved, Torn, TypeOK
    <2>3. QED
      BY <2>1, <2>2
  <1>12. CASE UNCHANGED vars
    BY <1>12 DEF vars, Inv, Stage, Current, AgreeUnmoved, Torn, NoOtherDriver
  <1>13. QED
    BY <1>1, <1>2, <1>3, <1>4, <1>5, <1>6, <1>7, <1>8, <1>9, <1>10, <1>11, <1>12
       DEF Next, Handle, Receive

LEMMA Invariant == Discipline /\ Spec => []Inv
  <1> SUFFICES ASSUME Discipline
               PROVE  Spec => []Inv
    OBVIOUS
  <1>1. QED
    BY InvInit, InvNext, PTL DEF Spec

\* Whatever the fleet, assignments made one at a time and repeated when they fail leave
\* the driver's and the truck's column in step for every driver who was never moved from
\* truck to truck, reassignments of others included (DriversService.assignTruck).
THEOREM UnmovedInSyncHolds == Discipline /\ Spec => []UnmovedInSync
  <1>1. Inv => UnmovedInSync
    BY DEF Inv, UnmovedInSync, Settled
  <1>2. QED
    BY <1>1, Invariant, PTL

\* As long as nobody is moved there is no exception: the two columns tell the same pairs.
NobodyMoved == moved = {} /\ left = {}

\* An office that only gives trucks to drivers who have none keeps the promise as the
\* document words it, wherever its assignments fail (DriversService.assignTruck).
THEOREM InSyncWithoutReassigning ==
    Discipline /\ "reassigns" \notin Disorder /\ Spec => []InSync
  <1> SUFFICES ASSUME Discipline, "reassigns" \notin Disorder
               PROVE  Spec => []InSync
    OBVIOUS
  <1>1. Init => NobodyMoved
    BY DEF Init, NobodyMoved
  <1>2. NobodyMoved /\ [Next]_vars => NobodyMoved'
    BY DEF NobodyMoved, Next, Handle, Receive, vars, AssignTruck, LoadTruckRow, LoadDriverRow,
           ReadTruck, FreeDriver, FreeTruck, SaveDriver, SaveTruck, SaveTruckRow, SaveDriverRow,
           Abort
  <1>3. Inv /\ NobodyMoved => InSync
    BY DEF Inv, NobodyMoved, InSync, Settled, AgreeUnmoved, Agree, TypeOK
  <1>4. QED
    BY <1>1, <1>2, <1>3, Invariant, PTL DEF Spec

-----------------------------------------------------------------------------
(* The drivers' rows implement the pairing contract *)

\* A truck nobody was moved from is the assigned truck of at most one unmoved driver.
OneDriver ==
    \A d, e \in Driver \ moved :
        truckOf[d] = truckOf[e] /\ truckOf[d] \notin left \union {Null} => d = e

\* Moving a driver ends the pair it was in.
LEMMA MoveStep ==
    ASSUME Inv, OneDriver, NEW r \in Request, NEW d \in Driver, NEW t \in Truck,
           AssignTruck(r, d, t)
    PROVE  OneDriver' /\ [Pairing!Next]_Pairs
  <1>1. UNCHANGED truckOf
    BY DEF AssignTruck, Arrive
  <1>2. CASE truckOf[d] \in {Null, t}
    BY <1>1, <1>2 DEF AssignTruck, OneDriver, Pairs
  <1>3. CASE truckOf[d] \notin {Null, t}
    <2>1. moved' = moved \union {d} /\ left' = left \union {truckOf[d]} /\ truckOf[d] \in Truck
      BY <1>3 DEF AssignTruck, Inv, TypeOK
    <2>2. Pairs' = {p \in Pairs : p[2] # truckOf[d]}
      BY <1>1, <2>1 DEF Pairs
    <2>3. Pairing!Part(truckOf[d])
      BY <2>2 DEF Pairing!Part
    <2>4. OneDriver'
      BY <1>1, <2>1 DEF OneDriver
    <2>5. QED
      BY <2>1, <2>3, <2>4 DEF Pairing!Next
  <1>4. QED
    BY <1>2, <1>3

\* What the pairs are made of changes in three actions; an edit writes it as it is.
LEMMA TruckOfChanges ==
    ASSUME Discipline, Inv, [Next]_vars
    PROVE  \/ \E r \in Request, d \in Driver, t \in Truck : AssignTruck(r, d, t)
           \/ \E r \in Request : FreeDriver(r)
           \/ \E r \in Request : SaveDriver(r)
           \/ UNCHANGED <<truckOf, moved, left>>
  <1>1. ASSUME NEW r \in Request, SaveDriverRow(r)
        PROVE  UNCHANGED <<truckOf, moved, left>>
    BY <1>1 DEF SaveDriverRow, Inv, Current, TypeOK
  <1>2. QED
    BY <1>1 DEF Next, Handle, Receive, vars, AssignTruck, LoadTruckRow, LoadDriverRow, Arrive,
                ReadTruck, FreeTruck, SaveTruck, SaveTruckRow, Abort

LEMMA FreeDriverStep ==
    ASSUME Inv, OneDriver, NEW r \in Request, FreeDriver(r)
    PROVE  OneDriver' /\ [Pairing!Next]_Pairs
  <1>1. PICK d \in Driver, t \in Truck, h \in Driver :
            d = job[r].driver /\ t = job[r].truck /\ h = job[r].hadDriver
    BY Alone DEF FreeDriver, Stage
  <1>2. /\ truckOf' = [truckOf EXCEPT ![h] = Null]
        /\ UNCHANGED <<moved, left>>
        /\ h # d /\ driverOf[t] = h /\ Torn(d, t)
    BY <1>1, Alone DEF FreeDriver, Stage
  <1>3. truckOf'[h] = Null /\ \A e \in Driver \ {h} : truckOf'[e] = truckOf[e]
    BY <1>2 DEF Inv, TypeOK
  <1>4. OneDriver'
    BY <1>2, <1>3 DEF OneDriver
  <1>5. CASE h \in moved \/ truckOf[h] \in left \union {Null}
    <2>1. Pairs' = Pairs
      BY <1>2, <1>3, <1>5 DEF Pairs
    <2>2. QED
      BY <1>4, <2>1
  <1>6. CASE h \notin moved /\ truckOf[h] \notin left \union {Null}
    <2>1. truckOf[h] = t
      BY <1>2, <1>6 DEF Torn
    <2>2. \A e \in Driver \ (moved \union {h}) : truckOf[e] # t
      BY <1>6, <2>1 DEF OneDriver
    <2>3. Pairs' = {p \in Pairs : p[2] # t}
      BY <1>2, <1>3, <2>1, <2>2 DEF Pairs
    <2>4. Pairing!Part(t)
      BY <2>3 DEF Pairing!Part
    <2>5. QED
      BY <1>4, <2>4 DEF Pairing!Next
  <1>7. QED
    BY <1>5, <1>6

LEMMA SaveDriverStep ==
    ASSUME Inv, OneDriver, NEW r \in Request, SaveDriver(r)
    PROVE  OneDriver' /\ [Pairing!Next]_Pairs
  <1>1. PICK d \in Driver, t \in Truck : d = job[r].driver /\ t = job[r].truck
    BY Alone DEF SaveDriver, Stage
  <1>2. /\ truckOf' = [truckOf EXCEPT ![d] = Stored(job[r])]
        /\ UNCHANGED <<moved, left>>
        /\ NoOtherDriver(d, t)
        /\ d \notin moved => Stored(job[r]) = t /\ truckOf[d] \in {t, Null}
    BY <1>1, Alone DEF SaveDriver, Stage, Stored, Torn
  <1>3. /\ \A e \in Driver \ {d} : truckOf'[e] = truckOf[e]
        /\ d \notin moved => truckOf'[d] = t
    BY <1>2 DEF Inv, TypeOK
  <1>4. OneDriver'
    BY <1>2, <1>3 DEF OneDriver, NoOtherDriver
  <1>5. CASE d \in moved \/ t \in left
    <2>1. Pairs' = Pairs
      BY <1>2, <1>3, <1>5 DEF Pairs
    <2>2. QED
      BY <1>4, <2>1
  <1>6. CASE d \notin moved /\ t \notin left
    <2>1. \A p \in Pairs : p[2] = t => p[1] = d
      BY <1>2, <1>6 DEF Pairs, NoOtherDriver
    <2>2. Pairs' = {p \in Pairs : p[1] # d} \union {<<d, t>>}
      BY <1>2, <1>3, <1>6 DEF Pairs
    <2>3. Pairing!Join(d, t)
      BY <2>1, <2>2 DEF Pairing!Join
    <2>4. QED
      BY <1>4, <2>3 DEF Pairing!Next
  <1>7. QED
    BY <1>5, <1>6

\* Whatever the fleet, under the same discipline the rows of unmoved drivers and of trucks
\* nobody was moved from implement the pairing contract at every moment, also between the
\* saves and after a failure.
THEOREM PairingHolds == Discipline /\ Spec => ImplementsPairing
  <1> SUFFICES ASSUME Discipline
               PROVE  Spec => Pairing!Spec
    BY DEF ImplementsPairing
  <1>1. Init => OneDriver /\ Pairing!Init
    <2> SUFFICES ASSUME Init
                 PROVE  OneDriver /\ Pairing!Init
      OBVIOUS
    <2>1. OneDriver
      BY DEF Init, Agree, OneDriver
    <2>2. Pairs \in SUBSET (Driver \X Truck)
      BY DEF Pairs
    <2>3. ASSUME NEW p \in Pairs, NEW q \in Pairs, p[1] = q[1] \/ p[2] = q[2]
          PROVE  p = q
      BY <2>1, <2>3 DEF Pairs, OneDriver
    <2>4. QED
      BY <2>1, <2>2, <2>3 DEF Pairing!Init, Pairing!Matching
  <1>2. Inv /\ OneDriver /\ [Next]_vars => OneDriver' /\ [Pairing!Next]_Pairs
    <2> SUFFICES ASSUME Inv, OneDriver, [Next]_vars
                 PROVE  OneDriver' /\ [Pairing!Next]_Pairs
      OBVIOUS
    <2>1. CASE UNCHANGED <<truckOf, moved, left>>
      BY <2>1 DEF OneDriver, Pairs
    <2>2. QED
      BY <2>1, TruckOfChanges, MoveStep, FreeDriverStep, SaveDriverStep
  <1>3. Spec => []Inv
    BY Invariant
  <1>4. QED
    BY <1>1, <1>2, <1>3, PTL DEF Spec, Pairing!Spec


\* The contract keeps the pairs a matching, so that under the same discipline no truck
\* but one a moved driver has left is ever assigned to two unmoved drivers, whichever
\* saves have been done or lost (assignTruck).
THEOREM PairsAreMatching == Discipline /\ Spec => []Pairing!Matching(Pairs)
  <1>1. Pairing!Init => Pairing!Matching(Pairs)
    BY DEF Pairing!Init
  <1>2. Pairing!Matching(Pairs) /\ [Pairing!Next]_Pairs => Pairing!Matching(Pairs)'
    <2> SUFFICES ASSUME Pairing!Matching(Pairs), [Pairing!Next]_Pairs
                 PROVE  Pairing!Matching(Pairs)'
      OBVIOUS
    <2>1. ASSUME NEW t \in Truck, Pairing!Part(t)
          PROVE  Pairing!Matching(Pairs)'
      BY <2>1 DEF Pairing!Part, Pairing!Matching
    <2>2. ASSUME NEW d \in Driver, NEW t \in Truck, Pairing!Join(d, t)
          PROVE  Pairing!Matching(Pairs)'
      BY <2>2 DEF Pairing!Join, Pairing!Matching
    <2>3. CASE UNCHANGED Pairs
      BY <2>3 DEF Pairing!Matching
    <2>4. QED
      BY <2>1, <2>2, <2>3 DEF Pairing!Next
  <1>3. Pairing!Spec => []Pairing!Matching(Pairs)
    BY <1>1, <1>2, PTL DEF Pairing!Spec
  <1>4. QED
    BY <1>3, PairingHolds DEF ImplementsPairing

=============================================================================
