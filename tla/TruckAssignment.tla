-------------------------- MODULE TruckAssignment --------------------------
(***************************************************************************)
(* Which driver drives which truck.  The relation is stored twice, in      *)
(* drivers.assigned_truck_id and in trucks.assigned_driver_id, and         *)
(* DriversService.assignTruck keeps the two in step with up to four saves  *)
(* of four rows, one await each and no transaction.  Every other handler   *)
(* that loads a truck or a driver and saves it (a status, a phone number)  *)
(* writes the relation's column of that row back as it was loaded.         *)
(*                                                                         *)
(* A save is one step: each row has a single column modelled here.         *)
(***************************************************************************)
CONSTANTS
    Driver,
    Truck,
    Request,        \* requests the server can be handling at once
    Disorder,       \* what may go wrong, see Disorders
    Null            \* no driver, no truck

\* reassigns: a driver who has a truck may be given another
\* assigns:   assignments may overlap
\* edits:     a truck or a driver may be edited while an assignment is at work
\* abort:     a handler may stop between two awaits
\* giveUp:    the office may leave an assignment that failed as it is
Disorders == {"reassigns", "assigns", "edits", "abort", "giveUp"}

ASSUME ConstantsAssumption ==
    /\ Null \notin Driver \union Truck \union (Driver \X Truck)
    /\ Disorder \subseteq Disorders

VARIABLES
    truckOf,    \* truckOf[d]: drivers.assigned_truck_id
    driverOf,   \* driverOf[t]: trucks.assigned_driver_id
    pc,         \* pc[r]: the next step of the handler in slot r, or "idle"
    job,        \* job[r]: its driver and truck, and the partners they had when loaded
    failed,     \* the assignment that failed last and was not repeated since
    moved,      \* history: drivers who were given another truck while they had one
    left        \* history: the trucks those drivers had

columns == <<truckOf, driverOf>>

history == <<moved, left>>

vars == <<columns, pc, job, failed, history>>

-----------------------------------------------------------------------------
(* Rows and requests *)

Label == {"readTruck", "freeDriver", "freeTruck", "saveDriver", "saveTruck",
          "saveTruckRow", "saveDriverRow"}

Job == [driver: Driver \union {Null}, truck: Truck \union {Null},
        hadTruck: Truck \union {Null}, hadDriver: Driver \union {Null}]

NoJob == [driver |-> Null, truck |-> Null, hadTruck |-> Null, hadDriver |-> Null]

\* The two columns tell the same pairs.
Agree == \A d \in Driver, t \in Truck : truckOf[d] = t <=> driverOf[t] = d

TypeOK ==
    /\ truckOf \in [Driver -> Truck \union {Null}]
    /\ driverOf \in [Truck -> Driver \union {Null}]
    /\ pc \in [Request -> Label \union {"idle"}]
    /\ job \in [Request -> Job]
    /\ failed \in (Driver \X Truck) \union {Null}
    /\ moved \subseteq Driver /\ left \subseteq Truck

Init ==
    /\ truckOf \in [Driver -> Truck \union {Null}]
    /\ driverOf \in [Truck -> Driver \union {Null}]
    /\ Agree
    /\ pc = [r \in Request |-> "idle"]
    /\ job = [r \in Request |-> NoJob]
    /\ failed = Null
    /\ moved = {} /\ left = {}

Busy(r) == pc[r] # "idle"

At(r, label) == pc[r] = label

Assigning(r) == pc[r] \notin {"idle", "saveTruckRow", "saveDriverRow"}

Arrive(r, label, j) ==
    /\ ~Busy(r)
    /\ pc' = [pc EXCEPT ![r] = label]
    /\ job' = [job EXCEPT ![r] = j]
    /\ UNCHANGED <<columns, failed>>

Goto(r, label) == pc' = [pc EXCEPT ![r] = label]

Finish(r) ==
    /\ pc' = [pc EXCEPT ![r] = "idle"]
    /\ job' = [job EXCEPT ![r] = NoJob]

-----------------------------------------------------------------------------
(* POST /drivers/:id/assign-truck *)

\* The office repeats an assignment that failed before it makes another.
AssignTruck(r, d, t) ==
    /\ truckOf[d] \in {Null, t} \/ "reassigns" \in Disorder
    /\ failed \in {Null, <<d, t>>} \/ "giveUp" \in Disorder
    /\ \A q \in Request : Busy(q) => (IF Assigning(q) THEN "assigns" ELSE "edits") \in Disorder
    /\ Arrive(r, "readTruck",
            [driver |-> d, truck |-> t, hadTruck |-> truckOf[d], hadDriver |-> Null])
    /\ IF truckOf[d] \in {Null, t} THEN UNCHANGED history
       ELSE moved' = moved \union {d} /\ left' = left \union {truckOf[d]}

\* The next save once the truck's previous driver is dealt with.
AfterDriverFreed(j) ==
    IF j.hadTruck \notin {Null, j.truck} THEN "freeTruck" ELSE "saveDriver"

\* Mutant: the truck's previous driver is forgotten.
KeepOldDriver(j, holder) == AfterDriverFreed(j)

\* The first save, when the truck's row names holder as its driver.
AfterRead(j, holder) ==
    IF holder \notin {Null, j.driver} THEN "freeDriver" ELSE AfterDriverFreed(j)

ReadTruck(r) ==
    /\ At(r, "readTruck")
    /\ LET j == job[r]
           holder == driverOf[j.truck]
       IN  /\ job' = [job EXCEPT ![r] =
                    [driver |-> j.driver, truck |-> j.truck,
                     hadTruck |-> j.hadTruck, hadDriver |-> holder]]
           /\ Goto(r, AfterRead(j, holder))
    /\ UNCHANGED <<columns, failed, history>>

\* "Unassign previous driver if any"
FreeDriver(r) ==
    /\ At(r, "freeDriver")
    /\ truckOf' = [truckOf EXCEPT ![job[r].hadDriver] = Null]
    /\ Goto(r, AfterDriverFreed(job[r]))
    /\ UNCHANGED <<driverOf, job, failed, history>>

\* "Unassign previous truck if any"
FreeTruck(r) ==
    /\ At(r, "freeTruck")
    /\ driverOf' = [driverOf EXCEPT ![job[r].hadTruck] = Null]
    /\ Goto(r, "saveDriver")
    /\ UNCHANGED <<truckOf, job, failed, history>>

\* Mutant: the relation wins whether a truck was loaded with it or not.
StoredAsLoaded(j) == j.hadTruck

\* The handler sets driver.assignedTruckId, but findOne has loaded the relation
\* assignedTruck too: when that is not null, save() takes the column from it and never
\* looks at the column the handler has set.
Stored(j) == IF j.hadTruck # Null THEN j.hadTruck ELSE j.truck

\* Mutant: the driver's row is given the driver's own identifier.
SaveDriverOwnId(r) ==
    /\ At(r, "saveDriver")
    /\ truckOf' = [truckOf EXCEPT ![job[r].driver] = job[r].driver]
    /\ Goto(r, "saveTruck")
    /\ UNCHANGED <<driverOf, job, failed, history>>

SaveDriver(r) ==
    /\ At(r, "saveDriver")
    /\ truckOf' = [truckOf EXCEPT ![job[r].driver] = Stored(job[r])]
    /\ Goto(r, "saveTruck")
    /\ UNCHANGED <<driverOf, job, failed, history>>

\* Mutant: the truck's row is saved as it was loaded.
SaveTruckAsLoaded(r) ==
    /\ At(r, "saveTruck")
    /\ driverOf' = [driverOf EXCEPT ![job[r].truck] = job[r].hadDriver]
    /\ Finish(r)
    /\ failed' = Null
    /\ UNCHANGED <<truckOf, history>>

SaveTruck(r) ==
    /\ At(r, "saveTruck")
    /\ driverOf' = [driverOf EXCEPT ![job[r].truck] = job[r].driver]
    /\ Finish(r)
    /\ failed' = Null
    /\ UNCHANGED <<truckOf, history>>

-----------------------------------------------------------------------------
(* Handlers that load a row, change something else and save it *)

\* updateStatus and update of a truck; startTrip, endTrip and the offline job
\* load and save a truck's row in the same way.
LoadTruckRow(r, t) ==
    /\ \A q \in Request : Assigning(q) => "edits" \in Disorder
    /\ Arrive(r, "saveTruckRow",
            [driver |-> Null, truck |-> t, hadTruck |-> Null, hadDriver |-> driverOf[t]])
    /\ UNCHANGED history

SaveTruckRow(r) ==
    /\ At(r, "saveTruckRow")
    /\ driverOf' = [driverOf EXCEPT ![job[r].truck] = job[r].hadDriver]
    /\ Finish(r)
    /\ UNCHANGED <<truckOf, failed, history>>

\* DriversService.update
LoadDriverRow(r, d) ==
    /\ \A q \in Request : Assigning(q) => "edits" \in Disorder
    /\ Arrive(r, "saveDriverRow",
            [driver |-> d, truck |-> Null, hadTruck |-> truckOf[d], hadDriver |-> Null])
    /\ UNCHANGED history

SaveDriverRow(r) ==
    /\ At(r, "saveDriverRow")
    /\ truckOf' = [truckOf EXCEPT ![job[r].driver] = job[r].hadTruck]
    /\ Finish(r)
    /\ UNCHANGED <<driverOf, failed, history>>

\* A database call of the handler fails, or the process stops.
Abort(r) ==
    /\ "abort" \in Disorder
    /\ Busy(r)
    /\ Finish(r)
    /\ failed' = IF Assigning(r) THEN <<job[r].driver, job[r].truck>> ELSE failed
    /\ UNCHANGED <<columns, history>>

-----------------------------------------------------------------------------
Handle(r) ==
    \/ ReadTruck(r) \/ FreeDriver(r) \/ FreeTruck(r) \/ SaveDriver(r) \/ SaveTruck(r)
    \/ SaveTruckRow(r) \/ SaveDriverRow(r)

Receive(r) ==
    \/ \E d \in Driver, t \in Truck : AssignTruck(r, d, t)
    \/ \E t \in Truck : LoadTruckRow(r, t)
    \/ \E d \in Driver : LoadDriverRow(r, d)

Next == \E r \in Request : Handle(r) \/ Receive(r) \/ Abort(r)

Spec == Init /\ [][Next]_vars

\* The event loop runs every await's continuation once the database has answered.
FairSpec == Spec /\ \A r \in Request : WF_vars(Handle(r))

-----------------------------------------------------------------------------
(* Properties *)

Settled == failed = Null /\ \A r \in Request : ~Assigning(r)

\* "Kept in sync (DriversService.assignTruck)": whenever no assignment is at work and
\* none waits to be repeated, the driver's and the truck's column tell the same pairs.
InSync == Settled => Agree

\* The columns tell the same pairs of drivers nobody has moved from truck to truck: no
\* truck names one without being its driver's truck, and the truck such a driver has
\* names that driver unless a moved driver has left it.
AgreeUnmoved ==
    \A d \in Driver \ moved, t \in Truck :
        /\ driverOf[t] = d => truckOf[d] = t
        /\ truckOf[d] = t /\ t \notin left => driverOf[t] = d

\* What is left of InSync with reassignments about (moved, left: SaveDriver does not
\* persist them).  A failure may fall between any two of assignTruck's saves, the truck
\* may have another driver, moved or not: once what failed is repeated, the rows of the
\* others are in step.
UnmovedInSync == Settled => AgreeUnmoved

\* The pairs the drivers' rows tell, moved drivers and the trucks they left set aside.
Pairs == {p \in (Driver \ moved) \X (Truck \ left) : truckOf[p[1]] = p[2]}

Pairing == INSTANCE PairingContract WITH pairs <- Pairs

\* At every moment, also between the saves, a truck is the assigned truck of at most
\* one driver, and giving it to another parts the previous pair (assignTruck); a pair
\* ends when its driver is moved, and no other is touched by that.
ImplementsPairing == Pairing!Spec

\* The assignment of a truck to a driver who has none, or has that one, ends with the
\* pair in both columns, or fails for the office to see: none of assignTruck's four
\* saves undoes another.
AssignTakesEffect ==
    \A r \in Request, d \in Driver, t \in Truck :
        At(r, "readTruck") /\ job[r].driver = d /\ job[r].truck = t /\ job[r].hadTruck \in {Null, t}
            ~> (truckOf[d] = t /\ driverOf[t] = d) \/ failed = <<d, t>>

=============================================================================
