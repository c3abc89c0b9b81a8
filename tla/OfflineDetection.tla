-------------------------- MODULE OfflineDetection --------------------------
(***************************************************************************)
(* How a truck that falls silent goes OFFLINE: TrackingService.  A timer   *)
(* runs checkForOfflineTrucks every 60 s over the trucks that are ACTIVE;  *)
(* each look is a Redis read (truck:{id}:position, which expires 60 s      *)
(* after the last GPS update, or truck:{id}:active_since, the grace period *)
(* a trip starts with), followed by a read and a save of the truck's row.  *)
(* startTrip, endTrip, GPS updates and the office write the same data      *)
(* between any two of those awaits, and the process may stop at each.      *)
(*                                                                         *)
(* Time is discrete; Tick ages what is stored.  A Redis key whose life is  *)
(* over is gone.  A truck stands for itself and the one driver on it.      *)
(***************************************************************************)
EXTENDS FleetTypes, Naturals

CONSTANTS
    Truck,
    Report,         \* GPS updates the server can be handling at once
    Sweep,          \* sweeps that can be running at once
    Period,         \* ticks between two sweeps (60 s)
    PositionTTL,    \* ticks a position key lives (60 s)
    Threshold,      \* OFFLINE_THRESHOLD_MINUTES in ticks
    GraceTTL,       \* ticks an active_since key lives (Threshold and 2 minutes)
    MaxFailures     \* bound on the failures of a behaviour

ASSUME ConstantsAssumption ==
    /\ {Period, PositionTTL, Threshold} \subseteq Nat \ {0}
    /\ GraceTTL \in Nat /\ GraceTTL > Threshold /\ GraceTTL >= PositionTTL
    /\ MaxFailures \in Nat
    /\ Null \notin Truck

VARIABLES
    status,     \* status[t]: trucks.status
    trip,       \* trip[t]: the next step of the trip's handlers, or "open" or "none"
    position,   \* position[t]: the position key: ticks it has left, age of its lastUpdate
    grace,      \* grace[t]: age of active_since, GraceTTL once the key is gone
    newest,     \* history: newest[t]: ticks since a GPS update of t was last handled to
                \* its end, up to Threshold
    timer,      \* ticks since the last sweep began
    sweep,      \* sweep[s]: the state of a running sweep
    report,     \* report[g]: the state of a GPS update being handled
    failures    \* failures so far

vars == <<status, trip, position, grace, newest, timer, sweep, report, failures>>

-----------------------------------------------------------------------------
(* Rows, keys and handlers *)

\* An age beyond the threshold is as good as any other.
Age == 0 .. Threshold + 1

Position == [ttl: 0 .. PositionTTL, lastUpdate: Age]

NoPosition == [ttl |-> 0, lastUpdate |-> 0]

SweepJob == [pc: {"idle", "look", "grace", "find", "save"}, todo: SUBSET Truck,
             truck: Truck \union {Null}, lastSeen: {"null", "lastUpdate"}, age: 0 .. GraceTTL]

NoSweep == [pc |-> "idle", todo |-> {}, truck |-> Null, lastSeen |-> "null", age |-> 0]

GpsJob == [pc: {"idle", "saveRow", "setPosition", "delGrace"},
           truck: Truck \union {Null}, timestamp: Age]

NoReport == [pc |-> "idle", truck |-> Null, timestamp |-> 0]

TypeOK ==
    /\ status \in [Truck -> TruckStatus]
    /\ trip \in [Truck -> {"none", "activate", "seed", "open", "offline"}]
    /\ position \in [Truck -> Position]
    /\ grace \in [Truck -> 0 .. GraceTTL]
    /\ newest \in [Truck -> 0 .. Threshold]
    /\ timer \in 0 .. Period
    /\ sweep \in [Sweep -> SweepJob]
    /\ report \in [Report -> GpsJob]
    /\ failures \in 0 .. MaxFailures

Init ==
    /\ status = [t \in Truck |-> "OFFLINE"]
    /\ trip = [t \in Truck |-> "none"]
    /\ position = [t \in Truck |-> NoPosition]
    /\ grace = [t \in Truck |-> GraceTTL]
    /\ newest = [t \in Truck |-> Threshold]
    /\ timer = 0
    /\ sweep = [s \in Sweep |-> NoSweep]
    /\ report = [g \in Report |-> NoReport]
    /\ failures = 0

-----------------------------------------------------------------------------
(* Time *)

Older(age, cap) == IF age < cap THEN age + 1 ELSE cap

Aged(p) ==
    IF p.ttl <= 1 THEN NoPosition
    ELSE [ttl |-> p.ttl - 1, lastUpdate |-> Older(p.lastUpdate, Threshold + 1)]

\* The timer does not wait for a sweep to end; that the next one finds a slot is the
\* bound on how many run at once.
Tick ==
    /\ timer < Period
    /\ timer' = timer + 1
    /\ position' = [t \in Truck |-> Aged(position[t])]
    /\ grace' = [t \in Truck |-> Older(grace[t], GraceTTL)]
    /\ newest' = [t \in Truck |-> Older(newest[t], Threshold)]
    /\ sweep' = [s \in Sweep |-> IF sweep[s].pc = "idle" THEN NoSweep
                                 ELSE [sweep[s] EXCEPT !.age = Older(@, GraceTTL)]]
    /\ report' = [g \in Report |-> IF report[g].pc = "idle" THEN NoReport
                                   ELSE [report[g] EXCEPT !.timestamp = Older(@, Threshold + 1)]]
    /\ UNCHANGED <<status, trip, failures>>

-----------------------------------------------------------------------------
(* TripsService: the writes that touch the truck *)

\* startTrip inserts the trip ...
InsertTrip(t) ==
    /\ trip[t] = "none"
    /\ trip' = [trip EXCEPT ![t] = "activate"]
    /\ UNCHANGED <<status, position, grace, newest, timer, sweep, report, failures>>

\* ... saves the truck ...
ActivateTruck(t) ==
    /\ trip[t] = "activate"
    /\ status' = [status EXCEPT ![t] = "ACTIVE"]
    /\ trip' = [trip EXCEPT ![t] = "seed"]
    /\ UNCHANGED <<position, grace, newest, timer, sweep, report, failures>>

\* ... and only then calls seedTruckActiveGrace.
SeedGrace(t) ==
    /\ trip[t] = "seed"
    /\ grace' = [grace EXCEPT ![t] = 0]
    /\ trip' = [trip EXCEPT ![t] = "open"]
    /\ UNCHANGED <<status, position, newest, timer, sweep, report, failures>>

EndTrip(t) ==
    /\ trip[t] = "open"
    /\ trip' = [trip EXCEPT ![t] = "offline"]
    /\ UNCHANGED <<status, position, grace, newest, timer, sweep, report, failures>>

TruckOffline(t) ==
    /\ trip[t] = "offline"
    /\ status' = [status EXCEPT ![t] = "OFFLINE"]
    /\ trip' = [trip EXCEPT ![t] = "none"]
    /\ UNCHANGED <<position, grace, newest, timer, sweep, report, failures>>

\* The office's PATCH /trucks/:id/status, to any status.
UpdateStatus(t, new) ==
    /\ status' = [status EXCEPT ![t] = new]
    /\ UNCHANGED <<trip, position, grace, newest, timer, sweep, report, failures>>

-----------------------------------------------------------------------------
(* processGpsUpdate and processBatchUpdate *)

\* validateDriverGpsAccess: the trip exists and is not COMPLETED.  A single update has
\* to be fresh, the latest position of a batch may be a week old.
AcceptReport(g, t, timestamp) ==
    /\ report[g].pc = "idle"
    /\ trip[t] \in {"activate", "seed", "open"}
    /\ report' = [report EXCEPT ![g] = [pc |-> "saveRow", truck |-> t, timestamp |-> timestamp]]
    /\ UNCHANGED <<status, trip, position, grace, newest, timer, sweep, failures>>

SaveRow(g) ==
    /\ report[g].pc = "saveRow"
    /\ report' = [report EXCEPT ![g].pc = "setPosition"]
    /\ UNCHANGED <<status, trip, position, grace, newest, timer, sweep, failures>>

\* Mutant: the position key is given the life of the grace key.
SetPositionForGrace(g) ==
    /\ report[g].pc = "setPosition"
    /\ position' = [position EXCEPT ![report[g].truck] =
            [ttl |-> GraceTTL, lastUpdate |-> report[g].timestamp]]
    /\ report' = [report EXCEPT ![g].pc = "delGrace"]
    /\ UNCHANGED <<status, trip, grace, newest, timer, sweep, failures>>

SetPosition(g) ==
    /\ report[g].pc = "setPosition"
    /\ position' = [position EXCEPT ![report[g].truck] =
            [ttl |-> PositionTTL, lastUpdate |-> report[g].timestamp]]
    /\ report' = [report EXCEPT ![g].pc = "delGrace"]
    /\ UNCHANGED <<status, trip, grace, newest, timer, sweep, failures>>

DelGrace(g) ==
    /\ report[g].pc = "delGrace"
    /\ grace' = [grace EXCEPT ![report[g].truck] = GraceTTL]
    /\ newest' = [newest EXCEPT ![report[g].truck] = 0]
    /\ report' = [report EXCEPT ![g] = NoReport]
    /\ UNCHANGED <<status, trip, position, timer, sweep, failures>>

-----------------------------------------------------------------------------
(* checkForOfflineTrucks *)

\* A sweep with nothing left to look at is over.
Continue(s, todo) ==
    sweep' = [sweep EXCEPT ![s] =
        IF todo = {} THEN NoSweep
        ELSE [pc |-> "look", todo |-> todo, truck |-> Null, lastSeen |-> "null", age |-> @.age]]

BeginSweep(s) ==
    /\ timer = Period
    /\ sweep[s].pc = "idle"
    /\ timer' = 0
    /\ Continue(s, {t \in Truck : status[t] = "ACTIVE"})
    /\ UNCHANGED <<status, trip, position, grace, newest, report, failures>>

\* The sweep turns to truck t and goes on to pc.
Turn(s, t, pc, lastSeen) ==
    sweep' = [sweep EXCEPT ![s] =
        [pc |-> pc, todo |-> @.todo \ {t}, truck |-> t, lastSeen |-> lastSeen, age |-> @.age]]

\* Mutant: a position key that is there is good enough.
LookForPosition(s, t) ==
    /\ sweep[s].pc = "look"
    /\ t \in sweep[s].todo
    /\ \/ position[t].ttl = 0 /\ Turn(s, t, "grace", "null")
       \/ position[t].ttl > 0 /\ Continue(s, sweep[s].todo \ {t})
    /\ UNCHANGED <<status, trip, position, grace, newest, timer, report, failures>>

\* The position key of the next truck: absent, too old, or good enough.
LookAtPosition(s, t) ==
    /\ sweep[s].pc = "look"
    /\ t \in sweep[s].todo
    /\ \/ position[t].ttl = 0 /\ Turn(s, t, "grace", "null")
       \/ /\ position[t].ttl > 0
          /\ position[t].lastUpdate > Threshold
          /\ Turn(s, t, "find", "lastUpdate")
       \/ /\ position[t].ttl > 0
          /\ position[t].lastUpdate <= Threshold
          /\ Continue(s, sweep[s].todo \ {t})
    /\ UNCHANGED <<status, trip, position, grace, newest, timer, report, failures>>

\* Mutant: the threshold is not converted from minutes.
WithinActiveGraceUnits(t) == grace[t] * 60 < Threshold

\* isWithinActiveGrace
WithinActiveGrace(t) == grace[t] < Threshold

LookAtGrace(s) ==
    /\ sweep[s].pc = "grace"
    /\ IF WithinActiveGrace(sweep[s].truck) THEN Continue(s, sweep[s].todo)
       ELSE sweep' = [sweep EXCEPT ![s].pc = "find"]
    /\ UNCHANGED <<status, trip, position, grace, newest, timer, report, failures>>

\* markTruckOffline loads the truck again ...
FindTruck(s) ==
    /\ sweep[s].pc = "find"
    /\ IF status[sweep[s].truck] = "ACTIVE" THEN sweep' = [sweep EXCEPT ![s].pc = "save"]
       ELSE Continue(s, sweep[s].todo)
    /\ UNCHANGED <<status, trip, position, grace, newest, timer, report, failures>>

\* ... and saves it.  The broadcast and the alert that follow are AlertsService's.
SaveOffline(s) ==
    /\ sweep[s].pc = "save"
    /\ status' = [status EXCEPT ![sweep[s].truck] = "OFFLINE"]
    /\ Continue(s, sweep[s].todo)
    /\ UNCHANGED <<trip, position, grace, newest, timer, report, failures>>

-----------------------------------------------------------------------------
(* Failures *)

Fail == failures < MaxFailures /\ failures' = failures + 1

\* A call to PostgreSQL or Redis fails: the loop over the trucks is abandoned.
AbortSweep(s) ==
    /\ sweep[s].pc # "idle"
    /\ Fail
    /\ sweep' = [sweep EXCEPT ![s] = NoSweep]
    /\ UNCHANGED <<status, trip, position, grace, newest, timer, report>>

\* The process stops and is started again; keys and rows remain.
Restart ==
    /\ Fail
    /\ timer' = 0
    /\ sweep' = [s \in Sweep |-> NoSweep]
    /\ report' = [g \in Report |-> NoReport]
    /\ trip' = [t \in Truck |-> CASE trip[t] \in {"activate", "seed"} -> "open"
                                  [] trip[t] = "offline" -> "none"
                                  [] OTHER -> trip[t]]
    /\ UNCHANGED <<status, position, grace, newest>>

-----------------------------------------------------------------------------
HandleTrip(t) ==
    InsertTrip(t) \/ ActivateTruck(t) \/ SeedGrace(t) \/ EndTrip(t) \/ TruckOffline(t)

HandleReport(g) == SaveRow(g) \/ SetPosition(g) \/ DelGrace(g)

CheckForOfflineTrucks(s) ==
    \/ BeginSweep(s)
    \/ \E t \in Truck : LookAtPosition(s, t)
    \/ LookAtGrace(s) \/ FindTruck(s) \/ SaveOffline(s)

Next ==
    \/ Tick
    \/ \E t \in Truck :
        \/ HandleTrip(t)
        \/ \E new \in TruckStatus : UpdateStatus(t, new)
        \/ \E g \in Report, timestamp \in Age : AcceptReport(g, t, timestamp)
    \/ \E g \in Report : HandleReport(g)
    \/ \E s \in Sweep : CheckForOfflineTrucks(s) \/ AbortSweep(s)
    \/ Restart

Spec == Init /\ [][Next]_vars

\* Time passes, setInterval fires, and a sweep's calls are answered.  Nothing is
\* assumed of drivers, of the office or of GPS updates.
FairSpec == Spec /\ WF_vars(Tick) /\ \A s \in Sweep : WF_vars(CheckForOfflineTrucks(s))

-----------------------------------------------------------------------------
(* Properties *)

\* Sweep s takes truck t out of service.
Marks(s, t) ==
    /\ sweep[s].pc = "save" /\ sweep[s].truck = t
    /\ status[t] # "OFFLINE" /\ status'[t] = "OFFLINE" /\ sweep' # sweep

\* When sweep s began, the position key of t was there, and it still is good enough.
HeardBefore(s, t) ==
    /\ position[t].ttl > 0 /\ position[t].lastUpdate <= Threshold
    /\ PositionTTL - position[t].ttl > sweep[s].age

\* When sweep s began, t was in the grace period of its trip, and it still is.
WarmBefore(s, t) ==
    /\ sweep[s].lastSeen = "null"
    /\ grace[t] < Threshold /\ grace[t] > sweep[s].age

\* However the awaits of a sweep mix with trips, GPS updates, the office and
\* failures, checkForOfflineTrucks never takes a truck out of service that had
\* reported, or was in its grace period, when the sweep began and still is now.
WatchIsFair ==
    [][\A s \in Sweep, t \in Truck :
        Marks(s, t) => ~HeardBefore(s, t) /\ ~WarmBefore(s, t)]_<<status, sweep>>

\* The position key tells of a recent GPS update.
Heard(t) == position[t].ttl > 0 /\ position[t].lastUpdate <= Threshold

\* A truck left ACTIVE does not stay unwatched: it reports, or it is taken out of
\* service, whatever fails in between (checkForOfflineTrucks, also when endTrip
\* stopped before it saved the truck).
SilenceNoticed == \A t \in Truck : status[t] = "ACTIVE" ~> status[t] # "ACTIVE" \/ Heard(t)

\* "OFFLINE_THRESHOLD_MINUTES: No GPS -> mark truck OFFLINE": a sweep that finds no
\* position key leaves alone a truck on a trip that was started to the end, of which a
\* GPS update was handled to its end, key and active_since included, before the sweep
\* began and more recently than the threshold.
PatientWatch ==
    [][\A s \in Sweep, t \in Truck :
        Marks(s, t) /\ sweep[s].lastSeen = "null" /\ trip[t] = "open" =>
            newest[t] >= Threshold \/ newest[t] <= sweep[s].age]_<<status, sweep>>

=============================================================================
