----------------------- MODULE OfflineDetectionProofs -----------------------
(***************************************************************************)
(* Proofs about OfflineDetection, for every fleet, any number of sweeps    *)
(* and GPS updates at work, every choice of the four durations and any     *)
(* number of failures: what a sweep has found out about a truck stays true *)
(* until it saves, so that it never takes a watched truck out of service.  *)
(***************************************************************************)
EXTENDS OfflineDetection, TLAPS

\* What sweep s has found out about the truck it has turned to.
Verdict(s) ==
    sweep[s].pc \in {"grace", "find", "save"} =>
        /\ sweep[s].truck \in Truck
        /\ ~HeardBefore(s, sweep[s].truck)
        /\ sweep[s].pc # "grace" => ~WarmBefore(s, sweep[s].truck)

Verdicts == \A s \in Sweep : Verdict(s)

-----------------------------------------------------------------------------
USE ConstantsAssumption DEF Age, Position, NoPosition, SweepJob, NoSweep, GpsJob, NoReport

LEMMA OlderInRange ==
    ASSUME NEW cap \in Nat, NEW age \in 0 .. cap
    PROVE  /\ Older(age, cap) \in 0 .. cap
           /\ Older(age, cap) >= age
           /\ Older(age, cap) <= age + 1
  BY DEF Older

LEMMA OlderAge ==
    ASSUME NEW age \in Age
    PROVE  Older(age, Threshold + 1) \in Age /\ Older(age, Threshold + 1) >= age
  <1>1. Threshold + 1 \in Nat
    OBVIOUS
  <1> QED BY <1>1, OlderInRange

LEMMA ContinueTyped ==
    ASSUME TypeOK, NEW s \in Sweep, NEW todo \in SUBSET Truck, Continue(s, todo)
    PROVE  sweep' \in [Sweep -> SweepJob]
  <1>1. sweep[s].age \in 0 .. GraceTTL
    BY DEF TypeOK
  <1>2. [pc |-> "look", todo |-> todo, truck |-> Null, lastSeen |-> "null",
         age |-> sweep[s].age] \in SweepJob
    BY <1>1
  <1>3. NoSweep \in SweepJob
    OBVIOUS
  <1> QED BY <1>2, <1>3 DEF Continue, TypeOK

LEMMA TurnTyped ==
    ASSUME TypeOK, NEW s \in Sweep, NEW t \in Truck, NEW pc \in {"grace", "find"},
           NEW lastSeen \in {"null", "lastUpdate"}, Turn(s, t, pc, lastSeen)
    PROVE  sweep' \in [Sweep -> SweepJob]
  <1>1. sweep[s].age \in 0 .. GraceTTL /\ sweep[s].todo \in SUBSET Truck
    BY DEF TypeOK
  <1>2. [pc |-> pc, todo |-> sweep[s].todo \ {t}, truck |-> t, lastSeen |-> lastSeen,
         age |-> sweep[s].age] \in SweepJob
    BY <1>1
  <1> QED BY <1>2 DEF Turn, TypeOK

\* A sweep goes from one label to another and keeps the rest of its state.
LEMMA LabelTyped ==
    ASSUME TypeOK, NEW s \in Sweep, NEW pc \in {"find", "save"},
           sweep' = [sweep EXCEPT ![s].pc = pc]
    PROVE  sweep' \in [Sweep -> SweepJob]
  <1>1. sweep[s] \in SweepJob
    BY DEF TypeOK
  <1>2. [sweep[s] EXCEPT !.pc = pc] \in SweepJob
    BY <1>1
  <1> QED BY <1>2 DEF TypeOK

\* The same of a GPS update.
LEMMA ReportTyped ==
    ASSUME TypeOK, NEW g \in Report, NEW pc \in {"setPosition", "delGrace"},
           report' = [report EXCEPT ![g].pc = pc]
    PROVE  report' \in [Report -> GpsJob]
  <1>1. report[g] \in GpsJob
    BY DEF TypeOK
  <1>2. [report[g] EXCEPT !.pc = pc] \in GpsJob
    BY <1>1
  <1> QED BY <1>2 DEF TypeOK

LEMMA TypeTick ==
    ASSUME TypeOK, Tick
    PROVE  TypeOK'
  <1>1. ASSUME NEW t \in Truck
        PROVE  Aged(position[t]) \in Position
    <2>1. position[t] \in Position
      BY DEF TypeOK
    <2>2. Older(position[t].lastUpdate, Threshold + 1) \in Age
      BY <2>1, OlderAge
    <2> QED BY <2>1, <2>2 DEF Aged
  <1>2. ASSUME NEW s \in Sweep
        PROVE  [sweep[s] EXCEPT !.age = Older(@, GraceTTL)] \in SweepJob
    <2>1. sweep[s] \in SweepJob
      BY DEF TypeOK
    <2>2. Older(sweep[s].age, GraceTTL) \in 0 .. GraceTTL
      BY <2>1, OlderInRange
    <2> QED BY <2>1, <2>2
  <1>3. ASSUME NEW g \in Report
        PROVE  [report[g] EXCEPT !.timestamp = Older(@, Threshold + 1)] \in GpsJob
    <2>1. report[g] \in GpsJob
      BY DEF TypeOK
    <2>2. Older(report[g].timestamp, Threshold + 1) \in Age
      BY <2>1, OlderAge
    <2> QED BY <2>1, <2>2
  <1>4. /\ \A t \in Truck : Older(grace[t], GraceTTL) \in 0 .. GraceTTL
        /\ \A t \in Truck : Older(newest[t], Threshold) \in 0 .. Threshold
    BY OlderInRange DEF TypeOK
  <1>5. position' \in [Truck -> Position]
    BY <1>1 DEF Tick
  <1>6. sweep' \in [Sweep -> SweepJob]
    BY <1>2 DEF Tick
  <1>7. report' \in [Report -> GpsJob]
    BY <1>3 DEF Tick
  <1>8. /\ grace' \in [Truck -> 0 .. GraceTTL]
        /\ newest' \in [Truck -> 0 .. Threshold]
    BY <1>4 DEF Tick
  <1>9. timer' \in 0 .. Period
    BY DEF Tick, TypeOK
  <1> QED BY <1>5, <1>6, <1>7, <1>8, <1>9 DEF Tick, TypeOK

LEMMA TypeNext == TypeOK /\ [Next]_vars => TypeOK'
  <1> SUFFICES ASSUME TypeOK, [Next]_vars
               PROVE  TypeOK'
    OBVIOUS
  <1>1. CASE Tick
    BY <1>1, TypeTick
  <1>2. ASSUME NEW t \in Truck, HandleTrip(t)
        PROVE  TypeOK'
    <2>1. trip' \in [Truck -> {"none", "activate", "seed", "open", "offline"}]
      BY <1>2 DEF HandleTrip, InsertTrip, ActivateTruck, SeedGrace, EndTrip, TruckOffline, TypeOK
    <2>2. status' \in [Truck -> TruckStatus]
      BY <1>2 DEF HandleTrip, InsertTrip, ActivateTruck, SeedGrace, EndTrip, TruckOffline,
                  TypeOK, TruckStatus
    <2>3. grace' \in [Truck -> 0 .. GraceTTL]
      BY <1>2 DEF HandleTrip, InsertTrip, ActivateTruck, SeedGrace, EndTrip, TruckOffline, TypeOK
    <2>4. UNCHANGED <<position, newest, timer, sweep, report, failures>>
      BY <1>2 DEF HandleTrip, InsertTrip, ActivateTruck, SeedGrace, EndTrip, TruckOffline
    <2> QED BY <2>1, <2>2, <2>3, <2>4 DEF TypeOK
  <1>3. ASSUME NEW t \in Truck, NEW new \in TruckStatus, UpdateStatus(t, new)
        PROVE  TypeOK'
    BY <1>3 DEF UpdateStatus, TypeOK
  <1>4. ASSUME NEW t \in Truck, NEW g \in Report, NEW timestamp \in Age,
               AcceptReport(g, t, timestamp)
        PROVE  TypeOK'
    <2>1. [pc |-> "saveRow", truck |-> t, timestamp |-> timestamp] \in GpsJob
      OBVIOUS
    <2> QED BY <1>4, <2>1 DEF AcceptReport, TypeOK
  <1>5. ASSUME NEW g \in Report, SaveRow(g)
        PROVE  TypeOK'
    <2>1. report' \in [Report -> GpsJob]
      BY <1>5, ReportTyped DEF SaveRow
    <2> QED BY <1>5, <2>1 DEF SaveRow, TypeOK
  <1>6. ASSUME NEW g \in Report, SetPosition(g)
        PROVE  TypeOK'
    <2>1. [ttl |-> PositionTTL, lastUpdate |-> report[g].timestamp] \in Position
      BY DEF TypeOK
    <2>2. report' \in [Report -> GpsJob]
      BY <1>6, ReportTyped DEF SetPosition
    <2> QED BY <1>6, <2>1, <2>2 DEF SetPosition, TypeOK
  <1>7. ASSUME NEW g \in Report, DelGrace(g)
        PROVE  TypeOK'
    <2>1. NoReport \in GpsJob /\ GraceTTL \in 0 .. GraceTTL
      OBVIOUS
    <2>2. newest' \in [Truck -> 0 .. Threshold]
      <3>1. 0 \in 0 .. Threshold /\ newest \in [Truck -> 0 .. Threshold]
        BY DEF TypeOK
      <3>2. newest' = [newest EXCEPT ![report[g].truck] = 0]
        BY <1>7 DEF DelGrace
      <3> HIDE ConstantsAssumption
      <3> QED BY <3>1, <3>2
    <2> QED BY <1>7, <2>1, <2>2 DEF DelGrace, TypeOK
  <1>8. ASSUME NEW s \in Sweep, BeginSweep(s)
        PROVE  TypeOK'
    <2>1. sweep' \in [Sweep -> SweepJob]
      BY <1>8, ContinueTyped DEF BeginSweep
    <2> QED BY <1>8, <2>1 DEF BeginSweep, TypeOK
  <1>9. ASSUME NEW s \in Sweep, NEW t \in Truck, LookAtPosition(s, t)
        PROVE  TypeOK'
    <2>1. sweep[s].todo \ {t} \in SUBSET Truck
      BY DEF TypeOK
    <2>2. sweep' \in [Sweep -> SweepJob]
      BY <1>9, <2>1, ContinueTyped, TurnTyped DEF LookAtPosition
    <2> QED BY <1>9, <2>2 DEF LookAtPosition, TypeOK
  <1>10. ASSUME NEW s \in Sweep, LookAtGrace(s) \/ FindTruck(s)
         PROVE  TypeOK'
    <2>1. sweep[s].todo \in SUBSET Truck
      BY DEF TypeOK
    <2>2. sweep' \in [Sweep -> SweepJob]
      BY <1>10, <2>1, ContinueTyped, LabelTyped DEF LookAtGrace, FindTruck
    <2> QED BY <1>10, <2>2 DEF LookAtGrace, FindTruck, TypeOK
  <1>11. ASSUME NEW s \in Sweep, SaveOffline(s)
         PROVE  TypeOK'
    <2>1. sweep[s].todo \in SUBSET Truck
      BY DEF TypeOK
    <2>2. sweep' \in [Sweep -> SweepJob]
      BY <1>11, <2>1, ContinueTyped DEF SaveOffline
    <2> QED BY <1>11, <2>2 DEF SaveOffline, TypeOK, TruckStatus
  <1>12. ASSUME NEW s \in Sweep, AbortSweep(s)
         PROVE  TypeOK'
    BY <1>12 DEF AbortSweep, Fail, TypeOK
  <1>13. CASE Restart
    BY <1>13 DEF Restart, Fail, TypeOK
  <1>14. CASE UNCHANGED vars
    BY <1>14 DEF vars, TypeOK
  <1> QED
    BY <1>1, <1>2, <1>3, <1>4, <1>5, <1>6, <1>7, <1>8, <1>9, <1>10, <1>11, <1>12,
       <1>13, <1>14 DEF Next, HandleReport, CheckForOfflineTrucks

\* Ages, lives of keys and labels keep their ranges whatever the durations are and
\* however many sweeps overlap (TrackingService).
THEOREM TypeCorrect == Spec => []TypeOK
  <1>1. Init => TypeOK
    BY DEF Init, TypeOK, TruckStatus
  <1> QED BY <1>1, TypeNext, PTL DEF Spec

-----------------------------------------------------------------------------
(* A verdict stays true *)

\* A sweep that has yet to look has no verdict to keep.
LEMMA ContinueVerdict ==
    ASSUME TypeOK, NEW s \in Sweep, NEW todo, Continue(s, todo)
    PROVE  Verdict(s)'
  BY DEF Continue, TypeOK, Verdict

\* The other sweeps' verdicts rest on keys that this step does not touch.
LEMMA OtherVerdict ==
    ASSUME Verdicts, NEW q \in Sweep, sweep'[q] = sweep[q], UNCHANGED <<position, grace>>
    PROVE  Verdict(q)'
  BY DEF Verdicts, Verdict, HeardBefore, WarmBefore

LEMMA VerdictTick ==
    ASSUME TypeOK, Verdicts, Tick, NEW s \in Sweep
    PROVE  Verdict(s)'
  <1> SUFFICES ASSUME sweep'[s].pc \in {"grace", "find", "save"}
               PROVE  /\ sweep'[s].truck \in Truck
                      /\ ~HeardBefore(s, sweep[s].truck)'
                      /\ sweep'[s].pc # "grace" => ~WarmBefore(s, sweep[s].truck)'
                      /\ sweep'[s].truck = sweep[s].truck
    BY DEF Verdict
  <1> DEFINE t == sweep[s].truck
             a == sweep[s].age
  <1>1. sweep[s] \in SweepJob /\ sweep'[s] = [sweep[s] EXCEPT !.age = Older(@, GraceTTL)]
    BY DEF Tick, TypeOK
  <1>2. /\ sweep'[s].pc = sweep[s].pc /\ sweep'[s].truck = t
        /\ sweep'[s].lastSeen = sweep[s].lastSeen /\ sweep'[s].age = Older(a, GraceTTL)
    BY <1>1
  <1>3. /\ t \in Truck /\ ~HeardBefore(s, t)
        /\ sweep[s].pc # "grace" => ~WarmBefore(s, t)
    BY <1>2 DEF Verdicts, Verdict
  <1>4. a \in 0 .. GraceTTL /\ Older(a, GraceTTL) = IF a < GraceTTL THEN a + 1 ELSE GraceTTL
    BY <1>1 DEF Older
  <1>5. ~HeardBefore(s, t)'
    <2>1. position[t] \in Position /\ position'[t] = Aged(position[t])
      BY <1>3 DEF Tick, TypeOK
    <2>2. CASE position[t].ttl <= 1
      BY <2>1, <2>2, <1>2 DEF Aged, HeardBefore
    <2>3. CASE position[t].ttl > 1
      <3>1. /\ position'[t].ttl = position[t].ttl - 1
            /\ position'[t].lastUpdate = Older(position[t].lastUpdate, Threshold + 1)
        BY <2>1, <2>3 DEF Aged
      <3>2. position'[t].lastUpdate \in Age /\ position'[t].lastUpdate >= position[t].lastUpdate
        BY <2>1, <3>1, OlderAge
      <3> QED BY <2>1, <2>3, <3>1, <3>2, <1>2, <1>3, <1>4 DEF HeardBefore
    <2> QED BY <2>1, <2>2, <2>3
  <1>6. ASSUME sweep[s].pc # "grace"
        PROVE  ~WarmBefore(s, t)'
    <2>1. grace[t] \in 0 .. GraceTTL /\ grace'[t] = Older(grace[t], GraceTTL)
      BY <1>3 DEF Tick, TypeOK
    <2>2. grace'[t] = IF grace[t] < GraceTTL THEN grace[t] + 1 ELSE GraceTTL
      BY <2>1 DEF Older
    <2> QED BY <2>1, <2>2, <1>2, <1>3, <1>4, <1>6 DEF WarmBefore
  <1> QED BY <1>2, <1>3, <1>5, <1>6

LEMMA VerdictNext == TypeOK /\ Verdicts /\ [Next]_vars => Verdicts'
  <1> SUFFICES ASSUME TypeOK, Verdicts, [Next]_vars, NEW q \in Sweep
               PROVE  Verdict(q)'
    BY DEF Verdicts
  <1>0. sweep[q] \in SweepJob
    BY DEF TypeOK
  <1>1. CASE Tick
    BY <1>1, VerdictTick
  <1>2. ASSUME NEW t \in Truck, HandleTrip(t)
        PROVE  Verdict(q)'
    <2>1. CASE SeedGrace(t)
      BY <2>1, <1>0 DEF SeedGrace, TypeOK, Verdicts, Verdict, HeardBefore, WarmBefore
    <2>2. CASE UNCHANGED <<position, grace, sweep>>
      BY <2>2, OtherVerdict
    <2> QED BY <1>2, <2>1, <2>2 DEF HandleTrip, InsertTrip, ActivateTruck, EndTrip, TruckOffline
  <1>3. ASSUME NEW t \in Truck, NEW new \in TruckStatus, UpdateStatus(t, new)
        PROVE  Verdict(q)'
    BY <1>3, OtherVerdict DEF UpdateStatus
  <1>4. ASSUME NEW t \in Truck, NEW g \in Report, NEW timestamp \in Age,
               AcceptReport(g, t, timestamp)
        PROVE  Verdict(q)'
    BY <1>4, OtherVerdict DEF AcceptReport
  <1>5. ASSUME NEW g \in Report, SaveRow(g)
        PROVE  Verdict(q)'
    BY <1>5, OtherVerdict DEF SaveRow
  <1>6. ASSUME NEW g \in Report, SetPosition(g)
        PROVE  Verdict(q)'
    BY <1>6, <1>0 DEF SetPosition, TypeOK, Verdicts, Verdict, HeardBefore, WarmBefore
  <1>7. ASSUME NEW g \in Report, DelGrace(g)
        PROVE  Verdict(q)'
    BY <1>7, <1>0 DEF DelGrace, TypeOK, Verdicts, Verdict, HeardBefore, WarmBefore
  <1>8. ASSUME NEW s \in Sweep, BeginSweep(s)
        PROVE  Verdict(q)'
    <2>1. CASE q = s
      BY <1>8, <2>1, ContinueVerdict DEF BeginSweep
    <2>2. CASE q # s
      BY <1>8, <2>2, OtherVerdict DEF BeginSweep, Continue, TypeOK
    <2> QED BY <2>1, <2>2
  <1>9. ASSUME NEW s \in Sweep, NEW t \in Truck, LookAtPosition(s, t)
        PROVE  Verdict(q)'
    <2>1. CASE q # s
      BY <1>9, <2>1, OtherVerdict DEF LookAtPosition, Continue, Turn, TypeOK
    <2>2. CASE q = s /\ Continue(s, sweep[s].todo \ {t})
      BY <2>2, ContinueVerdict
    <2>3. CASE q = s /\ position[t].ttl = 0 /\ Turn(s, t, "grace", "null")
      BY <1>9, <2>3 DEF LookAtPosition, Turn, TypeOK, Verdict, HeardBefore
    <2>4. CASE q = s /\ position[t].lastUpdate > Threshold /\ Turn(s, t, "find", "lastUpdate")
      BY <1>9, <2>4 DEF LookAtPosition, Turn, TypeOK, Verdict, HeardBefore, WarmBefore
    <2> QED BY <1>9, <2>1, <2>2, <2>3, <2>4 DEF LookAtPosition
  <1>10. ASSUME NEW s \in Sweep, LookAtGrace(s)
         PROVE  Verdict(q)'
    <2>1. CASE q # s
      BY <1>10, <2>1, OtherVerdict DEF LookAtGrace, Continue, TypeOK
    <2>2. CASE q = s /\ WithinActiveGrace(sweep[s].truck)
      BY <1>10, <2>2, ContinueVerdict DEF LookAtGrace
    <2>3. CASE q = s /\ ~WithinActiveGrace(sweep[s].truck)
      BY <1>10, <2>3, <1>0
      DEF LookAtGrace, WithinActiveGrace, TypeOK, Verdicts, Verdict, HeardBefore, WarmBefore
    <2> QED BY <2>1, <2>2, <2>3
  <1>11. ASSUME NEW s \in Sweep, FindTruck(s)
         PROVE  Verdict(q)'
    <2>1. CASE q # s
      BY <1>11, <2>1, OtherVerdict DEF FindTruck, Continue, TypeOK
    <2>2. CASE q = s /\ status[sweep[s].truck] # "ACTIVE"
      BY <1>11, <2>2, ContinueVerdict DEF FindTruck
    <2>3. CASE q = s /\ status[sweep[s].truck] = "ACTIVE"
      BY <1>11, <2>3, <1>0 DEF FindTruck, TypeOK, Verdicts, Verdict, HeardBefore, WarmBefore
    <2> QED BY <2>1, <2>2, <2>3
  <1>12. ASSUME NEW s \in Sweep, SaveOffline(s)
         PROVE  Verdict(q)'
    <2>1. CASE q = s
      BY <1>12, <2>1, ContinueVerdict DEF SaveOffline
    <2>2. CASE q # s
      BY <1>12, <2>2, OtherVerdict DEF SaveOffline, Continue, TypeOK
    <2> QED BY <2>1, <2>2
  <1>13. ASSUME NEW s \in Sweep, AbortSweep(s)
         PROVE  Verdict(q)'
    <2>1. CASE q = s
      BY <1>13, <2>1 DEF AbortSweep, TypeOK, Verdict
    <2>2. CASE q # s
      BY <1>13, <2>2, OtherVerdict DEF AbortSweep, TypeOK
    <2> QED BY <2>1, <2>2
  <1>14. CASE Restart
    BY <1>14 DEF Restart, Verdict
  <1>15. CASE UNCHANGED vars
    BY <1>15, OtherVerdict DEF vars
  <1> QED
    BY <1>1, <1>2, <1>3, <1>4, <1>5, <1>6, <1>7, <1>8, <1>9, <1>10, <1>11, <1>12,
       <1>13, <1>14, <1>15 DEF Next, HandleReport, CheckForOfflineTrucks

\* No sweep takes a truck out of service that had reported, or was in its grace
\* period, when the sweep began and still is, for every fleet, every duration and any
\* number of overlapping sweeps (checkForOfflineTrucks, markTruckOffline).
THEOREM WatchIsFairHolds == Spec => WatchIsFair
  <1>1. Init => TypeOK /\ Verdicts
    BY DEF Init, TypeOK, TruckStatus, Verdicts, Verdict
  <1>2. TypeOK /\ Verdicts /\ [Next]_vars => TypeOK' /\ Verdicts'
    BY TypeNext, VerdictNext
  <1>3. TypeOK /\ Verdicts =>
            [\A s \in Sweep, t \in Truck :
                Marks(s, t) => ~HeardBefore(s, t) /\ ~WarmBefore(s, t)]_<<status, sweep>>
    BY DEF Verdicts, Verdict, Marks
  <1> QED BY <1>1, <1>2, <1>3, PTL DEF Spec, WatchIsFair

=============================================================================
