# A verification project for the fleet tracker

The repository holds three programs: the NestJS backend (`fleet-tracker-api`), the React
dashboard of the office (`trucky-admin-dashboard`) and the plan of an Android driver app
(`trucky-driver-app`, no code yet). The backend keeps PostgreSQL tables through TypeORM and
short-lived keys in Redis; drivers and the office reach it by HTTP and by a Socket.IO gateway.

What makes it hard to test is the same everywhere: a request handler is a sequence of `await`s,
none of them inside a transaction and, but for the email of a user, none guarded by a lock or a unique index, so every handler
can interleave with every other, and a failure in the middle leaves the earlier writes behind.
The modules here take one handler, or one background job, apart at exactly those `await`s.

## Inventory

| component | state | operations | hard behaviour | what makes it correct |
|---|---|---|---|---|
| Trips (`src/trips`) | `trips`, `trip_stops`, `load_pickups`, `delivery_records`; writes `trucks.status`, Redis `active_since` | startTrip, addStops, confirmLoad, completeDelivery, endTrip | 3–5 awaits per handler, stale copies, partial failure, requests repeated or out of order | one open trip per driver; records precede statuses; distance = difference of readings; truck status follows the trips |
| Assignment (`src/drivers`, `src/trucks`) | `drivers.assigned_truck_id`, `trucks.assigned_driver_id`, `trucks.status` | assignTruck, update, updateStatus | one relation stored twice, four saves of three rows, stale rows saved by other handlers | the two sides agree as long as nobody is moved from truck to truck; a truck has one driver |
| Tracking (`src/tracking`) | `tracking_positions`, Redis `position`, `active_since`, `last_movement` | processGpsUpdate, processBatchUpdate, checkForOfflineTrucks every 60 s | key expiry against the clock, job against handlers, late and reordered positions | a silent truck is marked OFFLINE, a reporting one is not; the live position is the newest |
| Alerts (`src/alerts`) | `alerts`, Redis dedup keys | create*Alert, list, resolve | dedup key against insert, failure after the key is set | one alert per truck, type and window; a key silences only for an alert; the page misses none |
| Notifications (`src/notifications`) | none | sendFcm, sendSms | external services | best effort |
| Gateway (`src/websocket`) | rooms per socket | handleConnection, GPS_UPDATE, TRIP_STARTED, STOP_COMPLETED, IDLE_ALERT; broadcasts | events against HTTP writes; rooms fixed at connect | who hears what |
| Auth, users (`src/auth`, `src/users`) | `users`, `drivers`, `audit_logs`, tokens | login, refresh, create, update | two inserts without a transaction, check then insert | emails are unique; a DRIVER account has a driver row; a deactivation sticks and, at the HTTP API, locks out in the end |
| Fuel (`src/fuel`) | `fuel_logs`, `adblue_logs` | createEntry, findAll, getKpis | two tables merged into pages while entries come in; bare dates | a walk through the pages misses no entry |
| Reports, dashboard (`src/reports`, `src/dashboard`) | none; read trips and fuel | daily, monthly, custom and fuel report, summary | several queries without a transaction; days and months of different time zones | each trip counted once; totals true of some moment |
| Dashboard app (`trucky-admin-dashboard`) | tokens, query cache, live positions, socket | apiRequest with a shared refresh, socket events, live map | one refresh for many 401s, events against polled data | one refresh at a time; the map shows the newest position |
| Scaffolds (sos, files/pod, geofences, driver app) | – | – | – | nothing to check |

The components meet in three places: the row of a truck, which trips, assignment, offline detection
and the office all save as a whole entity; the Redis keys that trips and tracking share; and the
gateway, which tells the dashboard what the services have just written.

## Modules

| module | what it is | composes |
|---|---|---|
| `FleetTypes` | the enumerations of `common/enums.ts` and `Null` | |
| `TripContract` | abstract: a trip begins, is closed once, has one distance; one open trip per driver | |
| `TripLifecycle` | the five writing handlers of `TripsService`, await by await | `FleetTypes`; implements `TripContract` |
| `TripTruckStatus` | `TripLifecycle` with a history of the trucks whose status a failure or another service's write has cut loose | `TripLifecycle` |
| `TripLifecycleProofs`, `TripTruckStatusProofs` | theorems about them | |
| `PairingContract` | abstract: drivers and trucks are paired one to one at every moment | |
| `TruckAssignment` | `assignTruck` save by save, and every handler that saves a whole truck or driver | implements `PairingContract` |
| `TruckAssignmentProofs` | theorems about it | |
| `OfflineDetection` | the 60 s sweep against trips, GPS updates, the office and key expiry | `FleetTypes` |
| `OfflineDetectionProofs` | theorems about it | |
| `DashboardSession` | one tab of the dashboard: storage, requests, the shared refresh, the socket; login and refresh of `AuthService` | `FleetTypes` |
| `DashboardSessionProofs` | theorems about it | |
| `AlertFlow` | raising an alert, its dedupe key, the broadcast, the push message, and the page that lists alerts | `FleetTypes` |
| `AlertFlowProofs` | theorems about it | |
| `Accounts` | users, their driver rows and their tokens, statement by statement | `FleetTypes` |
| `FuelEntries` | entries, and the paged list over two tables | `FleetTypes` |
| `FleetReports` | reports, KPIs and the dashboard's kilometres, query by query | `FleetTypes` |
| `LiveMap` | a position from the driver's call to the marker on the map | `FleetTypes` |
| `FleetReportsProofs` | what sums over finite sets and quotients compute; theorems about `FleetReports` | |
| `MCTripLifecycle`, `MCTripTruckStatus`, `MCTruckAssignment` | constants of the TLC runs | |
| `MCOffice` | `Accounts`, `FuelEntries`, `FleetReports` and `LiveMap` side by side, for one TLC run | all four |
| `OfficeProofs` | theorems about `Accounts`, `FuelEntries` and `LiveMap`, and about all four desks side by side | |

### How state and actions correspond to the code

*Requests.* In `TripLifecycle` and `TruckAssignment` a request slot `r` has a program counter
`pc[r]` and the handler's local variables `job[r]`. A slot that is `"idle"` accepts a call (the
validation and the reads that decide whether it is accepted are part of that step or of the step of
their own that the code's `await` makes of them); each later label is the statement the handler is
about to execute. What stands between two awaits in the code is one step here, and nothing else is.

*Saves.* TypeORM's `repository.save(entity)` SELECTs the row, compares it with the entity and
UPDATEs the columns that differ. The trip row has three columns that belong together (`status`,
`endingKm`, `totalKm`), so its two statements are two steps (`SelectTrip`, `UpdateTrip`), and a
handler overwrites only what differs from what the SELECT found. Rows of which a module keeps one
column take one step. When an entity was loaded with a relation *and* its foreign-key column is assigned,
as `assignTruck` does with the driver (`findOne` joins `assignedTruck`), `save` takes the column from
the relation unless that is null: the assigned column of a driver who already has a truck is not
persisted. `Stored` of `TruckAssignment` models what TypeORM does with such an entity; the ORM itself is not in the
repository.

*What may go wrong* is a constant, `Disorder`, so that a run or a theorem says exactly under which
conditions it holds. In `TripLifecycle`: `overlap` (a driver's requests overlap), `replay` (a
request names a trip that is COMPLETED), `abort` (a handler stops between two awaits), `office`
(other services write, at any moment and one save at a time, the truck of a driver and the status of a truck,
stale values included). In `TruckAssignment`: `reassigns` (a driver who has a truck is given another),
`assigns` (assignments overlap), `edits` (a row is edited while an assignment is at work), `abort`,
`giveUp` (the office leaves a failed assignment as it is).

*Time.* `OfflineDetection` counts ages in ticks: `Tick` ages the position key, the `active_since`
key and the timer, and the history `newest` (the last GPS update that was handled to its end). A Redis key whose life is over is gone. A sweep is
four labels: read the position key, read the grace key, load the truck again, save it. Reports may be
late: their timestamp is any age.

*The browser.* In `DashboardSession` JavaScript runs to its next await undisturbed, so an action
is what the page does on one click, one answer or one event. A token is a number, signed in order;
`owner` remembers for whom. A page load (`Reload`, `EndSession`) forgets everything but
`localStorage`. That a socket turned away by the server does not try again, and one whose connection
breaks does, is how the Socket.IO client behaves, and is external to the repository.

*Alerts.* In `AlertFlow` a `Caller` is a handler that can be inside `AlertsService`: a GPS update, the
sweep, an idle event, a fuel entry. Its labels are the awaits of `createOverspeedAlert` and
`createAlert`; a slot that is used again stands for the next handler. The page is one query of React
Query: opening it sends a fetch when none is under way; `invalidateQueries` cancels the fetch under way and
sends another only if the query already has data, and joins the *first* fetch otherwise. An alert saved
after that fetch's SELECT is then not on the page when it comes to rest (`joined`). The answer is the first `PageLimit` alerts,
unresolved ones first and newest first, as the code's order and `take(limit)` have it. ALERT_FIRED either reaches the page, in one
step with its broadcast, or finds its socket away (`missed`). `savedBy`, the age of an alert, `missed` and `joined` are
history, and decide nothing. A resolution is one step, its audit row left out. A manager at another desk resolves
without this page being told.

*The truck's status.* `TripTruckStatus` adds two history variables. A truck is in `upset` from the moment its pair of
saves (trip, then truck) is cut in two by a failure, or anybody else writes its status (a manager, the offline job,
or the whole-row saves of `assignTruck` and `update`, which write back the status they loaded), until a
handler of a trip makes its second save on it. It is in `shared` for good once it is given to a driver
while another one has it, is on a trip with it or has a request at work on it. Every step of the module is a
step of `TripLifecycle`.

*Accounts.* `create` is three steps (the email, the user, the driver row), `update` four (load, email,
SELECT, UPDATE of the columns that the body names and that differ: a field the body does not name is undefined in
the entity, and `save` skips it). The unique constraint of the email column is the
guard of both writes; a statement it stops ends with `CallDies`. A login and the two tokens it signs
are one slot, `session[k]`: `refresh` signs an access token with the role of the old one and looks at no
row. A socket is opened with an access token (`OpenSocket`) and is not asked again: it lives until it is closed. `Admitted` is what `RolesGuard` lets through. Passwords, names and audit rows decide nothing.

*Fuel.* A page is two SELECTs, in either order, and a cut; `walk` is a client of `GET /fuel` that goes on
until `page * limit` has reached the total. `Sorted` is every order the database and an unstable tie
allow. The filters by driver and dates are more columns compared like the truck's, and left out.

*Reports.* Time is a number of ticks; the last tick of a day stands for its last millisecond; `zone` is
how far the server's clock is ahead of UTC. The four ways the code cuts time (UTC days, server months,
UTC date keys, bare dates) are one operator each. Readers change nothing, so one report or summary is
made at a time. Kilometres and diesel cost stand for the columns summed in the same loops (hours,
deliveries, litres, AdBlue), and a diesel entry costs one unit. The start of a trip is the time the driver gives.
A completed trip may be ended again, with any reading, or reopened by a stop request, as `TripsService` lets it;
`summary.revised` remembers that this happened to a trip between the two queries of the dashboard.

*Live map.* A call is three steps after it is accepted: rows, key, broadcast. A batch keeps any
non-empty set of positions of one truck, whichever the code's checks skip. `late`, `overlapped` and
`untold` are history. The page's answers and broadcasts arrive in any order, and are lost.

*Desks.* The four share no data: `Accounts` writes users, `LiveMap` positions, and what `FleetReports` and
`FuelEntries` have in common (rows of `fuel_logs`) neither reads of the other. `MCOffice` therefore lets
one of them move, chosen at the start, so that one run checks all four without their product.

## Runs

`tlc -config <cfg> <module>` in this directory, with the module `PROJECT.json` names; none takes longer
than three minutes.

| run | cfg | instance | shows |
|---|---|---|---|
| `trip_disorder` | `TripLifecycle_disorder` | one driver, trip and stop, two readings, two requests; overlap, replay, abort, office | the evidence invariants and `KmForward` under everything that may go wrong |
| `trip_sequential` | `TripLifecycle_sequential` | two drivers, one truck, two trips, one stop, two requests; abort, office | the distance, one open trip, truck status follows the trips, `TripContract` |
| `trip_overlap` | `TripLifecycle_overlap` | one driver; overlap | **violation** of `OneActiveTripPerDriver` |
| `trip_replay` | `TripLifecycle_replay` | one driver; replay | **violation** of `CompletedIsFinal` |
| `assign_repeated` | `TruckAssignment_repeated` | three drivers, two trucks, one request; reassigns, abort | both columns agree for drivers never moved, `PairingContract`, an assignment to a driver without a truck takes effect or fails visibly |
| `assign_edited` | `TruckAssignment_edited` | two drivers, two trucks; edits | **violation** of `InSync` |
| `offline_watch` | `OfflineDetection_watch` | one truck, one report, one sweep, one failure | no watched truck is taken out of service, no silent one is left in it |
| `offline_patience` | `OfflineDetection_patience` | the same, no failure | **violation** of `PatientWatch` |
| `dashboard_tab` | `DashboardSession_tab` | two managers, a driver, two requests, five tokens | page, tokens and socket agree; requests end; but for a logout, only a refresh of its own that the server denied ends a session |
| `alerts_office` | `AlertFlow_office` | one truck, two handlers, two alerts, a window of two ticks, one failure; the page shows all, one at a time | no flood, no key without an alert, no alert among the newest the page was told of and misses; alerts reach the page |
| `alerts_unresolved` | `AlertFlow_unresolved` | one truck, one handler, one alert; the page shows Unresolved | **violation** of `PageMissesNone` |
| `office_desks` | `Office_desks` | two accounts, two emails, two requests, one login; three entries, pages of one; two trips, one bill, three days of two ticks, months of two days, three zones; one truck, two calls, two times, one round of requests | emails, driver rows, deactivation and lockout; the walk; totals across days, months and queries; the map |

### Why the bounds are enough

* *Trips.* Two requests are needed for an overlap and two suffice: no handler waits for another, so
  a disturbance is what one other handler does between two steps of this one. Two readings give a
  final reading below, at and above the first. In `trip_disorder` one stop and one trip are enough
  for a stop recorded twice, a stale trip saved over a newer one and a completed trip continued;
  two stops were also checked, and take ten times as long. `trip_sequential` needs two trips to
  violate one open trip per driver, and two drivers for requests to interleave at all. A driver
  may lose the truck or take it over between any two awaits; a second truck, for which the model without stops was also checked
  (a minute and a half), changes nothing. Of the statuses others write, ACTIVE and one more are told apart. The theorems below cover every size.
* *Assignment.* A step of `assignTruck` touches a driver, its old truck, a truck and its old
  driver: two of each; the third driver is one to whom a truck goes that a moved driver has left. One request at a
  time in `assign_repeated`, because assignments and edits one after the other is what its properties presuppose (two edits at
  once write back what nobody has changed); two in `assign_edited`, an assignment and an edit.
* *Offline.* A tick is half a minute, so a key lives two ticks and a sweep begins every two. The
  threshold is three ticks instead of ten and the grace key lives five instead of fourteen: the order
  of the durations (key < threshold < grace key) is the program's, and it is all the code compares. One truck
  suffices because trucks share nothing but the sweep that visits them in turn; overlapping sweeps
  and any number of trucks are in the theorem. `MaxFailures` bounds failures: liveness must survive a failure,
  not an endless series of them.
* *Office.* Two requests and two accounts are the fewest that can clash over an email or cross on a row.
  Three entries on pages of one give three pages, an entry pushed from one to the next, and ties. Two
  ticks a day have a first and a last one; three days hold a whole month of two, a part of the next
  and every range with an end day of its own; the zones put the server behind, in and ahead of UTC. One
  fuel entry is enough to come in before, between or after a report's queries; it is dated at a midnight, the time on which
  the four ways of cutting days differ, and trips start and end at any tick. Two distances, one of them none, tell a trip
  ended again from one ended once. Two times and
  two calls give a late, an overlapping and a batched position; one truck suffices because trucks share only the
  list of trucks. The theorems of `OfficeProofs` cover every size.
* *Dashboard.* Two requests share a refresh, join it late or start a second one. Five tokens are
  two logins and a refresh, or one login and three refreshes. Once they are used up the model's
  server signs no more and a refresh can only be lost or denied.
* *Alerts.* One type with a key and a push message and one without either; two handlers, so that a second one
  reads, sets and saves between the steps of the first; two alerts, the fewest that can be one too
  many, and a page with room for one. A window of two ticks has a moment at which a key is neither fresh nor gone. Trucks do not
  share keys: one suffices, and the theorems are about any number.

### Fairness

Liveness is checked where something must happen by itself. `SilenceNoticed` assumes that time
passes and that a running sweep's calls are answered (`WF` of `Tick` and of a sweep's steps):
`setInterval` fires and `await` continues or throws. It assumes nothing of drivers, GPS or the
office. `AssignTakesEffect` assumes only that the steps of an accepted request go on (or fail):
a pending `await` is eventually continued. `EveryRequestEnds` and `LiveUpdates` assume that each
`fetch` and each connection attempt is answered or fails, as the browser guarantees by its own
timeouts; nothing is assumed of users, of token expiry or of what the server answers. `AlertsReachPage` assumes that a handler's
calls are answered or throw (`WF` of its steps or its abort) and that a list request is answered or fails.
`LockOut` assumes that tokens expire and that a login is answered or fails (`AccountsFairness`), nothing of what
the office or the holder of the token does, and promises nothing of sockets that are already open; `MapCatchesUp` that accepted calls and answered requests go on
(`MapFairness`), nothing of the socket, the page or the life of the key.

## What the code does differently from what is said of it

Five runs end in a counterexample, each against a sentence of the repository (quoted in `PROJECT.json`):

1. `trip_overlap`: `startTrip` looks for an active trip and inserts the new one in two statements.
   Two overlapping `POST /trips` of one driver both insert.
2. `trip_replay`: `addStops`, `confirmLoad` and `completeDelivery` accept a COMPLETED trip and set
   it back to an open status.
3. `assign_edited`: a handler that loaded a truck or driver before an assignment and saves it
   after writes the old partner back, and the two columns disagree.
4. `offline_patience`: a GPS update is handled to its end, its position key expires after 60 s, and the next sweep
   finds neither that key nor the grace period, which the update deleted, and marks the truck OFFLINE:
   the five-minute threshold decides nothing of a truck that has reported.
5. `alerts_unresolved`: `GET /alerts?resolved=false` lists the *resolved* alerts. The `ValidationPipe`
   converts query texts by the declared type of the field before the field's `@Transform` sees
   them, and `Boolean("false")` is true. The conversion is class-transformer's and not in the
   repository: `ImplicitBoolean` models what version 0.5, which the lock file names, does with
   `enableImplicitConversion`.

The models also show behaviour no document speaks about, and no run is spent on:

* two overlapping `endTrip` can leave the reading of one with the distance of the other;
* `confirmLoad` of a second pickup sets the trip DELIVERING though nothing was delivered, which is
  why `ProgressEvidence` asks of a DELIVERING trip a load *or* a delivery;
* `startTrip` saves the truck ACTIVE one await before it seeds the grace period; a sweep in between
  marks the truck OFFLINE at the start of its trip. `WatchIsFair` leaves exactly that window out;
* a GPS update of the last trip still being handled deletes the grace period of the next;
* a truck marked OFFLINE in mid-trip stays so when its updates resume;
* giving another truck to a driver who has one does not change his row: `findOne` has loaded the relation `assignedTruck`,
  and `save` takes the column from it. The new truck names the driver, the driver's row still names the old truck:
  with `Disorder = {reassigns}` the model breaks `InSync` without any overlap or failure, which is why the
  properties of `assign_repeated` set moved drivers apart (`moved`, `left`);
* overlapping assignments, or one that fails and is not repeated, leave the columns apart
  (`assigns` and `giveUp`);
* a refresh answered after a logout stores its access token: whoever logs in meanwhile works with
  the token of the user before. `SessionAgrees` excludes that case with the history variable `outlived`;
* two handlers at work at once can both find no dedupe key and raise the same alert twice; `NoFlood` leaves
  out exactly that. A save that fails after the key is set leaves the window without an alert (`KeyTells`
  promises nothing once a call has failed);
* an alert that fires while the page waits for its *first* list stays off it: the invalidation joins the fetch under way,
  whose SELECT may have run before the alert was saved (`joined`);
* an ALERT_FIRED sent while the socket is away is not made up for (`useWsReconnect` is never used, though
  `docs/dashboardplan.md:115` asks for a new fetch on reconnection);
* a truck stays OFFLINE on an open trip, or ACTIVE without one, after a failure between the two saves, and after
  an assignment or an edit that loaded the truck before a trip began or ended and saves it afterwards
  (`upset`); the sweep repairs the second, only the next trip the first;
* once two drivers have to do with one truck (an assignment cut short, a trip still open when the truck is given
  away), the end of one's trip takes the truck out of service on the other's (`shared`);
* the breakdown of a monthly report has UTC dates in a month of the server's zone, so a date of the
  month before can stand in it; the KPIs leave out the last day of their range but for its midnight,
  which the fuel report includes;
* a batch of old positions, or two calls at once, move the position key and the marker back (`late`, `overlapped`);
* the kilometres of today can exceed those of the month for a moment: a trip that is reopened, or ended again with a
  lower reading, between the dashboard's two sums counts in the first and not, or with less, in the second (`revised`);
* a live socket of a deactivated account goes on hearing the fleet, or reporting positions, until its connection ends: the
  gateway verifies the token when the socket connects and never again;
* any answer but a good one ends the session: `tryRefreshToken` takes a 429 or a 500 of `/auth/refresh`, or a 200
  without a token, for a refusal, and the user is sent to the login page with a refresh token that is still good;
* `update` may make an office account a DRIVER without a driver row, and the last active office account may be
  deactivated, after which nobody can log in (`office_desks` does not check for deadlock because of it);
* `refresh` never looks at the user: a deactivated account works until its refresh token expires;
* the socket keeps the access token it was created with, so a broken connection is not
  restored once that token has expired.

## Proofs

`tlapm <module>` checks each proof module; all theorems hold for every value of the constants that
meets the named assumption of the module they are about, `ConstantsAssumption` or its like (identifiers are not `Null`, readings are
natural numbers, durations are positive, the grace key outlives the threshold, and no server's clock is
more than a day from UTC). Fuel
entries, and the trips and entries of the reports, are finite sets of any size; nothing is assumed finite elsewhere.

*Trips, whatever goes wrong* (`TripLifecycleProofs`). `TypeCorrect`, `StopEvidenceHolds`,
`ProgressEvidenceHolds`, `KmForwardHolds`. None of the evidence invariants is inductive: a handler's
copy may be saved long after it was loaded, so the invariant must say of every request what its copy
and its `changed` columns rely on. `WellFormed` ties each label to the operation and the arguments it may
have; `Evidence` says that the record a pending status needs is already there and is never taken
back; `JobKm` that a checked reading is not below the first reading of its trip, which never changes.

*Trips, one request of a driver at a time* (`TripLifecycleProofs`). With `overlap` excluded,
`OneAtATime` (no two requests of a driver) together with `JobArithmetic` gives `KmConsistentHolds`: what
a save will write over the row still is the difference of the readings. With `replay` excluded too, `Orderliness`
(a request's trip is open and its driver's only one; a pending insert has no rival) gives
`OneActiveTripHolds` and `ContractHolds`, step by step with `TripContract`. From the contract alone follows
`CompletedIsFinalHolds`: what the run `trip_replay` refutes is true once neither replay nor overlap is allowed.

*The truck's status* (`TripTruckStatusProofs`). `TruckFollowsTripsHolds`, under the same two assumptions,
with failures, with assignments save by save, and with anybody's writes of the status. That a settled truck is ACTIVE
exactly while a trip on it is open (`StatusAgrees`) needs to know that no two drivers use a truck that is not shared
(`OneUser`), and what a request between its two saves has already written (`Started`, `Ended`), on top of `OneAtATime`
and `Orderliness`. The second save of a trip establishes the agreement whatever the status was before, so that no
invariant has to say anything of a truck that is upset.

*Accounts, fuel, map* (`OfficeProofs`). `EmailUniqueHolds` and `ProfileCompleteHolds` rest on
`AccountsOK` (what each request carries at each label), and `DeactivationSticksHolds` with it on
`ReactivatedOnDemand`: a save writes no column the body does not name. `NoWayBackIn` is the half of `LockOut` that needs no
fairness: the logins of a deactivated account only run out, none begins, and a socket is opened only with an
access token signed before. `WalkMissesNoneHolds` rests on `WalkInv`: an untied entry of the beginning that is not seen yet has
at least as many newer ones in the list as all answered pages hold (`Ahead`), and entries only come, so it lies
on a page still to be asked for. `StoredInv`
adds to `NothingUnstored` that a call past its insert has stored all its positions; `NewestInv` says what a call that is alone and not late is about to
make of the key, `AgreesInv` what each request under way will show.

*Reports* (`FleetReportsProofs`). All five properties, for any number of trips and entries, any length of days and
months and any zone. The library's induction theorems take a predicate, which the provers cannot instantiate;
but for a *fixed* finite set the subsets on which a statement fails form a set, and a set of them without a minimal element
is empty (`WFMin`). From that one application follow `SumsExist` (the fold behind `SumFunctionOnSet` has the value its
recursion promises), then that a sum is a natural number, grows with its terms and its set, splits over
disjoint sets (`SumUnion`) and can be taken date by date (`SumByKey`). `CustomIsSumOfDaysHolds` is `SumByDate` together
with `DatesOfRange`: a range of ticks meets exactly the dates between its ends. `MonthsPartitionHolds` and
`KpisBetweenHolds` are arithmetic of quotients (`Multiples`, `Quotient`), the types, and monotony of sums. The two about several
queries need an invariant each: `Reading` says that no trip of the report in hand was read dearer than
it is now, and that what has been read together with what is still to be read never costs less than the first query
would have given; `TodayStands` that the kilometres of today are still there when the month is read, unless a trip was revised.
They rest on `Accumulates` (what is billed stays billed, what has begun keeps its start) and `Retains` (a trip that is not
revised keeps its kilometres).

*Desks* (`OfficeProofs`). `OfficeIsItsDesks`: a behaviour of `MCOffice` is one of each of the four modules, so what is proved of
them alone holds of the specification that `office_desks` checks: `OfficeTypeCorrect`, and
`OfficeKeepsPromises` with its invariants and `DeactivationSticks` in one statement.

*Assignment* (`TruckAssignmentProofs`). `TypeCorrect` holds under every disorder. Under `Discipline` (assignments one at
a time, no edit during one, a failed one is repeated) the invariant `Torn` says how the columns of unmoved drivers differ at
each label and after a failure, `Stage` what the running assignment has done so far. `UnmovedInSyncHolds`
follows, and from it `InSyncWithoutReassigning`: the documented promise is true if trucks are given only to drivers who have
none. `PairingHolds` is step simulation of `PairingContract` by the rows of drivers who were never moved (`moved`) and trucks nobody
was moved from (`left`), and `PairsAreMatching` what that contract amounts to: no such truck has two such drivers at any moment.

*Offline* (`OfflineDetectionProofs`). `WatchIsFairHolds` rests on `Verdicts`: for each sweep past its
first look, the truck it looks at had no usable position key at an age the sweep remembers, and past the
second, no grace period; keys only get older or newer than the sweep.

*Dashboard* (`DashboardSessionProofs`). `Signed` (what the tab holds was signed; a refresh under way
has its token) makes `SessionAgrees` inductive; `OnlyDeniedSessionsEndHolds` follows step by step, the
point being that without an outlived refresh the token of the refresh under way is the stored one. It says nothing of
*why* the server denies a refresh: the code does not look.

*Alerts* (`AlertFlowProofs`). `KeyTellsHolds` needs nothing but the types: the vouching alert moves
from the call to the row with its age. `NoFlood` is not inductive: `KeyCovers` says that a key outlives
the youth of its alert, saved or about to be, and `SetterClean` that a handler past its look at the key has no young
alert of its own. `PageMissesNoneHolds`, for a page that shows all alerts, rests on `OnItsWay`: an
unresolved alert is about to be broadcast, or the fetch under way will bring it, or has it, or as many newer ones are
saved as the page has room for (`Crowded`, which never ends).

*Only model-checked:* liveness (`SilenceNoticed`, `AssignTakesEffect`, `EveryRequestEnds`, `LiveUpdates`,
`AlertsReachPage`, `LockOut`, `MapCatchesUp`), since fairness and `ENABLED` are out of the prover's reach. Every invariant
and every action property that a passing run checks is a theorem. The five violations are
counterexamples and need no proof.

## Plan

All components that keep state are modelled. What is left, in this order:

1. `AlertFlow`: the audit row of `resolve`, and the sweep that saves the truck before it raises its alert, once
   the code gives either a promise that survives a failure in between.
2. Several tabs of the dashboard on one `localStorage`, the other pages where they keep state over several requests.

## Not modelled

`PROJECT.json` lists every component. Left out for good: the formatting of answers, PDF and CSV
export, Swagger, seeds beyond the initial states they give, the pages of the dashboard (presentation of query
results), and the SOS, POD and geofence controllers, which answer without keeping anything. The driver
app is a plan without code; what it would do is in the models as repeated and overlapping requests. Several
tabs of the dashboard share `localStorage`; `DashboardSession` models one.

