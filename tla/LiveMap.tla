------------------------------ MODULE LiveMap ------------------------------
(***************************************************************************)
(* Where a truck is shown: TrackingService.processGpsUpdate and            *)
(* processBatchUpdate, the position key in Redis, the broadcast of         *)
(* FleetGateway, and the LiveMapPage of the dashboard.                     *)
(*                                                                         *)
(* A call of the driver stores its positions, sets the key to the latest   *)
(* of them and broadcasts it, with awaits in between.  The page shows two  *)
(* maps laid over one another: the positions it fetched over HTTP, once    *)
(* for each list of trucks, and over them those pushed to it since.        *)
(* Nothing on the way compares two timestamps.                             *)
(***************************************************************************)
EXTENDS FleetTypes, Naturals

CONSTANTS
    MapTruck,   \* trucks
    Time,       \* timestamps of positions
    GpsCall,    \* calls of drivers the server can be handling at once
    Round       \* lists of trucks whose positions can be under way at once

ASSUME MapAssumption == Time \subseteq Nat /\ Null \notin Nat \union MapTruck

VARIABLES
    positions,  \* positions[t]: timestamps of the rows of tracking_positions
    written,    \* written[t]: the value the position key was last set to
    keyed,      \* trucks whose position key has not expired
    gps,        \* gps[g]: the next step of a call, its truck and its positions
    page,       \* the page: "closed", "opened", or "listed" once it has the trucks
    connected,  \* the dashboard's socket is in room admin
    fetched,    \* initialPositions of the page
    pushed,     \* livePositions of the page
    live,       \* live[n][t]: the request GET /trucks/t/live of list n
    late,       \* history: see Receive and GpsDies
    overlapped, \* history: trucks with two calls at once since the key was set by one alone
    untold      \* history: trucks of which the page was not told the last position

mapVars == <<positions, written, keyed, gps, page, connected, fetched, pushed, live,
             late, overlapped, untold>>

server == <<positions, written, keyed, gps>>
browser == <<page, connected, fetched, pushed, live>>

-----------------------------------------------------------------------------
(* Rows and requests *)

Call == [pc: {"idle", "saveRow", "setKey", "push"}, truck: MapTruck \union {Null},
         points: SUBSET Time]

NoCall == [pc |-> "idle", truck |-> Null, points |-> {}]

Request == [pc: {"idle", "asked", "answered"}, value: Time \union {Null}]

NoRequest == [pc |-> "idle", value |-> Null]

\* A call of truck t is being handled.
AtWork(t) == \E g \in GpsCall : gps[g].truck = t

MapTypeOK ==
    /\ positions \in [MapTruck -> SUBSET Time]
    /\ written \in [MapTruck -> Time \union {Null}]
    /\ keyed \subseteq MapTruck
    /\ gps \in [GpsCall -> Call]
    /\ page \in {"closed", "opened", "listed"}
    /\ connected \in BOOLEAN
    /\ fetched \in [MapTruck -> Time \union {Null}]
    /\ pushed \in [MapTruck -> Time \union {Null}]
    /\ live \in [Round -> [MapTruck -> Request]]
    /\ late \subseteq MapTruck /\ overlapped \subseteq MapTruck /\ untold \subseteq MapTruck

NoPositions == [t \in MapTruck |-> Null]

NothingUnderWay == [n \in Round |-> [t \in MapTruck |-> NoRequest]]

MapInit ==
    /\ positions = [t \in MapTruck |-> {}]
    /\ written = NoPositions
    /\ keyed = {}
    /\ gps = [g \in GpsCall |-> NoCall]
    /\ page = "closed"
    /\ connected = FALSE
    /\ fetched = NoPositions
    /\ pushed = NoPositions
    /\ live = NothingUnderWay
    /\ late = {} /\ overlapped = {} /\ untold = {}

-----------------------------------------------------------------------------
(* TrackingService *)

\* Mutant: the batch is sorted the other way round.
IsEarliest(p, points) == p \in points /\ \A q \in points : p <= q

\* The last of the positions in the order of their timestamps.
IsLatest(p, points) == p \in points /\ \A q \in points : q <= p

\* The call is accepted with the positions that pass (one, or the valid ones of a
\* batch, if there are any).  It is late if it brings nothing newer than what is
\* stored, or runs beside another of its truck.
Receive(g, t, points) ==
    /\ gps[g] = NoCall
    /\ points # {}
    /\ gps' = [gps EXCEPT ![g] = [pc |-> "saveRow", truck |-> t, points |-> points]]
    /\ late' = IF ~AtWork(t) /\ \E p \in points : \A q \in positions[t] : q < p
               THEN late \ {t} ELSE late \union {t}
    /\ overlapped' = IF AtWork(t) THEN overlapped \union {t} ELSE overlapped
    /\ UNCHANGED <<positions, written, keyed, browser, untold>>

\* POST /tracking/location, or GPS_UPDATE on the socket
ProcessGpsUpdate(g, t, p) == Receive(g, t, {p})

\* POST /tracking/location/batch
ProcessBatchUpdate(g, t, points) == Receive(g, t, points)

GpsGoto(g, label) == gps' = [gps EXCEPT ![g].pc = label]

\* Mutant: the save is not awaited, and fails unseen.
SaveRowsUnawaited(g) ==
    /\ gps[g].pc = "saveRow"
    /\ GpsGoto(g, "setKey")
    /\ UNCHANGED <<positions, written, keyed, browser, late, overlapped, untold>>

SaveRows(g) ==
    /\ gps[g].pc = "saveRow"
    /\ positions' = [positions EXCEPT ![gps[g].truck] = @ \union gps[g].points]
    /\ GpsGoto(g, "setKey")
    /\ UNCHANGED <<written, keyed, browser, late, overlapped, untold>>

\* The key of 60 s.  What follows on active_since is in OfflineDetection; the key
\* last_movement is read by nobody.
SetKey(g, p) ==
    /\ gps[g].pc = "setKey"
    /\ IsLatest(p, gps[g].points)
    /\ written' = [written EXCEPT ![gps[g].truck] = p]
    /\ keyed' = keyed \union {gps[g].truck}
    /\ overlapped' = IF \E h \in GpsCall \ {g} : gps[h].truck = gps[g].truck
                     THEN overlapped ELSE overlapped \ {gps[g].truck}
    /\ GpsGoto(g, "push")
    /\ UNCHANGED <<positions, browser, late, untold>>

\* The page listens to the socket from when it opens.
Hears == page # "closed" /\ connected

\* Mutant: a batch is not broadcast.
PushLiveOnly(g, p) ==
    /\ gps[g].pc = "push"
    /\ IsLatest(p, gps[g].points)
    /\ IF Hears /\ gps[g].points = {p}
       THEN pushed' = [pushed EXCEPT ![gps[g].truck] = p] /\ untold' = untold \ {gps[g].truck}
       ELSE UNCHANGED <<pushed, untold>>
    /\ gps' = [gps EXCEPT ![g] = NoCall]
    /\ UNCHANGED <<positions, written, keyed, page, connected, fetched, live, late, overlapped>>

\* broadcastTruckPosition, and setPositions of useLivePositions
Push(g, p) ==
    /\ gps[g].pc = "push"
    /\ IsLatest(p, gps[g].points)
    /\ IF Hears
       THEN pushed' = [pushed EXCEPT ![gps[g].truck] = p] /\ untold' = untold \ {gps[g].truck}
       ELSE untold' = untold \union {gps[g].truck} /\ UNCHANGED pushed
    /\ gps' = [gps EXCEPT ![g] = NoCall]
    /\ UNCHANGED <<positions, written, keyed, page, connected, fetched, live, late, overlapped>>

\* A PostgreSQL or Redis call fails, or the process stops.
GpsDies(g) ==
    /\ gps[g] # NoCall
    /\ gps' = [gps EXCEPT ![g] = NoCall]
    /\ late' = late \union {gps[g].truck}
    /\ untold' = IF gps[g].pc = "push" THEN untold \union {gps[g].truck} ELSE untold
    /\ UNCHANGED <<positions, written, keyed, browser, overlapped>>

KeyExpires(t) ==
    /\ t \in keyed
    /\ keyed' = keyed \ {t}
    /\ UNCHANGED <<positions, written, gps, browser, late, overlapped, untold>>

-----------------------------------------------------------------------------
(* LiveMapPage *)

\* The page is left: its state is gone, and answers to its requests find nobody.
ClosePage ==
    /\ page # "closed"
    /\ page' = "closed"
    /\ fetched' = NoPositions
    /\ pushed' = NoPositions
    /\ live' = NothingUnderWay
    /\ UNCHANGED <<server, connected, late, overlapped, untold>>

\* What is set but not yet fetched will be.
OpenMap ==
    /\ page = "closed"
    /\ page' = "opened"
    /\ untold' = {}
    /\ UNCHANGED <<server, connected, fetched, pushed, live, late, overlapped>>

\* The list of trucks arrives, or a changed one: the effect asks for each truck.
ListTrucks(n) ==
    /\ page # "closed"
    /\ \A t \in MapTruck : live[n][t] = NoRequest
    /\ page' = "listed"
    /\ live' = [live EXCEPT ![n] = [t \in MapTruck |-> [pc |-> "asked", value |-> Null]]]
    /\ UNCHANGED <<server, connected, fetched, pushed, late, overlapped, untold>>

\* getLivePosition reads the key.
GetLivePosition(n, t) ==
    /\ live[n][t].pc = "asked"
    /\ live' = [live EXCEPT ![n][t] = [pc |-> "answered",
                                      value |-> IF t \in keyed THEN written[t] ELSE Null]]
    /\ UNCHANGED <<server, page, connected, fetched, pushed, late, overlapped, untold>>

\* The answer arrives; an empty one is dropped.
ShowLive(n, t) ==
    /\ live[n][t].pc = "answered"
    /\ fetched' = IF live[n][t].value = Null THEN fetched
                  ELSE [fetched EXCEPT ![t] = live[n][t].value]
    /\ live' = [live EXCEPT ![n][t] = NoRequest]
    /\ UNCHANGED <<server, page, connected, pushed, late, overlapped, untold>>

\* The request fails, and .catch(() => undefined) says nothing of it.
LiveLost(n, t) ==
    /\ live[n][t] # NoRequest
    /\ live' = [live EXCEPT ![n][t] = NoRequest]
    /\ untold' = untold \union {t}
    /\ UNCHANGED <<server, page, connected, fetched, pushed, late, overlapped>>

\* The socket connects, or its connection breaks; nothing is fetched again.
SocketChanges ==
    /\ connected' = ~connected
    /\ UNCHANGED <<server, page, fetched, pushed, live, late, overlapped, untold>>

\* Mutant: what was fetched is laid over what was pushed.
ShownFetchedFirst(t) == IF fetched[t] # Null THEN fetched[t] ELSE pushed[t]

\* { ...initialPositions, ...livePositions }[t], the marker FleetMap draws
Shown(t) == IF pushed[t] # Null THEN pushed[t] ELSE fetched[t]

-----------------------------------------------------------------------------

GpsStep(g) == SaveRows(g) \/ \E p \in Time : SetKey(g, p) \/ Push(g, p)

LiveStep(n, t) == GetLivePosition(n, t) \/ ShowLive(n, t)

MapNext ==
    \/ \E g \in GpsCall, t \in MapTruck :
        \/ \E p \in Time : ProcessGpsUpdate(g, t, p)
        \/ \E points \in SUBSET Time : ProcessBatchUpdate(g, t, points)
    \/ \E g \in GpsCall : GpsStep(g) \/ GpsDies(g)
    \/ \E t \in MapTruck : KeyExpires(t)
    \/ ClosePage \/ OpenMap \/ SocketChanges
    \/ \E n \in Round : ListTrucks(n)
    \/ \E n \in Round, t \in MapTruck : LiveStep(n, t) \/ LiveLost(n, t)

MapSpec == MapInit /\ [][MapNext]_mapVars

\* Every position a key, an answer or the page holds is a stored row (the rows are saved
\* before the key is set and the broadcast is sent): the map never shows a position that
\* the truck's history does not have.
NothingUnstored ==
    \A t \in MapTruck :
        /\ {written[t], fetched[t], pushed[t]} \subseteq positions[t] \union {Null}
        /\ \A n \in Round : live[n][t].value \in positions[t] \union {Null}

\* When no call of a truck is at work, its position key was last set to the newest
\* stored position, if since the last call that came alone and with news none came
\* beside another, brought old positions only, or died (processGpsUpdate and
\* processBatchUpdate compare no timestamps).
KeyNewest ==
    \A t \in MapTruck \ late :
        ~AtWork(t) => \/ positions[t] = {} /\ written[t] = Null
                      \/ IsLatest(written[t], positions[t])

\* The page and the server agree on where a truck is: with no call of the truck and no
\* request for it under way, the page shows what the key was last set to, though the key
\* may be gone, or nothing because there is no key.  It does so whichever way the
\* fetched and the pushed positions overtook each other, except if the page was not told
\* (socket away, request or call failed) or two calls of the truck ran at once.
MapAgrees ==
    page = "listed" =>
        \A t \in MapTruck \ (untold \union overlapped) :
            ~AtWork(t) /\ (\A n \in Round : live[n][t] = NoRequest) =>
                Shown(t) = written[t] \/ (Shown(t) = Null /\ t \notin keyed)

\* An open page comes to show each position the key is set to, unless a newer one comes
\* first, the key expires, the page is left or not told, or calls overlap.
MapCatchesUp ==
    \A t \in MapTruck, p \in Time :
        (page = "listed" /\ t \in keyed /\ written[t] = p)
            ~> (Shown(t) = p \/ written[t] # p \/ t \notin keyed \/ page # "listed"
                    \/ t \in untold \union overlapped)

\* Calls and requests that were accepted go on.
MapFairness ==
    /\ \A g \in GpsCall : WF_mapVars(GpsStep(g))
    /\ \A n \in Round, t \in MapTruck : WF_mapVars(LiveStep(n, t))

=============================================================================
