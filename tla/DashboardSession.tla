-------------------------- MODULE DashboardSession --------------------------
(***************************************************************************)
(* The session of the office's dashboard: what one browser tab keeps in    *)
(* localStorage, what React shows, the requests it has under way, the one  *)
(* refresh they share and the live socket.  Users log in and out, tokens   *)
(* expire, answers come in any order or are lost, and the page may be      *)
(* loaded again at any moment.                                             *)
(*                                                                         *)
(* JavaScript runs to its next await undisturbed: an action is what the    *)
(* page does on one click, answer or event.  A request is served and its   *)
(* answer handled in one step, since the server's part of it (verifying a  *)
(* token) commutes with everything the page does in between.               *)
(***************************************************************************)
EXTENDS FleetTypes, Naturals

CONSTANTS
    User,
    Driver,     \* the users whose role is DRIVER; the portal turns them away
    Request,    \* requests of the pages that can be under way at once
    MaxTokens   \* bound on the tokens the server signs

ASSUME ConstantsAssumption ==
    /\ Driver \subseteq User
    /\ MaxTokens \in Nat
    /\ Null \notin User \union Nat

VARIABLES
    store,      \* localStorage: the access token, the refresh token, the user
    shown,      \* the user of AuthContext
    request,    \* request[r]: how far a call of apiRequest or downloadReport is
    refreshing, \* refreshPromise: whether one is under way, and its refresh token
    socket,     \* fleetSocket: its state and the token it was created with
    owner,      \* owner[t]: whom the server signed token t for
    expired,    \* the tokens the server no longer accepts
    outlived    \* a refresh was under way when its session was logged out

vars == <<store, shown, request, refreshing, socket, owner, expired, outlived>>

-----------------------------------------------------------------------------
(* Tokens, storage and calls *)

Token == 1 .. MaxTokens

Optional(S) == S \union {Null}

Storage == [access: Optional(Token), refresh: Optional(Token), user: Optional(User)]

Cleared == [access |-> Null, refresh |-> Null, user |-> Null]

Call == [pc: {"idle", "sent", "waiting", "resent", "download"}, token: Optional(Token)]

NoCall == [pc |-> "idle", token |-> Null]

Refresh == [pc: {"none", "sent", "denied"}, token: Optional(Token)]

NoRefresh == [pc |-> "none", token |-> Null]

Socket == [state: {"none", "connecting", "connected", "off"}, token: Optional(Token)]

NoSocket == [state |-> "none", token |-> Null]

TypeOK ==
    /\ store \in Storage
    /\ shown \in Optional(User)
    /\ request \in [Request -> Call]
    /\ refreshing \in Refresh
    /\ socket \in Socket
    /\ owner \in [Token -> Optional(User)]
    /\ expired \subseteq Token
    /\ outlived \in BOOLEAN

\* A browser nobody has logged in with.
Init ==
    /\ store = Cleared
    /\ shown = Null
    /\ request = [r \in Request |-> NoCall]
    /\ refreshing = NoRefresh
    /\ socket = NoSocket
    /\ owner = [t \in Token |-> Null]
    /\ expired = {}
    /\ outlived = FALSE

\* Tokens are signed in order.
Unsigned == {t \in Token : owner[t] = Null /\ \A s \in Token : s < t => owner[s] # Null}

Accepted(t) == t # Null /\ t \notin expired

\* FleetSocket.connect: without an access token there is no socket.
Connection(t) == IF t = Null THEN NoSocket ELSE [state |-> "connecting", token |-> t]

-----------------------------------------------------------------------------
(* Logging in and out *)

\* AuthService.login signs two tokens for a user.
SignTokens(u, access, refresh) ==
    /\ refresh = access + 1 /\ owner[refresh] = Null
    /\ owner' = [owner EXCEPT ![access] = u, ![refresh] = u]

SetStoredAuth(u, access, refresh) ==
    store' = [access |-> access, refresh |-> refresh, user |-> u]

\* AuthContext.login shows the user whose tokens were stored, and connects.
Login(u) ==
    /\ shown = Null /\ u \notin Driver
    /\ \E access \in Unsigned, refresh \in Token :
        /\ SignTokens(u, access, refresh)
        /\ SetStoredAuth(u, access, refresh)
        /\ socket' = Connection(access)
    /\ shown' = u
    /\ UNCHANGED <<request, refreshing, expired, outlived>>

\* A driver's login stores the tokens and clears them again.
LoginAsDriver(u) ==
    /\ shown = Null /\ u \in Driver
    /\ store' = Cleared
    /\ UNCHANGED <<shown, request, refreshing, socket, owner, expired, outlived>>

\* Mutant: the refresh token stays behind.
LogoutKeepingRefresh ==
    /\ shown # Null
    /\ store' = [Cleared EXCEPT !.refresh = store.refresh]
    /\ shown' = Null
    /\ socket' = NoSocket
    /\ outlived' = (outlived \/ refreshing.pc # "none")
    /\ UNCHANGED <<request, refreshing, owner, expired>>

\* logout leaves running requests alone, and the refresh they may be waiting for.
Logout ==
    /\ shown # Null
    /\ store' = Cleared
    /\ shown' = Null
    /\ socket' = NoSocket
    /\ outlived' = (outlived \/ refreshing.pc # "none")
    /\ UNCHANGED <<request, refreshing, owner, expired>>

\* A page load ends everything that runs in the tab and starts from what is stored.
Load(stored) ==
    /\ store' = stored
    /\ shown' = stored.user
    /\ request' = [r \in Request |-> NoCall]
    /\ refreshing' = NoRefresh

\* Mutant: only a login connects the socket.
ReloadWithoutSocket ==
    /\ Load(store)
    /\ socket' = NoSocket
    /\ UNCHANGED <<owner, expired, outlived>>

\* The user loads the page again; AuthProvider connects for a stored user.
Reload ==
    /\ Load(store)
    /\ socket' = IF store.user = Null THEN NoSocket ELSE Connection(store.access)
    /\ UNCHANGED <<owner, expired, outlived>>

\* clearStoredAuth, then window.location.href = '/login'.
EndSession ==
    /\ Load(Cleared)
    /\ socket' = NoSocket
    /\ UNCHANGED <<owner, expired, outlived>>

-----------------------------------------------------------------------------
(* Requests *)

\* Mutant: the wrong key of localStorage is read.
SendUserKey(r, pc) ==
    /\ shown # Null
    /\ request[r].pc = "idle"
    /\ request' = [request EXCEPT ![r] = [pc |-> pc, token |-> store.user]]
    /\ UNCHANGED <<store, shown, refreshing, socket, owner, expired, outlived>>

\* A page, shown only to an authenticated user, calls apiRequest or downloadReport.
Send(r, pc) ==
    /\ shown # Null
    /\ request[r].pc = "idle"
    /\ request' = [request EXCEPT ![r] = [pc |-> pc, token |-> store.access]]
    /\ UNCHANGED <<store, shown, refreshing, socket, owner, expired, outlived>>

\* The caller gets its data or an error; a download and a call sent a second time
\* end whatever the answer is.
Return(r) ==
    /\ \/ request[r].pc = "sent" /\ Accepted(request[r].token)
       \/ request[r].pc \in {"download", "resent"}
    /\ request' = [request EXCEPT ![r] = NoCall]
    /\ UNCHANGED <<store, shown, refreshing, socket, owner, expired, outlived>>

\* fetch rejects: the network is down.
RequestLost(r) ==
    /\ request[r].pc = "sent"
    /\ request' = [request EXCEPT ![r] = NoCall]
    /\ UNCHANGED <<store, shown, refreshing, socket, owner, expired, outlived>>

Refused(r) == request[r].pc = "sent" /\ ~Accepted(request[r].token)

Wait(r) ==
    /\ request' = [request EXCEPT ![r].pc = "waiting"]
    /\ UNCHANGED <<store, shown, socket, owner, expired, outlived>>

\* A 401 joins the refresh under way ...
JoinRefresh(r) ==
    /\ Refused(r) /\ refreshing.pc # "none"
    /\ Wait(r)
    /\ UNCHANGED refreshing

\* ... starts one ...
StartRefresh(r) ==
    /\ Refused(r) /\ refreshing.pc = "none" /\ store.refresh # Null
    /\ refreshing' = [pc |-> "sent", token |-> store.refresh]
    /\ Wait(r)

\* ... or, without a refresh token, ends the session.
GiveUp(r) ==
    /\ Refused(r) /\ refreshing.pc = "none" /\ store.refresh = Null
    /\ EndSession

-----------------------------------------------------------------------------
(* The shared refresh *)

Waiting == {r \in Request : request[r].pc = "waiting"}

\* AuthService.refresh signs an access token for the user of a refresh token.
SignAccess(t) ==
    /\ refreshing.token \notin expired
    /\ owner' = [owner EXCEPT ![t] = owner[refreshing.token]]

\* It is stored without another look at the session, and every request that waited is
\* sent again with it.
RefreshGranted ==
    /\ refreshing.pc = "sent"
    /\ \E t \in Unsigned :
        /\ SignAccess(t)
        /\ store' = [store EXCEPT !.access = t]
        /\ request' = [r \in Request |->
                        IF r \in Waiting THEN [pc |-> "resent", token |-> t] ELSE request[r]]
    /\ refreshing' = NoRefresh
    /\ UNCHANGED <<shown, socket, expired, outlived>>

\* The server answers without a token: the refresh token has expired too, or the server is
\* failing or refuses to be asked so often (500, 429), which the page does not tell apart.
DenyRefresh ==
    /\ refreshing.pc = "sent"
    /\ refreshing' = [refreshing EXCEPT !.pc = "denied"]
    /\ UNCHANGED <<store, shown, request, socket, owner, expired, outlived>>

\* That answer arrives: the session ends.
RefreshDenied ==
    /\ refreshing.pc = "denied"
    /\ EndSession

\* Mutant: a lost refresh is taken for a denied one.
RefreshLostEnds == refreshing.pc # "none" /\ EndSession

\* Mutant: nobody tells the requests that waited.
RefreshLostUnheard ==
    /\ refreshing.pc # "none"
    /\ refreshing' = NoRefresh
    /\ UNCHANGED <<store, shown, request, socket, owner, expired, outlived>>

\* fetch rejects: so does every request that waited, and the session stays.
RefreshLost ==
    /\ refreshing.pc # "none"
    /\ refreshing' = NoRefresh
    /\ request' = [r \in Request |-> IF r \in Waiting THEN NoCall ELSE request[r]]
    /\ UNCHANGED <<store, shown, socket, owner, expired, outlived>>

-----------------------------------------------------------------------------
(* The live socket *)

\* handleConnection verifies the token; a client it turns away does not try again.
SocketAnswered ==
    /\ socket.state = "connecting"
    /\ socket' = [socket EXCEPT !.state = IF Accepted(socket.token) THEN "connected" ELSE "off"]
    /\ UNCHANGED <<store, shown, request, refreshing, owner, expired, outlived>>

\* The connection breaks; the client tries again with the token it has.
SocketDrops ==
    /\ socket.state = "connected"
    /\ socket' = [socket EXCEPT !.state = "connecting"]
    /\ UNCHANGED <<store, shown, request, refreshing, owner, expired, outlived>>

-----------------------------------------------------------------------------
Expire(t) ==
    /\ owner[t] # Null
    /\ expired' = expired \union {t}
    /\ UNCHANGED <<store, shown, request, refreshing, socket, owner, outlived>>

Answer(r) == Return(r) \/ RequestLost(r) \/ JoinRefresh(r) \/ StartRefresh(r) \/ GiveUp(r)

AnswerRefresh == RefreshGranted \/ DenyRefresh \/ RefreshDenied \/ RefreshLost

Next ==
    \/ \E u \in User : Login(u) \/ LoginAsDriver(u)
    \/ Logout
    \/ Reload
    \/ \E r \in Request : Answer(r) \/ \E pc \in {"sent", "download"} : Send(r, pc)
    \/ AnswerRefresh
    \/ SocketAnswered \/ SocketDrops
    \/ \E t \in Token : Expire(t)

Spec == Init /\ [][Next]_vars

\* Every fetch is answered or fails, and every connection attempt is.
FairSpec ==
    Spec /\ (\A r \in Request : WF_vars(Answer(r))) /\ WF_vars(AnswerRefresh) /\ WF_vars(SocketAnswered)

-----------------------------------------------------------------------------
(* Properties *)

OwnerOf(t) == IF t = Null THEN Null ELSE owner[t]

\* The page, the stored user, the refresh token and the socket are of one user, or of
\* nobody; so are the access token that requests and the next socket will carry, unless
\* somebody logged out while a refresh was under way: its late answer is stored
\* whoever is logged in by then (setStoredAuth, clearStoredAuth, refreshAccessToken).
SessionAgrees ==
    /\ store.user = shown
    /\ OwnerOf(store.refresh) = shown
    /\ ~outlived => /\ OwnerOf(store.access) = shown
                    /\ refreshing.token \in {Null, store.refresh}
                    /\ OwnerOf(socket.token) \in {Null, shown}

\* Apart from a logout, a user loses the session only when the server has denied a refresh
\* made with this session's own refresh token: neither a lost answer, nor a refused
\* request, nor several requests refused at once, nor what is left of an earlier session
\* send anybody to the login page, unless somebody logged out while a refresh was under
\* way (apiRequest, the 401 path).
OnlyDeniedSessionsEnd ==
    [][shown # Null /\ shown' = Null /\ request' # request
        => \/ refreshing.pc = "denied" /\ refreshing.token = store.refresh
           \/ outlived]_vars

\* Every call of a page ends: no 401 waits for a refresh that is over (refreshPromise).
EveryRequestEnds == \A r \in Request : request[r].pc # "idle" ~> request[r].pc = "idle"

\* A tab with a user has a live socket sooner or later, after a login, a new page load or
\* a break of the connection, as long as the socket's token is accepted.
LiveUpdates ==
    shown # Null ~> socket.state = "connected" \/ shown = Null \/ socket.token \in expired

=============================================================================
