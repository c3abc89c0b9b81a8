----------------------- MODULE DashboardSessionProofs -----------------------
(***************************************************************************)
(* What holds of a dashboard tab for any users, any number of requests     *)
(* under way and any number of tokens.                                     *)
(***************************************************************************)
EXTENDS DashboardSession, TLAPS

\* Whatever the tab holds was signed, and a refresh under way has its token.
Signed ==
    /\ \A t \in {store.access, store.refresh, refreshing.token, socket.token} :
        t # Null => owner[t] # Null
    /\ refreshing.pc # "none" <=> refreshing.token # Null

Inv == TypeOK /\ Signed /\ SessionAgrees

LEMMA NullIsNoToken == \A t \in Token : t # Null
  BY ConstantsAssumption DEF Token

LEMMA InitInv == Init => Inv
  <1> SUFFICES ASSUME Init
               PROVE  Inv
    OBVIOUS
  <1> USE DEF Init, Cleared, NoCall, NoRefresh, NoSocket
  <1>1. TypeOK
    BY DEF TypeOK, Storage, Call, Refresh, Socket, Optional
  <1>2. Signed
    BY DEF Signed
  <1>3. SessionAgrees
    BY DEF SessionAgrees, OwnerOf
  <1>4. QED
    BY <1>1, <1>2, <1>3 DEF Inv

LEMMA LoginStep ==
    ASSUME Inv, NEW u \in User, Login(u)
    PROVE  Inv'
  <1>1. PICK access \in Unsigned, refresh \in Token :
            /\ refresh = access + 1 /\ owner[refresh] = Null
            /\ owner' = [owner EXCEPT ![access] = u, ![refresh] = u]
            /\ store' = [access |-> access, refresh |-> refresh, user |-> u]
            /\ socket' = Connection(access)
    BY DEF Login, SignTokens, SetStoredAuth
  <1>2. access \in Token /\ access # Null /\ refresh # Null /\ owner[access] = Null
    BY NullIsNoToken DEF Unsigned
  <1>3. u # Null
    BY ConstantsAssumption
  <1>4. socket' = [state |-> "connecting", token |-> access]
    BY <1>1, <1>2 DEF Connection
  <1>5. /\ shown = Null /\ shown' = u
        /\ request' = request /\ refreshing' = refreshing
        /\ expired' = expired /\ outlived' = outlived
    BY DEF Login
  <1>6. owner' \in [Token -> Optional(User)] /\ owner'[access] = u /\ owner'[refresh] = u
    BY <1>1, <1>2 DEF Inv, TypeOK, Optional
  <1>7. \A t \in Token : owner[t] # Null => owner'[t] # Null
    BY <1>1, <1>2, <1>3 DEF Inv, TypeOK
  <1>8. TypeOK'
    BY <1>1, <1>2, <1>4, <1>5, <1>6 DEF Inv, TypeOK, Storage, Socket, Optional
  <1>9. Signed'
    <2>1. \A t \in {store'.access, store'.refresh, socket'.token} : owner'[t] = u
      BY <1>1, <1>4, <1>6
    <2>2. refreshing'.token # Null => owner'[refreshing'.token] # Null
      BY <1>5, <1>7 DEF Inv, TypeOK, Signed, Refresh, Optional
    <2>3. refreshing'.pc # "none" <=> refreshing'.token # Null
      BY <1>5 DEF Inv, Signed
    <2>4. QED
      BY <1>3, <2>1, <2>2, <2>3 DEF Signed
  <1>10. ~outlived => refreshing.token = Null
    BY <1>5 DEF Inv, Signed, SessionAgrees, OwnerOf
  <1>11. SessionAgrees'
    BY <1>1, <1>2, <1>4, <1>5, <1>6, <1>10 DEF SessionAgrees, OwnerOf
  <1>12. QED
    BY <1>8, <1>9, <1>11 DEF Inv

LEMMA RefreshGrantedStep ==
    ASSUME Inv, RefreshGranted
    PROVE  Inv'
  <1>1. PICK t \in Unsigned :
            /\ owner' = [owner EXCEPT ![t] = owner[refreshing.token]]
            /\ store' = [store EXCEPT !.access = t]
            /\ request' = [r \in Request |->
                            IF r \in Waiting THEN [pc |-> "resent", token |-> t]
                            ELSE request[r]]
    BY DEF RefreshGranted, SignAccess
  <1>2. t \in Token /\ t # Null /\ owner[t] = Null
    BY <1>1, NullIsNoToken DEF Unsigned
  <1>3. /\ refreshing.pc = "sent" /\ refreshing' = NoRefresh
        /\ shown' = shown /\ socket' = socket /\ expired' = expired /\ outlived' = outlived
    BY DEF RefreshGranted
  <1>4. /\ refreshing.token \in Token
        /\ owner[refreshing.token] \in User /\ owner[refreshing.token] # Null
    BY <1>3, ConstantsAssumption DEF Inv, TypeOK, Signed, Refresh, Optional
  <1>5. /\ owner' \in [Token -> Optional(User)]
        /\ owner'[t] = owner[refreshing.token]
        /\ \A s \in Token : owner[s] # Null => owner'[s] = owner[s]
    BY <1>1, <1>2, <1>4 DEF Inv, TypeOK, Optional
  <1>6. /\ store' \in Storage
        /\ store'.access = t /\ store'.refresh = store.refresh /\ store'.user = store.user
    BY <1>1, <1>2 DEF Inv, TypeOK, Storage, Optional
  <1>7. request' \in [Request -> Call]
    <2>1. \A r \in Request : request[r] \in Call
      BY DEF Inv, TypeOK
    <2>2. [pc |-> "resent", token |-> t] \in Call
      BY <1>2 DEF Call, Optional
    <2>3. QED
      BY <1>1, <2>1, <2>2
  <1>8. TypeOK'
    BY <1>3, <1>5, <1>6, <1>7 DEF Inv, TypeOK, NoRefresh, Refresh, Optional
  <1>9. /\ store.refresh \in Optional(Token) /\ socket.token \in Optional(Token)
    BY DEF Inv, TypeOK, Storage, Socket
  <1>10. Signed'
    BY <1>2, <1>3, <1>4, <1>5, <1>6, <1>9 DEF Inv, Signed, NoRefresh, Optional
  <1>11. OwnerOf(store.refresh)' = OwnerOf(store.refresh) /\ OwnerOf(socket.token)' = OwnerOf(socket.token)
    BY <1>3, <1>5, <1>6, <1>9 DEF Inv, Signed, OwnerOf, Optional
  <1>12. ~outlived => owner[refreshing.token] = shown
    BY <1>4, ConstantsAssumption, NullIsNoToken DEF Inv, SessionAgrees, OwnerOf
  <1>13. OwnerOf(store.access)' = owner[refreshing.token]
    BY <1>2, <1>5, <1>6 DEF OwnerOf
  <1>14. SessionAgrees'
    BY <1>3, <1>6, <1>11, <1>12, <1>13 DEF Inv, SessionAgrees, NoRefresh
  <1>15. QED
    BY <1>8, <1>10, <1>14 DEF Inv

\* A page load, with what is stored or with nothing.
LEMMA LoadStep ==
    ASSUME Inv, Reload \/ EndSession
    PROVE  Inv'
  <1>1. /\ request' = [r \in Request |-> NoCall] /\ refreshing' = NoRefresh
        /\ owner' = owner /\ expired' = expired /\ outlived' = outlived
        /\ shown' = store'.user
        /\ store' = store \/ store' = Cleared
        /\ socket' = IF store'.user = Null THEN NoSocket ELSE Connection(store'.access)
    BY DEF Reload, EndSession, Load, Cleared
  <1>2. store' \in Storage
    BY <1>1 DEF Inv, TypeOK, Storage, Cleared, Optional
  <1>3. socket' \in Socket /\ socket'.token \in {Null, store'.access}
    BY <1>1, <1>2 DEF Connection, NoSocket, Socket, Storage, Optional
  <1>4. TypeOK'
    BY <1>1, <1>2, <1>3
       DEF Inv, TypeOK, Storage, NoCall, NoRefresh, Call, Refresh, Optional
  <1>5. Signed'
    BY <1>1, <1>3 DEF Inv, Signed, NoRefresh, Cleared
  <1>6. SessionAgrees'
    BY <1>1, <1>3 DEF Inv, SessionAgrees, OwnerOf, NoRefresh, Cleared
  <1>7. QED
    BY <1>4, <1>5, <1>6 DEF Inv

LEMMA LogoutStep ==
    ASSUME Inv, Logout
    PROVE  Inv'
  <1> USE DEF Logout
  <1>1. TypeOK'
    BY DEF Inv, TypeOK, Storage, Cleared, Socket, NoSocket, Optional
  <1>2. Signed'
    BY DEF Inv, Signed, Cleared, NoSocket
  <1>3. SessionAgrees'
    BY DEF Inv, Signed, SessionAgrees, OwnerOf, Cleared, NoSocket
  <1>4. QED
    BY <1>1, <1>2, <1>3 DEF Inv

LEMMA StartRefreshStep ==
    ASSUME Inv, NEW r \in Request, StartRefresh(r)
    PROVE  Inv'
  <1> USE DEF StartRefresh, Wait
  <1>1. refreshing' = [pc |-> "sent", token |-> store.refresh] /\ store.refresh \in Token
    BY DEF Inv, TypeOK, Storage, Optional
  <1>2. request' \in [Request -> Call]
    BY DEF Inv, TypeOK, Call
  <1>3. TypeOK'
    BY <1>1, <1>2 DEF Inv, TypeOK, Refresh, Optional
  <1>4. Signed'
    BY <1>1 DEF Inv, Signed
  <1>5. SessionAgrees'
    BY <1>1 DEF Inv, SessionAgrees, OwnerOf
  <1>6. QED
    BY <1>3, <1>4, <1>5 DEF Inv

\* The steps that change nothing the agreement is about.
LEMMA OtherSteps ==
    ASSUME Inv, TypeOK', owner' = owner, store' = store, shown' = shown, outlived' = outlived,
           \/ refreshing' \in {refreshing, NoRefresh}
           \/ /\ refreshing.pc = "sent" /\ refreshing'.pc = "denied"
              /\ refreshing'.token = refreshing.token,
           socket'.token = socket.token
    PROVE  Inv'
  <1>1. Signed'
    BY DEF Inv, Signed, NoRefresh
  <1>2. SessionAgrees'
    BY DEF Inv, SessionAgrees, OwnerOf, NoRefresh
  <1>3. QED
    BY <1>1, <1>2 DEF Inv

LEMMA RequestSteps ==
    ASSUME Inv, NEW r \in Request,
           \/ Return(r) \/ RequestLost(r) \/ JoinRefresh(r)
           \/ \E pc \in {"sent", "download"} : Send(r, pc)
    PROVE  Inv'
  <1>1. UNCHANGED <<store, shown, refreshing, socket, owner, expired, outlived>>
    BY DEF Return, RequestLost, JoinRefresh, Wait, Send
  <1>2. request' \in [Request -> Call]
    <2>1. CASE Return(r) \/ RequestLost(r)
      BY <2>1 DEF Return, RequestLost, Inv, TypeOK, NoCall, Call, Optional
    <2>2. CASE JoinRefresh(r)
      BY <2>2 DEF JoinRefresh, Wait, Inv, TypeOK, Call
    <2>3. ASSUME NEW pc \in {"sent", "download"}, Send(r, pc)
          PROVE  request' \in [Request -> Call]
      BY <2>3 DEF Send, Inv, TypeOK, Call, Storage
    <2>4. QED
      BY <2>1, <2>2, <2>3
  <1>3. TypeOK'
    BY <1>1, <1>2 DEF Inv, TypeOK
  <1>4. QED
    BY <1>1, <1>3, OtherSteps

LEMMA OutsideSteps ==
    ASSUME Inv,
           \/ RefreshLost \/ DenyRefresh \/ SocketAnswered \/ SocketDrops
           \/ \E t \in Token : Expire(t)
           \/ UNCHANGED vars
    PROVE  Inv'
  <1>1. owner' = owner /\ store' = store /\ shown' = shown /\ outlived' = outlived
    BY DEF RefreshLost, DenyRefresh, SocketAnswered, SocketDrops, Expire, vars
  <1>2. \/ refreshing' \in {refreshing, NoRefresh}
        \/ /\ refreshing.pc = "sent" /\ refreshing' \in Refresh /\ refreshing'.pc = "denied"
           /\ refreshing'.token = refreshing.token
    BY DEF Inv, TypeOK, Refresh, RefreshLost, DenyRefresh, SocketAnswered, SocketDrops, Expire, vars
  <1>3. socket' \in Socket /\ socket'.token = socket.token
    BY DEF Inv, TypeOK, Socket, RefreshLost, DenyRefresh, SocketAnswered, SocketDrops, Expire, vars
  <1>4. request' \in [Request -> Call]
    BY DEF Inv, TypeOK, Call, NoCall, Optional, RefreshLost, DenyRefresh, SocketAnswered,
           SocketDrops, Expire, vars
  <1>5. expired' \subseteq Token
    BY DEF Inv, TypeOK, RefreshLost, DenyRefresh, SocketAnswered, SocketDrops, Expire, vars
  <1>6. TypeOK'
    BY <1>1, <1>2, <1>3, <1>4, <1>5 DEF Inv, TypeOK, NoRefresh, Refresh, Optional
  <1>7. QED
    BY <1>1, <1>2, <1>3, <1>6, OtherSteps

LEMMA DriverStep ==
    ASSUME Inv, NEW u \in User, LoginAsDriver(u)
    PROVE  Inv'
  <1> USE DEF LoginAsDriver
  <1>1. TypeOK'
    BY DEF Inv, TypeOK, Storage, Cleared, Optional
  <1>2. Signed'
    BY DEF Inv, Signed, Cleared
  <1>3. SessionAgrees'
    BY DEF Inv, Signed, SessionAgrees, OwnerOf, Cleared
  <1>4. QED
    BY <1>1, <1>2, <1>3 DEF Inv

LEMMA NextInv == Inv /\ [Next]_vars => Inv'
  <1> SUFFICES ASSUME Inv, [Next]_vars
               PROVE  Inv'
    OBVIOUS
  <1>1. ASSUME NEW u \in User, Login(u) \/ LoginAsDriver(u)
        PROVE  Inv'
    BY <1>1, LoginStep, DriverStep
  <1>2. CASE Logout
    BY <1>2, LogoutStep
  <1>3. CASE Reload
    BY <1>3, LoadStep
  <1>4. ASSUME NEW r \in Request, Answer(r) \/ \E pc \in {"sent", "download"} : Send(r, pc)
        PROVE  Inv'
    BY <1>4, RequestSteps, StartRefreshStep, LoadStep DEF Answer, GiveUp
  <1>5. CASE AnswerRefresh
    BY <1>5, RefreshGrantedStep, LoadStep, OutsideSteps DEF AnswerRefresh, RefreshDenied
  <1>6. CASE SocketAnswered \/ SocketDrops \/ (\E t \in Token : Expire(t)) \/ UNCHANGED vars
    BY <1>6, OutsideSteps
  <1>7. QED
    BY <1>1, <1>2, <1>3, <1>4, <1>5, <1>6 DEF Next

LEMMA Invariant == Spec => []Inv
  BY InitInv, NextInv, PTL DEF Spec

\* Storage, calls, the refresh and the socket keep their shapes.
THEOREM TypeCorrect == Spec => []TypeOK
  <1>1. Inv => TypeOK
    BY DEF Inv
  <1>2. QED
    BY <1>1, Invariant, PTL

\* For any users, requests and tokens: the tab's page, tokens and socket are of one
\* user, unless a logout left a refresh behind.
THEOREM SessionAgreesHolds == Spec => []SessionAgrees
  <1>1. Inv => SessionAgrees
    BY DEF Inv
  <1>2. QED
    BY <1>1, Invariant, PTL

LEMMA EndSessionStep ==
    ASSUME Inv, [Next]_vars, shown # Null, shown' = Null, request' # request
    PROVE  \/ refreshing.pc = "denied" /\ refreshing.token = store.refresh
           \/ outlived
  <1>1. store.refresh # Null
    BY DEF Inv, SessionAgrees, OwnerOf
  <1>2. RefreshDenied \/ (\E r \in Request : GiveUp(r)) \/ Reload
    <2>1. ~UNCHANGED <<shown, request>>
      OBVIOUS
    <2>2. \A u \in User : ~Login(u) /\ ~LoginAsDriver(u)
      BY DEF Login, LoginAsDriver
    <2>3. ~Logout
      BY DEF Logout
    <2>4. \A r \in Request : /\ ~Return(r) /\ ~RequestLost(r) /\ ~JoinRefresh(r)
                             /\ ~StartRefresh(r) /\ \A pc \in {"sent", "download"} : ~Send(r, pc)
      BY DEF Return, RequestLost, JoinRefresh, StartRefresh, Wait, Send
    <2>5. ~RefreshGranted /\ ~DenyRefresh /\ ~RefreshLost
      BY DEF RefreshGranted, DenyRefresh, RefreshLost
    <2>6. ~SocketAnswered /\ ~SocketDrops /\ \A t \in Token : ~Expire(t)
      BY DEF SocketAnswered, SocketDrops, Expire
    <2>7. ~UNCHANGED vars
      BY DEF vars
    <2>8. QED
      BY <2>2, <2>3, <2>4, <2>5, <2>6, <2>7 DEF Next, Answer, AnswerRefresh
  <1>3. ~Reload
    BY DEF Reload, Load, Inv, SessionAgrees
  <1>4. \A r \in Request : ~GiveUp(r)
    BY <1>1 DEF GiveUp
  <1>5. refreshing.pc = "denied" /\ refreshing.token # Null
    BY <1>2, <1>3, <1>4 DEF RefreshDenied, Inv, Signed
  <1>6. QED
    BY <1>5 DEF Inv, SessionAgrees

\* For any users, requests and tokens: nobody is sent to the login page before the server
\* has denied a refresh of the session that ends, but for the late refreshes of a logout.
THEOREM OnlyDeniedSessionsEndHolds == Spec => OnlyDeniedSessionsEnd
  <1>1. Inv /\ [Next]_vars =>
            [shown # Null /\ shown' = Null /\ request' # request
                => \/ refreshing.pc = "denied" /\ refreshing.token = store.refresh
                   \/ outlived]_vars
    BY EndSessionStep
  <1>2. QED
    BY <1>1, Invariant, PTL DEF Spec, OnlyDeniedSessionsEnd

=============================================================================
