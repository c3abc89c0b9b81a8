--------------------------- MODULE AlertFlowProofs ---------------------------
(***************************************************************************)
(* What holds of raising alerts for any fleet, any number of handlers at   *)
(* work, any life of the dedupe keys and any number of failures.           *)
(***************************************************************************)
EXTENDS AlertFlow, Integers, FiniteSetTheorems, TLAPS

\* A call under way knows its truck and type; only those with a key look at one.
CallOK(c) ==
    /\ call[c].pc \in {"readKey", "setKey", "insert", "notify"} =>
            call[c].truck \in Truck /\ call[c].type \in AlertType
    /\ call[c].pc \in {"readKey", "setKey"} => call[c].type \in Deduped
    /\ call[c].pc = "notify" => call[c].alert \in Alert

WellFormed == TypeOK /\ \A c \in Caller : CallOK(c)

LEMMA NullIsOutside ==
    /\ Null \notin Truck /\ Null \notin AlertType /\ Null \notin Deduped
    /\ Deduped \subseteq AlertType
    /\ Window \in Nat /\ Window > 0
    /\ 0 \in Age /\ Window \in Age /\ \A n \in Age : n \in Nat /\ n <= Window
    /\ \A n \in Age : Older(n) \in Age
  BY ConstantsAssumption DEF AlertType, Age, Older

-----------------------------------------------------------------------------
(* Shapes *)

LEMMA InitWellFormed == Init => WellFormed
  <1> SUFFICES ASSUME Init
               PROVE  WellFormed
    OBVIOUS
  <1>1. NoAlert \in AlertRow /\ alerts \in [Alert -> AlertRow]
    BY NullIsOutside DEF Init, NoAlert, AlertRow
  <1>2. NoCall \in Call /\ call \in [Caller -> Call]
    BY NullIsOutside DEF Init, NoCall, Call
  <1>3. dedupe \in [Truck -> [Deduped -> Age]]
    BY NullIsOutside DEF Init
  <1>4. page \in Page
    BY DEF Init, FirstFetch, Page
  <1>5. missed \in BOOLEAN /\ joined \in BOOLEAN /\ failures \in 0 .. MaxFailures
    <2>1. MaxFailures \in Nat
      BY ConstantsAssumption
    <2>2. missed = FALSE /\ joined = FALSE /\ failures = 0
      BY DEF Init
    <2>3. failures \in 0 .. MaxFailures
      BY <2>1, <2>2
    <2>4. QED
      BY <2>2, <2>3
  <1>6. \A c \in Caller : CallOK(c)
    BY DEF Init, NoCall, CallOK
  <1>7. QED
    BY <1>1, <1>2, <1>3, <1>4, <1>5, <1>6 DEF WellFormed, TypeOK

\* A step that gives one handler another call.
LEMMA CallStep ==
    ASSUME WellFormed, NEW c \in Caller, NEW new \in Call, call' = [call EXCEPT ![c] = new],
           new.pc \in {"readKey", "setKey", "insert", "notify"} =>
                new.truck \in Truck /\ new.type \in AlertType,
           new.pc \in {"readKey", "setKey"} => new.type \in Deduped,
           new.pc = "notify" => new.alert \in Alert
    PROVE  call' \in [Caller -> Call] /\ \A d \in Caller : CallOK(d)'
  <1>1. call' \in [Caller -> Call]
    BY DEF WellFormed, TypeOK
  <1>2. \A d \in Caller : call'[d] = IF d = c THEN new ELSE call[d]
    BY DEF WellFormed, TypeOK
  <1>3. QED
    BY <1>1, <1>2 DEF WellFormed, CallOK

LEMMA TickWellFormed ==
    ASSUME WellFormed, Tick
    PROVE  WellFormed'
  <1> USE NullIsOutside
  <1>1. alerts' \in [Alert -> AlertRow]
    <2>1. ASSUME NEW a \in Alert
          PROVE  alerts'[a] \in AlertRow
      BY DEF Tick, WellFormed, TypeOK, AlertRow
    <2>2. QED
      BY <2>1 DEF Tick
  <1>2. dedupe' \in [Truck -> [Deduped -> Age]]
    <2>1. ASSUME NEW t \in Truck, NEW k \in Deduped
          PROVE  dedupe'[t][k] \in Age
      <3>1. dedupe[t][k] \in Age
        BY DEF WellFormed, TypeOK
      <3>2. dedupe'[t][k] = IF dedupe[t][k] = 0 THEN 0 ELSE dedupe[t][k] - 1
        BY DEF Tick
      <3>3. QED
        BY <3>1, <3>2 DEF Age
    <2>2. QED
      BY <2>1 DEF Tick
  <1>3. \A c \in Caller : call'[c] \in Call /\ CallOK(c)'
    <2> SUFFICES ASSUME NEW c \in Caller
                 PROVE  call'[c] \in Call /\ CallOK(c)'
      OBVIOUS
    <2>1. call[c] \in Call /\ CallOK(c)
      BY DEF WellFormed, TypeOK
    <2>2. call'[c] = IF call[c].pc = "insert" /\ call[c].type \in Deduped
                     THEN [call[c] EXCEPT !.age = Older(@)] ELSE call[c]
      BY DEF Tick
    <2>3. QED
      BY <2>1, <2>2 DEF Call, CallOK
  <1>4. QED
    BY <1>1, <1>2, <1>3 DEF Tick, WellFormed, TypeOK

LEMMA InvalidateWellFormed ==
    ASSUME WellFormed, Invalidate
    PROVE  page' \in Page /\ joined' \in BOOLEAN
  <1>1. CASE page' = page
    BY <1>1 DEF Invalidate, WellFormed, TypeOK
  <1>2. CASE page' = [page EXCEPT !.pc = "sent", !.answer = {}]
    BY <1>2 DEF Invalidate, Page, WellFormed, TypeOK
  <1>3. QED
    BY <1>1, <1>2 DEF Invalidate

LEMMA HandleWellFormed ==
    ASSUME WellFormed, NEW c \in Caller, Handle(c)
    PROVE  WellFormed'
  <1> USE NullIsOutside
  <1>1. call[c] \in Call /\ CallOK(c)
    BY DEF WellFormed, TypeOK
  <1>2. NoCall \in Call
    BY DEF NoCall, Call
  <1>3. CASE ReadKey(c)
    <2> DEFINE new == IF dedupe[call[c].truck][call[c].type] > 0 THEN NoCall
                      ELSE [call[c] EXCEPT !.pc = "setKey"]
    <2>1. new \in Call /\ new.pc \in {"idle", "setKey"}
      BY <1>1, <1>2 DEF Call, NoCall
    <2>2. new.pc = "setKey" => new.truck \in Truck /\ new.type \in Deduped
      BY <1>1, <1>3 DEF ReadKey, CallOK, NoCall
    <2>3. call' = [call EXCEPT ![c] = new]
      BY <1>3 DEF ReadKey
    <2> HIDE DEF new
    <2>4. call' \in [Caller -> Call] /\ \A d \in Caller : CallOK(d)'
      BY <2>1, <2>2, <2>3, CallStep
    <2>5. QED
      BY <1>3, <2>4 DEF ReadKey, WellFormed, TypeOK
  <1>4. CASE SetKey(c)
    <2> DEFINE new == [call[c] EXCEPT !.pc = "insert", !.age = 0]
    <2>1. new \in Call /\ new.pc = "insert" /\ new.truck \in Truck /\ new.type \in AlertType
      BY <1>1, <1>4 DEF SetKey, Call, CallOK
    <2>2. call' = [call EXCEPT ![c] = new]
      BY <1>4 DEF SetKey
    <2> HIDE DEF new
    <2>3. call' \in [Caller -> Call] /\ \A d \in Caller : CallOK(d)'
      BY <2>1, <2>2, CallStep
    <2>4. dedupe' \in [Truck -> [Deduped -> Age]]
      BY <1>4 DEF SetKey, WellFormed, TypeOK
    <2>5. QED
      BY <1>4, <2>3, <2>4 DEF SetKey, WellFormed, TypeOK
  <1>5. CASE Insert(c)
    <2>1. PICK a \in Alert :
            /\ alerts' = [alerts EXCEPT ![a] = [truck |-> call[c].truck, type |-> call[c].type,
                            age |-> call[c].age, resolved |-> FALSE, savedBy |-> c]]
            /\ call' = [call EXCEPT ![c].pc = "notify", ![c].alert = a, ![c].age = 0]
      BY <1>5 DEF Insert
    <2> DEFINE new == [call[c] EXCEPT !.pc = "notify", !.alert = a, !.age = 0]
    <2>2. new \in Call /\ new.pc = "notify" /\ new.truck \in Truck /\ new.type \in AlertType
          /\ new.alert = a
      BY <1>1, <1>5 DEF Insert, Call, CallOK
    <2>3. call' = [call EXCEPT ![c] = new]
      BY <2>1
    <2> HIDE DEF new
    <2>4. call' \in [Caller -> Call] /\ \A d \in Caller : CallOK(d)'
      BY <2>2, <2>3, CallStep
    <2>5. [truck |-> call[c].truck, type |-> call[c].type, age |-> call[c].age,
           resolved |-> FALSE, savedBy |-> c] \in AlertRow
      BY <1>1 DEF Call, AlertRow
    <2>6. alerts' \in [Alert -> AlertRow]
      BY <2>1, <2>5 DEF WellFormed, TypeOK
    <2>7. QED
      BY <1>5, <2>4, <2>6 DEF Insert, WellFormed, TypeOK
  <1>6. CASE Notify(c) \/ SendFcm(c)
    <2>1. [NoCall EXCEPT !.pc = "push"] \in Call /\ [NoCall EXCEPT !.pc = "push"].pc = "push"
      BY DEF NoCall, Call
    <2>2. PICK new \in {NoCall, [NoCall EXCEPT !.pc = "push"]} : call' = [call EXCEPT ![c] = new]
      BY <1>6 DEF Notify, SendFcm
    <2>3. new \in Call /\ new.pc \in {"idle", "push"}
      BY <1>2, <2>1 DEF NoCall
    <2>4. call' \in [Caller -> Call] /\ \A d \in Caller : CallOK(d)'
      BY <2>2, <2>3, CallStep
    <2>5. page' \in Page /\ missed' \in BOOLEAN /\ joined' \in BOOLEAN
      BY <1>6, InvalidateWellFormed DEF Notify, SendFcm, AlertFired, Refetch, WellFormed, TypeOK
    <2>6. QED
      BY <1>6, <2>4, <2>5 DEF Notify, SendFcm, WellFormed, TypeOK
  <1>7. QED
    BY <1>3, <1>4, <1>5, <1>6 DEF Handle

LEMMA OtherWellFormed ==
    ASSUME WellFormed,
           \/ Fetch \/ OpenPage \/ FetchLost \/ UNCHANGED vars
           \/ \E a \in Alert : Resolve(a)
    PROVE  WellFormed'
  <1>1. call' = call /\ dedupe' = dedupe
    BY DEF Fetch, List, ShowAnswer, OpenPage, FetchLost, Resolve, vars
  <1>2. alerts' \in [Alert -> AlertRow]
    BY DEF WellFormed, TypeOK, AlertRow, Fetch, List, ShowAnswer, OpenPage,
           FetchLost, Resolve, vars
  <1>3. page' \in Page
    <2>1. page \in Page /\ Unresolved \subseteq Alert
      BY DEF WellFormed, TypeOK, Unresolved
    <2>2. CASE Invalidate
      BY <2>2, InvalidateWellFormed
    <2>3. CASE List
      <3>1. PICK first \in SUBSET Listed : page' = [page EXCEPT !.pc = "answered", !.answer = first]
        BY <2>3 DEF List
      <3>2. QED
        BY <2>1, <3>1 DEF Listed, Page
    <2>4. CASE ShowAnswer
      BY <2>1, <2>4 DEF ShowAnswer, Page
    <2>5. CASE FetchLost
      BY <2>1, <2>5 DEF FetchLost, Page
    <2>6. CASE OpenPage
      <3>1. FirstFetch \in Page
        BY DEF FirstFetch, Page
      <3>2. [page EXCEPT !.pc = "sent"] \in Page
        BY <2>1 DEF Page
      <3>3. QED
        BY <2>6, <3>1, <3>2 DEF OpenPage
    <2>7. QED
      BY <2>1, <2>2, <2>3, <2>4, <2>5, <2>6 DEF Fetch, Resolve, Refetch, vars
  <1>4. missed' \in BOOLEAN /\ joined' \in BOOLEAN
    <2>1. missed \in BOOLEAN /\ joined \in BOOLEAN
      BY DEF WellFormed, TypeOK
    <2>2. CASE Refetch
      <3>1. joined' \in BOOLEAN /\ missed' = (missed /\ joined')
        BY <2>2, InvalidateWellFormed DEF Refetch
      <3>2. QED
        BY <2>1, <3>1
    <2>3. CASE OpenPage \/ FetchLost
      BY <2>1, <2>3 DEF OpenPage, FetchLost
    <2>4. CASE Fetch \/ UNCHANGED vars
      <3>1. missed' = missed /\ joined' = joined
        BY <2>4 DEF Fetch, List, ShowAnswer, vars
      <3>2. QED
        BY <2>1, <3>1
    <2>5. ASSUME NEW a \in Alert, Resolve(a), ~Refetch
          PROVE  missed' \in BOOLEAN /\ joined' \in BOOLEAN
      <3>1. missed' = missed /\ joined' = joined
        BY <2>5 DEF Resolve
      <3>2. QED
        BY <2>1, <3>1
    <2>6. QED
      BY <2>2, <2>3, <2>4, <2>5
  <1>5. failures' \in 0 .. MaxFailures
    <2>1. failures' = failures \/ (failures < MaxFailures /\ failures' = failures + 1)
      BY DEF Fail, Fetch, List, ShowAnswer, OpenPage, FetchLost, Resolve, vars
    <2>2. QED
      BY <2>1, ConstantsAssumption DEF WellFormed, TypeOK
  <1>6. \A c \in Caller : CallOK(c)'
    BY <1>1 DEF WellFormed, CallOK
  <1>7. QED
    BY <1>1, <1>2, <1>3, <1>4, <1>5, <1>6 DEF WellFormed, TypeOK

LEMMA RaiseWellFormed ==
    ASSUME WellFormed, NEW c \in Caller, NEW t \in Truck, NEW k \in Raised, Raise(c, t, k)
    PROVE  WellFormed'
  <1> USE NullIsOutside
  <1> DEFINE new == [pc |-> IF k \in Deduped THEN "readKey" ELSE "insert", truck |-> t,
                     type |-> k, age |-> 0, alert |-> Null]
  <1>1. k \in AlertType
    BY ConstantsAssumption
  <1>2. new \in Call /\ new.truck \in Truck /\ new.type = k /\ new.pc \in {"readKey", "insert"}
        /\ (new.pc = "readKey" => k \in Deduped)
    BY <1>1 DEF Call
  <1>3. call' = [call EXCEPT ![c] = new]
    BY DEF Raise
  <1> HIDE DEF new
  <1>4. call' \in [Caller -> Call] /\ \A d \in Caller : CallOK(d)'
    BY <1>1, <1>2, <1>3, CallStep
  <1>5. QED
    BY <1>4 DEF Raise, WellFormed, TypeOK

LEMMA AbortWellFormed ==
    ASSUME WellFormed, NEW c \in Caller, AbortCall(c)
    PROVE  WellFormed'
  <1>1. NoCall \in Call /\ NoCall.pc = "idle"
    BY NullIsOutside DEF NoCall, Call
  <1>2. call' \in [Caller -> Call] /\ \A d \in Caller : CallOK(d)'
    BY <1>1, CallStep DEF AbortCall
  <1>3. failures' \in 0 .. MaxFailures
    BY ConstantsAssumption DEF AbortCall, Fail, WellFormed, TypeOK
  <1>4. QED
    BY <1>2, <1>3 DEF AbortCall, WellFormed, TypeOK

LEMMA NextWellFormed == WellFormed /\ [Next]_vars => WellFormed'
  BY TickWellFormed, HandleWellFormed, OtherWellFormed, RaiseWellFormed, AbortWellFormed
     DEF Next

LEMMA WellFormedInvariant == Spec => []WellFormed
  BY InitWellFormed, NextWellFormed, PTL DEF Spec

\* Rows, keys, calls and the page keep their shapes.
THEOREM TypeCorrect == Spec => []TypeOK
  <1>1. WellFormed => TypeOK
    BY DEF WellFormed
  <1>2. QED
    BY <1>1, WellFormedInvariant, PTL

-----------------------------------------------------------------------------
(* What steps leave alone *)

\* A tick only changes ages.
LEMMA TickFacts ==
    ASSUME WellFormed, Tick
    PROVE  /\ \A a \in Alert :
                /\ alerts'[a].truck = alerts[a].truck /\ alerts'[a].type = alerts[a].type
                /\ alerts'[a].resolved = alerts[a].resolved
                /\ alerts'[a].savedBy = alerts[a].savedBy
                /\ alerts[a].type \in Deduped => alerts'[a].age = Older(alerts[a].age)
           /\ \A c \in Caller :
                /\ call'[c].pc = call[c].pc /\ call'[c].truck = call[c].truck
                /\ call'[c].type = call[c].type /\ call'[c].alert = call[c].alert
                /\ call[c].pc = "insert" /\ call[c].type \in Deduped =>
                        call'[c].age = Older(call[c].age)
  <1>1. ASSUME NEW a \in Alert
        PROVE  /\ alerts[a] \in AlertRow
               /\ alerts'[a] = IF alerts[a].type \in Deduped
                               THEN [alerts[a] EXCEPT !.age = Older(@)] ELSE alerts[a]
    BY DEF Tick, WellFormed, TypeOK
  <1>2. ASSUME NEW c \in Caller
        PROVE  /\ call[c] \in Call
               /\ call'[c] = IF call[c].pc = "insert" /\ call[c].type \in Deduped
                             THEN [call[c] EXCEPT !.age = Older(@)] ELSE call[c]
    BY DEF Tick, WellFormed, TypeOK
  <1>3. ASSUME NEW a \in Alert
        PROVE  /\ alerts'[a].truck = alerts[a].truck /\ alerts'[a].type = alerts[a].type
               /\ alerts'[a].resolved = alerts[a].resolved
               /\ alerts'[a].savedBy = alerts[a].savedBy
               /\ alerts[a].type \in Deduped => alerts'[a].age = Older(alerts[a].age)
    BY <1>1 DEF AlertRow
  <1>4. ASSUME NEW c \in Caller
        PROVE  /\ call'[c].pc = call[c].pc /\ call'[c].truck = call[c].truck
               /\ call'[c].type = call[c].type /\ call'[c].alert = call[c].alert
               /\ call[c].pc = "insert" /\ call[c].type \in Deduped =>
                        call'[c].age = Older(call[c].age)
    BY <1>2 DEF Call
  <1>5. QED
    BY <1>3, <1>4

\* A step of one handler leaves the calls of the others alone, and, unless it saves an
\* alert, the rows as well.
LEMMA CallerFacts ==
    ASSUME WellFormed, NEW c \in Caller,
           \/ Handle(c) \/ AbortCall(c) \/ \E t \in Truck, k \in Raised : Raise(c, t, k)
    PROVE  /\ \A d \in Caller \ {c} : call'[d] = call[d]
           /\ ~Insert(c) => alerts' = alerts
           /\ ~SetKey(c) => dedupe' = dedupe
  <1>1. \A new : call' = [call EXCEPT ![c] = new] => \A d \in Caller \ {c} : call'[d] = call[d]
    BY DEF WellFormed, TypeOK
  <1>2. QED
    BY <1>1 DEF Handle, ReadKey, SetKey, Insert, Notify, SendFcm, AbortCall, Raise

\* What setting a key does.
LEMMA SetKeyFacts ==
    ASSUME WellFormed, NEW c \in Caller, SetKey(c)
    PROVE  /\ call[c].truck \in Truck /\ call[c].type \in Deduped
           /\ \A t \in Truck, k \in Deduped :
                dedupe'[t][k] = IF t = call[c].truck /\ k = call[c].type THEN Window
                                ELSE dedupe[t][k]
           /\ call'[c].pc = "insert" /\ call'[c].age = 0
           /\ call'[c].truck = call[c].truck /\ call'[c].type = call[c].type
  <1>1. call[c].truck \in Truck /\ call[c].type \in Deduped
    BY DEF SetKey, WellFormed, CallOK
  <1>2. \A t \in Truck, k \in Deduped :
            dedupe'[t][k] = IF t = call[c].truck /\ k = call[c].type THEN Window
                            ELSE dedupe[t][k]
    BY <1>1 DEF SetKey, WellFormed, TypeOK
  <1>3. call[c] \in Call /\ call'[c] = [call[c] EXCEPT !.pc = "insert", !.age = 0]
    BY DEF SetKey, WellFormed, TypeOK
  <1>4. QED
    BY <1>1, <1>2, <1>3 DEF Call

\* What saving an alert does: one new row, which is the call's.
LEMMA InsertFacts ==
    ASSUME WellFormed, NEW c \in Caller, Insert(c)
    PROVE  \E a \in Alert :
             /\ ~Saved(a)
             /\ \A b \in Alert \ {a} : alerts'[b] = alerts[b]
             /\ alerts'[a].truck = call[c].truck /\ alerts'[a].type = call[c].type
             /\ alerts'[a].age = call[c].age /\ alerts'[a].savedBy = c
             /\ call'[c].pc = "notify" /\ call'[c].alert = a
             /\ call[c].pc = "insert" /\ call[c].truck \in Truck /\ call[c].type \in AlertType
  <1>1. PICK a \in Alert :
            /\ ~Saved(a)
            /\ alerts' = [alerts EXCEPT ![a] = [truck |-> call[c].truck, type |-> call[c].type,
                            age |-> call[c].age, resolved |-> FALSE, savedBy |-> c]]
            /\ call' = [call EXCEPT ![c].pc = "notify", ![c].alert = a, ![c].age = 0]
    BY DEF Insert
  <1>2. call[c] \in Call /\ call[c].pc = "insert"
        /\ call[c].truck \in Truck /\ call[c].type \in AlertType
    BY DEF Insert, WellFormed, TypeOK, CallOK
  <1>3. call'[c] = [call[c] EXCEPT !.pc = "notify", !.alert = a, !.age = 0]
    BY <1>1 DEF WellFormed, TypeOK
  <1>4. call'[c].pc = "notify" /\ call'[c].alert = a
    BY <1>2, <1>3 DEF Call
  <1>5. /\ alerts'[a] = [truck |-> call[c].truck, type |-> call[c].type, age |-> call[c].age,
                         resolved |-> FALSE, savedBy |-> c]
        /\ \A b \in Alert \ {a} : alerts'[b] = alerts[b]
    BY <1>1 DEF WellFormed, TypeOK
  <1>6. QED
    BY <1>1, <1>2, <1>4, <1>5

\* A resolution changes nothing else in the rows.
LEMMA ResolveFacts ==
    ASSUME WellFormed, NEW a \in Alert, Resolve(a)
    PROVE  \A b \in Alert :
             /\ alerts'[b].truck = alerts[b].truck /\ alerts'[b].type = alerts[b].type
             /\ alerts'[b].age = alerts[b].age /\ alerts'[b].savedBy = alerts[b].savedBy
             /\ alerts'[b].resolved = (alerts[b].resolved \/ b = a)
  <1> SUFFICES ASSUME NEW b \in Alert
               PROVE  /\ alerts'[b].truck = alerts[b].truck /\ alerts'[b].type = alerts[b].type
                      /\ alerts'[b].age = alerts[b].age
                      /\ alerts'[b].savedBy = alerts[b].savedBy
                      /\ alerts'[b].resolved = (alerts[b].resolved \/ b = a)
    OBVIOUS
  <1>1. alerts[b] \in AlertRow
    BY DEF WellFormed, TypeOK
  <1>2. alerts'[b] = IF b = a THEN [alerts[b] EXCEPT !.resolved = TRUE] ELSE alerts[b]
    BY DEF Resolve, WellFormed, TypeOK
  <1>3. QED
    BY <1>1, <1>2 DEF AlertRow

-----------------------------------------------------------------------------
(* A key silences a truck only for an alert that is told *)

\* Who vouches for a key: the alert it was set for, or the handler that is about to save it.
Vouched(t, k) ==
    \/ \E a \in Alert : /\ alerts[a].truck = t /\ alerts[a].type = k
                        /\ alerts[a].age = KeyAge(t, k)
    \/ \E c \in Caller : /\ call[c].pc = "insert" /\ call[c].age = KeyAge(t, k)
                         /\ call[c].truck = t /\ call[c].type = k

LEMMA TickVouches ==
    ASSUME WellFormed, Tick, NEW t \in Truck, NEW k \in Deduped, dedupe'[t][k] > 0,
           Vouched(t, k)
    PROVE  Vouched(t, k)' /\ dedupe[t][k] > 0
  <1>1. Window \in Nat /\ dedupe[t][k] \in 0 .. Window
    BY NullIsOutside DEF WellFormed, TypeOK, Age
  <1>2. dedupe'[t][k] = IF dedupe[t][k] = 0 THEN 0 ELSE dedupe[t][k] - 1
    BY DEF Tick
  <1>3. dedupe[t][k] > 0 /\ KeyAge(t, k) < Window /\ KeyAge(t, k)' = KeyAge(t, k) + 1
    BY <1>1, <1>2 DEF KeyAge
  <1>4. Older(KeyAge(t, k)) = KeyAge(t, k)'
    BY <1>3 DEF Older
  <1>5. CASE \E a \in Alert : /\ alerts[a].truck = t /\ alerts[a].type = k
                              /\ alerts[a].age = KeyAge(t, k)
    <2>1. PICK a \in Alert : /\ alerts[a].truck = t /\ alerts[a].type = k
                             /\ alerts[a].age = KeyAge(t, k)
      BY <1>5
    <2>2. /\ alerts'[a].truck = t /\ alerts'[a].type = k
          /\ alerts'[a].age = Older(KeyAge(t, k))
      BY <2>1, TickFacts
    <2>3. QED
      BY <1>3, <1>4, <2>2 DEF Vouched
  <1>6. CASE \E c \in Caller : /\ call[c].pc = "insert" /\ call[c].age = KeyAge(t, k)
                               /\ call[c].truck = t /\ call[c].type = k
    <2>1. PICK c \in Caller : /\ call[c].pc = "insert" /\ call[c].age = KeyAge(t, k)
                              /\ call[c].truck = t /\ call[c].type = k
      BY <1>6
    <2>2. /\ call'[c].pc = "insert" /\ call'[c].truck = t /\ call'[c].type = k
          /\ call'[c].age = Older(KeyAge(t, k))
      BY <2>1, TickFacts
    <2>3. QED
      BY <1>3, <1>4, <2>2 DEF Vouched
  <1>7. QED
    BY <1>1, <1>3, <1>5, <1>6 DEF Vouched

LEMMA HandlerVouches ==
    ASSUME WellFormed, KeyTells, failures = 0, NEW c \in Caller,
           Handle(c) \/ \E t \in Truck, k \in Raised : Raise(c, t, k),
           NEW t \in Truck, NEW k \in Deduped, dedupe'[t][k] > 0
    PROVE  Vouched(t, k)'
  <1>1. ASSUME ~SetKey(c)
        PROVE  Vouched(t, k) /\ KeyAge(t, k)' = KeyAge(t, k)
    BY <1>1, CallerFacts DEF KeyTells, Vouched, KeyAge
  <1>2. CASE SetKey(c)
    <2>1. CASE t = call[c].truck /\ k = call[c].type
      <3>1. dedupe'[t][k] = Window /\ Window \in Nat
        BY <1>2, <2>1, SetKeyFacts, NullIsOutside
      <3>2. KeyAge(t, k)' = 0
        BY <3>1 DEF KeyAge
      <3>3. QED
        BY <1>2, <2>1, <3>2, SetKeyFacts DEF Vouched
    <2>2. CASE ~(t = call[c].truck /\ k = call[c].type)
      <3>1. dedupe'[t][k] = dedupe[t][k]
        BY <1>2, <2>2, SetKeyFacts
      <3>2. Vouched(t, k) /\ KeyAge(t, k)' = KeyAge(t, k)
        BY <3>1 DEF KeyTells, Vouched, KeyAge
      <3>3. call[c].pc = "setKey" /\ alerts' = alerts
        BY <1>2 DEF SetKey
      <3>4. QED
        BY <3>2, <3>3, CallerFacts DEF Vouched
    <2>3. QED
      BY <2>1, <2>2
  <1>3. CASE Insert(c)
    <2>1. Vouched(t, k) /\ KeyAge(t, k)' = KeyAge(t, k)
      BY <1>1, <1>3 DEF SetKey, Insert
    <2>2. PICK a \in Alert :
             /\ ~Saved(a)
             /\ \A b \in Alert \ {a} : alerts'[b] = alerts[b]
             /\ alerts'[a].truck = call[c].truck /\ alerts'[a].type = call[c].type
             /\ alerts'[a].age = call[c].age
      BY <1>3, InsertFacts
    <2>3. CASE \E b \in Alert : /\ alerts[b].truck = t /\ alerts[b].type = k
                                /\ alerts[b].age = KeyAge(t, k)
      BY <2>1, <2>2, <2>3, NullIsOutside DEF Vouched, Saved
    <2>4. CASE \E d \in Caller : /\ call[d].pc = "insert" /\ call[d].age = KeyAge(t, k)
                                 /\ call[d].truck = t /\ call[d].type = k
      BY <2>1, <2>2, <2>4, CallerFacts DEF Vouched
    <2>5. QED
      BY <2>1, <2>3, <2>4 DEF Vouched
  <1>4. CASE ReadKey(c) \/ Notify(c) \/ SendFcm(c) \/ \E u \in Truck, l \in Raised : Raise(c, u, l)
    <2>1. ~SetKey(c) /\ ~Insert(c) /\ call[c].pc # "insert"
      BY <1>4 DEF ReadKey, SetKey, Insert, Notify, SendFcm, Raise
    <2>2. QED
      BY <1>1, <2>1, CallerFacts DEF Vouched
  <1>5. QED
    BY <1>2, <1>3, <1>4 DEF Handle

LEMMA NextTells == WellFormed /\ KeyTells /\ [Next]_vars => KeyTells'
  <1> SUFFICES ASSUME WellFormed, KeyTells, [Next]_vars, failures' = 0,
                      NEW t \in Truck, NEW k \in Deduped, dedupe'[t][k] > 0
               PROVE  Vouched(t, k)'
    BY DEF KeyTells, Vouched
  <1>1. failures \in Nat
    BY ConstantsAssumption DEF WellFormed, TypeOK
  <1>2. CASE Tick
    <2>1. failures = 0
      BY <1>2 DEF Tick
    <2>2. dedupe[t][k] > 0
      BY <1>2, NullIsOutside DEF Tick, WellFormed, TypeOK, Age
    <2>3. Vouched(t, k)
      BY <2>1, <2>2 DEF KeyTells, Vouched
    <2>4. QED
      BY <1>2, <2>3, TickVouches
  <1>3. ASSUME NEW c \in Caller, Handle(c) \/ \E u \in Truck, l \in Raised : Raise(c, u, l)
        PROVE  Vouched(t, k)'
    <2>1. failures = 0
      BY <1>3 DEF Handle, ReadKey, SetKey, Insert, Notify, SendFcm, Raise
    <2>2. QED
      BY <1>3, <2>1, HandlerVouches
  <1>4. ASSUME NEW c \in Caller, AbortCall(c)
        PROVE  FALSE
    BY <1>1, <1>4 DEF AbortCall, Fail
  <1>5. CASE FetchLost
    BY <1>1, <1>5 DEF FetchLost, Fail
  <1>6. CASE Fetch \/ OpenPage \/ UNCHANGED vars
    <2>1. alerts' = alerts /\ dedupe' = dedupe /\ call' = call /\ failures' = failures
      BY <1>6 DEF Fetch, List, ShowAnswer, OpenPage, vars
    <2>2. Vouched(t, k)
      BY <2>1 DEF KeyTells, Vouched
    <2>3. QED
      BY <2>1, <2>2 DEF Vouched, KeyAge
  <1>7. ASSUME NEW a \in Alert, Resolve(a)
        PROVE  Vouched(t, k)'
    <2>1. failures = 0 /\ dedupe' = dedupe /\ call' = call
      BY <1>7 DEF Resolve
    <2>2. Vouched(t, k) /\ KeyAge(t, k)' = KeyAge(t, k)
      BY <2>1 DEF KeyTells, Vouched, KeyAge
    <2>3. QED
      BY <1>7, <2>1, <2>2, ResolveFacts DEF Vouched
  <1>8. CASE \E c \in Caller : \/ \E u \in Truck, l \in Raised : Raise(c, u, l)
                               \/ Handle(c)
                               \/ AbortCall(c)
    BY <1>3, <1>4, <1>8
  <1>9. QED
    BY <1>2, <1>5, <1>6, <1>7, <1>8 DEF Next

\* A key that silences a truck stands for an alert that is saved or about to be.
THEOREM KeyTellsHolds == Spec => []KeyTells
  <1>1. Init => KeyTells
    BY DEF Init, KeyTells
  <1>2. QED
    BY <1>1, NextTells, WellFormedInvariant, PTL DEF Spec

-----------------------------------------------------------------------------
(* One handler never raises an alert twice in a window *)

\* A row was saved for a truck.
RowsOK == \A a \in Alert : Saved(a) => alerts[a].truck \in Truck /\ alerts[a].type \in AlertType

\* While an alert is young, saved or about to be, its key is there.
KeyCovers ==
    /\ \A a \in Alert :
            Saved(a) /\ alerts[a].type \in Deduped /\ alerts[a].age < Window =>
                dedupe[alerts[a].truck][alerts[a].type] >= Window - alerts[a].age
    /\ \A c \in Caller :
            call[c].pc = "insert" /\ call[c].type \in Deduped /\ call[c].age < Window =>
                dedupe[call[c].truck][call[c].type] >= Window - call[c].age

\* A handler that found no key has raised no such alert in the window.
SetterClean ==
    \A c \in Caller, a \in Alert :
        /\ call[c].pc \in {"setKey", "insert"} /\ call[c].type \in Deduped
        /\ Saved(a) /\ alerts[a].savedBy = c
        /\ alerts[a].truck = call[c].truck /\ alerts[a].type = call[c].type
        => alerts[a].age >= Window

FloodInv == WellFormed /\ RowsOK /\ KeyCovers /\ SetterClean /\ NoFlood

LEMMA Ages ==
    ASSUME WellFormed
    PROVE  /\ \A a \in Alert : alerts[a].age \in 0 .. Window
           /\ \A c \in Caller : call[c].age \in 0 .. Window
           /\ \A t \in Truck, k \in Deduped : dedupe[t][k] \in 0 .. Window
           /\ Window \in Nat
           /\ \A n \in 0 .. Window : Older(n) = IF n < Window THEN n + 1 ELSE Window
  <1>1. ASSUME NEW a \in Alert
        PROVE  alerts[a].age \in Age
    <2>1. alerts[a] \in AlertRow
      BY DEF WellFormed, TypeOK
    <2>2. QED
      BY <2>1 DEF AlertRow
  <1>2. ASSUME NEW c \in Caller
        PROVE  call[c].age \in Age
    <2>1. call[c] \in Call
      BY DEF WellFormed, TypeOK
    <2>2. QED
      BY <2>1 DEF Call
  <1>3. \A t \in Truck, k \in Deduped : dedupe[t][k] \in Age
    BY DEF WellFormed, TypeOK
  <1>4. QED
    BY <1>1, <1>2, <1>3, NullIsOutside DEF Age, Older

LEMMA TickFlood ==
    ASSUME FloodInv, Tick
    PROVE  RowsOK' /\ KeyCovers' /\ SetterClean' /\ NoFlood'
  <1>1. WellFormed /\ RowsOK /\ KeyCovers /\ SetterClean /\ NoFlood
    BY DEF FloodInv
  <1>2. \A t \in Truck, k \in Deduped :
            dedupe'[t][k] = IF dedupe[t][k] = 0 THEN 0 ELSE dedupe[t][k] - 1
    BY DEF Tick
  <1>3. RowsOK'
    BY <1>1, TickFacts DEF RowsOK, Saved
  <1>4. KeyCovers'
    <2>1. ASSUME NEW a \in Alert, Saved(a)', alerts'[a].type \in Deduped,
                 alerts'[a].age < Window
          PROVE  dedupe'[alerts'[a].truck][alerts'[a].type] >= Window - alerts'[a].age
      <3>1. /\ Saved(a) /\ alerts[a].type \in Deduped
            /\ alerts'[a].truck = alerts[a].truck /\ alerts'[a].type = alerts[a].type
            /\ alerts'[a].age = Older(alerts[a].age)
        BY <1>1, <2>1, TickFacts DEF Saved
      <3>2. alerts[a].truck \in Truck
        BY <1>1, <3>1 DEF RowsOK
      <3>3. alerts[a].age < Window /\ alerts'[a].age = alerts[a].age + 1
        BY <1>1, <2>1, <3>1, Ages
      <3>4. dedupe[alerts[a].truck][alerts[a].type] >= Window - alerts[a].age
        BY <1>1, <3>1, <3>3 DEF KeyCovers
      <3>5. QED
        BY <1>1, <1>2, <3>1, <3>2, <3>3, <3>4, Ages
    <2>2. ASSUME NEW c \in Caller, call'[c].pc = "insert", call'[c].type \in Deduped,
                 call'[c].age < Window
          PROVE  dedupe'[call'[c].truck][call'[c].type] >= Window - call'[c].age
      <3>1. /\ call[c].pc = "insert" /\ call[c].type \in Deduped
            /\ call'[c].truck = call[c].truck /\ call'[c].type = call[c].type
            /\ call'[c].age = Older(call[c].age)
        BY <1>1, <2>2, TickFacts
      <3>2. call[c].truck \in Truck
        BY <1>1, <3>1 DEF WellFormed, CallOK
      <3>3. call[c].age < Window /\ call'[c].age = call[c].age + 1
        BY <1>1, <2>2, <3>1, Ages
      <3>4. dedupe[call[c].truck][call[c].type] >= Window - call[c].age
        BY <1>1, <3>1, <3>3 DEF KeyCovers
      <3>5. QED
        BY <1>1, <1>2, <3>1, <3>2, <3>3, <3>4, Ages
    <2>3. QED
      BY <2>1, <2>2 DEF KeyCovers
  <1>5. \A a \in Alert : alerts[a].type \in Deduped =>
            alerts'[a].age = IF alerts[a].age < Window THEN alerts[a].age + 1 ELSE Window
    BY <1>1, Ages, TickFacts
  <1>6. SetterClean'
    BY <1>1, <1>5, Ages, TickFacts DEF SetterClean, Saved
  <1>7. NoFlood'
    BY <1>1, <1>5, Ages, TickFacts DEF NoFlood, Saved
  <1>8. QED
    BY <1>3, <1>4, <1>6, <1>7

LEMMA SetKeyFlood ==
    ASSUME FloodInv, NEW c \in Caller, SetKey(c)
    PROVE  RowsOK' /\ KeyCovers' /\ SetterClean' /\ NoFlood'
  <1>1. WellFormed /\ RowsOK /\ KeyCovers /\ SetterClean /\ NoFlood
    BY DEF FloodInv
  <1>2. alerts' = alerts /\ call[c].pc = "setKey"
    BY DEF SetKey
  <1>3. \A d \in Caller \ {c} : call'[d] = call[d]
    BY <1>1, CallerFacts DEF Handle
  <1>4. \A t \in Truck, k \in Deduped : dedupe'[t][k] >= dedupe[t][k]
    BY <1>1, Ages, SetKeyFacts
  <1>5. KeyCovers'
    <2>1. ASSUME NEW a \in Alert, Saved(a), alerts[a].type \in Deduped, alerts[a].age < Window
          PROVE  dedupe'[alerts[a].truck][alerts[a].type] >= Window - alerts[a].age
      <3>1. alerts[a].truck \in Truck
        BY <1>1, <2>1 DEF RowsOK
      <3>2. dedupe[alerts[a].truck][alerts[a].type] >= Window - alerts[a].age
        BY <1>1, <2>1 DEF KeyCovers
      <3>3. dedupe'[alerts[a].truck][alerts[a].type] >= dedupe[alerts[a].truck][alerts[a].type]
        BY <1>4, <2>1, <3>1
      <3>4. /\ dedupe'[alerts[a].truck][alerts[a].type] \in Int
            /\ dedupe[alerts[a].truck][alerts[a].type] \in Int
        BY <1>1, <2>1, <3>1, Ages, SetKeyFacts
      <3>5. QED
        BY <1>1, <3>2, <3>3, <3>4, Ages
    <2>2. ASSUME NEW d \in Caller, call'[d].pc = "insert", call'[d].type \in Deduped,
                 call'[d].age < Window
          PROVE  dedupe'[call'[d].truck][call'[d].type] >= Window - call'[d].age
      <3>1. CASE d = c
        BY <1>1, <3>1, Ages, SetKeyFacts
      <3>2. CASE d # c
        <4>1. call'[d] = call[d]
          BY <1>3, <3>2
        <4>2. call[d].truck \in Truck
          BY <1>1, <2>2, <4>1 DEF WellFormed, CallOK
        <4>3. dedupe[call[d].truck][call[d].type] >= Window - call[d].age
          BY <1>1, <2>2, <4>1 DEF KeyCovers
        <4>4. dedupe'[call[d].truck][call[d].type] >= dedupe[call[d].truck][call[d].type]
          BY <1>4, <2>2, <4>1, <4>2
        <4>5. /\ dedupe'[call[d].truck][call[d].type] \in Int
              /\ dedupe[call[d].truck][call[d].type] \in Int
          BY <1>1, <2>2, <4>1, <4>2, Ages, SetKeyFacts
        <4>6. QED
          BY <1>1, <4>1, <4>3, <4>4, <4>5, Ages
      <3>3. QED
        BY <3>1, <3>2
    <2>3. QED
      BY <1>2, <2>1, <2>2 DEF KeyCovers, Saved
  <1>6. SetterClean'
    BY <1>1, <1>2, <1>3, SetKeyFacts DEF SetterClean, Saved
  <1>7. QED
    BY <1>1, <1>2, <1>5, <1>6 DEF RowsOK, NoFlood, Saved

LEMMA InsertFlood ==
    ASSUME FloodInv, NEW c \in Caller, Insert(c)
    PROVE  RowsOK' /\ KeyCovers' /\ SetterClean' /\ NoFlood'
  <1>1. WellFormed /\ RowsOK /\ KeyCovers /\ SetterClean /\ NoFlood
    BY DEF FloodInv
  <1>2. PICK a \in Alert :
             /\ ~Saved(a)
             /\ \A b \in Alert \ {a} : alerts'[b] = alerts[b]
             /\ alerts'[a].truck = call[c].truck /\ alerts'[a].type = call[c].type
             /\ alerts'[a].age = call[c].age /\ alerts'[a].savedBy = c
             /\ call'[c].pc = "notify" /\ call'[c].alert = a
             /\ call[c].pc = "insert" /\ call[c].truck \in Truck /\ call[c].type \in AlertType
    BY <1>1, InsertFacts
  <1>3. /\ \A d \in Caller \ {c} : call'[d] = call[d]
        /\ dedupe' = dedupe
    BY <1>1, CallerFacts DEF Handle, Insert
  <1>4. RowsOK'
    BY <1>1, <1>2 DEF RowsOK, Saved
  <1>5. KeyCovers'
    BY <1>1, <1>2, <1>3 DEF KeyCovers, Saved
  <1>6. SetterClean'
    BY <1>1, <1>2, <1>3 DEF SetterClean, Saved
  <1>7. ASSUME NEW b \in Alert \ {a}, Saved(b), alerts[b].type = call[c].type,
               alerts[b].truck = call[c].truck, alerts[b].savedBy = c,
               call[c].type \in Deduped
        PROVE  ~(alerts[b].age < Window)
    <2>1. alerts[b].age >= Window
      BY <1>1, <1>2, <1>7 DEF SetterClean
    <2>2. QED
      BY <1>1, <2>1, Ages
  <1>8. NoFlood'
    BY <1>1, <1>2, <1>7 DEF NoFlood, Saved
  <1>9. QED
    BY <1>4, <1>5, <1>6, <1>8

\* The other steps of a handler: it may end, or go from reading its key to setting it.
LEMMA QuietFlood ==
    ASSUME FloodInv, NEW c \in Caller,
           \/ ReadKey(c) \/ Notify(c) \/ SendFcm(c) \/ AbortCall(c)
           \/ \E t \in Truck, k \in Raised : Raise(c, t, k)
    PROVE  RowsOK' /\ KeyCovers' /\ SetterClean' /\ NoFlood'
  <1>1. WellFormed /\ RowsOK /\ KeyCovers /\ SetterClean /\ NoFlood
    BY DEF FloodInv
  <1>2. alerts' = alerts /\ dedupe' = dedupe
    BY DEF ReadKey, Notify, SendFcm, AbortCall, Raise
  <1>3. \A d \in Caller \ {c} : call'[d] = call[d]
    BY <1>1, CallerFacts DEF Handle
  <1>4. call[c] \in Call
    BY <1>1 DEF WellFormed, TypeOK
  <1>5. \/ call'[c].pc \notin {"setKey", "insert"}
        \/ call'[c].pc = "insert" /\ call'[c].type \notin Deduped
        \/ /\ call[c].pc = "readKey" /\ call'[c].pc = "setKey"
           /\ call'[c].truck = call[c].truck /\ call'[c].type = call[c].type
           /\ ~(dedupe[call[c].truck][call[c].type] > 0)
    BY <1>1, <1>4
       DEF ReadKey, Notify, SendFcm, AbortCall, Raise, NoCall, Call, WellFormed, TypeOK
  <1>6. KeyCovers'
    BY <1>1, <1>2, <1>3, <1>5 DEF KeyCovers, Saved
  <1>7. SetterClean'
    <2>1. SUFFICES ASSUME NEW d \in Caller, NEW a \in Alert,
                          call'[d].pc \in {"setKey", "insert"}, call'[d].type \in Deduped,
                          Saved(a), alerts[a].savedBy = d,
                          alerts[a].truck = call'[d].truck, alerts[a].type = call'[d].type
                   PROVE  alerts[a].age >= Window
      BY <1>2 DEF SetterClean, Saved
    <2>2. CASE d # c
      BY <1>1, <1>3, <2>1, <2>2 DEF SetterClean
    <2>3. CASE d = c
      <3>1. /\ call[c].pc = "readKey"
            /\ call'[c].truck = call[c].truck /\ call'[c].type = call[c].type
            /\ ~(dedupe[call[c].truck][call[c].type] > 0)
        BY <1>5, <2>1, <2>3
      <3>2. call[c].truck \in Truck /\ call[c].type \in Deduped
        BY <1>1, <3>1 DEF WellFormed, CallOK
      <3>3. alerts[a].age < Window =>
                dedupe[call[c].truck][call[c].type] >= Window - alerts[a].age
        BY <1>1, <2>1, <2>3, <3>1, <3>2 DEF KeyCovers
      <3>4. QED
        BY <1>1, <3>1, <3>2, <3>3, Ages
    <2>4. QED
      BY <2>2, <2>3
  <1>8. QED
    BY <1>1, <1>2, <1>6, <1>7 DEF RowsOK, NoFlood, Saved

LEMMA ElsewhereFlood ==
    ASSUME FloodInv,
           Fetch \/ OpenPage \/ FetchLost \/ UNCHANGED vars \/ \E a \in Alert : Resolve(a)
    PROVE  RowsOK' /\ KeyCovers' /\ SetterClean' /\ NoFlood'
  <1>1. WellFormed /\ RowsOK /\ KeyCovers /\ SetterClean /\ NoFlood
    BY DEF FloodInv
  <1>2. call' = call /\ dedupe' = dedupe
    BY DEF Fetch, List, ShowAnswer, OpenPage, FetchLost, Resolve, vars
  <1>3. \A b \in Alert :
            /\ alerts'[b].truck = alerts[b].truck /\ alerts'[b].type = alerts[b].type
            /\ alerts'[b].age = alerts[b].age /\ alerts'[b].savedBy = alerts[b].savedBy
    BY <1>1, ResolveFacts DEF Fetch, List, ShowAnswer, OpenPage, FetchLost, vars
  <1>4. QED
    BY <1>1, <1>2, <1>3 DEF RowsOK, KeyCovers, SetterClean, NoFlood, Saved

LEMMA NextFlood == FloodInv /\ [Next]_vars => FloodInv'
  <1> SUFFICES ASSUME FloodInv, [Next]_vars
               PROVE  FloodInv'
    OBVIOUS
  <1>1. WellFormed'
    BY NextWellFormed DEF FloodInv
  <1>2. RowsOK' /\ KeyCovers' /\ SetterClean' /\ NoFlood'
    BY TickFlood, SetKeyFlood, InsertFlood, QuietFlood, ElsewhereFlood DEF Next, Handle
  <1>3. QED
    BY <1>1, <1>2 DEF FloodInv

\* Two alerts of a truck and type in one window come from handlers at work at once.
THEOREM NoFloodHolds == Spec => []NoFlood
  <1>1. Init => FloodInv
    <2>1. ASSUME Init
          PROVE  (\A a \in Alert : ~Saved(a)) /\ (\A c \in Caller : call[c].pc = "idle")
      BY <2>1 DEF Init, NoAlert, NoCall, Saved
    <2>2. QED
      BY <2>1, InitWellFormed DEF FloodInv, RowsOK, KeyCovers, SetterClean, NoFlood
  <1>2. FloodInv => NoFlood
    BY DEF FloodInv
  <1>3. QED
    BY <1>1, <1>2, NextFlood, PTL DEF Spec

-----------------------------------------------------------------------------
(* The page that shows all alerts *)

LEMMA FiniteAlerts == IsFiniteSet(Alert) /\ PageLimit \in Nat \ {0}
  BY ConstantsAssumption, FS_Interval DEF Alert

\* Newer alerts do not go away.
LEMMA StaysCrowded ==
    ASSUME NEW a \in Alert, Crowded(a), \A b \in Alert : Saved(b) => Saved(b)'
    PROVE  Crowded(a)'
  <1> DEFINE newer == {b \in Alert : Saved(b) /\ b > a}
  <1>1. newer \subseteq newer'
    OBVIOUS
  <1>2. IsFiniteSet(newer') /\ IsFiniteSet(newer)
    BY FiniteAlerts, FS_Subset
  <1> HIDE DEF newer
  <1>3. Cardinality(newer) <= Cardinality(newer')
    BY <1>1, <1>2, FS_Subset
  <1>4. Cardinality(newer) \in Nat /\ Cardinality(newer') \in Nat
    BY <1>2, FS_CardinalityType
  <1>5. QED
    BY <1>3, <1>4, FiniteAlerts DEF Crowded, newer

\* An unresolved alert that an answer leaves out has a list of newer ones before it.
LEMMA AnsweredOrCrowded ==
    ASSUME Selected = "all", WellFormed, List, NEW a \in Unresolved
    PROVE  page'.pc = "answered" /\ (a \in page'.answer \/ Crowded(a))
  <1> DEFINE newer == {b \in Alert : Saved(b) /\ b > a}
  <1>1. ResolvedText = ""
    BY DEF ResolvedText
  <1>2. PICK first \in SUBSET Listed :
            /\ first # Listed => Cardinality(first) = PageLimit
            /\ \A b \in first, d \in Listed \ first : Precedes(b, d)
            /\ page' = [page EXCEPT !.pc = "answered", !.answer = first]
    BY DEF List
  <1>3. page'.pc = "answered" /\ page'.answer = first
    BY <1>2 DEF WellFormed, TypeOK, Page
  <1>4. a \in Listed /\ ~alerts[a].resolved /\ a \in Alert
    BY <1>1 DEF Listed, Unresolved
  <1>5. CASE a \notin first
    <2>1. Cardinality(first) = PageLimit
      BY <1>2, <1>4, <1>5
    <2>2. first \subseteq newer
      BY <1>2, <1>4, <1>5 DEF Precedes, Listed
    <2>3. IsFiniteSet(newer)
      BY FiniteAlerts, FS_Subset
    <2> HIDE DEF newer
    <2>4. Cardinality(first) <= Cardinality(newer) /\ Cardinality(newer) \in Nat
      BY <2>2, <2>3, FS_Subset, FS_CardinalityType
    <2>5. Crowded(a)
      BY <2>1, <2>4, FiniteAlerts DEF Crowded, newer
    <2>6. QED
      BY <1>3, <2>5
  <1>6. QED
    BY <1>3, <1>5

\* Unless an event was missed or joined a fetch, an unresolved alert is on its way to the
\* page, or there, or has too many before it.
OnItsWay(a) ==
    \/ Notifying(a)
    \/ Crowded(a)
    \/ page.pc = "sent"
    \/ page.pc = "answered" /\ a \in page.answer
    \/ page.pc = "idle" /\ a \in page.rows

PageInv == ~missed /\ ~joined => \A a \in Unresolved : OnItsWay(a)

\* Told of an alert, the page is going to ask, unless it joined an answered fetch.
LEMMA Asks ==
    ASSUME WellFormed, Invalidate, ~joined'
    PROVE  page'.pc = "sent"
  <1>1. page \in Page
    BY DEF WellFormed, TypeOK
  <1>2. CASE page' = [page EXCEPT !.pc = "sent", !.answer = {}]
    BY <1>1, <1>2 DEF Page
  <1>3. CASE page.pc # "idle" /\ page.pc # "answered" /\ page' = page
    BY <1>1, <1>3 DEF Page
  <1>4. QED
    BY <1>2, <1>3 DEF Invalidate

LEMMA AskingPage ==
    ASSUME page'.pc = "sent"
    PROVE  PageInv'
  BY DEF PageInv, OnItsWay

\* A step that saves no alert, resolves what it may and tells nobody.
LEMMA QuietPage ==
    ASSUME PageInv, page' = page, joined' = joined, ~missed' => ~missed,
           Unresolved' \subseteq Unresolved,
           \A a \in Alert : Saved(a) => Saved(a)',
           ~missed' => \A a \in Alert : Notifying(a) => Notifying(a)'
    PROVE  PageInv'
  <1> SUFFICES ASSUME ~missed', ~joined', NEW a \in Unresolved'
               PROVE  OnItsWay(a)'
    BY DEF PageInv
  <1>1. a \in Alert /\ OnItsWay(a)
    BY DEF PageInv, Unresolved
  <1>2. Crowded(a) => Crowded(a)'
    BY <1>1, StaysCrowded
  <1>3. QED
    BY <1>1, <1>2 DEF OnItsWay

LEMMA CallerPage ==
    ASSUME WellFormed, PageInv, NEW c \in Caller,
           \/ Handle(c) \/ AbortCall(c) \/ \E t \in Truck, k \in Raised : Raise(c, t, k)
    PROVE  PageInv'
  <1>1. \A d \in Caller \ {c} : call'[d] = call[d]
    BY CallerFacts
  <1>2. CASE Insert(c)
    <2>1. PICK a \in Alert :
             /\ \A b \in Alert \ {a} : alerts'[b] = alerts[b]
             /\ ~Saved(a)
             /\ call'[c].pc = "notify" /\ call'[c].alert = a /\ call[c].pc = "insert"
      BY <1>2, InsertFacts
    <2>2. page' = page /\ missed' = missed /\ joined' = joined
      BY <1>2 DEF Insert
    <2>3. Notifying(a)'
      BY <2>1 DEF Notifying
    <2>4. \A b \in Alert \ {a} : b \in Unresolved' => b \in Unresolved
      BY <2>1 DEF Unresolved, Saved
    <2>5. \A b \in Alert : Notifying(b) => Notifying(b)'
      BY <1>1, <2>1 DEF Notifying
    <2>6. \A b \in Alert : Saved(b) => Saved(b)'
      BY <2>1 DEF Saved
    <2>7. \A b \in Alert : Crowded(b) => Crowded(b)'
      BY <2>6, StaysCrowded
    <2>8. QED
      BY <2>2, <2>3, <2>4, <2>5, <2>7 DEF PageInv, OnItsWay, Unresolved
  <1>3. CASE Notify(c)
    <2>1. CASE missed' \/ joined'
      BY <2>1 DEF PageInv
    <2>2. CASE ~missed' /\ ~joined'
      BY <1>3, <2>2, Asks, AskingPage DEF Notify, AlertFired, Refetch
    <2>3. QED
      BY <2>1, <2>2
  <1>4. CASE ~Insert(c) /\ ~Notify(c)
    <2>1. alerts' = alerts /\ page' = page /\ joined' = joined
      BY <1>4 DEF Handle, ReadKey, SetKey, SendFcm, AbortCall, Raise
    <2>2. ~missed' => ~missed /\ call[c].pc # "notify"
      BY <1>4 DEF Handle, ReadKey, SetKey, SendFcm, AbortCall, Raise
    <2>3. ~missed' => \A b \in Alert : Notifying(b) => Notifying(b)'
      BY <1>1, <2>2 DEF Notifying
    <2>4. Unresolved' \subseteq Unresolved /\ \A b \in Alert : Saved(b) => Saved(b)'
      BY <2>1 DEF Unresolved, Saved
    <2>5. QED
      BY <2>1, <2>2, <2>3, <2>4, QuietPage
  <1>5. QED
    BY <1>2, <1>3, <1>4

LEMMA ElsewherePage ==
    ASSUME Selected = "all", WellFormed, PageInv,
           \/ Tick \/ Fetch \/ OpenPage \/ FetchLost \/ UNCHANGED vars
           \/ \E a \in Alert : Resolve(a)
    PROVE  PageInv'
  <1>1. page \in Page
    BY DEF WellFormed, TypeOK
  <1>2. CASE Tick
    <2>1. /\ Unresolved' = Unresolved /\ \A a \in Alert : Notifying(a) => Notifying(a)'
          /\ \A a \in Alert : Saved(a) => Saved(a)'
      BY <1>2, TickFacts DEF Unresolved, Saved, Notifying
    <2>2. page' = page /\ missed' = missed /\ joined' = joined
      BY <1>2 DEF Tick
    <2>3. QED
      BY <2>1, <2>2, QuietPage
  <1>3. CASE OpenPage
    <2>1. page'.pc = "sent"
      BY <1>1, <1>3 DEF OpenPage, FirstFetch, Page
    <2>2. QED
      BY <2>1, AskingPage
  <1>4. CASE List
    <2>1. \A a \in Unresolved : page'.pc = "answered" /\ (a \in page'.answer \/ Crowded(a))
      BY <1>4, AnsweredOrCrowded
    <2>2. Unresolved' = Unresolved /\ \A a \in Alert : Saved(a) => Saved(a)'
      BY <1>4 DEF List, Unresolved, Saved
    <2>3. \A a \in Unresolved : Crowded(a) => Crowded(a)'
      BY <2>2, StaysCrowded DEF Unresolved
    <2>4. QED
      BY <2>1, <2>2, <2>3 DEF PageInv, OnItsWay
  <1>5. CASE ShowAnswer
    <2>1. page.pc = "answered" /\ page'.pc = "idle" /\ page'.rows = page.answer
      BY <1>5 DEF ShowAnswer
    <2>2. /\ Unresolved' = Unresolved /\ missed' = missed /\ joined' = joined
          /\ \A a : Notifying(a) => Notifying(a)'
          /\ \A a \in Alert : Saved(a) => Saved(a)'
      BY <1>5 DEF ShowAnswer, Unresolved, Saved, Notifying
    <2>3. \A a \in Unresolved : Crowded(a) => Crowded(a)'
      BY <2>2, StaysCrowded DEF Unresolved
    <2>4. QED
      BY <2>1, <2>2, <2>3 DEF PageInv, OnItsWay
  <1>6. CASE FetchLost
    BY <1>6 DEF FetchLost, PageInv
  <1>7. CASE UNCHANGED vars
    <2>1. /\ Unresolved' = Unresolved /\ \A a \in Alert : Notifying(a) => Notifying(a)'
          /\ \A a \in Alert : Saved(a) => Saved(a)'
      BY <1>7 DEF vars, Unresolved, Saved, Notifying
    <2>2. page' = page /\ missed' = missed /\ joined' = joined
      BY <1>7 DEF vars
    <2>3. QED
      BY <2>1, <2>2, QuietPage
  <1>8. ASSUME NEW a \in Alert, Resolve(a), ~Refetch
        PROVE  PageInv'
    <2>1. page' = page /\ missed' = missed /\ joined' = joined /\ call' = call
      BY <1>8 DEF Resolve
    <2>2. Unresolved' \subseteq Unresolved /\ \A b \in Alert : Saved(b) => Saved(b)'
      BY <1>8, ResolveFacts DEF Unresolved, Saved
    <2>3. \A b \in Alert : Notifying(b) => Notifying(b)'
      BY <2>1 DEF Notifying
    <2>4. QED
      BY <2>1, <2>2, <2>3, QuietPage
  <1>9. CASE Refetch
    <2>1. CASE joined'
      BY <2>1 DEF PageInv
    <2>2. CASE ~joined'
      BY <1>9, <2>2, Asks, AskingPage DEF Refetch
    <2>3. QED
      BY <2>1, <2>2
  <1>10. QED
    BY <1>2, <1>3, <1>4, <1>5, <1>6, <1>7, <1>8, <1>9 DEF Fetch

\* For any page limit: a page at rest that is to show all alerts misses none of the newest
\* it was told of, but for an event that joined its first fetch too late.
THEOREM PageMissesNoneHolds ==
    ASSUME Selected = "all"
    PROVE  Spec => []PageMissesNone
  <1>1. Init => PageInv
    BY DEF Init, NoAlert, PageInv, Unresolved, Saved
  <1>2. WellFormed /\ PageInv /\ [Next]_vars => PageInv'
    BY CallerPage, ElsewherePage DEF Next
  <1>3. PageInv => PageMissesNone
    BY DEF PageInv, PageMissesNone, OnItsWay, Shown
  <1>4. Spec => []WellFormed
    BY WellFormedInvariant
  <1>5. QED
    BY <1>1, <1>2, <1>3, <1>4, PTL DEF Spec

=============================================================================
