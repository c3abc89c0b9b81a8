------------------------------ MODULE AlertFlow ------------------------------
(***************************************************************************)
(* How an alert is raised and reaches the office: AlertsService, its       *)
(* dedupe keys in Redis, the broadcast of the gateway, the push message,   *)
(* and the dashboard's list of alerts, which is fetched again whenever     *)
(* ALERT_FIRED arrives.                                                    *)
(*                                                                         *)
(* A speeding GPS update, the offline sweep, a driver's idle event and a   *)
(* large fuel entry call the service from handlers that run side by side;  *)
(* a call has a program counter and stops at each await.  SOS alerts,      *)
(* which nothing raises, are left out.  Alerts are numbered in the order   *)
(* they are saved, which stands for that of their timestamps.              *)
(***************************************************************************)
EXTENDS FleetTypes, Naturals, FiniteSets

CONSTANTS
    Truck,
    Caller,         \* handlers that can be raising an alert at once
    Raised,         \* the types of alert that are raised
    Window,         \* ticks a dedupe key lives (600 s)
    Selected,       \* what the page's Status box says
    PageLimit,      \* how many alerts the page asks for (50)
    MaxAlerts,      \* bound on the alerts of a behaviour
    MaxFailures     \* bound on its failures

\* The types checked against a key of their own, and those that are not.
Deduped == {"OVERSPEED", "OFFLINE"}

AlertType == Deduped \union {"IDLE", "LOW_FUEL", "LOW_ADBLUE"}

ASSUME ConstantsAssumption ==
    /\ Raised \subseteq AlertType
    /\ {Window, PageLimit} \subseteq Nat \ {0}
    /\ Selected \in {"all", "unresolved", "resolved"}
    /\ {MaxAlerts, MaxFailures} \subseteq Nat
    /\ Null \notin Truck \union AlertType \union Caller \union Nat

VARIABLES
    alerts,     \* alerts[a]: the row of alert a
    dedupe,     \* dedupe[t][k]: ticks the key alert:k:t has left
    call,       \* call[c]: the call of AlertsService handler c is in
    page,       \* the list of alerts: what it shows, and its fetch
    missed,     \* an alert fired since the last fetch began and the page was not told
    joined,     \* it was told, and joined a fetch that had been answered before
    failures    \* failures so far

vars == <<alerts, dedupe, call, page, missed, joined, failures>>

-----------------------------------------------------------------------------
(* Rows, keys, calls and the page *)

Alert == 1 .. MaxAlerts

Age == 0 .. Window

\* savedBy is no column: it remembers which handler saved the row.
AlertRow == [truck: Truck \union {Null}, type: AlertType \union {Null}, age: Age,
             resolved: BOOLEAN, savedBy: Caller \union {Null}]

NoAlert == [truck |-> Null, type |-> Null, age |-> 0, resolved |-> FALSE, savedBy |-> Null]

Saved(a) == alerts[a].type # Null

Unresolved == {a \in Alert : Saved(a) /\ ~alerts[a].resolved}

Call == [pc: {"idle", "readKey", "setKey", "insert", "notify", "push"},
         truck: Truck \union {Null}, type: AlertType \union {Null}, age: Age,
         alert: Alert \union {Null}]

NoCall == [pc |-> "idle", truck |-> Null, type |-> Null, age |-> 0, alert |-> Null]

\* loaded says whether React Query has data to show, rows what it shows.
Page == [pc: {"idle", "sent", "answered"}, loaded: BOOLEAN, answer: SUBSET Alert,
         rows: SUBSET Alert]

FirstFetch == [pc |-> "sent", loaded |-> FALSE, answer |-> {}, rows |-> {}]

TypeOK ==
    /\ alerts \in [Alert -> AlertRow]
    /\ dedupe \in [Truck -> [Deduped -> Age]]
    /\ call \in [Caller -> Call]
    /\ page \in Page
    /\ missed \in BOOLEAN /\ joined \in BOOLEAN
    /\ failures \in 0 .. MaxFailures

\* No alert yet; the page has just been opened.
Init ==
    /\ alerts = [a \in Alert |-> NoAlert]
    /\ dedupe = [t \in Truck |-> [k \in Deduped |-> 0]]
    /\ call = [c \in Caller |-> NoCall]
    /\ page = FirstFetch
    /\ missed = FALSE /\ joined = FALSE
    /\ failures = 0

-----------------------------------------------------------------------------
(* Time *)

Older(age) == IF age < Window THEN age + 1 ELSE Window

\* Keys run out; alerts with a key, saved or about to be, get older.
Tick ==
    /\ alerts' = [a \in Alert |->
                    IF alerts[a].type \in Deduped THEN [alerts[a] EXCEPT !.age = Older(@)]
                    ELSE alerts[a]]
    /\ dedupe' = [t \in Truck |-> [k \in Deduped |->
                    IF dedupe[t][k] = 0 THEN 0 ELSE dedupe[t][k] - 1]]
    /\ call' = [c \in Caller |->
                    IF call[c].pc = "insert" /\ call[c].type \in Deduped
                    THEN [call[c] EXCEPT !.age = Older(@)] ELSE call[c]]
    /\ UNCHANGED <<page, missed, joined, failures>>

-----------------------------------------------------------------------------
(* Raising an alert *)

\* createOverspeedAlert and createOfflineAlert look at their key first; the other
\* types go straight to createAlert, which takes the time and saves the row.
Raise(c, t, k) ==
    /\ call[c].pc = "idle"
    /\ call' = [call EXCEPT ![c] =
            [pc |-> IF k \in Deduped THEN "readKey" ELSE "insert", truck |-> t, type |-> k,
             age |-> 0, alert |-> Null]]
    /\ UNCHANGED <<alerts, dedupe, page, missed, joined, failures>>

ReadKey(c) ==
    /\ call[c].pc = "readKey"
    /\ call' = [call EXCEPT ![c] =
            IF dedupe[call[c].truck][call[c].type] > 0 THEN NoCall
            ELSE [call[c] EXCEPT !.pc = "setKey"]]
    /\ UNCHANGED <<alerts, dedupe, page, missed, joined, failures>>

\* Mutant: the key of the other type is set.
SetOtherKey(c) ==
    /\ call[c].pc = "setKey"
    /\ \E k \in Deduped \ {call[c].type} : dedupe' = [dedupe EXCEPT ![call[c].truck][k] = Window]
    /\ call' = [call EXCEPT ![c].pc = "insert", ![c].age = 0]
    /\ UNCHANGED <<alerts, page, missed, joined, failures>>

\* Mutant: the key expires as soon as it is set.
SetKeyTooShort(c) ==
    /\ call[c].pc = "setKey"
    /\ dedupe' = [dedupe EXCEPT ![call[c].truck][call[c].type] = Window - 1]
    /\ call' = [call EXCEPT ![c].pc = "insert", ![c].age = 0]
    /\ UNCHANGED <<alerts, page, missed, joined, failures>>

\* Mutant: the key outlives the window.
SetKeyTooLong(c) ==
    /\ call[c].pc = "setKey"
    /\ dedupe' = [dedupe EXCEPT ![call[c].truck][call[c].type] = Window + 1]
    /\ call' = [call EXCEPT ![c].pc = "insert", ![c].age = 0]
    /\ UNCHANGED <<alerts, page, missed, joined, failures>>

\* The key is set, for the whole window, before the alert is saved.
SetKey(c) ==
    /\ call[c].pc = "setKey"
    /\ dedupe' = [dedupe EXCEPT ![call[c].truck][call[c].type] = Window]
    /\ call' = [call EXCEPT ![c].pc = "insert", ![c].age = 0]
    /\ UNCHANGED <<alerts, page, missed, joined, failures>>

\* createAlert saves the row ...
Insert(c) ==
    /\ call[c].pc = "insert"
    /\ \E a \in Alert :
        /\ ~Saved(a) /\ \A b \in Alert : b < a => Saved(b)
        /\ alerts' = [alerts EXCEPT ![a] = [truck |-> call[c].truck, type |-> call[c].type,
                        age |-> call[c].age, resolved |-> FALSE, savedBy |-> c]]
        /\ call' = [call EXCEPT ![c].pc = "notify", ![c].alert = a, ![c].age = 0]
    /\ UNCHANGED <<dedupe, page, missed, joined, failures>>

\* A severity whose alerts are pushed to the managers' phones as well.
Severity(k) ==
    CASE k \in Deduped -> "HIGH" [] k = "IDLE" -> "MEDIUM" [] OTHER -> "LOW"

-----------------------------------------------------------------------------
(* The page *)

\* Mutant: a fetch under way is left to finish.
InvalidateWhenIdle ==
    /\ page' = IF page.pc = "idle" THEN [page EXCEPT !.pc = "sent"] ELSE page
    /\ joined' = (page.pc = "answered" /\ ~page.loaded)

\* Told of an alert, or that one is resolved, the page fetches again (invalidateQueries).
\* React Query drops a fetch under way, but joins it when there is nothing to show yet.
Invalidate ==
    \/ /\ page.pc = "idle" \/ page.loaded
       /\ page' = [page EXCEPT !.pc = "sent", !.answer = {}]
       /\ joined' = FALSE
    \/ /\ page.pc # "idle" /\ ~page.loaded
       /\ joined' = (page.pc = "answered")
       /\ UNCHANGED page

\* The page asks for all alerts with no parameter, for the others with a text.
ResolvedText == [all |-> "", unresolved |-> "false", resolved |-> "true"][Selected]

\* What a text is as the Boolean field of the query.  The ValidationPipe converts it first
\* (enableImplicitConversion), and Boolean("false") is true; the @Transform of the field
\* looks for a text, finds a Boolean and lets it pass.
ImplicitBoolean(text) == text # ""

Listed ==
    {a \in Alert : Saved(a) /\
        (ResolvedText # "" => alerts[a].resolved = ImplicitBoolean(ResolvedText))}

\* resolvedAt ASC NULLS FIRST, timestamp DESC; nothing depends on the order of the resolved.
Precedes(a, b) == alerts[b].resolved \/ (~alerts[a].resolved /\ a > b)

\* AlertsService.list answers with the first alerts in the table now ...
List ==
    /\ page.pc = "sent"
    /\ \E first \in SUBSET Listed :
        /\ Cardinality(first) <= PageLimit
        /\ first # Listed => Cardinality(first) = PageLimit
        /\ \A a \in first, b \in Listed \ first : Precedes(a, b)
        /\ page' = [page EXCEPT !.pc = "answered", !.answer = first]
    /\ UNCHANGED <<alerts, dedupe, call, missed, joined, failures>>

\* ... and the page shows the answer when it arrives.
ShowAnswer ==
    /\ page.pc = "answered"
    /\ page' = [pc |-> "idle", loaded |-> TRUE, answer |-> {}, rows |-> page.answer]
    /\ UNCHANGED <<alerts, dedupe, call, missed, joined, failures>>

\* The page is opened, with what was shown before or with nothing, or comes back to the
\* foreground.
OpenPage ==
    /\ page.pc = "idle"
    /\ page' \in {[page EXCEPT !.pc = "sent"], FirstFetch}
    /\ missed' = FALSE /\ joined' = FALSE
    /\ UNCHANGED <<alerts, dedupe, call, failures>>

-----------------------------------------------------------------------------
(* Telling the office *)

\* What was missed before is in the table when the page fetches again, but not if it joins a
\* fetch that has been answered.
Refetch == Invalidate /\ missed' = (missed /\ joined')

\* ALERT_FIRED reaches the page, and until it does the handler stands at notify, unless the
\* socket of the page is away just then, or the page.  Nothing is fetched again when the
\* socket is back, for useWsReconnect is not used.
AlertFired ==
    \/ Refetch
    \/ missed' = TRUE /\ UNCHANGED <<page, joined>>

\* Mutant: alerts of low severity are not broadcast.
NotifyUrgentOnly(c) ==
    /\ call[c].pc = "notify"
    /\ IF Severity(call[c].type) = "LOW" THEN UNCHANGED <<page, missed, joined>> ELSE AlertFired
    /\ call' = [call EXCEPT ![c] =
            IF Severity(call[c].type) = "LOW" THEN NoCall ELSE [NoCall EXCEPT !.pc = "push"]]
    /\ UNCHANGED <<alerts, dedupe, failures>>

\* ... and tells the gateway, then sends a push message unless the severity is low.
Notify(c) ==
    /\ call[c].pc = "notify"
    /\ AlertFired
    /\ call' = [call EXCEPT ![c] =
            IF Severity(call[c].type) = "LOW" THEN NoCall ELSE [NoCall EXCEPT !.pc = "push"]]
    /\ UNCHANGED <<alerts, dedupe, failures>>

\* sendFcm catches what the messaging service throws: it ends either way.
SendFcm(c) ==
    /\ call[c].pc = "push"
    /\ call' = [call EXCEPT ![c] = NoCall]
    /\ UNCHANGED <<alerts, dedupe, page, missed, joined, failures>>

\* A manager resolves an alert, here (the page fetches again) or at another desk.
\* Resolving it once more would only change the time of resolvedAt.
Resolve(a) ==
    /\ a \in Unresolved
    /\ alerts' = [alerts EXCEPT ![a].resolved = TRUE]
    /\ \/ UNCHANGED <<page, missed, joined>>
       \/ a \in page.rows /\ Refetch
    /\ UNCHANGED <<dedupe, call, failures>>

-----------------------------------------------------------------------------
(* Failures *)

Fail == failures < MaxFailures /\ failures' = failures + 1

\* A call to Redis or PostgreSQL fails, or the process stops; what was written stays.
AbortCall(c) ==
    /\ call[c].pc # "idle"
    /\ Fail
    /\ call' = [call EXCEPT ![c] = NoCall]
    /\ missed' = (missed \/ call[c].pc = "notify")
    /\ UNCHANGED <<alerts, dedupe, page, joined>>

\* The list does not arrive: the page goes on showing what it has.
FetchLost ==
    /\ page.pc # "idle"
    /\ Fail
    /\ page' = [page EXCEPT !.pc = "idle", !.answer = {}]
    /\ missed' = TRUE
    /\ UNCHANGED <<alerts, dedupe, call, joined>>

-----------------------------------------------------------------------------
Handle(c) == ReadKey(c) \/ SetKey(c) \/ Insert(c) \/ Notify(c) \/ SendFcm(c)

Fetch == List \/ ShowAnswer

Next ==
    \/ Tick
    \/ \E c \in Caller :
        \/ \E t \in Truck, k \in Raised : Raise(c, t, k)
        \/ Handle(c)
        \/ AbortCall(c)
    \/ Fetch
    \/ OpenPage \/ FetchLost
    \/ \E a \in Alert : Resolve(a)

Spec == Init /\ [][Next]_vars

\* A handler's calls are answered or throw, and so is the page's fetch.
FairSpec == Spec /\ WF_vars(Fetch) /\ \A c \in Caller : WF_vars(Handle(c) \/ AbortCall(c))

-----------------------------------------------------------------------------
(* Properties *)

\* "Dedupe 10 min": two alerts of a truck and type within the life of a dedupe key were
\* raised by handlers at work at the same time; one handler, or several that follow
\* one another, raise one alert (createOverspeedAlert, createOfflineAlert).
NoFlood ==
    \A a, b \in Alert :
        /\ Saved(a) /\ alerts[a].type \in Deduped /\ alerts[a].age < Window
        /\ Saved(b) /\ alerts[b].type = alerts[a].type /\ alerts[b].age < Window
        /\ alerts[b].truck = alerts[a].truck
        /\ alerts[b].savedBy = alerts[a].savedBy
        => a = b

\* The key of truck t and type k was set this long ago.
KeyAge(t, k) == Window - dedupe[t][k]

\* A dedupe key silences a truck only for an alert of that truck and type which was
\* raised when the key was set, and is saved or about to be, unless something failed.
KeyTells ==
    failures = 0 =>
        \A t \in Truck, k \in Deduped : dedupe[t][k] > 0 =>
            \/ \E a \in Alert : /\ alerts[a].truck = t /\ alerts[a].type = k
                                /\ alerts[a].age = KeyAge(t, k)
            \/ \E c \in Caller : /\ call[c].pc = "insert" /\ call[c].age = KeyAge(t, k)
                                 /\ call[c].truck = t /\ call[c].type = k

\* A handler has saved alert a and is about to tell the office.
Notifying(a) == \E c \in Caller : call[c].pc = "notify" /\ call[c].alert = a

\* There are as many newer alerts as the page asks for.
Crowded(a) == Cardinality({b \in Alert : Saved(b) /\ b > a}) >= PageLimit

Shown(a) == a \in page.rows \/ Crowded(a)

\* A page at rest that is to show all alerts or the unresolved ones shows every unresolved
\* alert that was broadcast and is among the newest, however alerts, answers to its fetches
\* and resolutions overlap, unless an event never reached it or joined its first fetch
\* when that was answered already.
PageMissesNone ==
    page.pc = "idle" /\ ~missed /\ ~joined /\ Selected # "resolved" =>
        \A a \in Unresolved : Shown(a) \/ Notifying(a)

\* Every alert that is saved is shown, or resolved or pushed off the list by newer ones
\* before it could be, unless the page's socket was away when it fired, its event joined a
\* first fetch or something failed.
AlertsReachPage ==
    \A a \in Alert : Saved(a) ~> Shown(a) \/ alerts[a].resolved \/ missed \/ joined

=============================================================================
