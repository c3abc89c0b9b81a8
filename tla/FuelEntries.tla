---------------------------- MODULE FuelEntries ----------------------------
(***************************************************************************)
(* The fuel log: FuelService.createEntry and FuelService.findAll.          *)
(*                                                                         *)
(* Diesel and AdBlue entries are rows of two tables.  A page of the list   *)
(* SELECTs both, with neither a limit nor an order, in two statements that *)
(* are no snapshot of one moment; merges and sorts them by the timestamp   *)
(* the driver gave; and cuts one page out of the result.  A client that    *)
(* wants the whole list asks for page after page until page * limit has    *)
(* reached the total of the answer, while drivers keep adding entries,     *)
(* with timestamps of any time in the past.                                *)
(***************************************************************************)
EXTENDS FleetTypes, Naturals, FiniteSets

CONSTANTS
    FuelEntry,      \* identifiers the two tables can hand out
    Moment,         \* timestamps of entries
    Haul,           \* trips
    HaulDriver,     \* HaulDriver[h]: the driver of trip h
    HaulTruck,      \* HaulTruck[h]: its truck
    PageSize        \* limit

ASSUME FuelAssumption ==
    /\ Moment \subseteq Nat
    /\ IsFiniteSet(FuelEntry)
    /\ PageSize \in Nat \ {0}
    /\ DOMAIN HaulDriver = Haul /\ DOMAIN HaulTruck = Haul
    /\ \A h \in Haul : HaulTruck[h] # Null

FuelEntryType == {"DIESEL", "ADBLUE"}

VARIABLES
    fuelRows,   \* fuelRows[e]: the row of entry e, in the table of its type
    walk        \* the client's way through the pages of the list

fuelVars == <<fuelRows, walk>>

-----------------------------------------------------------------------------
(* Entries *)

NoRow == [type |-> Null, truck |-> Null, at |-> 0]

HaulTrucks == {HaulTruck[h] : h \in Haul}

\* fuel_logs and adblue_logs
DieselRow == [type: {"DIESEL"}, truck: HaulTrucks, at: Moment]
AdblueRow == [type: {"ADBLUE"}, truck: HaulTrucks, at: Moment]

FuelRow == DieselRow \union AdblueRow

Entered == {e \in FuelEntry : fuelRows[e] # NoRow}

\* POST /fuel: the driver, the trip and the truck are looked up, each of which keeps
\* what is read of it, and the entry is inserted, under an identifier it does not matter
\* which.  (The alert of a large one is AlertFlow's.)
CreateEntry(e, driver, h, type, at) ==
    /\ e \notin Entered
    /\ e = CHOOSE x \in FuelEntry : x \notin Entered
    /\ HaulDriver[h] = driver
    /\ fuelRows' = [fuelRows EXCEPT ![e] = [type |-> type, truck |-> HaulTruck[h], at |-> at]]
    /\ UNCHANGED walk

-----------------------------------------------------------------------------
(* One page of the list *)

\* The filter of the query: a type, or a truck, or neither.  A driver and the two
\* dates are further columns compared in the same way.
Filter == [type: FuelEntryType \union {Null}, truck: HaulTrucks \union {Null}]

\* What one of the two SELECTs finds, if it is sent at all.
Found(f, type) ==
    {e \in Entered : /\ fuelRows[e].type = type
                     /\ f.type \in {type, Null}
                     /\ f.truck \in {fuelRows[e].truck, Null}}

\* The ways to sort entries, the latest first: which of two with one timestamp comes
\* first depends on the order the database happened to return them in.
Sorted(S) ==
    {s \in [1 .. Cardinality(S) -> S] :
        /\ \A i, j \in DOMAIN s : s[i] = s[j] => i = j
        /\ \A i, j \in DOMAIN s : i < j => fuelRows[s[i]].at >= fuelRows[s[j]].at}

\* Mutant: the first page is page 0.
SliceFromZero(s, page) ==
    {s[i] : i \in DOMAIN s \intersect (page * PageSize + 1 .. (page + 1) * PageSize)}

\* merged.slice((page - 1) * limit, page * limit)
Slice(s, page) ==
    {s[i] : i \in DOMAIN s \intersect ((page - 1) * PageSize + 1 .. page * PageSize)}

-----------------------------------------------------------------------------
(* The walk: part[type] is what the SELECT of that type has returned, or Null.  there
   and seen are history: the entries the list had when the walk began, and those on
   the pages since. *)

NoPart == [type \in FuelEntryType |-> Null]

Walk == [pc: {"idle", "reading", "between", "done"}, filter: Filter, page: Nat,
         part: [FuelEntryType -> (SUBSET FuelEntry) \union {Null}],
         there: SUBSET FuelEntry, seen: SUBSET FuelEntry]

NoWalk == [pc |-> "idle", filter |-> [type |-> Null, truck |-> Null], page |-> 1,
           part |-> NoPart, there |-> {}, seen |-> {}]

OpenList(f) ==
    /\ walk.pc = "idle"
    /\ walk' = [pc |-> "reading", filter |-> f, page |-> 1, part |-> NoPart,
                there |-> UNION {Found(f, type) : type \in FuelEntryType}, seen |-> {}]
    /\ UNCHANGED fuelRows

\* One of the SELECTs of Promise.all.
SelectLog(type) ==
    /\ walk.pc = "reading"
    /\ walk.part[type] = Null
    /\ walk' = [walk EXCEPT !.part[type] = Found(walk.filter, type)]
    /\ UNCHANGED fuelRows

Merged == walk.part["DIESEL"] \union walk.part["ADBLUE"]

\* Both have returned: the page is cut out, and the client compares it with the total.
AnswerPage ==
    /\ walk.pc = "reading"
    /\ \A type \in FuelEntryType : walk.part[type] # Null
    /\ \E s \in Sorted(Merged) :
        walk' = [walk EXCEPT !.pc = IF walk.page * PageSize >= Cardinality(Merged)
                                    THEN "done" ELSE "between",
                             !.seen = @ \union Slice(s, walk.page), !.part = NoPart]
    /\ UNCHANGED fuelRows

AskNextPage ==
    /\ walk.pc = "between"
    /\ walk' = [walk EXCEPT !.pc = "reading", !.page = @ + 1]
    /\ UNCHANGED fuelRows

\* The client is content; the server kept nothing of the walk.
CloseList ==
    /\ walk.pc = "done"
    /\ walk' = NoWalk
    /\ UNCHANGED fuelRows

-----------------------------------------------------------------------------

FuelInit ==
    /\ fuelRows = [e \in FuelEntry |-> NoRow]
    /\ walk = NoWalk

FuelNext ==
    \/ \E e \in FuelEntry, h \in Haul, type \in FuelEntryType, at \in Moment :
        \E driver \in {HaulDriver[k] : k \in Haul} : CreateEntry(e, driver, h, type, at)
    \/ \E f \in Filter : OpenList(f)
    \/ \E type \in FuelEntryType : SelectLog(type)
    \/ AnswerPage
    \/ AskNextPage
    \/ CloseList

FuelSpec == FuelInit /\ [][FuelNext]_fuelVars

FuelTypeOK ==
    /\ fuelRows \in [FuelEntry -> FuelRow \union {NoRow}]
    /\ walk \in Walk

\* Some other entry has the timestamp of e.
Tied(e) == \E x \in Entered \ {e} : fuelRows[x].at = fuelRows[e].at

\* A client that has walked to the last page has seen every entry that was in the list
\* when it began, however many entries drivers add between its pages and between the two
\* SELECTs of one page (findAll): an entry is pushed to a later page, never to one
\* already asked for.  Of two entries with one timestamp one may be missed, since their
\* order may change from page to page.
WalkMissesNone ==
    walk.pc = "done" => \A e \in walk.there \ walk.seen : Tied(e)

=============================================================================
