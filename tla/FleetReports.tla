---------------------------- MODULE FleetReports ----------------------------
(***************************************************************************)
(* The numbers the office reads: ReportsService (daily, monthly and custom *)
(* reports, fuel report), FuelService.getKpis and DashboardService.        *)
(*                                                                         *)
(* They select trips and fuel entries by time in four ways that do not     *)
(* agree on what a day is: UTC days with their last millisecond (daily and *)
(* custom reports), months of the server's own time zone (monthly report,  *)
(* dashboard), UTC dates as keys of the breakdown, and a bare date that    *)
(* the database takes for a midnight of the server's zone (KPIs).  A       *)
(* report is several queries with awaits in between, none in a             *)
(* transaction, while trips are completed and fuel entries come in.        *)
(*                                                                         *)
(* Time is a number of ticks since a midnight UTC that begins a month; the *)
(* last tick of a day stands for its last millisecond.  zone is how many   *)
(* ticks the clock of the server is ahead of UTC.                          *)
(***************************************************************************)
EXTENDS FleetTypes, Integers, FiniteSets, Functions

CONSTANTS
    Journey,        \* identifiers of trips
    Bill,           \* identifiers of diesel entries
    DayTicks,       \* ticks of a day
    MonthDays,      \* days of a month
    Days,           \* days the model covers, from day 0
    BillTick,       \* timestamps drivers give to entries
    Distance,       \* distances of completed trips
    Zones           \* time zones the server may run in

ASSUME ReportsAssumption ==
    /\ {DayTicks, MonthDays, Days} \subseteq Nat \ {0}
    /\ Distance \subseteq Nat
    /\ BillTick \subseteq Nat
    /\ Zones \subseteq -DayTicks .. DayTicks    \* no zone is more than a day from UTC
    /\ IsFiniteSet(Journey) /\ IsFiniteSet(Bill)
    /\ Null \notin Nat \union Journey

VARIABLES
    journeys,   \* journeys[i]: what the reports read of a row of trips
    bills,      \* bills[b]: what they read of a row of fuel_logs; each costs one unit
    report,     \* a daily, monthly or custom report being made
    summary     \* a summary of the dashboard being made

reportVars == <<journeys, bills, report, summary>>

-----------------------------------------------------------------------------
(* Rows *)

Tick == 0 .. Days * DayTicks - 1

Day == 0 .. Days - 1

JourneyRow == [start: Tick, completed: BOOLEAN, km: Distance \union {0}]

NoJourney == [start |-> Null, completed |-> FALSE, km |-> 0]

BillRow == [trip: Journey, at: BillTick]

NoBill == [trip |-> Null, at |-> 0]

Begun == {i \in Journey : journeys[i] # NoJourney}

Billed == {b \in Bill : bills[b] # NoBill}

KmOf(S) == SumFunctionOnSet([i \in Journey |-> journeys[i].km], S)

\* The cost of the fuel of the trips in S.
CostOf(S) == Cardinality({b \in Billed : bills[b].trip \in S})

-----------------------------------------------------------------------------
(* Days and months *)

\* dayBounds: T00:00:00.000Z to T23:59:59.999Z
DayStart(d) == d * DayTicks

DayEnd(d) == (d + 1) * DayTicks - 1

\* Mutant: new Date(endDate), the midnight that begins the last day
RangeEndAtMidnight(d) == d * DayTicks

\* The end of a custom, fuel or trips report.
RangeEnd(d) == (d + 1) * DayTicks - 1

\* trip.startTime.toISOString().slice(0, 10)
DateKey(i) == journeys[i].start \div DayTicks

\* new Date(year, month - 1, 1)
MonthStart(m, zone) == m * MonthDays * DayTicks - zone

\* Mutant: the month ends with the midnight that begins its last day.
MonthEndAtMidnight(m, zone) == ((m + 1) * MonthDays - 1) * DayTicks - zone

\* new Date(year, month, 0, 23, 59, 59, 999)
MonthEnd(m, zone) == (m + 1) * MonthDays * DayTicks - zone - 1

\* The months in which the ticks of the model can fall.
Month == -1 .. Days \div MonthDays + 1

\* The month a clock of the server shows.
MonthOf(tick, zone) == (tick + zone) \div (MonthDays * DayTicks)

\* getTripsInRange: completed trips by their start
TripsInRange(from, to) ==
    {i \in Begun : journeys[i].completed /\ journeys[i].start \in from .. to}

-----------------------------------------------------------------------------
(* What drivers write: startTrip, endTrip, the handlers that reopen a trip, createEntry *)

\* The start of a trip is the one the driver gives: it need not be now, nor the latest.
BeginJourney(i, at) ==
    /\ i \notin Begun
    /\ journeys' = [journeys EXCEPT ![i] = [start |-> at, completed |-> FALSE, km |-> 0]]
    /\ UNCHANGED <<bills, report, summary>>

\* history: whether kilometres are taken back while a summary is between its two sums.
Revise(back) ==
    summary' = [summary EXCEPT !.revised = @ \/ (back /\ summary.pc = "month")]

\* endTrip asks for no status: a completed trip may be ended again, with another reading.
EndJourney(i, km) ==
    /\ i \in Begun
    /\ journeys' = [journeys EXCEPT ![i].completed = TRUE, ![i].km = km]
    /\ Revise(journeys[i].completed /\ km < journeys[i].km)
    /\ UNCHANGED <<bills, report>>

\* No more do addStops, confirmLoad and completeDelivery, which open it again.
ReopenJourney(i) ==
    /\ i \in Begun /\ journeys[i].completed
    /\ journeys' = [journeys EXCEPT ![i].completed = FALSE]
    /\ Revise(TRUE)
    /\ UNCHANGED <<bills, report>>

\* An entry may be dated, and handed in, at any time, after the end of its trip as well.
AddBill(b, i, at) ==
    /\ b \notin Billed
    /\ i \in Begun
    /\ bills' = [bills EXCEPT ![b] = [trip |-> i, at |-> at]]
    /\ UNCHANGED <<journeys, report, summary>>

-----------------------------------------------------------------------------
(* ReportsService.  trips is the list the first query returned, cost what has been read
   for each trip of it since; atFirst is history: what their fuel cost at that moment. *)

NoReport == [pc |-> "idle", trips |-> {}, todo |-> {}, cost |-> [i \in Journey |-> 0], atFirst |-> 0]

Report == [pc: {"idle", "breakdown", "aggregate", "done"}, trips: SUBSET Journey,
           todo: SUBSET Journey, cost: [Journey -> Nat], atFirst: Nat]

\* Readers change nothing: one at a time is enough.
AtRest == report = NoReport /\ summary.pc = "idle"

List(S, pc) ==
    /\ AtRest
    /\ report' = [pc |-> pc, trips |-> S, todo |-> S, cost |-> [i \in Journey |-> 0],
                  atFirst |-> CostOf(S)]
    /\ UNCHANGED <<journeys, bills, summary>>

GetDailyReport(d) == List(TripsInRange(DayStart(d), DayEnd(d)), "aggregate")

GetMonthlyReport(m, zone) == List(TripsInRange(MonthStart(m, zone), MonthEnd(m, zone)), "breakdown")

GetCustomReport(from, to) == List(TripsInRange(DayStart(from), RangeEnd(to)), "breakdown")

\* A daily report sums the fuel of all its trips in one query.
ReadAggregate ==
    /\ report.pc = "aggregate"
    /\ report' = [report EXCEPT !.pc = "done", !.todo = {},
                    !.cost = [i \in Journey |-> IF i \in report.trips THEN CostOf({i}) ELSE 0]]
    /\ UNCHANGED <<journeys, bills, summary>>

\* Mutant: the query of a trip is not limited to it.
ReadAllBills(i) ==
    /\ report.pc = "breakdown"
    /\ i \in report.todo
    /\ \A j \in report.todo : journeys[i].start <= journeys[j].start
    /\ report' = [report EXCEPT !.todo = @ \ {i}, !.cost[i] = Cardinality(Billed)]
    /\ UNCHANGED <<journeys, bills, summary>>

\* buildDailyBreakdown asks for one trip after the other, the earliest first.  (The
\* deliveries of a trip are counted right before, in the same way.)
ReadTrip(i) ==
    /\ report.pc = "breakdown"
    /\ i \in report.todo
    /\ \A j \in report.todo : journeys[i].start <= journeys[j].start
    /\ report' = [report EXCEPT !.todo = @ \ {i}, !.cost[i] = CostOf({i})]
    /\ UNCHANGED <<journeys, bills, summary>>

FinishBreakdown ==
    /\ report.pc = "breakdown"
    /\ report.todo = {}
    /\ report' = [report EXCEPT !.pc = "done"]
    /\ UNCHANGED <<journeys, bills, summary>>

TakeReport ==
    /\ report.pc = "done"
    /\ report' = NoReport
    /\ UNCHANGED <<journeys, bills, summary>>

\* What the trips S bring to a breakdown, grouped by date, and its sum.
KmOfDay(S, d) == KmOf({i \in S : DateKey(i) = d})

SumOfBreakdown(S) == SumFunction([d \in {DateKey(i) : i \in S} |-> KmOfDay(S, d)])

\* The fuel costs of the report in hand, summed over the dates of its breakdown.
CostOfDay(d) == SumFunctionOnSet(report.cost, {i \in report.trips : DateKey(i) = d})

ReportedCost == SumFunction([d \in {DateKey(i) : i \in report.trips} |-> CostOfDay(d)])

-----------------------------------------------------------------------------
(* DashboardService.getSummary *)

NoSummary ==
    [pc |-> "idle", now |-> 0, zone |-> 0, today |-> 0, month |-> 0, revised |-> FALSE]

Summary == [pc: {"idle", "month", "done"}, now: Tick, zone: Zones \union {0}, today: Nat,
            month: Nat, revised: BOOLEAN]

SumTripKm(from, to) == KmOf(TripsInRange(from, to))

\* Today begins with the UTC day ...
BeginSummary(now, zone) ==
    /\ AtRest
    /\ summary' = [pc |-> "month", now |-> now, zone |-> zone,
                   today |-> SumTripKm(DayStart(now \div DayTicks), now), month |-> 0,
                   revised |-> FALSE]
    /\ UNCHANGED <<journeys, bills, report>>

\* Mutant: months are taken to be numbered from one.
ReadNextMonth ==
    /\ summary.pc = "month"
    /\ summary' = [summary EXCEPT !.pc = "done",
            !.month = SumTripKm(MonthStart(MonthOf(summary.now, summary.zone) + 1, summary.zone),
                                summary.now)]
    /\ UNCHANGED <<journeys, bills, report>>

\* ... and the month with the local month, read one await later.
ReadMonth ==
    /\ summary.pc = "month"
    /\ summary' = [summary EXCEPT !.pc = "done",
            !.month = SumTripKm(MonthStart(MonthOf(summary.now, summary.zone), summary.zone),
                                summary.now)]
    /\ UNCHANGED <<journeys, bills, report>>

TakeSummary ==
    /\ summary.pc = "done"
    /\ summary' = NoSummary
    /\ UNCHANGED <<journeys, bills, report>>

-----------------------------------------------------------------------------
(* Fuel of a range of dates, in the two places that compute it *)

\* getFuelReport
FuelReportCost(from, to) ==
    Cardinality({b \in Billed : bills[b].at \in DayStart(from) .. RangeEnd(to)})

\* Mutant: the last date is given as the end of its day.
KpiBoundToEnd(d, zone) == (d + 1) * DayTicks - zone

\* A bare date, compared with a timestamp column: the server's midnight.
KpiBound(d, zone) == d * DayTicks - zone

\* getKpis
KpiCost(from, to, zone) ==
    Cardinality({b \in Billed : bills[b].at \in DayStart(from) - zone .. KpiBound(to, zone)})

-----------------------------------------------------------------------------

ReportsInit ==
    /\ journeys = [i \in Journey |-> NoJourney]
    /\ bills = [b \in Bill |-> NoBill]
    /\ report = NoReport
    /\ summary = NoSummary

ReportsNext ==
    \/ \E i \in Journey :
        \/ \E at \in Tick : BeginJourney(i, at)
        \/ \E km \in Distance : EndJourney(i, km)
        \/ ReopenJourney(i)
        \/ \E b \in Bill, at \in BillTick : AddBill(b, i, at)
        \/ ReadTrip(i)
    \/ \E d \in Day : GetDailyReport(d)
    \/ \E from, to \in Day : GetCustomReport(from, to)
    \/ \E m \in Month, zone \in Zones : GetMonthlyReport(m, zone)
    \/ ReadAggregate \/ FinishBreakdown \/ TakeReport
    \/ \E now \in Tick, zone \in Zones : BeginSummary(now, zone)
    \/ ReadMonth \/ TakeSummary

ReportsSpec == ReportsInit /\ [][ReportsNext]_reportVars

ReportsTypeOK ==
    /\ journeys \in [Journey -> JourneyRow \union {NoJourney}]
    /\ bills \in [Bill -> BillRow \union {NoBill}]
    /\ report \in Report
    /\ summary \in Summary

\* A custom report is the sum of the daily reports of its dates: one groups the trips
\* of the whole range by the date of their start, the other selects them day by day
\* (buildDailyBreakdown and getDailyReport, two ways of counting).
CustomIsSumOfDays ==
    \A from, to \in Day : from <= to =>
        SumOfBreakdown(TripsInRange(DayStart(from), RangeEnd(to)))
            = SumFunction([d \in from .. to |-> KmOf(TripsInRange(DayStart(d), DayEnd(d)))])

\* Wherever the server stands, a completed trip is in the report of exactly one month,
\* even if its breakdown there goes by UTC dates (getMonthlyReport).
MonthsPartition ==
    \A i \in Begun, zone \in Zones : journeys[i].completed =>
        Cardinality({m \in Month : i \in TripsInRange(MonthStart(m, zone), MonthEnd(m, zone))}) = 1

\* On a server that runs in UTC, the KPIs of a range of dates lie between the fuel report
\* without and the one with the last date: getKpis leaves the last day out but for its
\* midnight, getFuelReport has all of it.
KpisBetween ==
    \A from, to \in Day : from <= to =>
        /\ FuelReportCost(from, to - 1) <= KpiCost(from, to, 0)
        /\ KpiCost(from, to, 0) <= FuelReportCost(from, to)

\* A finished report is true of some moment while it was made, trip by trip: the fuel it
\* reports for the trips it lists is no less than when it listed them and no more than
\* now, whatever entries came in between its queries.
ReportBracketed ==
    report.pc = "done" => report.atFirst <= ReportedCost /\ ReportedCost <= CostOf(report.trips)

\* The dashboard shows more kilometres today than this month only when a trip was reopened,
\* or ended again with a lower reading, between its two queries, or when the server's clock
\* entered the month after the UTC day began; trips that end in between do not matter.
TodayWithinMonth ==
    summary.pc = "done" =>
        \/ summary.today <= summary.month
        \/ summary.revised
        \/ MonthStart(MonthOf(summary.now, summary.zone), summary.zone)
                > DayStart(summary.now \div DayTicks)

=============================================================================
