--------------------------- MODULE DashboardFigures ---------------------------
(***************************************************************************)
(* The figures of the dashboards (services.dashboard) and of the features  *)
(* the predictions are made from (ml.features): different queries over the *)
(* same logs, materials, incidents and attendance.  A dashboard is read in *)
(* one step; the age of a cached one is ResponseCaches.  Costs are whole,  *)
(* an average is its sum and count, a percentage its difference and base.   *)
(***************************************************************************)
EXTENDS Integers, FiniteSetsExt

CONSTANTS
  Projects, Names, Workers,
  Slots,         \* the logs that may be written, each a project and a date
  WeekOf, YearOf,  \* of each date, Monday to Sunday
  Budget,        \* total_budget of each project
  Managed,       \* the projects of the manager
  Statuses, Costs, Hours,
  TrendWeeks,    \* limit_weeks of the aggregate dashboard
  MaxRows        \* bound: rows written

Dates == DOMAIN WeekOf

ASSUME FiniteAssumption ==
  IsFiniteSet(Projects) /\ IsFiniteSet(Names) /\ IsFiniteSet(Workers) /\ IsFiniteSet(Dates)

\* Dates and weeks are counted; a date is of this week or the next one if the date before
\* it is of this week; and 0 is no year.
ASSUME CalendarAssumption ==
  /\ Dates \subseteq Int /\ WeekOf \in [Dates -> Int] /\ YearOf \in [Dates -> Nat \ {0}]
  /\ \A d, e \in Dates : d < e => WeekOf[d] <= WeekOf[e] /\ YearOf[d] <= YearOf[e]
  /\ \A d \in Dates : d + 1 \in Dates => WeekOf[d + 1] <= WeekOf[d] + 1

\* The schemas check no sign: costs, hours and budgets may be 0 or negative.
ASSUME FiguresAssumption ==
  /\ Slots \subseteq Projects \X Dates /\ Budget \in [Projects -> Int]
  /\ Managed \subseteq Projects /\ "Active" \in Statuses
  /\ Costs \subseteq Int /\ Hours \subseteq Int /\ TrendWeeks \in Nat \ {0}

VARIABLES
  today,
  logs,          \* daily_logs
  cost,          \* total_cost of the rows of one name on one log, where there are any
  incidents,     \* rows on one log
  hours,         \* hours_worked of a worker on one log, where in attendance
  status,
  staff          \* site workers that are active

figures == <<today, logs, cost, incidents, hours, status, staff>>

Years == {YearOf[d] : d \in Dates}
AllYears == 0
Rows == Cardinality(logs) + SumFunction(incidents)
          + Cardinality(DOMAIN cost) + Cardinality(DOMAIN hours)

FiguresTypeOK ==
  /\ today \in Dates /\ logs \subseteq Slots
  /\ DOMAIN cost \subseteq logs \X Names /\ cost \in [DOMAIN cost -> Int]
  /\ incidents \in [Slots -> Nat]
  /\ DOMAIN hours \subseteq logs \X Workers /\ hours \in [DOMAIN hours -> Int]
  /\ status \in [Projects -> Statuses]
  /\ staff \subseteq Workers

FiguresInit ==
  /\ today \in Dates /\ logs = {}
  /\ cost = [s \in {} |-> 0] /\ incidents = [l \in Slots |-> 0] /\ hours = [s \in {} |-> 0]
  /\ status = [p \in Projects |-> "Active"]
  /\ staff = {}

-----------------------------------------------------------------------------
(* What is summed.                                                         *)

LogsOf(ps) == {l \in logs : l[1] \in ps}
InYear(ls, y) == {l \in ls : y = AllYears \/ YearOf[l[2]] = y}

\* From Monday on, which takes in logs of days to come.
ThisWeek(ls) == {l \in ls : WeekOf[l[2]] >= WeekOf[today]}
\* Mutant of LastWeek: from last Monday on.
LastWeekOn(ls) == {l \in ls : WeekOf[l[2]] >= WeekOf[today] - 1}
LastWeek(ls) == {l \in ls : WeekOf[l[2]] = WeekOf[today] - 1}

Bought(ls, ns) == DOMAIN cost \cap (ls \X ns)
SpentOn(ls, ns) == SumFunctionOnSet(cost, Bought(ls, ns))
Spending(ls) == SpentOn(ls, Names)
Incidents(ls) == SumFunctionOnSet(incidents, ls)
Attended(ls) == DOMAIN hours \cap (ls \X Workers)
AverageHours(ls) == <<SumFunctionOnSet(hours, Attended(ls)), Cardinality(Attended(ls))>>

Active == {p \in Projects : status[p] = "Active"}

\* _get_dashboard_deltas; None where nothing was spent last week.
Deltas(ls) ==
  LET before == Spending(LastWeek(ls)) IN
  [incidents |-> Incidents(ThisWeek(ls)) - Incidents(LastWeek(ls)),
   logs      |-> Cardinality(ThisWeek(ls)) - Cardinality(LastWeek(ls)),
   spending  |-> IF before > 0 THEN <<Spending(ThisWeek(ls)) - before, before>> ELSE <<>>,
   hours     |-> <<AverageHours(ThisWeek(ls)), AverageHours(LastWeek(ls))>>]

\* _get_material_trends: by week, item and project; by week and item, of the last weeks;
\* by item.  A group that has no row is left out.
WeeklyTrends(ls) ==
  [k \in {<<WeekOf[s[1][2]], s[2], s[1][1]>> : s \in Bought(ls, Names)} |->
     SpentOn({l \in ls : WeekOf[l[2]] = k[1] /\ l[1] = k[3]}, {k[2]})]

\* Mutant of Recent: days to come too.
RecentAndAhead(ls) == {l \in ls : WeekOf[l[2]] >= WeekOf[today] - (TrendWeeks - 1)}

Recent(ls) == {l \in ls : WeekOf[l[2]] >= WeekOf[today] - (TrendWeeks - 1) /\ l[2] <= today}

RecentTrends(ls) ==
  [k \in {<<WeekOf[s[1][2]], s[2]>> : s \in Bought(Recent(ls), Names)} |->
     SpentOn({l \in Recent(ls) : WeekOf[l[2]] = k[1]}, {k[2]})]

ItemTotals(ls) == [n \in {s[2] : s \in Bought(ls, Names)} |-> SpentOn(ls, {n})]

-----------------------------------------------------------------------------
(* The dashboards.                                                         *)

Summary(p, ls) ==
  [actual_spending |-> Spending(ls), is_over_budget |-> Spending(ls) > Budget[p],
   total_incidents |-> Incidents(ls)]

\* The schema names two statuses; a summary of any other one is a 500.
Summarized(ps) == \A p \in ps : status[p] \in {"Active", "Completed"}

\* Of a year, the active projects with a log in it; of all years, every project.
OwnerProjects(y) ==
  IF y = AllYears THEN Projects ELSE {p \in Active : InYear(LogsOf({p}), y) # {}}

\* Mutant of OwnerLogs: the year is left out.
OwnerLogsEver(p, y) == LogsOf({p})

OwnerLogs(p, y) == InYear(LogsOf({p}), y)

Owner(y) ==
  LET summaries == [p \in OwnerProjects(y) |-> Summary(p, OwnerLogs(p, y))]
      workers == IF y = AllYears THEN Cardinality(staff)
                 ELSE Cardinality({s[2] : s \in Attended(InYear(LogsOf(Active), y))})
  IN
  [total_active_projects |-> Cardinality(IF y = AllYears THEN Active ELSE OwnerProjects(y)),
   total_budget          |-> SumFunctionOnSet(Budget, Active),
   total_spending        |-> SumFunction([p \in OwnerProjects(y) |-> summaries[p].actual_spending]),
   summaries             |-> summaries,
   over_budget           |-> {p \in OwnerProjects(y) : summaries[p].is_over_budget},
   trends                |-> WeeklyTrends(LogsOf(Active)),
   total_material_cost   |-> Spending(logs),
   incidents_this_week   |-> Incidents(ThisWeek(LogsOf(Active))),
   total_incidents       |-> Incidents(InYear(LogsOf(Active), y)),
   workers               |-> workers,
   workers_delta         |-> workers - Cardinality(staff),
   deltas                |-> Deltas(LogsOf(Active))]

\* The phases, each compared with the spending of the whole project, are left out.
Manager(p) ==
  LET ls == LogsOf({p}) IN
  [logs_submitted |-> Cardinality(ls), attendance_rate |-> AverageHours(ls),
   total_material_cost |-> Spending(ls), total_incidents |-> Incidents(ls),
   incidents_this_week |-> Incidents(ThisWeek(ls)),
   trends |-> ItemTotals(ls), deltas |-> Deltas(ls)]

Mine == Managed \cap Active

Aggregate ==
  LET ls == LogsOf(Mine)
      summaries == [p \in Mine |-> Summary(p, LogsOf({p}))]
  IN
  [total_logs_submitted |-> Cardinality(ls), average_attendance_rate |-> AverageHours(ls),
   total_budget |-> SumFunctionOnSet(Budget, Mine),
   total_spending |-> SumFunction([p \in Mine |-> summaries[p].actual_spending]),
   summaries |-> summaries, over_budget |-> {p \in Mine : summaries[p].is_over_budget},
   incidents_this_week |-> Incidents(ThisWeek(ls)),
   trends |-> RecentTrends(ls), deltas |-> Deltas(ls)]

\* The shift of today is left out.
Worker(w) ==
  LET mine == DOMAIN hours \cap (logs \X {w}) IN
  [total_logs |-> Cardinality(mine), total_hours_worked |-> SumFunctionOnSet(hours, mine)]

-----------------------------------------------------------------------------
(* The features.  Materials and incidents are both joined to a log, so a   *)
(* row of one is there once for each row of the other.  What depends on    *)
(* the dates alone (days elapsed, typhoon months, slipping phases) is left *)
(* out.                                                                    *)

\* Mutant of Joined: an inner join.
JoinedInner(l) == incidents[l]

Joined(l) == IF incidents[l] = 0 THEN 1 ELSE incidents[l]

BudgetFeatures(p) ==
  LET ls == LogsOf({p})
      spent == SumFunction([l \in ls |-> Joined(l) * Spending({l})])
  IN [total_spent |-> spent, is_over_budget |-> spent > Budget[p],
      incident_count |-> Incidents(ls), log_count |-> Cardinality(ls)]

DelayFeatures(p) ==
  LET ls == LogsOf({p}) IN
  [avg_hours |-> <<SumFunction([s \in Attended(ls) |-> Joined(s[1]) * hours[s]]),
                   SumFunction([s \in Attended(ls) |-> Joined(s[1])])>>,
   incident_rate |-> <<Incidents(ls), Cardinality(ls)>>,
   is_active |-> status[p] = "Active"]

\* By year here; the code's months are finer.
ForecastFeatures(p) ==
  [y \in {YearOf[l[2]] : l \in LogsOf({p})} |-> Spending(InYear(LogsOf({p}), y))]

-----------------------------------------------------------------------------
(* What changes the figures.                                               *)

NextDay ==
  /\ today + 1 \in Dates /\ today' = today + 1
  /\ UNCHANGED <<logs, cost, incidents, hours, status, staff>>

\* Of any date, also of one to come.
SubmitLog(l) ==
  /\ Rows < MaxRows /\ l \notin logs
  /\ logs' = logs \cup {l}
  /\ UNCHANGED <<today, cost, incidents, hours, status, staff>>

SetCost(l, n, c) ==
  /\ l \in logs /\ (<<l, n>> \notin DOMAIN cost => Rows < MaxRows)
  /\ cost' = [s \in DOMAIN cost \cup {<<l, n>>} |-> IF s = <<l, n>> THEN c ELSE cost[s]]
  /\ UNCHANGED <<today, logs, incidents, hours, status, staff>>

\* The last row of a name on a log.
DeleteCost(l, n) ==
  /\ <<l, n>> \in DOMAIN cost
  /\ cost' = Restrict(cost, DOMAIN cost \ {<<l, n>>})
  /\ UNCHANGED <<today, logs, incidents, hours, status, staff>>

CreateIncident(l) ==
  /\ l \in logs /\ Rows < MaxRows
  /\ incidents' = [incidents EXCEPT ![l] = @ + 1]
  /\ UNCHANGED <<today, logs, cost, hours, status, staff>>

\* Mutant of DeleteIncident: one that is not there.
DeleteAnyIncident(l) ==
  /\ l \in logs
  /\ incidents' = [incidents EXCEPT ![l] = @ - 1]
  /\ UNCHANGED <<today, logs, cost, hours, status, staff>>

DeleteIncident(l) ==
  /\ incidents[l] > 0
  /\ incidents' = [incidents EXCEPT ![l] = @ - 1]
  /\ UNCHANGED <<today, logs, cost, hours, status, staff>>

\* Attendance is entered once for a worker and a log, and never changed.
EnterHours(l, w, h) ==
  /\ l \in logs /\ <<l, w>> \notin DOMAIN hours /\ Rows < MaxRows
  /\ hours' = [s \in DOMAIN hours \cup {<<l, w>>} |-> IF s = <<l, w>> THEN h ELSE hours[s]]
  /\ UNCHANGED <<today, logs, cost, incidents, status, staff>>

\* update_project takes any status.
SetStatus(p, s) ==
  /\ status' = [status EXCEPT ![p] = s]
  /\ UNCHANGED <<today, logs, cost, incidents, hours, staff>>

\* A site worker registers, or is deactivated or activated.
SetStaff(w) ==
  /\ staff' = IF w \in staff THEN staff \ {w} ELSE staff \cup {w}
  /\ UNCHANGED <<today, logs, cost, incidents, hours, status>>

FiguresNext ==
  \/ NextDay
  \/ \E l \in Slots :
       \/ SubmitLog(l) \/ CreateIncident(l) \/ DeleteIncident(l)
       \/ \E n \in Names : DeleteCost(l, n) \/ \E c \in Costs : SetCost(l, n, c)
       \/ \E w \in Workers, h \in Hours : EnterHours(l, w, h)
  \/ \E p \in Projects, s \in Statuses : SetStatus(p, s)
  \/ \E w \in Workers : SetStaff(w)

FiguresSpec == FiguresInit /\ [][FiguresNext]_figures

-----------------------------------------------------------------------------
(* Properties.                                                             *)

\* The spending of a project is the same on every dashboard, by item, by week or in all;
\* what is over budget for the owner is so for the manager; the hours behind the attendance
\* of the projects are those the workers see; and the years of an active project add up to
\* its total, though each leaves out the projects it has no log of.  A project on hold makes
\* an error of the owner's dashboard of all years (and of its own), but of no other, and the
\* delta of the workers of all years is no delta.
DashboardsAgree ==
  LET all == Owner(AllYears)
      spent(y, p) == IF p \in OwnerProjects(y) THEN Owner(y).summaries[p].actual_spending ELSE 0
  IN
  /\ all.total_spending = all.total_material_cost
  /\ SumFunction(all.trends) = SumFunction([p \in Active |-> Manager(p).total_material_cost])
  /\ \A p \in Projects :
       /\ all.summaries[p].actual_spending = Manager(p).total_material_cost
       /\ SumFunction(Manager(p).trends) = Manager(p).total_material_cost
  /\ Aggregate.over_budget = all.over_budget \cap Mine
  /\ SumFunction([p \in Projects |-> Manager(p).attendance_rate[1]])
       = SumFunction([w \in Workers |-> Worker(w).total_hours_worked])
  /\ Aggregate.total_spending = SumFunction([p \in Mine |-> all.summaries[p].actual_spending])
  /\ \A p \in Active :
       SumFunction([y \in Years |-> spent(y, p)]) = all.summaries[p].actual_spending
  /\ SumFunction([y \in Years |-> Owner(y).total_incidents]) = all.total_incidents
  /\ Summarized(Mine) /\ \A y \in Years : Summarized(OwnerProjects(y))
  /\ all.workers_delta = 0

\* The recent trends of a manager are the weekly ones of the owner, less the weeks before
\* the window and the days to come.
RecentTrendsAgree ==
  \A w \in {WeekOf[d] : d \in Dates}, n \in Names :
    LET shown == IF <<w, n>> \in DOMAIN Aggregate.trends THEN Aggregate.trends[<<w, n>>] ELSE 0
        weekly == Owner(AllYears).trends
        keys == {k \in DOMAIN weekly : k[1] = w /\ k[2] = n /\ k[3] \in Mine}
        ahead == {l \in LogsOf(Mine) : l[2] > today}
    IN  shown = IF w \in WeekOf[today] - TrendWeeks + 1 .. WeekOf[today]
                THEN SumFunctionOnSet(weekly, keys)
                       - SpentOn({l \in ahead : WeekOf[l[2]] = w}, {n})
                ELSE 0

\* What leaves the figures of this week is what the deltas then compare with: no log is
\* skipped and none counted twice when the week turns.
WeekTurns ==
  [][WeekOf[today'] # WeekOf[today] =>
       \A p \in Projects :
         LET old == Manager(p)
             new == Manager(p)'
         IN  /\ new.incidents_this_week - new.deltas.incidents
                  = old.incidents_this_week - new.incidents_this_week
             /\ Cardinality(LastWeek(LogsOf({p}))') = Cardinality(ThisWeek(LogsOf({p})))
                                                   - Cardinality(ThisWeek(LogsOf({p}))')]_figures

\* The predictions are made from what the dashboards show: as many logs and incidents,
\* the same spending by month, the same spending and average of hours while no log has
\* two incidents, and no project over budget that is not in the features, while no cost of
\* it is negative.
FeaturesAgree ==
  \A p \in Projects :
    /\ BudgetFeatures(p).log_count = Manager(p).logs_submitted
    /\ BudgetFeatures(p).incident_count = Manager(p).total_incidents
    /\ SumFunction(ForecastFeatures(p)) = Manager(p).total_material_cost
    /\ (\A l \in LogsOf({p}) : incidents[l] <= 1) =>
         /\ BudgetFeatures(p).total_spent = Manager(p).total_material_cost
         /\ DelayFeatures(p).avg_hours = Manager(p).attendance_rate
    /\ (\A s \in Bought(LogsOf({p}), Names) : cost[s] >= 0) =>
         (p \in Owner(AllYears).over_budget => BudgetFeatures(p).is_over_budget)
=============================================================================
