SPECIFICATION FiguresSpec
CONSTANTS
  p1 = p1
  p2 = p2
  Projects = {p1, p2}
  Names = {n1, n2}
  Workers = {w1}
  Slots <- MCSlots
  WeekOf <- MCWeekOf
  YearOf <- MCYearOf
  Budget <- MCBudget
  Managed = {p1, p2}
  Statuses = {"Active", "Completed", "On Hold"}
  Costs <- MCCosts
  Hours <- MCHours
  TrendWeeks = 2
  MaxRows = 4
INVARIANTS FiguresTypeOK DashboardsAgree RecentTrendsAgree FeaturesAgree
PROPERTIES WeekTurns
