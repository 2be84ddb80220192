-------------------------- MODULE MCDashboardFigures --------------------------
(* Small instances of DashboardFigures: the second week spans a new year.   *)
EXTENDS DashboardFigures, TLC

CONSTANTS p1, p2

MCWeekOf == <<1, 2, 2, 3>>
MCYearOf == <<2025, 2025, 2026, 2026>>
MCBudget == p1 :> 1 @@ p2 :> 2
MCSlots == {<<p1, 1>>, <<p1, 2>>, <<p1, 3>>, <<p2, 3>>, <<p2, 4>>}
MCCosts == {2, -1}
MCHours == {0, 4}
=============================================================================
