----------------------------- MODULE BudgetAlert -----------------------------
(***************************************************************************)
(* The budget_overrun alert of one project (services.material): a create   *)
(* sums the costs, inserts its row, reads it back and compares; updates,   *)
(* deletes and budget changes only write.  Each select and commit is a     *)
(* statement of its own (READ COMMITTED).  A cost is quantity * unit_cost. *)
(* Nothing checks that the log of the URL is of the project of the URL: a  *)
(* create through this project may put its row on another project's log,   *)
(* and one through another project may put its row on a log of this one.   *)
(***************************************************************************)
EXTENDS Integers, FiniteSetsExt

CONSTANTS
  Materials,    \* primary keys, never drawn twice
  Requests,     \* HTTP requests being served at once
  Amounts,      \* costs a request may ask for, of any sign: the schemas check none
  Budgets,      \* values of total_budget, of any sign too
  Operations,   \* of {"create", "update", "delete", "budget"}
  NoRow

VARIABLES
  cost,        \* rows of materials
  away,        \* the rows that are on logs of other projects
  drawn,       \* keys the sequence has given out
  budget,      \* projects.total_budget
  request,
  crossed,     \* history: the creates whose commit took the total over the budget
  overtaken    \* history: the creates for which another request made stale what they had read

vars == <<cost, away, drawn, budget, request, crossed, overtaken>>

Free == [pc |-> "free", budget |-> 0, before |-> 0, material |-> NoRow, own |-> 0]

RequestRecord ==
  [pc : {"free", "summing", "inserting", "refreshing", "checking"}, budget : Int, before : Int,
   material : Materials \cup {NoRow}, own : Int]

\* The values each variable may have; a sum is always a number, never NULL.
TypeOK ==
  /\ cost \in [Materials -> Int \cup {NoRow}]
  /\ away \subseteq drawn /\ drawn \subseteq Materials /\ budget \in Int
  /\ request \in [Requests -> RequestRecord]
  /\ crossed \subseteq Requests /\ overtaken \subseteq Requests

Init ==
  /\ cost = [m \in Materials |-> NoRow]
  /\ away = {} /\ drawn = {} /\ budget \in Budgets
  /\ request = [r \in Requests |-> Free]
  /\ crossed = {} /\ overtaken = {}

-----------------------------------------------------------------------------
\* The costs c but for those on the logs of other projects.
SpentOf(c, w) == MapThenSumSet(LAMBDA m : c[m], {m \in Materials \ w : c[m] # NoRow})

Spent == SpentOf(cost, away)

At(r, pc) == request[r].pc = pc

\* Request r commits new costs or a new budget: what another request has read is
\* stale if its budget changed before it inserts, the total between its sum and
\* its insert, or its own row before the refresh.
Stale(r, newCost, newAway, newBudget) ==
  {q \in Requests \ {r} :
     \/ At(q, "summing") /\ newBudget # budget
     \/ At(q, "inserting") /\ (newBudget # budget \/ SpentOf(newCost, newAway) # Spent)
     \/ At(q, "refreshing") /\ newCost[request[q].material] # cost[request[q].material]}

Commits(r, newCost, newAway, newBudget) ==
  /\ cost' = newCost /\ away' = newAway /\ budget' = newBudget
  /\ overtaken' = overtaken \cup Stale(r, newCost, newAway, newBudget)

\* A request that reads and goes on, and a create that ends.
Reads(r, state) ==
  /\ request' = [request EXCEPT ![r] = state]
  /\ UNCHANGED <<cost, away, drawn, budget, crossed, overtaken>>

Ends(r) ==
  /\ request' = [request EXCEPT ![r] = Free]
  /\ crossed' = crossed \ {r} /\ overtaken' = overtaken \ {r}
  /\ UNCHANGED <<cost, away, drawn, budget>>

\* The alert is due when this row takes the total over the budget.
\* Mutant of Crosses: < for <=.
CrossesStrictly(b, before, own) == before < b /\ b < before + own

Crosses(b, before, own) == before <= b /\ b < before + own

-----------------------------------------------------------------------------
ReadBudget(r) ==
  /\ "create" \in Operations /\ At(r, "free")
  /\ Reads(r, [Free EXCEPT !.pc = "summing", !.budget = budget])

ReadSpent(r) ==
  /\ At(r, "summing")
  /\ Reads(r, [request[r] EXCEPT !.pc = "inserting", !.before = Spent])

\* The row goes to the log of the URL, whose project is elsewhere or this one.
CommitMaterial(r, m, c, elsewhere) ==
  /\ At(r, "inserting") /\ m \notin drawn
  /\ drawn' = drawn \cup {m}
  /\ Commits(r, [cost EXCEPT ![m] = c], away \cup elsewhere, budget)
  /\ request' = [request EXCEPT ![r] = [@ EXCEPT !.pc = "refreshing", !.material = m]]
  /\ crossed' = crossed \cup {q \in {r} : Spent <= budget /\ budget < SpentOf(cost', away')}

\* A create through the URL of another project, whose budget it compares.
CreateThroughAnother(r, m, c) ==
  /\ "create" \in Operations /\ At(r, "free") /\ m \notin drawn
  /\ drawn' = drawn \cup {m}
  /\ Commits(r, [cost EXCEPT ![m] = c], away, budget)
  /\ UNCHANGED <<request, crossed>>

\* refresh selects the row again: an update that came in between counts.
RefreshMaterial(r) ==
  /\ At(r, "refreshing") /\ cost[request[r].material] # NoRow
  /\ Reads(r, [request[r] EXCEPT !.pc = "checking", !.own = cost[request[r].material]])

\* refresh of a deleted row raises: the request ends with 500.
RefreshFails(r) ==
  /\ At(r, "refreshing") /\ cost[request[r].material] = NoRow
  /\ Ends(r)

\* Whether r inserts the notification and pushes it; what becomes of it after
\* that, and a MongoDB that refuses it, is NotificationHub.
Alerts(r) == Crosses(request[r].budget, request[r].before, request[r].own)

CheckBudget(r) == At(r, "checking") /\ Ends(r)

\* The row is selected by its key and its log, through whichever project.
UpdateMaterial(r, m, c) ==
  /\ "update" \in Operations /\ At(r, "free") /\ cost[m] # NoRow
  /\ Commits(r, [cost EXCEPT ![m] = c], away, budget)
  /\ UNCHANGED <<drawn, request, crossed>>

DeleteMaterial(r, m) ==
  /\ "delete" \in Operations /\ At(r, "free") /\ cost[m] # NoRow
  /\ Commits(r, [cost EXCEPT ![m] = NoRow], away, budget)
  /\ UNCHANGED <<drawn, request, crossed>>

\* update_project with a total_budget.
UpdateProject(r, b) ==
  /\ "budget" \in Operations /\ At(r, "free")
  /\ Commits(r, cost, away, b)
  /\ UNCHANGED <<drawn, request, crossed>>

Next ==
  \E r \in Requests :
    \/ ReadBudget(r) \/ ReadSpent(r) \/ RefreshMaterial(r) \/ RefreshFails(r) \/ CheckBudget(r)
    \/ \E m \in Materials :
         \/ DeleteMaterial(r, m)
         \/ \E c \in Amounts :
              \/ \E elsewhere \in {{}, {m}} : CommitMaterial(r, m, c, elsewhere)
              \/ CreateThroughAnother(r, m, c) \/ UpdateMaterial(r, m, c)
    \/ \E b \in Budgets : UpdateProject(r, b)

Spec == Init /\ [][Next]_vars

-----------------------------------------------------------------------------
(* Properties.                                                             *)

\* A create announces an overrun exactly if its own insert took the total over
\* the budget in force: the alert is false, or missing, only if what the create
\* had read was stale when it used it, or if its row is on the log of another
\* project.
AlertAmissHasCause ==
  [][\A r \in Requests :
       CheckBudget(r) /\ ~(Alerts(r) <=> r \in crossed)
         => r \in overtaken \/ request[r].material \in away]_vars

\* The inductive invariant behind the theorems of SiteAlerts_proofs.

\* A row has a key that was drawn, and a create that refreshes has inserted its row.
RowsAreDrawn ==
  /\ \A m \in Materials : cost[m] # NoRow => m \in drawn
  /\ \A r \in Requests : At(r, "refreshing") => request[r].material \in drawn

\* Only a create that has inserted its row can have taken the total over the budget.
CrossedByInserting ==
  \A r \in crossed : At(r, "refreshing") \/ At(r, "checking")

\* What a create has read holds until another request overtakes it, and decides
\* whether its insert takes the total over the budget.
ReadsHold ==
  \A r \in Requests \ overtaken : LET q == request[r] IN
    /\ q.pc \in {"summing", "inserting"} => q.budget = budget
    /\ q.pc = "inserting" => Spent = q.before
    /\ q.pc = "refreshing" =>
         /\ cost[q.material] # NoRow
         /\ q.material \notin away => (r \in crossed <=> Crosses(q.budget, q.before, cost[q.material]))
    /\ q.pc = "checking" /\ q.material \notin away => (r \in crossed <=> Crosses(q.budget, q.before, q.own))

\* Keys and reads, together inductive.
IInv == TypeOK /\ RowsAreDrawn /\ CrossedByInserting /\ ReadsHold
=============================================================================
