----------------------------- MODULE SiteAlerts -----------------------------
(***************************************************************************)
(* What raises an alert and what carries it: the Slack alert of an         *)
(* incident, the budget_overrun alert of a material, and the notifications *)
(* with their sockets.  The three share no state, so a behaviour of one of *)
(* them says as much as their interleavings would: the scene is chosen at  *)
(* the start.                                                              *)
(***************************************************************************)
EXTENDS IncidentAlert, Integers

CONSTANTS
  Materials, Requests, Amounts, Budgets, Operations, NoRow,
  Users, Sockets, UserOf, Dispatches

VARIABLES
  cost, away, drawn, budget, request, crossed, overtaken,
  connections, socket, dispatch, inbox, pushes,
  scene

budgetVars == <<cost, away, drawn, budget, request, crossed, overtaken>>
hubVars == <<connections, socket, dispatch, inbox, pushes>>

Budget == INSTANCE BudgetAlert
Hub == INSTANCE NotificationHub

ASSUME MaterialsAssumption == IsFiniteSet(Materials)
ASSUME AmountsAssumption == Amounts \subseteq Int /\ Budgets \subseteq Int
ASSUME OperationsAssumption == Operations \subseteq {"create", "update", "delete", "budget"}
ASSUME NullAssumption == NoRow \notin Int
ASSUME UserOfAssumption == UserOf \in [Sockets -> Users]

AlertsInit ==
  /\ Init /\ Budget!Init /\ Hub!Init
  /\ scene \in {"incidents", "materials", "notifications"}
  /\ scene # "incidents" => configured
  /\ scene # "materials" => budget = CHOOSE b \in Budgets : TRUE
  /\ scene # "notifications" => \A d \in Dispatches : dispatch[d].user = CHOOSE u \in Users : TRUE

AlertsNext ==
  /\ scene' = scene
  /\ \/ scene = "incidents" /\ Next /\ UNCHANGED <<budgetVars, hubVars>>
     \/ scene = "materials" /\ Budget!Next /\ UNCHANGED <<vars, hubVars>>
     \/ scene = "notifications" /\ Hub!Next /\ UNCHANGED <<vars, budgetVars>>

\* Nothing that the fairness is about is enabled in a scene that is not on.
AlertsSpec ==
  /\ AlertsInit /\ [][AlertsNext]_<<vars, budgetVars, hubVars, scene>>
  /\ Fairness /\ Hub!Fairness

-----------------------------------------------------------------------------
(* The properties of the two modules that are instances.                   *)

\* The invariants of all three.
AlertsInv == IInv /\ Budget!IInv /\ Hub!IInv

\* A budget alert is false or missing only if its create read what was then
\* stale, or put its row on the log of another project.
AlertAmissHasCause == Budget!AlertAmissHasCause

\* A live socket stays registered.
LiveSocketsRegistered == Hub!LiveSocketsRegistered

\* No socket is sent a notification twice, nor one that is not stored.
PushedOnceAndStored == Hub!PushedOnceAndStored

\* A registered socket is sent the notification unless a tab before it left.
SkippedOnlyIfShifted == Hub!SkippedOnlyIfShifted

\* Every recipient gets a document unless its own insert fails.
EveryRecipientServed == Hub!EveryRecipientServed
=============================================================================
