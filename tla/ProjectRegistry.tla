--------------------------- MODULE ProjectRegistry ---------------------------
(***************************************************************************)
(* Who may do what to whom: accounts, projects, their managers and workers, *)
(* phases, daily logs and attendance (services.auth, services.project,     *)
(* services.attendance, services.daily_log).  Requests are served at once:  *)
(* each reads the tables in steps, then commits one row, which the          *)
(* constraints of the database accept or not; no transaction spans the two. *)
(***************************************************************************)
EXTENDS Naturals, Sequences

CONSTANTS
  Users,       \* each with an e-mail address of its own
  Projects,
  Requests,    \* requests being served at once
  Seeds        \* the roles of the seeded users

Roles == {"owner", "project_manager", "site_worker"}
OwnerOps == {"create_project", "delete_project", "assign_manager", "create_phase"}
Ops == OwnerOps \cup {"assign_worker", "unassign_manager", "unassign_worker", "register",
                      "submit_log", "attend"}

ASSUME SeedsAssumption == DOMAIN Seeds \subseteq Users /\ \A u \in DOMAIN Seeds : Seeds[u] \in Roles

VARIABLES
  table,       \* the rows, each by its table and unique key; one log per project
  role,        \* role_id of the users that exist
  creator,     \* created_by of the users that registered
  used,        \* project ids that were given out
  req          \* a request being served, or how the last one ended

vars == <<table, role, creator, used, req>>

Linked == {"project_assignments", "worker_assignments", "attendance"}
Owned == {"project_phases", "daily_logs"}
Rows == ({"users"} \X Users) \cup ({"projects"} \cup Owned) \X Projects \cup (Linked \X Projects \X Users)

\* Foreign keys: the rows that a row needs.
References(row) ==
  IF row[1] = "attendance" THEN {<<"daily_logs", row[2]>>, <<"users", row[3]>>}
  ELSE IF row[1] \in Linked THEN {<<"projects", row[2]>>, <<"users", row[3]>>}
  ELSE IF row[1] \in Owned THEN {<<"projects", row[2]>>} ELSE {}

\* Mutant of Insertable: there are no foreign keys.
InsertableAnyhow(row) == row \in table => row[1] = "project_phases"

\* The unique keys; phases have none.
Insertable(row) == (row \in table => row[1] = "project_phases") /\ References(row) \subseteq table
Deletable(row) == \A other \in table : row \notin References(other)

-----------------------------------------------------------------------------
(* What is asked and tested.                                               *)

\* Those that are about nobody.
OfProject == {"create_project", "delete_project", "create_phase", "submit_log"}

\* require_owner and require_owner_or_manager.
Allowed(op) == IF op \in OwnerOps THEN {"owner"} ELSE {"owner", "project_manager"}

\* What each operation awaits before its commit, in this order.
Tests ==
  [op \in Ops |->
     CASE op \in {"assign_manager", "assign_worker"} -> <<"project", "access", "role">>
       [] op = "create_phase"     -> <<"project", "access">>
       [] op = "delete_project"   -> <<"project">>
       [] op = "unassign_manager" -> <<"owner", "row">>
       [] op = "unassign_worker"  -> <<"row">>
       [] op = "register"         -> <<"creator", "email">>
       [] op = "submit_log"       -> <<"access">>
       [] op = "attend"           -> <<"manager", "worker", "log", "new">>
       [] OTHER                   -> << >>]

\* The row an operation inserts or deletes.
Target(q) ==
  CASE q.op = "register"                                 -> <<"users", q.u>>
    [] q.op \in {"create_project", "delete_project"}     -> <<"projects", q.p>>
    [] q.op = "create_phase"                             -> <<"project_phases", q.p>>
    [] q.op = "submit_log"                               -> <<"daily_logs", q.p>>
    [] q.op \in {"assign_manager", "unassign_manager"}   -> <<"project_assignments", q.p, q.u>>
    [] q.op \in {"assign_worker", "unassign_worker"}     -> <<"worker_assignments", q.p, q.u>>
    [] OTHER                                             -> <<"attendance", q.p, q.u>>

Removals == {"delete_project", "unassign_manager", "unassign_worker"}
Manages(u, p) == <<"project_assignments", p, u>> \in table
WorksOn(u, p) == <<"worker_assignments", p, u>> \in table

\* A worker of that role, a manager of that role.
RightRole(q) == role[q.u] = IF q.op = "assign_manager" THEN "project_manager" ELSE "site_worker"

\* No owners, and a manager registers site workers only.
MayCreate(q) == q.as # "owner" /\ (role[q.by] = "project_manager" => q.as = "site_worker")

\* Mutant of Passes: the row to insert is not looked for.
PassesUnseen(q, test) ==
  CASE test = "manager" -> role[q.by] = "project_manager" => Manages(q.by, q.p)
    [] test = "worker"  -> WorksOn(q.u, q.p)
    [] test = "log"     -> <<"daily_logs", q.p>> \in table
    [] test = "access"  -> role[q.by] = "owner" \/ Manages(q.by, q.p)
    [] test = "project" -> <<"projects", q.p>> \in table
    [] test = "creator" -> MayCreate(q)
    [] test = "role"    -> RightRole(q)
    [] OTHER            -> TRUE

Passes(q, test) ==
  CASE test = "project"        -> <<"projects", q.p>> \in table
    [] test = "access"         -> role[q.by] = "owner" \/ Manages(q.by, q.p)
    [] test = "role"           -> RightRole(q)
    [] test = "owner"          -> role[q.by] = "owner"
    [] test = "row"            -> Target(q) \in table
    [] test = "creator"        -> MayCreate(q)
    [] test = "manager"        -> role[q.by] = "project_manager" => Manages(q.by, q.p)
    [] test = "worker"         -> WorksOn(q.u, q.p)
    [] test = "log"            -> <<"daily_logs", q.p>> \in table
    [] OTHER                   -> Target(q) \notin table

Calls == [at : {"running"}, op : Ops, by : Users, p : Projects, u : Users,
          as : Roles \cup {"unknown"}, step : 1 .. 5, disturbed : BOOLEAN]
Answers == {"done", "refused", "exists", "error", "crash"}
Ended(answer) == [at |-> answer]
Free == Ended("done")
Running(r) == req[r].at = "running"
Tested(q) == q.step > Len(Tests[q.op])

TypeOK ==
  /\ table \subseteq Rows
  /\ role \in [Users -> Roles \cup {"none"}]
  /\ creator \in [Users -> Users \cup {"none"}]
  /\ used \subseteq Projects
  /\ req \in [Requests -> Calls \cup [at : Answers]]

Init ==
  /\ table = {"users"} \X DOMAIN Seeds
  /\ role = [u \in Users |-> IF u \in DOMAIN Seeds THEN Seeds[u] ELSE "none"]
  /\ creator = [u \in Users |-> "none"]
  /\ used = {}
  /\ req = [r \in Requests |-> Free]

-----------------------------------------------------------------------------
(* A request, from the router to its answer.                               *)

Begin(r, op, by, p, u, as) ==
  /\ role[by] \in Allowed(op)
  /\ op = "create_project" => p \notin used
  /\ op = "register" \/ as = "unknown"
  /\ op \in OfProject => u = by
  /\ used' = IF op = "create_project" THEN used \cup {p} ELSE used
  /\ req' = [req EXCEPT ![r] = [at |-> "running", op |-> op, by |-> by, p |-> p, u |-> u,
                                as |-> as, step |-> 1, disturbed |-> FALSE]]
  /\ UNCHANGED <<table, role, creator>>

\* Mutant of Test: only the project, the caller and the row are looked up.
TestCarelessly(r) ==
  LET q == req[r] IN
  /\ Running(r) /\ ~Tested(q)
  /\ req' = [req EXCEPT ![r] =
              IF Tests[q.op][q.step] \in {"role", "creator"} \/ Passes(q, Tests[q.op][q.step])
              THEN [q EXCEPT !.step = @ + 1] ELSE Ended("refused")]
  /\ UNCHANGED <<table, role, creator, used>>

\* One SELECT; what it does not find ends the request with 400, 403 or 404.
Test(r) ==
  LET q == req[r] IN
  /\ Running(r) /\ ~Tested(q)
  /\ req' = [req EXCEPT ![r] = IF Passes(q, Tests[q.op][q.step])
                               THEN [q EXCEPT !.step = @ + 1] ELSE Ended("refused")]
  /\ UNCHANGED <<table, role, creator, used>>

\* create_attendance reads current_user.role.name first: no role is loaded with a user
\* from Redis, nor with one from the database once require_owner_or_manager returned.
RoleNotLoaded(r) ==
  /\ Running(r) /\ req[r].op = "attend" /\ req[r].step = 1
  /\ req' = [req EXCEPT ![r] = Ended("crash")]
  /\ UNCHANGED <<table, role, creator, used>>

\* The coming or going of the row can change how the request ends.
Concerns(q, row) ==
  \/ row \in {Target(q), <<"projects", q.p>>, <<"project_assignments", q.p, q.by>>, <<"users", q.u>>}
  \/ q.op = "attend" /\ row \in {<<"worker_assignments", q.p, q.u>>, <<"daily_logs", q.p>>}
  \/ q.op = "delete_project" /\ Target(q) \in References(row)

\* The others under way, after a row came or went.
Disturb(r, row, answer) ==
  req' = [s \in Requests |->
            IF s = r THEN Ended(answer)
            ELSE IF Running(s) /\ Concerns(req[s], row) THEN [req[s] EXCEPT !.disturbed = TRUE]
            ELSE req[s]]

\* db.add and commit.
Insert(r) ==
  LET q == req[r] IN
  /\ Running(r) /\ Tested(q) /\ q.op \notin Removals
  /\ Insertable(Target(q)) /\ (q.op = "register" => q.as \in Roles)
  /\ table' = table \cup {Target(q)}
  /\ role' = IF q.op = "register" THEN [role EXCEPT ![q.u] = q.as] ELSE role
  /\ creator' = IF q.op = "register" THEN [creator EXCEPT ![q.u] = q.by] ELSE creator
  /\ Disturb(r, Target(q), "done")
  /\ UNCHANGED used

\* IntegrityError: only the router of the daily logs expects it, as a log that exists.
InsertFails(r) ==
  LET q == req[r] IN
  /\ Running(r) /\ Tested(q) /\ q.op \notin Removals
  /\ ~(Insertable(Target(q)) /\ (q.op = "register" => q.as \in Roles))
  /\ req' = [req EXCEPT ![r] = Ended(IF q.op = "submit_log" THEN "exists" ELSE "error")]
  /\ UNCHANGED <<table, role, creator, used>>

\* db.delete and commit; a row that went meanwhile is no error.  Rows that refer to a
\* project would lose it, which no column allows.
Remove(r) ==
  LET q == req[r] IN
  /\ Running(r) /\ Tested(q) /\ q.op \in Removals
  /\ IF Deletable(Target(q))
     THEN table' = table \ {Target(q)} /\ Disturb(r, Target(q), "done")
     ELSE req' = [req EXCEPT ![r] = Ended("error")] /\ UNCHANGED table
  /\ UNCHANGED <<role, creator, used>>

-----------------------------------------------------------------------------
Serves(r) == Test(r) \/ RoleNotLoaded(r) \/ Insert(r) \/ InsertFails(r) \/ Remove(r)

Next ==
  \E r \in Requests :
    \/ Serves(r)
    \/ ~Running(r) /\ \E op \in Ops, by, u \in Users, p \in Projects, as \in Roles \cup {"unknown"} :
                        Begin(r, op, by, p, u, as)

Spec == Init /\ [][Next]_vars

-----------------------------------------------------------------------------
(* Properties.                                                             *)

\* Managers manage, site workers work, and who has attendance is a site worker, though
\* no two of the requests that tested it read the same tables.
RowsMatchRoles ==
  \A p \in Projects, u \in Users :
    /\ Manages(u, p) => role[u] = "project_manager"
    /\ WorksOn(u, p) \/ <<"attendance", p, u>> \in table => role[u] = "site_worker"

\* Nobody registers an owner, and who was registered by a manager is a site worker.
AccountsMatchCreators ==
  \A u \in Users : creator[u] # "none" =>
    /\ role[u] \in {"project_manager", "site_worker"}
    /\ role[creator[u]] \in {"owner", "project_manager"}
    /\ role[creator[u]] = "project_manager" => role[u] = "site_worker"

\* No row is left behind: who is refused a delete keeps the project whole.
RowsAreReferenced == \A row \in table : References(row) \subseteq table

\* What the request would have been answered in one step.
Serial(q) ==
  IF \E k \in 1 .. Len(Tests[q.op]) : ~Passes(q, Tests[q.op][k]) THEN "refused"
  ELSE IF q.op \in Removals THEN (IF Deletable(Target(q)) THEN "done" ELSE "error")
  ELSE IF Insertable(Target(q)) /\ (q.op = "register" => q.as \in Roles) THEN "done"
  ELSE IF q.op = "submit_log" THEN "exists" ELSE "error"

Ends(r) == Running(r) /\ req'[r].at \in Answers

\* A request that no other one disturbed is answered as if nothing had run beside it.
AnswersAreSerial ==
  [][\A r \in Requests : Ends(r) /\ ~req[r].disturbed => req'[r].at \in {Serial(req[r]), "crash"}]_vars

\* The tests spare a user the errors of the constraints, except for a race, a second
\* assignment, an unknown role, or a project that is in use.
ErrorsNeedRaces ==
  [][\A r \in Requests : Ends(r) /\ req'[r].at = "error" =>
       \/ req[r].disturbed
       \/ req[r].op = "register" /\ req[r].as = "unknown"
       \/ req[r].op \in {"assign_manager", "assign_worker", "delete_project"}]_vars

\* The inductive invariant behind the theorems of ProjectRegistry_proofs.

\* Who has a role is in the table of users.
UsersHaveRoles == \A u \in Users : role[u] # "none" <=> <<"users", u>> \in table

\* What a request found out about roles stays true until it commits.
Found(q) ==
  /\ role[q.by] \in Allowed(q.op)
  /\ q.op \in {"assign_manager", "assign_worker"} /\ q.step > 3 => RightRole(q)
  /\ q.op = "register" /\ q.step > 1 => MayCreate(q)
  /\ q.op = "attend" /\ q.step > 2 => role[q.u] = "site_worker"

TestsHold == \A r \in Requests : Running(r) => Found(req[r])

\* Tables and requests agree, which takes all of these together.
TablesAgree ==
  /\ TypeOK /\ UsersHaveRoles /\ TestsHold
  /\ RowsMatchRoles /\ AccountsMatchCreators /\ RowsAreReferenced

\* What a request that nobody disturbed has tested is still so.
StillPasses(q) == \A k \in 1 .. Len(Tests[q.op]) : k < q.step => Passes(q, Tests[q.op][k])
TestsStillPass == \A r \in Requests : Running(r) /\ ~req[r].disturbed => StillPasses(req[r])

\* An id is given to one project, which comes when its request commits.
Creates(r) == Running(r) /\ req[r].op = "create_project"
IdsGivenOnce ==
  /\ \A p \in Projects : <<"projects", p>> \in table => p \in used
  /\ \A r \in Requests : Creates(r) =>
       /\ req[r].p \in used /\ <<"projects", req[r].p>> \notin table
       /\ \A s \in Requests : Creates(s) /\ req[s].p = req[r].p => s = r

\* The tables, the tests and the ids, together inductive.
IInv == TablesAgree /\ TestsStillPass /\ IdsGivenOnce
=============================================================================
