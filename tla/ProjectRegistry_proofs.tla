------------------------ MODULE ProjectRegistry_proofs ------------------------
(***************************************************************************)
(* What holds of ProjectRegistry for any users, projects and number of     *)
(* requests at once.                                                       *)
(***************************************************************************)
EXTENDS ProjectRegistry, TLAPS

\* Rows of different tables or keys differ, so a target tells the operation.
LEMMA Targets ==
  ASSUME NEW q \in Calls, NEW p \in Projects, NEW u \in Users
  PROVE  /\ <<"project_assignments", p, u>> = Target(q) =>
              q.op \in {"assign_manager", "unassign_manager"} /\ q.p = p /\ q.u = u
         /\ <<"worker_assignments", p, u>> = Target(q) =>
              q.op \in {"assign_worker", "unassign_worker"} /\ q.p = p /\ q.u = u
         /\ <<"attendance", p, u>> = Target(q) => q.op = "attend" /\ q.p = p /\ q.u = u
         /\ <<"users", u>> = Target(q) <=> q.op = "register" /\ q.u = u
<1> USE DEF Calls, Ops, OwnerOps
<1>1. CASE q.op = "register"
  BY <1>1 DEF Target
<1>2. CASE q.op \in {"create_project", "delete_project"}
  BY <1>2 DEF Target
<1>3. CASE q.op = "create_phase"
  BY <1>3 DEF Target
<1>4. CASE q.op = "submit_log"
  BY <1>4 DEF Target
<1>5. CASE q.op \in {"assign_manager", "unassign_manager"}
  BY <1>5 DEF Target
<1>6. CASE q.op \in {"assign_worker", "unassign_worker"}
  BY <1>6 DEF Target
<1>7. CASE q.op = "attend"
  BY <1>7 DEF Target
<1> QED
  BY <1>1, <1>2, <1>3, <1>4, <1>5, <1>6, <1>7

\* What is inserted or deleted is a row.
LEMMA TargetIsRow == ASSUME NEW q \in Calls PROVE Target(q) \in Rows
<1> USE DEF Calls, Ops, OwnerOps, Rows, Owned, Linked
<1>1. CASE q.op = "register"
  BY <1>1 DEF Target
<1>2. CASE q.op \in {"create_project", "delete_project"}
  BY <1>2 DEF Target
<1>3. CASE q.op \in {"create_phase", "submit_log"}
  BY <1>3 DEF Target
<1>4. CASE q.op \in {"assign_manager", "unassign_manager"}
  BY <1>4 DEF Target
<1>5. CASE q.op \in {"assign_worker", "unassign_worker"}
  BY <1>5 DEF Target
<1>6. CASE q.op = "attend"
  BY <1>6 DEF Target
<1> QED
  BY <1>1, <1>2, <1>3, <1>4, <1>5, <1>6

\* The tests of an operation, at most four of them.
LEMMA TestsOf ==
  ASSUME NEW q \in Calls
  PROVE  /\ Len(Tests[q.op]) \in 0 .. 4
         /\ q.op \in {"assign_manager", "assign_worker"} =>
              Len(Tests[q.op]) = 3 /\ Tests[q.op][3] = "role"
         /\ q.op = "register" => Len(Tests[q.op]) = 2 /\ Tests[q.op][1] = "creator"
         /\ q.op = "attend" => Len(Tests[q.op]) = 4 /\ Tests[q.op][2] = "worker"
<1> USE DEF Calls, Ops, OwnerOps
<1>1. q.op \in {"assign_manager", "assign_worker"} => Tests[q.op] = <<"project", "access", "role">>
  BY DEF Tests
<1>2. q.op = "register" => Tests[q.op] = <<"creator", "email">>
  BY DEF Tests
<1>3. q.op = "attend" => Tests[q.op] = <<"manager", "worker", "log", "new">>
  BY DEF Tests
<1>4. q.op = "create_phase" => Tests[q.op] = <<"project", "access">>
  BY DEF Tests
<1>5. q.op = "unassign_manager" => Tests[q.op] = <<"owner", "row">>
  BY DEF Tests
<1>6. q.op = "unassign_worker" => Tests[q.op] = <<"row">>
  BY DEF Tests
<1>7. q.op = "delete_project" => Tests[q.op] = <<"project">>
  BY DEF Tests
<1>8. q.op = "submit_log" => Tests[q.op] = <<"access">>
  BY DEF Tests
<1>9. q.op = "create_project" => Tests[q.op] = << >>
  BY DEF Tests
<1>10. /\ Len(<<"project", "access", "role">>) = 3 /\ Len(<<"manager", "worker", "log", "new">>) = 4
       /\ Len(<<"creator", "email">>) = 2 /\ Len(<<"project", "access">>) = 2 /\ Len(<<"owner", "row">>) = 2
       /\ Len(<<"row">>) = 1 /\ Len(<<"project">>) = 1 /\ Len(<<"access">>) = 1 /\ Len(<< >>) = 0
  OBVIOUS
<1>11. /\ <<"project", "access", "role">>[3] = "role" /\ <<"creator", "email">>[1] = "creator"
       /\ <<"manager", "worker", "log", "new">>[2] = "worker"
  OBVIOUS
<1> HIDE DEF Calls
<1>12. q.op \in Ops
  BY DEF Calls
<1>13. Len(Tests[q.op]) \in {0, 1, 2, 3, 4}
  BY <1>1, <1>2, <1>3, <1>4, <1>5, <1>6, <1>7, <1>8, <1>9, <1>10, <1>12, Zenon
<1>14. Len(Tests[q.op]) \in 0 .. 4
  BY <1>13
<1> QED
  BY <1>1, <1>2, <1>3, <1>10, <1>11, <1>12, <1>14, Zenon

\* A request under way is a call.
LEMMA RunningIsCall == ASSUME TypeOK, NEW r \in Requests, Running(r) PROVE req[r] \in Calls
  BY DEF TypeOK, Running, Answers

\* The seeded users, and nobody else.
LEMMA InitTables == Init => TablesAgree
<1> SUFFICES ASSUME Init PROVE TablesAgree
  OBVIOUS
<1> USE SeedsAssumption DEF Init, Free, Ended
<1>1. TypeOK
  <2>1. table \subseteq Rows
    BY DEF Rows
  <2>2. req \in [Requests -> Calls \cup [at : Answers]]
    BY DEF Answers
  <2>3. role \in [Users -> Roles \cup {"none"}] /\ creator \in [Users -> Users \cup {"none"}] /\ used \subseteq Projects
    OBVIOUS
  <2> QED
    BY <2>1, <2>2, <2>3 DEF TypeOK
<1>2. UsersHaveRoles
  BY DEF UsersHaveRoles, Roles
<1>3. TestsHold
  BY DEF TestsHold, Running
<1>4. RowsMatchRoles
  BY DEF RowsMatchRoles, Manages, WorksOn
<1>5. AccountsMatchCreators
  BY DEF AccountsMatchCreators
<1>6. RowsAreReferenced
  BY DEF RowsAreReferenced, References, Linked, Owned
<1> QED
  BY <1>1, <1>2, <1>3, <1>4, <1>5, <1>6 DEF TablesAgree

\* A step of one request that leaves the tables alone.
LEMMA QuietStep ==
  ASSUME TablesAgree, NEW r \in Requests, NEW X, req' = [req EXCEPT ![r] = X],
         (X \in Calls /\ Found(X)) \/ X \in [at : Answers],
         UNCHANGED <<table, role, creator>>, used' \subseteq Projects
  PROVE  TablesAgree'
<1> USE DEF TablesAgree
<1>1. TypeOK'
  BY DEF TypeOK
<1>2. UsersHaveRoles' /\ RowsMatchRoles' /\ AccountsMatchCreators' /\ RowsAreReferenced'
  BY DEF UsersHaveRoles, RowsMatchRoles, AccountsMatchCreators, RowsAreReferenced, Manages, WorksOn
<1>3. TestsHold'
  <2>1. ASSUME NEW s \in Requests, Running(s)' PROVE Found(req[s])'
    <3>1. CASE s = r
      <4>1. req'[s] = X /\ X.at = "running"
        BY <2>1, <3>1 DEF Running, TypeOK
      <4>2. Found(X)
        BY <4>1 DEF Answers
      <4> QED
        BY <4>1, <4>2 DEF Found, RightRole, MayCreate
    <3>2. CASE s # r
      <4>1. req'[s] = req[s]
        BY <3>2 DEF TypeOK
      <4>2. Found(req[s])
        BY <2>1, <4>1 DEF TestsHold, Running
      <4> QED
        BY <4>1, <4>2 DEF Found, RightRole, MayCreate
    <3> QED
      BY <3>1, <3>2
  <2> QED
    BY <2>1 DEF TestsHold
<1> QED
  BY <1>1, <1>2, <1>3

\* The router lets a call in, and a test adds to what it found.
LEMMA BeginStep ==
  ASSUME TablesAgree, NEW r \in Requests, NEW op \in Ops, NEW by \in Users, NEW p \in Projects,
         NEW u \in Users, NEW as \in Roles \cup {"unknown"}, Begin(r, op, by, p, u, as)
  PROVE  TablesAgree'
<1> DEFINE X == [at |-> "running", op |-> op, by |-> by, p |-> p, u |-> u, as |-> as,
                 step |-> 1, disturbed |-> FALSE]
<1>1. X \in Calls
  <2>1. 1 \in 1 .. 5 /\ "running" \in {"running"} /\ FALSE \in BOOLEAN
    OBVIOUS
  <2> QED
    BY <2>1, Zenon DEF Calls
<1>2. Found(X)
  BY DEF Found, Begin
<1>3. req' = [req EXCEPT ![r] = X] /\ UNCHANGED <<table, role, creator>> /\ used' \subseteq Projects
  BY DEF Begin, TablesAgree, TypeOK
<1> HIDE DEF X
<1> QED
  BY <1>1, <1>2, <1>3, QuietStep

LEMMA TestStep == ASSUME TablesAgree, NEW r \in Requests, Test(r) PROVE TablesAgree'
<1> DEFINE q == req[r]
           X == [q EXCEPT !.step = @ + 1]
<1>1. q \in Calls /\ Running(r) /\ Found(q)
  BY RunningIsCall DEF Test, TablesAgree, TestsHold
<1>2. q.step \in 1 .. 4
  <2>1. q.step \in 1 .. 5
    BY <1>1 DEF Calls
  <2>2. Len(Tests[q.op]) \in 0 .. 4
    BY <1>1, TestsOf
  <2>3. ~(q.step > Len(Tests[q.op]))
    BY DEF Test, Tested
  <2>4. ASSUME NEW k \in 1 .. 5, NEW n \in 0 .. 4, ~(k > n) PROVE k \in 1 .. 4
    BY <2>4
  <2> HIDE DEF q
  <2> QED
    BY <2>1, <2>2, <2>3, <2>4, Zenon
<1>3. X \in Calls /\ X.op = q.op /\ X.by = q.by /\ X.u = q.u /\ X.as = q.as /\ X.step = q.step + 1
  BY <1>1, <1>2 DEF Calls
<1>4. UNCHANGED <<table, role, creator>> /\ used' \subseteq Projects
  BY DEF Test, TablesAgree, TypeOK
<1>5. CASE Passes(q, Tests[q.op][q.step])
  <2>1. q.op \in {"assign_manager", "assign_worker"} /\ q.step = 3 => RightRole(q)
    BY <1>1, <1>5, TestsOf DEF Passes
  <2>2. q.op = "register" /\ q.step = 1 => MayCreate(q)
    BY <1>1, <1>5, TestsOf DEF Passes
  <2>3. q.op = "attend" /\ q.step = 2 => WorksOn(q.u, q.p)
    BY <1>1, <1>5, TestsOf DEF Passes
  <2>4. WorksOn(q.u, q.p) => role[q.u] = "site_worker"
    BY <1>1 DEF TablesAgree, RowsMatchRoles, Calls
  <2>5. Found(X)
    BY <1>1, <1>2, <1>3, <2>1, <2>2, <2>3, <2>4 DEF Found, RightRole, MayCreate
  <2>6. req' = [req EXCEPT ![r] = X]
    BY <1>5 DEF Test
  <2> HIDE DEF X
  <2> QED
    BY <1>3, <1>4, <2>5, <2>6, QuietStep
<1>6. CASE ~Passes(q, Tests[q.op][q.step])
  <2>1. req' = [req EXCEPT ![r] = Ended("refused")] /\ Ended("refused") \in [at : Answers]
    BY <1>6 DEF Test, Ended, Answers
  <2> QED
    BY <1>4, <2>1, QuietStep
<1> QED
  BY <1>5, <1>6

\* A request that ends without a commit.
LEMMA EndStep ==
  ASSUME TablesAgree, NEW r \in Requests, NEW a \in Answers, req' = [req EXCEPT ![r] = Ended(a)],
         UNCHANGED <<table, role, creator, used>>
  PROVE  TablesAgree'
<1>1. Ended(a) \in [at : Answers] /\ used' \subseteq Projects
  BY DEF Ended, TablesAgree, TypeOK
<1> QED
  BY <1>1, QuietStep

\* A commit: the others are marked at most, and this one has ended.
LEMMA Disturbed ==
  ASSUME TypeOK, NEW r \in Requests, NEW row, NEW a \in Answers, Disturb(r, row, a)
  PROVE  /\ req' \in [Requests -> Calls \cup [at : Answers]]
         /\ \A s \in Requests : Running(s)' =>
              /\ Running(s) /\ req'[s].op = req[s].op /\ req'[s].by = req[s].by
              /\ req'[s].u = req[s].u /\ req'[s].as = req[s].as /\ req'[s].step = req[s].step
<1>1. ASSUME NEW s \in Requests
      PROVE  /\ req'[s] \in Calls \cup [at : Answers]
             /\ Running(s)' =>
                  /\ Running(s) /\ req'[s].op = req[s].op /\ req'[s].by = req[s].by
                  /\ req'[s].u = req[s].u /\ req'[s].as = req[s].as /\ req'[s].step = req[s].step
  <2>1. CASE s = r
    <3>1. req'[s] = Ended(a)
      BY <2>1 DEF Disturb
    <3> QED
      BY <3>1 DEF Ended, Running, Answers
  <2>2. CASE s # r /\ Running(s) /\ Concerns(req[s], row)
    <3>1. req'[s] = [req[s] EXCEPT !.disturbed = TRUE]
      BY <2>2 DEF Disturb
    <3>2. req[s] \in Calls
      BY <2>2, RunningIsCall
    <3>3. TRUE \in BOOLEAN
      OBVIOUS
    <3>4. /\ req'[s] \in Calls /\ req'[s].op = req[s].op /\ req'[s].by = req[s].by
          /\ req'[s].u = req[s].u /\ req'[s].as = req[s].as /\ req'[s].step = req[s].step
      BY <3>1, <3>2, <3>3 DEF Calls
    <3> QED
      BY <2>2, <3>4
  <2>3. CASE s # r /\ ~(Running(s) /\ Concerns(req[s], row))
    <3>1. req'[s] = req[s]
      BY <2>3 DEF Disturb
    <3> QED
      BY <3>1 DEF TypeOK, Running
  <2> QED
    BY <2>1, <2>2, <2>3
<1>2. DOMAIN req' = Requests /\ req' = [s \in Requests |-> req'[s]]
  BY DEF Disturb
<1> QED
  BY <1>1, <1>2

\* Found outlives a commit that changes no role that was there.
LEMMA FoundStays ==
  ASSUME TablesAgree, NEW r \in Requests, NEW row, NEW a \in Answers, Disturb(r, row, a),
         \A x \in Users : role[x] # "none" => role'[x] = role[x]
  PROVE  TestsHold'
<1>1. ASSUME NEW s \in Requests, Running(s)' PROVE Found(req[s])'
  <2>1. req[s] \in Calls /\ Found(req[s])
    BY <1>1, Disturbed, RunningIsCall DEF TablesAgree, TestsHold
  <2>2. /\ req'[s].op = req[s].op /\ req'[s].by = req[s].by /\ req'[s].u = req[s].u
        /\ req'[s].as = req[s].as /\ req'[s].step = req[s].step
    BY <1>1, Disturbed DEF TablesAgree
  <2>3. /\ role[req[s].by] \in Roles => role'[req[s].by] = role[req[s].by]
        /\ role[req[s].u] \in Roles => role'[req[s].u] = role[req[s].u]
    BY <2>1 DEF Calls, Roles
  <2>4. role[req[s].by] \in Roles /\ (RightRole(req[s]) => role[req[s].u] \in Roles)
    BY <2>1 DEF Found, Allowed, Roles, RightRole
  <2> QED
    BY <2>1, <2>2, <2>3, <2>4 DEF Found, RightRole, MayCreate, Roles
<1> QED
  BY <1>1 DEF TestsHold

\* A row goes only when no other one needs it, and never a user's.
LEMMA RemoveStep == ASSUME TablesAgree, NEW r \in Requests, Remove(r) PROVE TablesAgree'
<1> DEFINE q == req[r]
<1>1. q \in Calls /\ q.op \in Removals /\ "done" \in Answers /\ "error" \in Answers
  BY RunningIsCall DEF Remove, TablesAgree, Answers
<1>2. CASE Deletable(Target(q))
  <2>1. /\ table' = table \ {Target(q)} /\ Disturb(r, Target(q), "done")
        /\ UNCHANGED <<role, creator, used>>
    BY <1>2 DEF Remove
  <2>2. TypeOK'
    BY <1>1, <2>1, Disturbed DEF TablesAgree, TypeOK
  <2>3. UsersHaveRoles'
    <3>1. ASSUME NEW u \in Users PROVE <<"users", u>> # Target(q)
      <4>1. q.p \in Projects /\ q.op # "register"
        BY <1>1 DEF Calls, Removals
      <4> QED
        BY <1>1, <4>1, Targets
    <3> QED
      BY <2>1, <3>1 DEF TablesAgree, UsersHaveRoles
  <2>4. TestsHold'
    BY <1>1, <2>1, FoundStays
  <2>5. RowsMatchRoles' /\ AccountsMatchCreators'
    BY <2>1 DEF TablesAgree, RowsMatchRoles, AccountsMatchCreators, Manages, WorksOn
  <2>6. RowsAreReferenced'
    BY <1>2, <2>1 DEF TablesAgree, RowsAreReferenced, Deletable
  <2> QED
    BY <2>2, <2>3, <2>4, <2>5, <2>6 DEF TablesAgree
<1>3. CASE ~Deletable(Target(q))
  <2>1. req' = [req EXCEPT ![r] = Ended("error")] /\ UNCHANGED <<table, role, creator, used>>
    BY <1>3 DEF Remove
  <2> QED
    BY <1>1, <2>1, EndStep
<1> QED
  BY <1>2, <1>3

\* A commit of a row: who had a role keeps it, and the tests have found what it needs.
LEMMA InsertStep == ASSUME TablesAgree, NEW r \in Requests, Insert(r) PROVE TablesAgree'
<1> DEFINE q == req[r]
<1>1. q \in Calls /\ q.op \notin Removals /\ q.by \in Users /\ q.u \in Users /\ q.p \in Projects
  BY RunningIsCall DEF Insert, TablesAgree, Calls
<1>2. Found(q)
  BY DEF Insert, TablesAgree, TestsHold
<1>3. /\ table' = table \cup {Target(q)} /\ Disturb(r, Target(q), "done") /\ used' = used
      /\ References(Target(q)) \subseteq table /\ "done" \in Answers
  BY DEF Insert, Insertable, Answers
<1>4. q.step > Len(Tests[q.op])
  BY DEF Insert, Tested
<1>5. CASE q.op = "register"
  <2>1. role' = [role EXCEPT ![q.u] = q.as] /\ creator' = [creator EXCEPT ![q.u] = q.by] /\ q.as \in Roles
    BY <1>5 DEF Insert
  <2>2. Target(q) = <<"users", q.u>> /\ <<"users", q.u>> \notin table
    BY <1>5 DEF Insert, Target, Insertable
  <2>3. role[q.u] = "none" /\ role \in [Users -> Roles \cup {"none"}]
    BY <1>1, <2>2 DEF TablesAgree, UsersHaveRoles, TypeOK
  <2>4. role'[q.u] = q.as /\ \A x \in Users : x # q.u => role'[x] = role[x] /\ creator'[x] = creator[x]
    BY <1>1, <2>1, <2>3 DEF TablesAgree, TypeOK
  <2>5. \A x \in Users : role[x] # "none" => role'[x] = role[x]
    BY <2>3, <2>4
  <2>6. MayCreate(q)
    <3>1. q.step > 2 /\ q.step \in 1 .. 5
      BY <1>1, <1>4, <1>5, TestsOf DEF Calls
    <3>2. q.step > 1
      BY <3>1
    <3> QED
      BY <1>2, <1>5, <3>2 DEF Found
  <2>7. TypeOK'
    <3>1. table' \subseteq Rows
      BY <1>1, <1>3, TargetIsRow DEF TablesAgree, TypeOK
    <3>2. role' \in [Users -> Roles \cup {"none"}] /\ creator' \in [Users -> Users \cup {"none"}]
      BY <1>1, <2>1 DEF TablesAgree, TypeOK
    <3> QED
      BY <1>3, <3>1, <3>2, Disturbed DEF TablesAgree, TypeOK
  <2>8. UsersHaveRoles'
    <3>1. \A u \in Users : <<"users", u>> \in table' <=> <<"users", u>> \in table \/ u = q.u
      BY <1>3, <2>2
    <3> QED
      BY <2>1, <2>4, <3>1 DEF TablesAgree, UsersHaveRoles, Roles
  <2>9. RowsMatchRoles'
    <3>1. ASSUME NEW p \in Projects, NEW u \in Users, NEW t \in {"project_assignments", "worker_assignments", "attendance"}
          PROVE  <<t, p, u>> \in table' <=> <<t, p, u>> \in table
      BY <1>3, <2>2
    <3> QED
      BY <2>5, <3>1 DEF TablesAgree, RowsMatchRoles, Manages, WorksOn
  <2>10. AccountsMatchCreators'
    <3>1. ASSUME NEW u \in Users, creator'[u] # "none"
          PROVE  /\ role'[u] \in {"project_manager", "site_worker"}
                 /\ role'[creator'[u]] \in {"owner", "project_manager"}
                 /\ role'[creator'[u]] = "project_manager" => role'[u] = "site_worker"
      <4>1. CASE u = q.u
        <5>1. creator'[u] = q.by
          BY <1>1, <2>1, <4>1 DEF TablesAgree, TypeOK
        <5>2. role[q.by] \in {"owner", "project_manager"}
          BY <1>2, <1>5 DEF Found, Allowed, OwnerOps
        <5>3. role'[q.by] = role[q.by]
          BY <1>1, <2>5, <5>2
        <5> QED
          BY <2>1, <2>4, <2>6, <4>1, <5>1, <5>2, <5>3 DEF MayCreate, Roles
      <4>2. CASE u # q.u
        <5>1. creator'[u] = creator[u] /\ creator[u] \in Users
          BY <2>4, <3>1, <4>2 DEF TablesAgree, TypeOK
        <5> QED
          BY <2>5, <3>1, <5>1 DEF TablesAgree, AccountsMatchCreators
      <4> QED
        BY <4>1, <4>2
    <3> QED
      BY <3>1 DEF AccountsMatchCreators
  <2>11. RowsAreReferenced'
    BY <1>3 DEF TablesAgree, RowsAreReferenced
  <2> QED
    BY <1>3, <2>5, <2>7, <2>8, <2>9, <2>10, <2>11, FoundStays DEF TablesAgree
<1>6. CASE q.op # "register"
  <2>1. role' = role /\ creator' = creator
    BY <1>6 DEF Insert
  <2>2. TypeOK'
    <3>1. table' \subseteq Rows
      BY <1>1, <1>3, TargetIsRow DEF TablesAgree, TypeOK
    <3> QED
      BY <1>3, <2>1, <3>1, Disturbed DEF TablesAgree, TypeOK
  <2>3. UsersHaveRoles'
    <3>1. ASSUME NEW u \in Users PROVE <<"users", u>> # Target(q)
      BY <1>1, <1>6, Targets
    <3> QED
      BY <1>3, <2>1, <3>1 DEF TablesAgree, UsersHaveRoles
  <2>4. RowsMatchRoles'
    <3>1. ASSUME NEW p \in Projects, NEW u \in Users, <<"project_assignments", p, u>> = Target(q)
          PROVE  role[u] = "project_manager"
      <4>1. q.op = "assign_manager" /\ q.u = u
        BY <1>1, <3>1, Targets DEF Removals
      <4>2. q.step > 3
        BY <1>1, <1>4, <4>1, TestsOf
      <4> QED
        BY <1>2, <4>1, <4>2 DEF Found, RightRole
    <3>2. ASSUME NEW p \in Projects, NEW u \in Users, <<"worker_assignments", p, u>> = Target(q)
          PROVE  role[u] = "site_worker"
      <4>1. q.op = "assign_worker" /\ q.u = u
        BY <1>1, <3>2, Targets DEF Removals
      <4>2. q.step > 3
        BY <1>1, <1>4, <4>1, TestsOf
      <4> QED
        BY <1>2, <4>1, <4>2 DEF Found, RightRole
    <3>3. ASSUME NEW p \in Projects, NEW u \in Users, <<"attendance", p, u>> = Target(q)
          PROVE  role[u] = "site_worker"
      <4>1. q.op = "attend" /\ q.u = u
        BY <1>1, <3>3, Targets
      <4>2. q.step > 4 /\ q.step \in 1 .. 5
        BY <1>1, <1>4, <4>1, TestsOf DEF Calls
      <4>3. q.step > 2
        BY <4>2
      <4> QED
        BY <1>2, <4>1, <4>3 DEF Found
    <3> QED
      BY <1>3, <2>1, <3>1, <3>2, <3>3 DEF TablesAgree, RowsMatchRoles, Manages, WorksOn
  <2>5. AccountsMatchCreators'
    BY <2>1 DEF TablesAgree, AccountsMatchCreators
  <2>6. RowsAreReferenced'
    BY <1>3 DEF TablesAgree, RowsAreReferenced
  <2>7. TestsHold'
    BY <1>3, <2>1, FoundStays
  <2> QED
    BY <2>2, <2>3, <2>4, <2>5, <2>6, <2>7 DEF TablesAgree
<1> QED
  BY <1>5, <1>6

\* Every step keeps the invariant.
LEMMA TablesStep == TablesAgree /\ [Next]_vars => TablesAgree'
<1> SUFFICES ASSUME TablesAgree, [Next]_vars PROVE TablesAgree'
  OBVIOUS
<1>1. ASSUME NEW r \in Requests, Serves(r) PROVE TablesAgree'
  <2>1. {"crash", "exists", "error"} \subseteq Answers
    BY DEF Answers
  <2>2. CASE Test(r)
    BY <2>2, TestStep
  <2>3. CASE RoleNotLoaded(r)
    BY <2>1, <2>3, EndStep DEF RoleNotLoaded
  <2>4. CASE Insert(r)
    BY <2>4, InsertStep
  <2>5. CASE InsertFails(r)
    <3> DEFINE a == IF req[r].op = "submit_log" THEN "exists" ELSE "error"
    <3>1. a \in Answers /\ req' = [req EXCEPT ![r] = Ended(a)] /\ UNCHANGED <<table, role, creator, used>>
      BY <2>1, <2>5 DEF InsertFails
    <3> HIDE DEF a
    <3> QED
      BY <3>1, EndStep
  <2>6. CASE Remove(r)
    BY <2>6, RemoveStep
  <2> QED
    BY <1>1, <2>2, <2>3, <2>4, <2>5, <2>6 DEF Serves
<1>2. ASSUME NEW r \in Requests, NEW op \in Ops, NEW by \in Users, NEW u \in Users,
             NEW p \in Projects, NEW as \in Roles \cup {"unknown"}, Begin(r, op, by, p, u, as)
      PROVE  TablesAgree'
  BY <1>2, BeginStep
<1>3. CASE UNCHANGED vars
  <2>1. TypeOK' /\ UsersHaveRoles'
    BY <1>3 DEF TablesAgree, TypeOK, UsersHaveRoles, vars
  <2>2. RowsMatchRoles' /\ AccountsMatchCreators' /\ RowsAreReferenced'
    BY <1>3 DEF TablesAgree, RowsMatchRoles, AccountsMatchCreators, RowsAreReferenced, Manages, WorksOn, vars
  <2>3. TestsHold'
    BY <1>3 DEF TablesAgree, TestsHold, Found, RightRole, MayCreate, Running, vars
  <2> QED
    BY <2>1, <2>2, <2>3 DEF TablesAgree
<1> QED
  BY <1>1, <1>2, <1>3 DEF Next

-----------------------------------------------------------------------------
(* Answers: what was tested is still so, unless the request was disturbed. *)

TestNames == {"project", "access", "role", "owner", "row", "creator", "email", "manager",
              "worker", "log", "new"}

\* Every test has a name, and only attendance asks for worker and log.
LEMMA TestNamed ==
  ASSUME NEW q \in Calls, NEW k \in 1 .. Len(Tests[q.op])
  PROVE  /\ Tests[q.op][k] \in TestNames
         /\ Tests[q.op][k] \in {"worker", "log"} => q.op = "attend"
<1> USE DEF TestNames
<1>0. q.op \in Ops
  BY DEF Calls
<1> USE DEF Ops, OwnerOps
<1>1. CASE q.op \in {"assign_manager", "assign_worker"}
  <2>1. Tests[q.op] = <<"project", "access", "role">>
    BY <1>1 DEF Tests
  <2> QED
    BY <2>1
<1>2. CASE q.op = "register"
  <2>1. Tests[q.op] = <<"creator", "email">>
    BY <1>2 DEF Tests
  <2> QED
    BY <2>1
<1>3. CASE q.op = "attend"
  <2>1. Tests[q.op] = <<"manager", "worker", "log", "new">>
    BY <1>3 DEF Tests
  <2> QED
    BY <1>3, <2>1
<1>4. CASE q.op = "create_phase"
  <2>1. Tests[q.op] = <<"project", "access">>
    BY <1>4 DEF Tests
  <2> QED
    BY <2>1
<1>5. CASE q.op = "unassign_manager"
  <2>1. Tests[q.op] = <<"owner", "row">>
    BY <1>5 DEF Tests
  <2> QED
    BY <2>1
<1>6. CASE q.op = "unassign_worker"
  <2>1. Tests[q.op] = <<"row">>
    BY <1>6 DEF Tests
  <2> QED
    BY <2>1
<1>7. CASE q.op = "delete_project"
  <2>1. Tests[q.op] = <<"project">>
    BY <1>7 DEF Tests
  <2> QED
    BY <2>1
<1>8. CASE q.op = "submit_log"
  <2>1. Tests[q.op] = <<"access">>
    BY <1>8 DEF Tests
  <2> QED
    BY <2>1
<1>9. CASE q.op = "create_project"
  <2>1. Tests[q.op] = << >>
    BY <1>9 DEF Tests
  <2> QED
    BY <2>1
<1> QED
  BY <1>0, <1>1, <1>2, <1>3, <1>4, <1>5, <1>6, <1>7, <1>8, <1>9

\* What each test asks of the tables.
LEMMA PassesIs ==
  ASSUME NEW q
  PROVE  /\ Passes(q, "project") <=> <<"projects", q.p>> \in table
         /\ Passes(q, "access")  <=> role[q.by] = "owner" \/ Manages(q.by, q.p)
         /\ Passes(q, "role")    <=> RightRole(q)
         /\ Passes(q, "owner")   <=> role[q.by] = "owner"
         /\ Passes(q, "row")     <=> Target(q) \in table
         /\ Passes(q, "creator") <=> MayCreate(q)
         /\ Passes(q, "manager") <=> (role[q.by] = "project_manager" => Manages(q.by, q.p))
         /\ Passes(q, "worker")  <=> WorksOn(q.u, q.p)
         /\ Passes(q, "log")     <=> <<"daily_logs", q.p>> \in table
         /\ Passes(q, "email")   <=> Target(q) \notin table
         /\ Passes(q, "new")     <=> Target(q) \notin table
BY DEF Passes

LEMMA NextPassesIs ==
  ASSUME NEW q
  PROVE  /\ Passes(q, "project")' <=> <<"projects", q.p>> \in table'
         /\ Passes(q, "access")'  <=> role'[q.by] = "owner" \/ Manages(q.by, q.p)'
         /\ Passes(q, "role")'    <=> RightRole(q)'
         /\ Passes(q, "owner")'   <=> role'[q.by] = "owner"
         /\ Passes(q, "row")'     <=> Target(q) \in table'
         /\ Passes(q, "creator")' <=> MayCreate(q)'
         /\ Passes(q, "manager")' <=> (role'[q.by] = "project_manager" => Manages(q.by, q.p)')
         /\ Passes(q, "worker")'  <=> WorksOn(q.u, q.p)'
         /\ Passes(q, "log")'     <=> <<"daily_logs", q.p>> \in table'
         /\ Passes(q, "email")'   <=> Target(q) \notin table'
         /\ Passes(q, "new")'     <=> Target(q) \notin table'
BY DEF Passes, Target

\* A row that does not concern a request leaves its tests as they are.
LEMMA PassesStays ==
  ASSUME NEW q \in Calls, NEW row, ~Concerns(q, row),
         \A other : other # row => (other \in table' <=> other \in table),
         role'[q.by] = role[q.by], role'[q.u] = role[q.u],
         NEW t \in TestNames, t \in {"worker", "log"} => q.op = "attend"
  PROVE  Passes(q, t)' <=> Passes(q, t)
<1>1. /\ Target(q) # row /\ <<"projects", q.p>> # row
      /\ <<"project_assignments", q.p, q.by>> # row
      /\ q.op = "attend" => <<"worker_assignments", q.p, q.u>> # row
                            /\ <<"daily_logs", q.p>> # row
  BY DEF Concerns
<1>2. CASE t \in {"project", "access", "owner", "manager"}
  BY <1>1, <1>2, PassesIs, NextPassesIs DEF Manages
<1>3. CASE t \in {"row", "email", "new"}
  BY <1>1, <1>3, PassesIs, NextPassesIs
<1>4. CASE t \in {"role", "creator"}
  BY <1>4, PassesIs, NextPassesIs DEF RightRole, MayCreate
<1>5. CASE t \in {"worker", "log"}
  BY <1>1, <1>5, PassesIs, NextPassesIs DEF WorksOn
<1> QED
  BY <1>2, <1>3, <1>4, <1>5 DEF TestNames

\* StillPasses of what a request has become.
LEMMA StillPassesNext ==
  ASSUME NEW s, NEW n, req'[s] = n,
         \A k \in 1 .. Len(Tests[n.op]) : k < n.step => Passes(n, Tests[n.op][k])'
  PROVE  StillPasses(req[s])'
<1>1. ASSUME NEW t PROVE Passes(n, t)' => Passes(req[s], t)'
  BY DEF Passes, Target, RightRole, MayCreate, Manages, WorksOn
<1>2. \A k \in 1 .. Len(Tests[n.op]) : k < n.step => Passes(req[s], Tests[n.op][k])'
  BY <1>1
<1> QED
  BY <1>2 DEF StillPasses

\* A request that stays where it is keeps what it has tested.
LEMMA StillThere ==
  ASSUME TypeOK, NEW s \in Requests, Running(s), StillPasses(req[s]), req'[s] = req[s],
         NEW q \in Calls, q = req[s],
         \A t \in TestNames : (t \in {"worker", "log"} => q.op = "attend") /\ Passes(q, t)
                                => Passes(q, t)'
  PROVE  StillPasses(req[s])'
<1>1. \A k \in 1 .. Len(Tests[q.op]) : k < q.step => Passes(q, Tests[q.op][k])
  BY DEF StillPasses
<1>2. \A k \in 1 .. Len(Tests[q.op]) : k < q.step => Passes(q, Tests[q.op][k])'
  BY <1>1, TestNamed
<1>3. req'[s] = q
  OBVIOUS
<1> QED
  BY <1>2, <1>3, StillPassesNext

\* A commit leaves the tests of those it does not concern as they are: a new
\* account is the only one whose role changes.
LEMMA StillAfterCommit ==
  ASSUME TablesAgree, NEW r \in Requests, NEW s \in Requests, NEW row, NEW a \in Answers,
         Disturb(r, row, a), Running(s)', ~req'[s].disturbed,
         Running(s) /\ ~req[s].disturbed => StillPasses(req[s]),
         table' = table \cup {row} \/ table' = table \ {row},
         \A x \in Users : role'[x] = role[x] \/ (role[x] = "none" /\ row = <<"users", x>>)
  PROVE  StillPasses(req[s])'
<1>1. /\ s # r /\ Running(s)
      /\ IF Concerns(req[s], row) THEN req'[s] = [req[s] EXCEPT !.disturbed = TRUE]
                                  ELSE req'[s] = req[s]
  BY DEF Disturb, Running, Ended, Answers
<1>2. req[s] \in Calls
  BY <1>1, RunningIsCall DEF TablesAgree
<1>3. req'[s] = req[s] /\ ~Concerns(req[s], row) /\ ~req[s].disturbed
  BY <1>1, <1>2 DEF Calls
<1>4. PICK q \in Calls : q = req[s]
  BY <1>2
<1>5. q.by \in Users /\ q.u \in Users
  BY DEF Calls
<1>6. role[q.by] \in Roles
  BY <1>1, <1>4 DEF TablesAgree, TestsHold, Found, Allowed, Roles
<1>7. role'[q.by] = role[q.by]
  BY <1>5, <1>6 DEF Roles
<1>8. <<"users", q.u>> # row
  BY <1>3, <1>4 DEF Concerns
<1>9. role'[q.u] = role[q.u]
  BY <1>5, <1>8
<1>10. \A other : other # row => (other \in table' <=> other \in table)
  OBVIOUS
<1>11. \A t \in TestNames : (t \in {"worker", "log"} => q.op = "attend") /\ Passes(q, t)
                              => Passes(q, t)'
  BY <1>3, <1>4, <1>7, <1>9, <1>10, PassesStays
<1> QED
  BY <1>1, <1>3, <1>4, <1>11, StillThere DEF TablesAgree

\* Without a commit nothing that was tested changes.
LEMMA StillWithoutCommit ==
  ASSUME TablesAgree, NEW s \in Requests, Running(s), StillPasses(req[s]),
         req'[s] = req[s], UNCHANGED <<table, role>>
  PROVE  StillPasses(req[s])'
<1>1. PICK q \in Calls : q = req[s]
  BY RunningIsCall DEF TablesAgree
<1>2. \A t \in TestNames : Passes(q, t) => Passes(q, t)'
  BY PassesIs, NextPassesIs DEF TestNames, Manages, WorksOn, RightRole, MayCreate
<1> QED
  BY <1>1, <1>2, StillThere DEF TablesAgree

\* A commit of r, insertion or removal, as the others see it.
LEMMA Commits ==
  ASSUME TablesAgree, NEW r \in Requests, Insert(r) \/ (Remove(r) /\ Deletable(Target(req[r])))
  PROVE  /\ Disturb(r, Target(req[r]), "done") /\ "done" \in Answers
         /\ table' = table \cup {Target(req[r])} \/ table' = table \ {Target(req[r])}
         /\ \A x \in Users : \/ role'[x] = role[x]
                             \/ role[x] = "none" /\ Target(req[r]) = <<"users", x>>
<1>0. "done" \in Answers /\ role \in [Users -> Roles \cup {"none"}]
  BY DEF Answers, TablesAgree, TypeOK
<1>1. CASE Remove(r) /\ Deletable(Target(req[r]))
  BY <1>0, <1>1 DEF Remove
<1>2. CASE Insert(r) /\ req[r].op # "register"
  BY <1>0, <1>2 DEF Insert
<1>3. CASE Insert(r) /\ req[r].op = "register"
  <2>1. req[r].u \in Users
    BY <1>3, RunningIsCall DEF Insert, TablesAgree, Calls
  <2>2. Target(req[r]) = <<"users", req[r].u>> /\ <<"users", req[r].u>> \notin table
    BY <1>3 DEF Insert, Target, Insertable
  <2>3. role[req[r].u] = "none"
    BY <2>1, <2>2 DEF TablesAgree, UsersHaveRoles
  <2>4. \A x \in Users \ {req[r].u} : role'[x] = role[x]
    BY <1>0, <1>3 DEF Insert
  <2> QED
    BY <1>0, <1>3, <2>2, <2>3, <2>4 DEF Insert
<1> QED
  BY <1>1, <1>2, <1>3

LEMMA StillStep == TablesAgree /\ TestsStillPass /\ [Next]_vars => TestsStillPass'
<1> SUFFICES ASSUME TablesAgree, TestsStillPass, [Next]_vars, NEW s \in Requests,
                    Running(s)', ~req'[s].disturbed
             PROVE  StillPasses(req[s])'
  BY DEF TestsStillPass
<1>0. /\ req \in [Requests -> Calls \cup [at : Answers]]
      /\ Running(s) /\ ~req[s].disturbed => StillPasses(req[s])
  BY DEF TablesAgree, TypeOK, TestsStillPass
<1>1. CASE req'[s] = req[s] /\ UNCHANGED <<table, role>>
  BY <1>0, <1>1, StillWithoutCommit DEF Running
<1>2. ASSUME NEW r \in Requests, NEW X, req' = [req EXCEPT ![r] = X],
             UNCHANGED <<table, role>>, X.at # "running"
      PROVE  StillPasses(req[s])'
  <2>1. s # r
    BY <1>0, <1>2 DEF Running
  <2> QED
    BY <1>0, <1>1, <1>2, <2>1
<1>3. ASSUME NEW r \in Requests,
             Insert(r) \/ (Remove(r) /\ Deletable(Target(req[r])))
      PROVE  StillPasses(req[s])'
  BY <1>0, <1>3, Commits, StillAfterCommit
<1>4. ASSUME NEW r \in Requests,
             RoleNotLoaded(r) \/ InsertFails(r) \/ (Remove(r) /\ ~Deletable(Target(req[r])))
      PROVE  StillPasses(req[s])'
  <2>1. PICK a \in {"crash", "exists", "error"} : req' = [req EXCEPT ![r] = Ended(a)]
    BY <1>4 DEF RoleNotLoaded, InsertFails, Remove
  <2>2. Ended(a).at # "running" /\ UNCHANGED <<table, role>>
    BY <1>4 DEF Ended, RoleNotLoaded, InsertFails, Remove
  <2> QED
    BY <1>2, <2>1, <2>2
<1>5. ASSUME NEW r \in Requests, Test(r)
      PROVE  StillPasses(req[s])'
  <2>1. CASE s # r
    BY <1>0, <1>1, <1>5, <2>1 DEF Test
  <2>2. CASE s = r
    <3> DEFINE X == [req[s] EXCEPT !.step = @ + 1]
    <3>1. Running(s) /\ UNCHANGED <<table, role>>
      BY <1>5, <2>2 DEF Test
    <3>2. PICK q \in Calls : q = req[s]
      BY <3>1, RunningIsCall DEF TablesAgree
    <3>3. req'[s] = [q EXCEPT !.step = @ + 1] /\ Passes(q, Tests[q.op][q.step])
      <4>1. CASE ~Passes(q, Tests[q.op][q.step])
        <5>1. req'[s] = Ended("refused")
          BY <1>0, <1>5, <2>2, <3>2, <4>1 DEF Test
        <5> QED
          BY <5>1 DEF Ended, Running
      <4> QED
        BY <1>0, <1>5, <2>2, <3>2, <4>1 DEF Test
    <3>4. PICK n : n = [q EXCEPT !.step = @ + 1]
      OBVIOUS
    <3>5. /\ n.op = q.op /\ n.by = q.by /\ n.p = q.p /\ n.u = q.u /\ n.as = q.as
          /\ n.step = q.step + 1 /\ n.disturbed = q.disturbed /\ q.step \in 1 .. 5
      BY <3>4 DEF Calls
    <3>6. StillPasses(q)
      BY <1>0, <3>1, <3>2, <3>3, <3>4, <3>5
    <3>7. ASSUME NEW k \in 1 .. Len(Tests[q.op]), k < n.step
          PROVE  Passes(q, Tests[q.op][k])
      <4>1. k < q.step \/ k = q.step
        BY <3>5, <3>7
      <4> QED
        BY <3>3, <3>6, <4>1 DEF StillPasses
    <3>8. ASSUME NEW t PROVE Passes(q, t) => Passes(n, t)'
      BY <3>1, <3>5 DEF Passes, Target, RightRole, MayCreate, Manages, WorksOn
    <3>9. \A k \in 1 .. Len(Tests[n.op]) : k < n.step => Passes(n, Tests[n.op][k])'
      BY <3>5, <3>7, <3>8
    <3>10. req'[s] = n
      BY <3>3, <3>4
    <3> QED
      BY <3>9, <3>10, StillPassesNext
  <2> QED
    BY <2>1, <2>2
<1>6. ASSUME NEW r \in Requests, NEW op \in Ops, NEW by \in Users, NEW u \in Users,
             NEW p \in Projects, NEW as \in Roles \cup {"unknown"}, Begin(r, op, by, p, u, as)
      PROVE  StillPasses(req[s])'
  <2>1. CASE s # r
    BY <1>0, <1>1, <1>6, <2>1 DEF Begin
  <2>2. CASE s = r
    <3>1. req'[s].step = 1
      BY <1>0, <1>6, <2>2 DEF Begin
    <3> QED
      BY <3>1 DEF StillPasses
  <2> QED
    BY <2>1, <2>2
<1>7. CASE UNCHANGED vars
  BY <1>1, <1>7 DEF vars
<1> QED
  BY <1>3, <1>4, <1>5, <1>6, <1>7 DEF Next, Serves

-----------------------------------------------------------------------------
(* Ids of projects.                                                        *)

\* Only a create and a delete are about the row of a project.
LEMMA ProjectTarget ==
  ASSUME NEW q \in Calls, NEW p \in Projects, <<"projects", p>> = Target(q)
  PROVE  q.op \in {"create_project", "delete_project"} /\ q.p = p
<1> USE DEF Calls, Ops, OwnerOps
<1>1. CASE q.op = "register"
  BY <1>1 DEF Target
<1>2. CASE q.op \in {"create_project", "delete_project"}
  BY <1>2 DEF Target
<1>3. CASE q.op = "create_phase"
  BY <1>3 DEF Target
<1>4. CASE q.op = "submit_log"
  BY <1>4 DEF Target
<1>5. CASE q.op \in {"assign_manager", "unassign_manager"}
  BY <1>5 DEF Target
<1>6. CASE q.op \in {"assign_worker", "unassign_worker"}
  BY <1>6 DEF Target
<1>7. CASE q.op = "attend"
  BY <1>7 DEF Target
<1> QED
  BY <1>1, <1>2, <1>3, <1>4, <1>5, <1>6, <1>7

\* A request under way goes on with its call or has just begun.
LEMMA CallStays ==
  ASSUME TablesAgree, [Next]_vars, NEW s \in Requests, Running(s)'
  PROVE  \/ Running(s) /\ req'[s].op = req[s].op /\ req'[s].p = req[s].p
         \/ \E op \in Ops, by, u \in Users, p \in Projects, as \in Roles \cup {"unknown"} :
              Begin(s, op, by, p, u, as)
<1>0. req \in [Requests -> Calls \cup [at : Answers]]
  BY DEF TablesAgree, TypeOK
<1>1. CASE req'[s] = req[s]
  BY <1>1 DEF Running
<1>2. ASSUME NEW r \in Requests, NEW a, req' = [req EXCEPT ![r] = Ended(a)],
             a \in Answers
      PROVE  Running(s) /\ req'[s].op = req[s].op /\ req'[s].p = req[s].p
  BY <1>0, <1>2 DEF Ended, Running, Answers
<1>3. ASSUME NEW r \in Requests,
             Insert(r) \/ (Remove(r) /\ Deletable(Target(req[r])))
      PROVE  Running(s) /\ req'[s].op = req[s].op /\ req'[s].p = req[s].p
  <2>1. Disturb(r, Target(req[r]), "done")
    BY <1>3, Commits
  <2>2. /\ s # r /\ Running(s)
        /\ req'[s] = [req[s] EXCEPT !.disturbed = TRUE] \/ req'[s] = req[s]
    BY <2>1 DEF Disturb, Running, Ended, Answers
  <2>3. req[s] \in Calls
    BY <2>2, RunningIsCall DEF TablesAgree
  <2> QED
    BY <2>2, <2>3 DEF Calls
<1>4. ASSUME NEW r \in Requests,
             RoleNotLoaded(r) \/ InsertFails(r) \/ (Remove(r) /\ ~Deletable(Target(req[r])))
      PROVE  Running(s) /\ req'[s].op = req[s].op /\ req'[s].p = req[s].p
  <2>1. \E a \in {"crash", "exists", "error"} : req' = [req EXCEPT ![r] = Ended(a)]
    BY <1>4 DEF RoleNotLoaded, InsertFails, Remove
  <2> QED
    BY <1>2, <2>1 DEF Answers
<1>5. ASSUME NEW r \in Requests, Test(r)
      PROVE  Running(s) /\ req'[s].op = req[s].op /\ req'[s].p = req[s].p
  <2>0. Running(r) /\ req[r] \in Calls
    BY <1>5, RunningIsCall DEF TablesAgree, Test
  <2>1. CASE s # r
    BY <1>0, <1>1, <1>5, <2>1 DEF Test, Running
  <2>2. CASE s = r /\ Passes(req[r], Tests[req[r].op][req[r].step])
    BY <1>0, <1>5, <2>0, <2>2 DEF Test, Calls
  <2>3. CASE s = r /\ ~Passes(req[r], Tests[req[r].op][req[r].step])
    <3>1. req'[s] = Ended("refused")
      BY <1>0, <1>5, <2>3 DEF Test
    <3> QED
      BY <3>1 DEF Ended, Running
  <2> QED
    BY <2>1, <2>2, <2>3
<1>6. ASSUME NEW r \in Requests, NEW op \in Ops, NEW by \in Users, NEW u \in Users,
             NEW p \in Projects, NEW as \in Roles \cup {"unknown"}, Begin(r, op, by, p, u, as)
      PROVE  r = s \/ (Running(s) /\ req'[s].op = req[s].op /\ req'[s].p = req[s].p)
  BY <1>0, <1>1, <1>6 DEF Begin, Running
<1>7. CASE UNCHANGED vars
  BY <1>1, <1>7 DEF vars
<1> QED
  BY <1>3, <1>4, <1>5, <1>6, <1>7 DEF Next, Serves

\* Which rows of projects a step leaves, and which ids it has given out.
LEMMA ProjectRows ==
  ASSUME TablesAgree, [Next]_vars, NEW p \in Projects
  PROVE  /\ p \in used => p \in used'
         /\ <<"projects", p>> \in table' /\ <<"projects", p>> \notin table =>
              \E r \in Requests : Creates(r) /\ req[r].p = p /\ ~Running(r)'
<1>1. ASSUME NEW r \in Requests, Insert(r), <<"projects", p>> \in table',
             <<"projects", p>> \notin table
      PROVE  Creates(r) /\ req[r].p = p /\ ~Running(r)'
  <2>1. Running(r) /\ req[r] \in Calls /\ req[r].op \notin Removals
    BY <1>1, RunningIsCall DEF TablesAgree, Insert
  <2>2. <<"projects", p>> = Target(req[r])
    BY <1>1 DEF Insert
  <2>3. req'[r] = Ended("done")
    BY <1>1 DEF Insert, Disturb
  <2>4. Creates(r) /\ req[r].p = p
    BY <2>1, <2>2, ProjectTarget DEF Removals, Creates
  <2> QED
    BY <2>3, <2>4 DEF Ended, Running
<1>2. ASSUME NEW r \in Requests, NEW op \in Ops, NEW by \in Users, NEW u \in Users,
             NEW x \in Projects, NEW as \in Roles \cup {"unknown"}, Begin(r, op, by, x, u, as)
      PROVE  (p \in used => p \in used') /\ table' = table
  BY <1>2 DEF Begin
<1>3. ASSUME NEW r \in Requests, Serves(r)
      PROVE  used' = used
  BY <1>3 DEF Serves, Test, RoleNotLoaded, Insert, InsertFails, Remove
<1>4. ASSUME NEW r \in Requests, Serves(r), ~Insert(r)
      PROVE  table' \subseteq table
  BY <1>4 DEF Serves, Test, RoleNotLoaded, Insert, InsertFails, Remove
<1>5. CASE UNCHANGED vars
  BY <1>5 DEF vars
<1> QED
  BY <1>1, <1>2, <1>3, <1>4, <1>5 DEF Next

LEMMA IdsStep == TablesAgree /\ IdsGivenOnce /\ [Next]_vars => IdsGivenOnce'
<1> SUFFICES ASSUME TablesAgree, IdsGivenOnce, [Next]_vars PROVE IdsGivenOnce'
  OBVIOUS
<1>0. req \in [Requests -> Calls \cup [at : Answers]]
  BY DEF TablesAgree, TypeOK
<1>1. ASSUME NEW p \in Projects, <<"projects", p>> \in table' PROVE p \in used'
  BY <1>1, ProjectRows DEF IdsGivenOnce
<1>2. ASSUME NEW r \in Requests, NEW op \in Ops, NEW by \in Users, NEW u \in Users,
             NEW p \in Projects, NEW as \in Roles \cup {"unknown"}, Begin(r, op, by, p, u, as),
             Creates(r)'
      PROVE  /\ req'[r].p = p /\ p \notin used /\ p \in used'
             /\ table' = table /\ \A s \in Requests \ {r} : req'[s] = req[s]
  <2>1. op = "create_project" /\ req'[r].p = p
    BY <1>0, <1>2 DEF Begin, Creates
  <2> QED
    BY <1>0, <1>2, <2>1 DEF Begin
<1>3. ASSUME NEW r \in Requests, Creates(r)'
      PROVE  /\ req'[r].p \in used' /\ <<"projects", req'[r].p>> \notin table'
             /\ \A s \in Requests : Creates(s)' /\ req'[s].p = req'[r].p => s = r
  <2>0. Running(r)'
    BY <1>3 DEF Creates
  <2>1. CASE \E op \in Ops, by, u \in Users, p \in Projects, as \in Roles \cup {"unknown"} :
               Begin(r, op, by, p, u, as)
    <3>1. PICK p \in Projects :
            /\ req'[r].p = p /\ p \notin used /\ p \in used'
            /\ table' = table /\ \A s \in Requests \ {r} : req'[s] = req[s]
      BY <1>2, <1>3, <2>1
    <3>2. <<"projects", p>> \notin table'
      BY <3>1 DEF IdsGivenOnce
    <3>3. ASSUME NEW s \in Requests \ {r}, Creates(s)' PROVE req'[s].p # p
      <4>1. Creates(s) /\ req'[s].p = req[s].p
        BY <3>1, <3>3 DEF Creates, Running
      <4> QED
        BY <3>1, <4>1 DEF IdsGivenOnce
    <3> QED
      BY <3>1, <3>2, <3>3
  <2>2. CASE Running(r) /\ req'[r].op = req[r].op /\ req'[r].p = req[r].p
    <3>1. Creates(r) /\ req[r] \in Calls
      BY <1>3, <2>2, RunningIsCall DEF Creates, TablesAgree
    <3>2. PICK p \in Projects : req[r].p = p
      BY <3>1 DEF Calls
    <3>3. /\ p \in used /\ <<"projects", p>> \notin table
          /\ \A s \in Requests : Creates(s) /\ req[s].p = p => s = r
      BY <3>1, <3>2 DEF IdsGivenOnce
    <3>4. p \in used' /\ <<"projects", p>> \notin table'
      BY <2>0, <3>3, ProjectRows
    <3>5. ASSUME NEW s \in Requests, Creates(s)', req'[s].p = p PROVE s = r
      <4>1. Running(s)'
        BY <3>5 DEF Creates
      <4>2. CASE Running(s) /\ req'[s].op = req[s].op /\ req'[s].p = req[s].p
        <5>1. Creates(s) /\ req[s].p = p
          BY <3>5, <4>2 DEF Creates
        <5> QED
          BY <3>3, <5>1
      <4>3. CASE \E op \in Ops, by, u \in Users, x \in Projects,
                    as \in Roles \cup {"unknown"} : Begin(s, op, by, x, u, as)
        <5>1. req'[s].p \notin used
          BY <1>2, <3>5, <4>3
        <5> QED
          BY <3>3, <3>5, <5>1
      <4> QED
        BY <4>1, <4>2, <4>3, CallStays
    <3> QED
      BY <2>2, <3>2, <3>4, <3>5
  <2> QED
    BY <2>0, <2>1, <2>2, CallStays
<1> QED
  BY <1>1, <1>3 DEF IdsGivenOnce

\* The seeded users and nothing under way.
LEMMA InitIInv == Init => IInv
<1>1. Init => TestsStillPass
  BY DEF Init, TestsStillPass, Running, Free, Ended
<1>2. Init => IdsGivenOnce
  BY DEF Init, IdsGivenOnce, Creates, Running, Free, Ended
<1> QED
  BY <1>1, <1>2, InitTables DEF IInv

LEMMA NextStep == IInv /\ [Next]_vars => IInv'
BY TablesStep, StillStep, IdsStep DEF IInv

\* Tables, roles and requests agree in every reachable state: services.project,
\* services.auth and services.attendance test in steps what they commit in another one.
THEOREM Invariance == Spec => []IInv
  BY InitIInv, NextStep, PTL DEF Spec

\* Only project managers are assigned as managers, only site workers as workers or given
\* attendance, whatever runs between the test of the role and the commit.
THEOREM RolesMatch == Spec => []RowsMatchRoles
<1>1. IInv => RowsMatchRoles
  BY DEF IInv, TablesAgree
<1> QED
  BY Invariance, <1>1, PTL

\* register_user: no owner is made, and a manager makes site workers only.
THEOREM CreatorsMatch == Spec => []AccountsMatchCreators
<1>1. IInv => AccountsMatchCreators
  BY DEF IInv, TablesAgree
<1> QED
  BY Invariance, <1>1, PTL

\* delete_project and the unassignments leave no row that refers to what went.
THEOREM NoOrphans == Spec => []RowsAreReferenced
<1>1. IInv => RowsAreReferenced
  BY DEF IInv, TablesAgree
<1> QED
  BY Invariance, <1>1, PTL

-----------------------------------------------------------------------------
(* Answers: whoever was not disturbed is answered as if alone.             *)

\* A request ends by a step of its own.
LEMMA EndsItself ==
  ASSUME TypeOK, [Next]_vars, NEW r \in Requests, Ends(r)
  PROVE  Serves(r)
<1>0. /\ req \in [Requests -> Calls \cup [at : Answers]]
      /\ Running(r) /\ req'[r].at \in Answers /\ req'[r] # req[r]
  BY DEF TypeOK, Ends, Running, Answers
<1>1. ASSUME NEW s \in Requests, s # r, NEW n, req' = [req EXCEPT ![s] = n]
      PROVE  FALSE
  BY <1>0, <1>1
<1>2. ASSUME NEW s \in Requests, s # r, NEW row, NEW a, Disturb(s, row, a)
      PROVE  FALSE
  <2>1. req[r] \in Calls
    BY <1>0, RunningIsCall
  <2>2. req'[r] = [req[r] EXCEPT !.disturbed = TRUE] \/ req'[r] = req[r]
    BY <1>2 DEF Disturb
  <2>3. req'[r].at = "running"
    BY <1>0, <2>1, <2>2 DEF Calls
  <2> QED
    BY <1>0, <2>3 DEF Answers
<1>3. ASSUME NEW s \in Requests, s # r, Serves(s)
      PROVE  FALSE
  <2>1. CASE Test(s)
    BY <1>1, <1>3, <2>1 DEF Test
  <2>2. CASE RoleNotLoaded(s)
    BY <1>1, <1>3, <2>2 DEF RoleNotLoaded
  <2>3. CASE Insert(s)
    BY <1>2, <1>3, <2>3 DEF Insert
  <2>4. CASE InsertFails(s)
    BY <1>1, <1>3, <2>4 DEF InsertFails
  <2>5. CASE Remove(s)
    BY <1>1, <1>2, <1>3, <2>5 DEF Remove
  <2> QED
    BY <1>3, <2>1, <2>2, <2>3, <2>4, <2>5 DEF Serves
<1>4. ASSUME NEW s \in Requests, ~Running(s), NEW op \in Ops, NEW by \in Users, NEW u \in Users,
             NEW p \in Projects, NEW as \in Roles \cup {"unknown"}, Begin(s, op, by, p, u, as)
      PROVE  FALSE
  BY <1>0, <1>1, <1>4 DEF Begin
<1> QED
  BY <1>0, <1>3, <1>4 DEF Next, vars

\* What a request that ends has found, and how it is answered.
LEMMA HowItEnds ==
  ASSUME TypeOK, [Next]_vars, NEW r \in Requests, Ends(r), NEW q \in Calls, q = req[r]
  PROVE  \/ /\ q.step \in 1 .. Len(Tests[q.op]) /\ ~Passes(q, Tests[q.op][q.step])
            /\ req'[r].at = "refused"
         \/ req'[r].at = "crash"
         \/ /\ Tested(q) /\ q.op \notin Removals
            /\ Insertable(Target(q)) /\ (q.op = "register" => q.as \in Roles)
            /\ req'[r].at = "done"
         \/ /\ Tested(q) /\ q.op \notin Removals
            /\ ~(Insertable(Target(q)) /\ (q.op = "register" => q.as \in Roles))
            /\ req'[r].at = IF q.op = "submit_log" THEN "exists" ELSE "error"
         \/ /\ Tested(q) /\ q.op \in Removals
            /\ req'[r].at = IF Deletable(Target(q)) THEN "done" ELSE "error"
<1>0. /\ req \in [Requests -> Calls \cup [at : Answers]]
      /\ Running(r) /\ req'[r].at \in Answers
  BY DEF TypeOK, Ends
<1>1. CASE Test(r)
  <2>1. q.step \in 1 .. Len(Tests[q.op])
    BY <1>1, TestsOf DEF Test, Tested, Calls
  <2>2. ~Passes(q, Tests[q.op][q.step])
    <3> SUFFICES ASSUME Passes(q, Tests[q.op][q.step]) PROVE FALSE
      OBVIOUS
    <3>1. req'[r] = [q EXCEPT !.step = @ + 1]
      BY <1>0, <1>1 DEF Test
    <3>2. req'[r].at = "running"
      BY <3>1 DEF Calls
    <3> QED
      BY <1>0, <3>2 DEF Answers
  <2>3. req'[r] = Ended("refused")
    BY <1>0, <1>1, <2>2 DEF Test
  <2> QED
    BY <2>1, <2>2, <2>3 DEF Ended
<1>2. CASE RoleNotLoaded(r)
  BY <1>0, <1>2 DEF RoleNotLoaded, Ended
<1>3. CASE Insert(r)
  <2>1. req'[r] = Ended("done")
    BY <1>3 DEF Insert, Disturb
  <2> QED
    BY <1>3, <2>1 DEF Insert, Ended
<1>4. CASE InsertFails(r)
  <2>1. req'[r] = Ended(IF q.op = "submit_log" THEN "exists" ELSE "error")
    BY <1>0, <1>4 DEF InsertFails
  <2>2. /\ Tested(q) /\ q.op \notin Removals
        /\ ~(Insertable(Target(q)) /\ (q.op = "register" => q.as \in Roles))
    BY <1>4 DEF InsertFails
  <2> QED
    BY <2>1, <2>2 DEF Ended
<1>5. CASE Remove(r)
  <2>1. req'[r] = Ended(IF Deletable(Target(q)) THEN "done" ELSE "error")
    BY <1>0, <1>5 DEF Remove, Disturb
  <2>2. Tested(q) /\ q.op \in Removals
    BY <1>5 DEF Remove
  <2> QED
    BY <2>1, <2>2 DEF Ended
<1> QED
  BY <1>1, <1>2, <1>3, <1>4, <1>5, EndsItself DEF Serves

\* All that an undisturbed request has tested still holds when it has tested everything.
LEMMA AllPass ==
  ASSUME IInv, NEW r \in Requests, Running(r), ~req[r].disturbed, NEW q \in Calls, q = req[r],
         Tested(q)
  PROVE  \A k \in 1 .. Len(Tests[q.op]) : Passes(q, Tests[q.op][k])
<1>1. \A k \in 1 .. Len(Tests[q.op]) : k < q.step
  BY TestsOf DEF Tested, Calls
<1> QED
  BY <1>1 DEF IInv, TestsStillPass, StillPasses

\* The routers of services.project, services.auth, services.attendance and
\* services.daily_log: a request that nobody disturbed between its tests and its commit is
\* answered as one step would have answered it, or crashes.
LEMMA SerialStep ==
  ASSUME IInv, [Next]_vars, NEW r \in Requests, Ends(r), ~req[r].disturbed
  PROVE  req'[r].at \in {Serial(req[r]), "crash"}
<1>1. TypeOK /\ Running(r)
  BY DEF IInv, TablesAgree, Ends
<1>2. PICK q \in Calls : q = req[r]
  BY <1>1, RunningIsCall
<1>3. CASE q.step \in 1 .. Len(Tests[q.op]) /\ ~Passes(q, Tests[q.op][q.step])
           /\ req'[r].at = "refused"
  <2>1. Serial(q) = "refused"
    BY <1>3 DEF Serial
  <2> QED
    BY <1>2, <1>3, <2>1
<1>4. CASE Tested(q)
  <2>1. \A k \in 1 .. Len(Tests[q.op]) : Passes(q, Tests[q.op][k])
    BY <1>1, <1>2, <1>4, AllPass
  <2>2. Serial(q) =
          IF q.op \in Removals THEN (IF Deletable(Target(q)) THEN "done" ELSE "error")
          ELSE IF Insertable(Target(q)) /\ (q.op = "register" => q.as \in Roles) THEN "done"
          ELSE IF q.op = "submit_log" THEN "exists" ELSE "error"
    BY <2>1 DEF Serial
  <2>3. CASE req'[r].at = Serial(q)
    BY <1>2, <2>3
  <2>4. CASE req'[r].at = "crash"
    BY <2>4
  <2>5. CASE q.step \in 1 .. Len(Tests[q.op]) /\ ~Passes(q, Tests[q.op][q.step])
    BY <2>1, <2>5
  <2> QED
    BY <1>1, <1>2, <2>2, <2>3, <2>4, <2>5, HowItEnds
<1> QED
  BY <1>1, <1>2, <1>3, <1>4, HowItEnds

\* The tests of the operations that insert and that no constraint may then refuse.
LEMMA TestsBeforeInsert ==
  /\ Len(Tests["create_phase"]) = 2 /\ Tests["create_phase"][1] = "project"
  /\ Len(Tests["register"]) = 2 /\ Tests["register"][2] = "email"
  /\ Len(Tests["attend"]) = 4 /\ Tests["attend"][2] = "worker"
  /\ Tests["attend"][3] = "log" /\ Tests["attend"][4] = "new"
<1>1. Tests["create_phase"] = <<"project", "access">>
  BY DEF Tests, Ops, OwnerOps
<1>2. Tests["register"] = <<"creator", "email">>
  BY DEF Tests, Ops, OwnerOps
<1>3. Tests["attend"] = <<"manager", "worker", "log", "new">>
  BY DEF Tests, Ops, OwnerOps
<1>4. Len(<<"project", "access">>) = 2 /\ <<"project", "access">>[1] = "project"
  OBVIOUS
<1>5. Len(<<"creator", "email">>) = 2 /\ <<"creator", "email">>[2] = "email"
  OBVIOUS
<1>6. /\ Len(<<"manager", "worker", "log", "new">>) = 4
      /\ <<"manager", "worker", "log", "new">>[2] = "worker"
      /\ <<"manager", "worker", "log", "new">>[3] = "log"
      /\ <<"manager", "worker", "log", "new">>[4] = "new"
  OBVIOUS
<1> QED
  BY <1>1, <1>2, <1>3, <1>4, <1>5, <1>6, Zenon

\* What has passed its tests can be inserted, a second assignment and a log apart.
LEMMA TestedIsInsertable ==
  ASSUME IInv, NEW r \in Requests, Running(r), ~req[r].disturbed, NEW q \in Calls, q = req[r],
         Tested(q), q.op \in {"create_project", "create_phase", "register", "attend"}
  PROVE  Insertable(Target(q))
<1>1. \A k \in 1 .. Len(Tests[q.op]) : Passes(q, Tests[q.op][k])
  BY AllPass
<1>2. CASE q.op = "create_project"
  <2>1. Target(q) = <<"projects", q.p>>
    BY <1>2 DEF Target
  <2>2. <<"projects", q.p>> \notin table
    BY <1>2 DEF IInv, IdsGivenOnce, Creates
  <2>3. References(<<"projects", q.p>>) = {}
    BY DEF References, Linked, Owned
  <2> QED
    BY <2>1, <2>2, <2>3 DEF Insertable
<1>3. CASE q.op = "create_phase"
  <2>1. Target(q) = <<"project_phases", q.p>>
    BY <1>3 DEF Target
  <2>2. <<"projects", q.p>> \in table
    <3>1. Passes(q, "project")
      BY <1>1, <1>3, TestsBeforeInsert
    <3> QED
      BY <3>1, PassesIs
  <2>3. References(<<"project_phases", q.p>>) = {<<"projects", q.p>>}
    BY DEF References, Linked, Owned
  <2> QED
    BY <2>1, <2>2, <2>3 DEF Insertable
<1>4. CASE q.op = "register"
  <2>1. Target(q) = <<"users", q.u>>
    BY <1>4 DEF Target
  <2>2. Target(q) \notin table
    <3>1. Passes(q, "email")
      BY <1>1, <1>4, TestsBeforeInsert
    <3> QED
      BY <3>1, PassesIs
  <2>3. References(<<"users", q.u>>) = {}
    BY DEF References, Linked, Owned
  <2> QED
    BY <2>1, <2>2, <2>3 DEF Insertable
<1>5. CASE q.op = "attend"
  <2>1. Target(q) = <<"attendance", q.p, q.u>>
    BY <1>5 DEF Target
  <2>2. Passes(q, "worker") /\ Passes(q, "log") /\ Passes(q, "new")
    BY <1>1, <1>5, TestsBeforeInsert
  <2>3. WorksOn(q.u, q.p) /\ <<"daily_logs", q.p>> \in table /\ Target(q) \notin table
    BY <2>2, PassesIs
  <2>4. <<"users", q.u>> \in table
    <3>1. q.u \in Users /\ q.p \in Projects
      BY DEF Calls
    <3>2. role[q.u] = "site_worker"
      BY <2>3, <3>1 DEF IInv, TablesAgree, RowsMatchRoles
    <3> QED
      BY <3>1, <3>2 DEF IInv, TablesAgree, UsersHaveRoles
  <2>5. References(<<"attendance", q.p, q.u>>) = {<<"daily_logs", q.p>>, <<"users", q.u>>}
    BY DEF References
  <2> QED
    BY <2>1, <2>3, <2>4, <2>5 DEF Insertable
<1> QED
  BY <1>2, <1>3, <1>4, <1>5

\* No row refers to an assignment.
LEMMA AssignmentsAreDeletable ==
  ASSUME NEW q \in Calls, q.op \in {"unassign_manager", "unassign_worker"}
  PROVE  Deletable(Target(q))
<1>1. Target(q) \in {<<"project_assignments", q.p, q.u>>, <<"worker_assignments", q.p, q.u>>}
  BY DEF Target
<1>2. ASSUME NEW other
      PROVE  \A row \in References(other) : row[1] \in {"daily_logs", "users", "projects"}
  BY DEF References
<1>3. Target(q)[1] \notin {"daily_logs", "users", "projects"}
  BY <1>1
<1> QED
  BY <1>2, <1>3 DEF Deletable

LEMMA ErrorStep ==
  ASSUME IInv, [Next]_vars, NEW r \in Requests, Ends(r), req'[r].at = "error"
  PROVE  \/ req[r].disturbed
         \/ req[r].op = "register" /\ req[r].as = "unknown"
         \/ req[r].op \in {"assign_manager", "assign_worker", "delete_project"}
<1> SUFFICES ASSUME ~req[r].disturbed PROVE
         \/ req[r].op = "register" /\ req[r].as = "unknown"
         \/ req[r].op \in {"assign_manager", "assign_worker", "delete_project"}
  OBVIOUS
<1>1. TypeOK /\ Running(r)
  BY DEF IInv, TablesAgree, Ends
<1>2. PICK q \in Calls : q = req[r]
  BY <1>1, RunningIsCall
<1>3. q.op \in Ops /\ q.as \in Roles \cup {"unknown"}
  BY DEF Calls
<1>4. CASE /\ Tested(q) /\ q.op \notin Removals /\ q.op # "submit_log"
           /\ ~(Insertable(Target(q)) /\ (q.op = "register" => q.as \in Roles))
  <2>1. q.op \in {"create_project", "create_phase", "register", "attend"} =>
          Insertable(Target(q))
    BY <1>1, <1>2, <1>4, TestedIsInsertable
  <2> QED
    BY <1>2, <1>3, <1>4, <2>1 DEF Ops, OwnerOps, Removals
<1>5. CASE Tested(q) /\ q.op \in Removals /\ ~Deletable(Target(q))
  BY <1>2, <1>5, AssignmentsAreDeletable DEF Removals
<1> QED
  BY <1>1, <1>2, <1>4, <1>5, HowItEnds

\* Between a test and a commit other requests commit: whoever they did not touch is
\* answered by services.project, services.auth and services.daily_log as if alone.
THEOREM AnswersSerial == Spec => AnswersAreSerial
<1>1. IInv /\ [Next]_vars =>
        [\A r \in Requests : Ends(r) /\ ~req[r].disturbed =>
           req'[r].at \in {Serial(req[r]), "crash"}]_vars
  BY SerialStep
<1> QED
  BY Invariance, <1>1, PTL DEF Spec, AnswersAreSerial

\* The IntegrityErrors that no router expects come from races, second assignments,
\* unknown roles and projects in use only.
THEOREM ErrorsAreRaces == Spec => ErrorsNeedRaces
<1>1. IInv /\ [Next]_vars =>
        [\A r \in Requests : Ends(r) /\ req'[r].at = "error" =>
           \/ req[r].disturbed
           \/ req[r].op = "register" /\ req[r].as = "unknown"
           \/ req[r].op \in {"assign_manager", "assign_worker", "delete_project"}]_vars
  BY ErrorStep
<1> QED
  BY Invariance, <1>1, PTL DEF Spec, ErrorsNeedRaces
=============================================================================
