---------------------------- MODULE MCAuthSession ----------------------------
(* Small instances of AuthSession.                                         *)
EXTENDS AuthSession, TLC

CONSTANTS o1, o2, d1, m1, k1

VARIABLE scene   \* which accounts send requests, about whom, and which

\* Two owners and a demo owner, a manager and a worker of its projects.
RolesOf == (o1 :> "owner" @@ o2 :> "owner" @@ d1 :> "owner"
              @@ m1 :> "project_manager" @@ k1 :> "site_worker")
Roles == [a \in Accounts |-> RolesOf[a]]
DemoAccounts == {d1} \cap Accounts
ManagerHasWorker == {<<m1, k1>>} \cap (Accounts \X Accounts)

Statuses == {"read", "activate", "deactivate"}

Scenes ==
  {s \in {[who |-> {o1, m1}, ops |-> Operations], [who |-> {o1, k1}, ops |-> Operations],
           [who |-> {o1, o2}, ops |-> Statuses], [who |-> {o1, d1}, ops |-> Statuses]} :
     s.who \subseteq Accounts}

\* One password to start with: they are interchangeable.
MCInit ==
  /\ Init /\ scene \in Scenes
  /\ \A a \in Accounts : users[a].password = CHOOSE p \in Passwords : TRUE

\* Requests come from the accounts of the scene; all the rest goes on as ever.
MCNext ==
  /\ Next /\ UNCHANGED scene
  /\ \A r \in Requests : request[r].pc = "free" /\ request'[r].pc = "lookup" =>
       /\ {request'[r].actor, request'[r].target} \subseteq scene.who
       /\ request'[r].op \in scene.ops

MCSpec == MCInit /\ [][MCNext]_<<vars, scene>>
MCFairSpec == MCSpec /\ Fairness
=============================================================================
