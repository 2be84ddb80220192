----------------------------- MODULE AuthSession -----------------------------
(***************************************************************************)
(* Who is allowed in: get_current_user with its Redis copy of the user     *)
(* row, and the user operations that change the row and drop the copy.     *)
(* Every request first authenticates (lookup, select, fill), then runs its *)
(* handler (one commit), then deletes the copy; other requests run between *)
(* any two of these awaits.                                                *)
(***************************************************************************)
EXTENDS Naturals

CONSTANTS
  Accounts,    \* users.id
  Role,        \* Role[a]: "owner", "project_manager" or "site_worker"
  Demo,        \* the read-only demo accounts: is_demo never changes
  Shares,      \* pairs <<manager, worker>> assigned to a common project
  Passwords,   \* password hashes
  Profiles,    \* what update_user_by_id changes: names, phone
  Requests,    \* HTTP requests being served at once
  Faults,      \* TRUE: a Redis call may raise (the wrappers swallow it), and the
               \* API process may stop between two steps of a request
  NoEntry, NoAccount

ASSUME RoleAssumption ==
  Role \in [Accounts -> {"owner", "project_manager", "site_worker"}]
ASSUME DemoAssumption == Demo \subseteq Accounts
ASSUME SharesAssumption == Shares \subseteq Accounts \X Accounts
ASSUME FaultsAssumption == Faults \in BOOLEAN
ASSUME NoAccountAssumption == NoAccount \notin Accounts

UserRow == [active : BOOLEAN, password : Passwords, profile : Profiles]

ASSUME NoEntryAssumption == NoEntry \notin UserRow

VARIABLES
  users,    \* committed rows of the table users
  cache,    \* auth:user:{id}
  request   \* what each request is doing

vars == <<users, cache, request>>

Operations == {"read", "activate", "deactivate", "update", "reset", "change"}

\* user: the User object of the request, forgotten where no handler looks at it
\* again.  attached: it was loaded through the request's own session, so a commit
\* writes its changes; User(**cached) is not.
Free == [pc |-> "free", op |-> "read", actor |-> NoAccount, target |-> NoAccount,
         user |-> NoEntry, attached |-> FALSE]

RequestRecord ==
  [pc : {"free", "lookup", "select", "fill", "handle", "invalidate"},
   op : Operations, actor : Accounts \cup {NoAccount},
   target : Accounts \cup {NoAccount}, user : UserRow \cup {NoEntry},
   attached : BOOLEAN]

\* The values each variable may have.
TypeOK ==
  /\ users \in [Accounts -> UserRow]
  /\ cache \in [Accounts -> UserRow \cup {NoEntry}]
  /\ request \in [Requests -> RequestRecord]

Init ==
  /\ \E p \in Passwords, f \in Profiles :
       users = [a \in Accounts |-> [active |-> TRUE, password |-> p, profile |-> f]]
  /\ cache = [a \in Accounts |-> NoEntry]
  /\ request = [r \in Requests |-> Free]

-----------------------------------------------------------------------------
(* Authentication.                                                         *)

\* A request with a valid token of actor arrives.
Arrive(r, op, actor, target) ==
  /\ request[r].pc = "free"
  /\ op \in {"read", "change"} => target = actor
  /\ request' = [request EXCEPT ![r] = [Free EXCEPT !.pc = "lookup", !.op = op,
                                          !.actor = actor, !.target = target]]
  /\ UNCHANGED <<users, cache>>

\* The handler starts; only change_password uses the object it is given.
Entered(record, user, attached) ==
  IF record.op = "change"
  THEN [record EXCEPT !.pc = "handle", !.user = user, !.attached = attached]
  ELSE [record EXCEPT !.pc = "handle", !.user = NoEntry, !.attached = FALSE]

\* A hit: no row is read.  The object is built from the entry, in no session.
CacheHit(r) ==
  LET entry == cache[request[r].actor] IN
  /\ request[r].pc = "lookup" /\ entry # NoEntry
  /\ request' = IF entry.active
                THEN [request EXCEPT ![r] = Entered(@, entry, FALSE)]
                ELSE [request EXCEPT ![r] = Free]
  /\ UNCHANGED <<users, cache>>

\* A miss, or a Redis error: get_cache answers None to both.
CacheMiss(r) ==
  /\ request[r].pc = "lookup"
  /\ cache[request[r].actor] = NoEntry \/ Faults
  /\ request' = [request EXCEPT ![r].pc = "select"]
  /\ UNCHANGED <<users, cache>>

\* Mutant of SelectUser: is_active is not looked at on a miss.
SelectAnyUser(r) ==
  /\ request[r].pc = "select"
  /\ request' = [request EXCEPT ![r].pc = "fill", ![r].attached = TRUE,
                               ![r].user = users[request[r].actor]]
  /\ UNCHANGED <<users, cache>>

SelectUser(r) ==
  LET row == users[request[r].actor] IN
  /\ request[r].pc = "select"
  /\ request' = IF row.active
                THEN [request EXCEPT ![r].pc = "fill", ![r].user = row, ![r].attached = TRUE]
                ELSE [request EXCEPT ![r] = Free]
  /\ UNCHANGED <<users, cache>>

\* setex with what was selected before the await, or a swallowed error.
FillCache(r) ==
  /\ request[r].pc = "fill"
  /\ \/ cache' = [cache EXCEPT ![request[r].actor] = request[r].user]
     \/ Faults /\ cache' = cache
  /\ request' = [request EXCEPT ![r] = Entered(@, @.user, TRUE)]
  /\ UNCHANGED users

-----------------------------------------------------------------------------
(* Handlers.                                                               *)

\* block_demo_writes lets no write of a demo account through to a handler.
Handling(r, ops) ==
  /\ request[r].pc = "handle" /\ request[r].op \in ops
  /\ request[r].actor \notin Demo

\* A manager reaches the workers it shares a project with; an owner anyone.
Manages(actor, target) ==
  \/ Role[actor] = "owner"
  \/ /\ Role[actor] = "project_manager" /\ Role[target] = "site_worker"
     /\ <<actor, target>> \in Shares

Write(r, row) ==
  /\ users' = [users EXCEPT ![request[r].target] = row]
  /\ request' = [request EXCEPT ![r] = [@ EXCEPT !.pc = "invalidate", !.user = NoEntry,
                                                !.attached = FALSE]]
  /\ UNCHANGED cache

\* Mutants of SetStatus: an owner may act on itself; a manager may also turn
\* itself on again.
SetStatusOfAnyone(r) ==
  LET target == request[r].target IN
  /\ Handling(r, {"activate", "deactivate"}) /\ Manages(request[r].actor, target)
  /\ Write(r, [users[target] EXCEPT !.active = (request[r].op = "activate")])

SetOwnStatus(r) ==
  LET actor == request[r].actor
      target == request[r].target IN
  /\ Handling(r, {"activate", "deactivate"})
  /\ IF actor = target THEN Role[actor] = "project_manager" ELSE Manages(actor, target)
  /\ Write(r, [users[target] EXCEPT !.active = (request[r].op = "activate")])

\* set_user_status: of oneself, only a manager and only to deactivate.
SetStatus(r) ==
  LET actor == request[r].actor
      target == request[r].target
      on == request[r].op = "activate" IN
  /\ Handling(r, {"activate", "deactivate"})
  /\ IF actor = target THEN Role[actor] = "project_manager" /\ ~on
                       ELSE Manages(actor, target)
  /\ Write(r, [users[target] EXCEPT !.active = on])

\* update_user_by_id; get_user_by_id lets a manager reach itself.
UpdateProfile(r) ==
  LET actor == request[r].actor
      target == request[r].target IN
  /\ Handling(r, {"update"})
  /\ \/ Role[actor] = "owner"
     \/ Role[actor] = "project_manager" /\ (actor = target \/ <<actor, target>> \in Shares)
  /\ \E f \in Profiles : Write(r, [users[target] EXCEPT !.profile = f])

ResetPassword(r) ==
  LET actor == request[r].actor
      target == request[r].target IN
  /\ Handling(r, {"reset"})
  /\ actor # target /\ Manages(actor, target)
  /\ \E p \in Passwords : Write(r, [users[target] EXCEPT !.password = p])

\* change_password compares with the object's hash and assigns to the object;
\* the commit writes it only if the object belongs to the session.
ChangePassword(r) ==
  LET me == request[r].actor IN
  /\ Handling(r, {"change"})
  /\ \E new \in Passwords \ {request[r].user.password} :
       Write(r, IF request[r].attached THEN [users[me] EXCEPT !.password = new]
                                       ELSE users[me])

\* A handler that changes no user, or refuses, or is not reached (403).
FinishRequest(r) ==
  /\ request[r].pc = "handle"
  /\ request' = [request EXCEPT ![r] = Free]
  /\ UNCHANGED <<users, cache>>

CrashRequest(r) ==
  /\ Faults /\ request[r].pc \notin {"free", "handle"}
  /\ request' = [request EXCEPT ![r] = Free]
  /\ UNCHANGED <<users, cache>>

\* delete_cache after the commit, or its swallowed error; then the response.
Invalidate(r) ==
  /\ request[r].pc = "invalidate"
  /\ \/ cache' = [cache EXCEPT ![request[r].target] = NoEntry]
     \/ Faults /\ cache' = cache
  /\ request' = [request EXCEPT ![r] = Free]
  /\ UNCHANGED users

\* Mutant of Expire: entries are stored without a lifetime.
ExpireNever(a) == FALSE /\ UNCHANGED vars

\* AUTH_USER_CACHE_TTL has run out; a hit does not extend it.
Expire(a) ==
  /\ cache[a] # NoEntry
  /\ cache' = [cache EXCEPT ![a] = NoEntry]
  /\ UNCHANGED <<users, request>>

-----------------------------------------------------------------------------
Authenticate(r) == CacheHit(r) \/ CacheMiss(r) \/ SelectUser(r) \/ FillCache(r)
Handle(r) == \/ SetStatus(r) \/ UpdateProfile(r) \/ ResetPassword(r) \/ ChangePassword(r)
             \/ FinishRequest(r)

Next ==
  \/ \E r \in Requests :
       \/ \E op \in Operations, a, t \in Accounts : Arrive(r, op, a, t)
       \/ Authenticate(r) \/ Handle(r) \/ Invalidate(r) \/ CrashRequest(r)
  \/ \E a \in Accounts : Expire(a)

Spec == Init /\ [][Next]_vars

(* The event loop resumes every request, and Redis expires every entry.    *)
Fairness == /\ \A r \in Requests : WF_vars(Authenticate(r)) /\ WF_vars(Handle(r))
                                  /\ WF_vars(Invalidate(r))
            /\ \A a \in Accounts : WF_vars(Expire(a))

FairSpec == Spec /\ Fairness

-----------------------------------------------------------------------------
(* Properties.                                                             *)

\* Redis never holds an inactive user, whatever raced with the fill: the copy
\* is a row that was active when selected.  (So the is_active test of a hit,
\* dependencies.py:33, never refuses anyone; only an absent entry does.)
OnlyActiveCached == \A a \in Accounts : cache[a] # NoEntry => cache[a].active

\* The owners that may write, and whether one of them can get in by its row.
InCharge == {a \in Accounts \ Demo : Role[a] = "owner"}
SomeoneInCharge == \E a \in InCharge : users[a].active

\* The last owner that may write is only shut out by another one that is itself
\* inactive by then: a request let in before its account was deactivated, or let
\* in after that by a stale copy.  (Two owners may deactivate each other at once,
\* and then nobody can activate an owner; but no manager, no demo account and no
\* owner by itself leaves the accounts without one.)
LastOwnerOut ==
  [][SomeoneInCharge /\ ~SomeoneInCharge' =>
       \E r \in Requests : LET actor == request[r].actor IN
         /\ Handling(r, {"deactivate"}) /\ request'[r].pc = "invalidate"
         /\ actor \in InCharge \ {request[r].target} /\ ~users[actor].active]_vars

\* An account that was deactivated is made active by somebody else only, even
\* while a stale copy still lets its own requests in.
NoSelfActivation ==
  [][\A a \in Accounts : ~users[a].active /\ users'[a].active =>
       \E r \in Requests : /\ request[r].pc = "handle" /\ request'[r].pc = "invalidate"
                           /\ request[r].target = a /\ request[r].actor # a]_vars

\* change_password answers "Password updated successfully": the password the
\* user presented is not the one in the database any more.
ChangedPasswordIsStored ==
  [][\A r \in Requests :
       Handling(r, {"change"}) /\ request'[r].pc = "invalidate" =>
         users'[request[r].actor].password # request[r].user.password]_vars

\* The inductive invariant behind the theorems of AuthSession_proofs: a request
\* under way names its accounts, and what it is about to store was active.
RequestsOK ==
  \A r \in Requests : request[r].pc # "free" =>
    /\ request[r].actor \in Accounts /\ request[r].target \in Accounts
    /\ request[r].op \in {"read", "change"} => request[r].target = request[r].actor
    /\ request[r].pc = "fill" => request[r].user \in UserRow /\ request[r].user.active

\* Types, requests and copies, together inductive.
IInv == TypeOK /\ RequestsOK /\ OnlyActiveCached

\* A deactivation that nobody takes back shuts the account out in the end,
\* although deletes of the copy may fail and old fills may still land: nothing
\* but a SELECT of an active row writes an entry, and entries expire.
DeactivationTakesEffect ==
  \A a \in Accounts :
    <>[](~users[a].active)
      => <>[](\A r \in Requests : request[r].actor = a
                                  => request[r].pc \notin {"handle", "invalidate"})
=============================================================================
