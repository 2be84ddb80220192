------------------------- MODULE AuthSession_proofs -------------------------
(***************************************************************************)
(* What holds of AuthSession for any accounts, roles and passwords and any *)
(* number of overlapping requests, with Redis errors and crashes.          *)
(***************************************************************************)
EXTENDS AuthSession, TLAPS

\* No entry, no request: the invariant holds at the start.
LEMMA InitIInv == Init => IInv
<1> SUFFICES ASSUME Init PROVE IInv
  OBVIOUS
<1>1. PICK p \in Passwords, f \in Profiles :
        users = [a \in Accounts |-> [active |-> TRUE, password |-> p, profile |-> f]]
  BY DEF Init
<1>2. users \in [Accounts -> UserRow]
  BY <1>1 DEF UserRow
<1>3. Free \in RequestRecord
  BY DEF Free, RequestRecord, Operations
<1>4. TypeOK
  BY <1>2, <1>3 DEF Init, TypeOK
<1>5. RequestsOK
  BY DEF Init, RequestsOK, Free
<1>6. OnlyActiveCached
  BY DEF Init, OnlyActiveCached
<1> QED
  BY <1>4, <1>5, <1>6 DEF IInv

\* A write keeps the invariant: the row has the type of a row, and no entry of
\* Redis changes.
LEMMA WriteKeepsIInv ==
  ASSUME IInv, NEW r \in Requests, request[r].pc = "handle",
         NEW row \in UserRow, Write(r, row)
  PROVE  IInv'
<1> DEFINE now == [request[r] EXCEPT !.pc = "invalidate", !.user = NoEntry, !.attached = FALSE]
<1>1. now \in RequestRecord
  BY DEF IInv, TypeOK, RequestRecord
<1>2. /\ now.pc = "invalidate" /\ now.actor \in Accounts /\ now.target \in Accounts
      /\ now.op \in {"read", "change"} => now.target = now.actor
  BY DEF IInv, TypeOK, RequestsOK, RequestRecord
<1>3. request' = [request EXCEPT ![r] = now]
  BY DEF Write
<1> HIDE DEF now
<1>4. TypeOK'
  BY <1>1, <1>3 DEF IInv, TypeOK, Write
<1>5. RequestsOK'
  BY <1>2, <1>3 DEF IInv, TypeOK, RequestsOK
<1>6. OnlyActiveCached'
  BY DEF IInv, OnlyActiveCached, Write
<1> QED
  BY <1>4, <1>5, <1>6 DEF IInv

\* Handlers store rows: what each of them writes over the target.
LEMMA HandlersWriteRows ==
  ASSUME IInv, NEW r \in Requests,
         SetStatus(r) \/ UpdateProfile(r) \/ ResetPassword(r) \/ ChangePassword(r)
  PROVE  request[r].pc = "handle" /\ \E row \in UserRow : Write(r, row)
<1>1. /\ request[r].pc = "handle"
      /\ users \in [Accounts -> UserRow]
      /\ request[r].actor \in Accounts /\ request[r].target \in Accounts
  BY DEF IInv, TypeOK, RequestsOK, SetStatus, UpdateProfile, ResetPassword, ChangePassword,
         Handling
<1> DEFINE old == users[request[r].target]
           mine == users[request[r].actor]
<1>2. old \in UserRow /\ mine \in UserRow
  BY <1>1
<1>3. CASE SetStatus(r)
  <2>1. Write(r, [old EXCEPT !.active = (request[r].op = "activate")])
    BY <1>3 DEF SetStatus
  <2>2. [old EXCEPT !.active = (request[r].op = "activate")] \in UserRow
    BY <1>2 DEF UserRow
  <2> QED
    BY <1>1, <2>1, <2>2
<1>4. CASE UpdateProfile(r)
  <2>1. PICK f \in Profiles : Write(r, [old EXCEPT !.profile = f])
    BY <1>4 DEF UpdateProfile
  <2>2. [old EXCEPT !.profile = f] \in UserRow
    BY <1>2 DEF UserRow
  <2> QED
    BY <1>1, <2>1, <2>2
<1>5. CASE ResetPassword(r)
  <2>1. PICK p \in Passwords : Write(r, [old EXCEPT !.password = p])
    BY <1>5 DEF ResetPassword
  <2>2. [old EXCEPT !.password = p] \in UserRow
    BY <1>2 DEF UserRow
  <2> QED
    BY <1>1, <2>1, <2>2
<1>6. CASE ChangePassword(r)
  <2>1. PICK p \in Passwords :
          Write(r, IF request[r].attached THEN [mine EXCEPT !.password = p] ELSE mine)
    BY <1>6 DEF ChangePassword
  <2>2. (IF request[r].attached THEN [mine EXCEPT !.password = p] ELSE mine) \in UserRow
    BY <1>2 DEF UserRow
  <2> QED
    BY <1>1, <2>1, <2>2
<1> QED
  BY <1>3, <1>4, <1>5, <1>6

\* The request goes to a state that names its accounts and stores nothing.
LEMMA RequestMoves ==
  ASSUME IInv, NEW r \in Requests, NEW state \in RequestRecord,
         request' = [request EXCEPT ![r] = state], users' = users,
         \/ state.pc = "free"
         \/ /\ state.actor \in Accounts /\ state.target \in Accounts
            /\ state.op \in {"read", "change"} => state.target = state.actor
            /\ state.pc = "fill" => state.user \in UserRow /\ state.user.active,
         cache' \in [Accounts -> UserRow \cup {NoEntry}],
         \A a \in Accounts : cache'[a] # NoEntry => cache'[a].active
  PROVE  IInv'
<1>1. TypeOK'
  BY DEF IInv, TypeOK
<1>2. RequestsOK'
  BY DEF IInv, TypeOK, RequestsOK
<1>3. OnlyActiveCached'
  BY DEF OnlyActiveCached
<1> QED
  BY <1>1, <1>2, <1>3 DEF IInv

\* A request that enters its handler still names the same accounts.
LEMMA EnteredIsARequest ==
  ASSUME NEW record \in RequestRecord, NEW user \in UserRow \cup {NoEntry},
         NEW attached \in BOOLEAN
  PROVE  /\ Entered(record, user, attached) \in RequestRecord
         /\ Entered(record, user, attached).pc = "handle"
         /\ Entered(record, user, attached).actor = record.actor
         /\ Entered(record, user, attached).target = record.target
         /\ Entered(record, user, attached).op = record.op
<1>1. CASE record.op = "change"
  BY <1>1 DEF Entered, RequestRecord
<1>2. CASE record.op # "change"
  BY <1>2 DEF Entered, RequestRecord
<1> QED
  BY <1>1, <1>2

\* One case per action.
LEMMA NextIInv == IInv /\ [Next]_vars => IInv'
<1> SUFFICES ASSUME IInv, [Next]_vars PROVE IInv'
  OBVIOUS
<1>t. /\ users \in [Accounts -> UserRow]
      /\ cache \in [Accounts -> UserRow \cup {NoEntry}]
      /\ request \in [Requests -> RequestRecord]
      /\ \A a \in Accounts : cache[a] # NoEntry => cache[a].active
  BY DEF IInv, TypeOK, OnlyActiveCached
<1>f. Free \in RequestRecord /\ Free.pc = "free"
  BY DEF Free, RequestRecord, Operations
<1>c. ASSUME NEW a \in Accounts
      PROVE  /\ [cache EXCEPT ![a] = NoEntry] \in [Accounts -> UserRow \cup {NoEntry}]
             /\ \A b \in Accounts : [cache EXCEPT ![a] = NoEntry][b] # NoEntry
                                       => [cache EXCEPT ![a] = NoEntry][b].active
  BY <1>t
<1>1. ASSUME NEW r \in Requests, NEW op \in Operations, NEW a \in Accounts,
             NEW t \in Accounts, Arrive(r, op, a, t)
      PROVE  IInv'
  <2> DEFINE state == [Free EXCEPT !.pc = "lookup", !.op = op, !.actor = a, !.target = t]
  <2>1. /\ state \in RequestRecord /\ state.pc = "lookup"
        /\ state.actor \in Accounts /\ state.target \in Accounts
        /\ state.op \in {"read", "change"} => state.target = state.actor
    BY <1>1 DEF Arrive, Free, RequestRecord, Operations
  <2>2. request' = [request EXCEPT ![r] = state] /\ users' = users /\ cache' = cache
    BY <1>1 DEF Arrive
  <2> HIDE DEF state
  <2> QED
    BY <1>t, <2>1, <2>2, RequestMoves
<1>2. ASSUME NEW r \in Requests, CacheHit(r) PROVE IInv'
  <2> DEFINE state == Entered(request[r], cache[request[r].actor], FALSE)
  <2>0. /\ request[r].actor \in Accounts /\ request[r].target \in Accounts
        /\ request[r].op \in {"read", "change"} => request[r].target = request[r].actor
    BY <1>2 DEF CacheHit, IInv, RequestsOK
  <2>1. /\ state \in RequestRecord /\ state.pc = "handle"
        /\ state.actor \in Accounts /\ state.target \in Accounts
        /\ state.op \in {"read", "change"} => state.target = state.actor
    <3>1. /\ request[r] \in RequestRecord /\ FALSE \in BOOLEAN
          /\ cache[request[r].actor] \in UserRow \cup {NoEntry}
      BY <1>t, <2>0
    <3> QED
      BY <2>0, <3>1, EnteredIsARequest
  <2>2. \/ request' = [request EXCEPT ![r] = state]
        \/ request' = [request EXCEPT ![r] = Free]
    BY <1>2, <1>t DEF CacheHit
  <2>3. users' = users /\ cache' = cache
    BY <1>2 DEF CacheHit
  <2> HIDE DEF state
  <2>4. CASE request' = [request EXCEPT ![r] = state]
    BY <1>t, <2>1, <2>3, <2>4, RequestMoves
  <2>5. CASE request' = [request EXCEPT ![r] = Free]
    BY <1>t, <1>f, <2>3, <2>5, RequestMoves
  <2> QED
    BY <2>2, <2>4, <2>5
<1>3. ASSUME NEW r \in Requests, CacheMiss(r) PROVE IInv'
  <2> DEFINE state == [request[r] EXCEPT !.pc = "select"]
  <2>1. /\ state \in RequestRecord /\ state.pc = "select"
        /\ state.actor \in Accounts /\ state.target \in Accounts
        /\ state.op \in {"read", "change"} => state.target = state.actor
    BY <1>t, <1>3 DEF RequestRecord, CacheMiss, IInv, RequestsOK
  <2>2. request' = [request EXCEPT ![r] = state] /\ users' = users /\ cache' = cache
    BY <1>3 DEF CacheMiss
  <2> HIDE DEF state
  <2> QED
    BY <1>t, <2>1, <2>2, RequestMoves
<1>4. ASSUME NEW r \in Requests, SelectUser(r) PROVE IInv'
  <2> DEFINE row == users[request[r].actor]
             state == [request[r] EXCEPT !.pc = "fill", !.user = row, !.attached = TRUE]
  <2>0. /\ request[r].actor \in Accounts /\ request[r].target \in Accounts
        /\ request[r].op \in {"read", "change"} => request[r].target = request[r].actor
        /\ row \in UserRow
    BY <1>t, <1>4 DEF SelectUser, IInv, RequestsOK
  <2>1. /\ state \in RequestRecord /\ state.pc = "fill" /\ state.user = row
        /\ state.actor \in Accounts /\ state.target \in Accounts
        /\ state.op \in {"read", "change"} => state.target = state.actor
    BY <1>t, <2>0 DEF RequestRecord
  <2>2. \/ row.active /\ request' = [request EXCEPT ![r] = state]
        \/ request' = [request EXCEPT ![r] = Free]
    BY <1>4, <1>t DEF SelectUser
  <2>3. users' = users /\ cache' = cache
    BY <1>4 DEF SelectUser
  <2> HIDE DEF state, row
  <2>4. CASE row.active /\ request' = [request EXCEPT ![r] = state]
    BY <1>t, <2>0, <2>1, <2>3, <2>4, RequestMoves
  <2>5. CASE request' = [request EXCEPT ![r] = Free]
    BY <1>t, <1>f, <2>3, <2>5, RequestMoves
  <2> QED
    BY <2>2, <2>4, <2>5
<1>5. ASSUME NEW r \in Requests, FillCache(r) PROVE IInv'
  <2> DEFINE state == Entered(request[r], request[r].user, TRUE)
  <2>0. /\ request[r].actor \in Accounts /\ request[r].target \in Accounts
        /\ request[r].op \in {"read", "change"} => request[r].target = request[r].actor
        /\ request[r].user \in UserRow /\ request[r].user.active
    BY <1>5 DEF FillCache, IInv, RequestsOK
  <2>1. /\ state \in RequestRecord /\ state.pc = "handle"
        /\ state.actor \in Accounts /\ state.target \in Accounts
        /\ state.op \in {"read", "change"} => state.target = state.actor
    <3>1. /\ request[r] \in RequestRecord /\ TRUE \in BOOLEAN
          /\ request[r].user \in UserRow \cup {NoEntry}
      BY <1>t, <2>0
    <3> QED
      BY <2>0, <3>1, EnteredIsARequest
  <2>2. request' = [request EXCEPT ![r] = state] /\ users' = users
    BY <1>5 DEF FillCache
  <2>3. /\ cache' \in [Accounts -> UserRow \cup {NoEntry}]
        /\ \A a \in Accounts : cache'[a] # NoEntry => cache'[a].active
    BY <1>5, <1>t, <2>0 DEF FillCache
  <2> HIDE DEF state
  <2> QED
    BY <2>1, <2>2, <2>3, RequestMoves
<1>6. ASSUME NEW r \in Requests,
             SetStatus(r) \/ UpdateProfile(r) \/ ResetPassword(r) \/ ChangePassword(r)
      PROVE  IInv'
  BY <1>6, HandlersWriteRows, WriteKeepsIInv
<1>7. ASSUME NEW r \in Requests, FinishRequest(r) \/ CrashRequest(r) PROVE IInv'
  <2>1. request' = [request EXCEPT ![r] = Free] /\ users' = users /\ cache' = cache
    BY <1>7 DEF FinishRequest, CrashRequest
  <2> QED
    BY <1>t, <1>f, <2>1, RequestMoves
<1>8. ASSUME NEW r \in Requests, Invalidate(r) PROVE IInv'
  <2>1. /\ request' = [request EXCEPT ![r] = Free] /\ users' = users
        /\ request[r].target \in Accounts
    BY <1>8 DEF Invalidate, IInv, RequestsOK
  <2>2. cache' = cache \/ cache' = [cache EXCEPT ![request[r].target] = NoEntry]
    BY <1>8 DEF Invalidate
  <2>3. /\ cache' \in [Accounts -> UserRow \cup {NoEntry}]
        /\ \A a \in Accounts : cache'[a] # NoEntry => cache'[a].active
    BY <1>c, <1>t, <2>1, <2>2
  <2> QED
    BY <1>f, <2>1, <2>3, RequestMoves
<1>9. ASSUME NEW a \in Accounts, Expire(a) PROVE IInv'
  <2>1. cache' = [cache EXCEPT ![a] = NoEntry] /\ users' = users /\ request' = request
    BY <1>9 DEF Expire
  <2>2. TypeOK' /\ OnlyActiveCached'
    BY <1>c, <1>t, <2>1 DEF TypeOK, OnlyActiveCached
  <2>3. RequestsOK'
    BY <2>1 DEF IInv, RequestsOK
  <2> QED
    BY <2>2, <2>3 DEF IInv
<1>10. CASE UNCHANGED vars
  BY <1>10 DEF vars, IInv, TypeOK, RequestsOK, OnlyActiveCached
<1> QED
  BY <1>1, <1>2, <1>3, <1>4, <1>5, <1>6, <1>7, <1>8, <1>9, <1>10
     DEF Next, Authenticate, Handle

\* get_current_user and the handlers keep the inductive invariant of AuthSession.
THEOREM Invariance == Spec => []IInv
<1>1. IInv /\ [Next]_vars => IInv'
  BY NextIInv
<1> QED
  BY <1>1, InitIInv, PTL DEF Spec

\* Every variable of AuthSession keeps its type.
THEOREM TypeCorrect == Spec => []TypeOK
<1>1. IInv => TypeOK
  BY DEF IInv
<1> QED
  BY <1>1, Invariance, PTL

\* get_current_user never leaves a copy of an inactive user in Redis, whatever
\* the requests around it do between its SELECT and its setex.
THEOREM OnlyActiveSound == Spec => []OnlyActiveCached
<1>1. IInv => OnlyActiveCached
  BY DEF IInv
<1> QED
  BY <1>1, Invariance, PTL

-----------------------------------------------------------------------------
\* Only set_user_status changes is_active, and of oneself only to FALSE.
LEMMA ActivationStep ==
  ASSUME IInv, [Next]_vars, NEW a \in Accounts, ~users[a].active, users'[a].active
  PROVE  \E r \in Requests : /\ request[r].pc = "handle" /\ request'[r].pc = "invalidate"
                             /\ request[r].target = a /\ request[r].actor # a
<1>t. /\ users \in [Accounts -> UserRow]
      /\ request \in [Requests -> RequestRecord]
  BY DEF IInv, TypeOK
<1>1. users' # users
  OBVIOUS
<1>2. PICK r \in Requests :
        SetStatus(r) \/ UpdateProfile(r) \/ ResetPassword(r) \/ ChangePassword(r)
  BY <1>1 DEF Next, vars, Authenticate, Handle, Arrive, CacheHit, CacheMiss, SelectUser,
              FillCache, FinishRequest, CrashRequest, Invalidate, Expire
<1> DEFINE actor == request[r].actor
           target == request[r].target
<1>3. request[r].pc = "handle" /\ actor \in Accounts /\ target \in Accounts
  BY <1>2 DEF IInv, RequestsOK, SetStatus, UpdateProfile, ResetPassword, ChangePassword, Handling
<1>4. ASSUME NEW row \in UserRow, Write(r, row)
      PROVE  /\ request'[r].pc = "invalidate" /\ target = a /\ row.active
  <2>1. users' = [users EXCEPT ![target] = row]
    BY <1>4 DEF Write
  <2>2. target = a /\ row.active
    BY <1>t, <1>3, <2>1
  <2>3. request'[r].pc = "invalidate"
    BY <1>t, <1>4 DEF Write, RequestRecord
  <2> QED
    BY <2>2, <2>3
<1>5. users[target] \in UserRow /\ users[actor] \in UserRow
  BY <1>t, <1>3
<1>6. CASE SetStatus(r)
  <2> DEFINE row == [users[target] EXCEPT !.active = (request[r].op = "activate")]
  <2>1. row \in UserRow /\ row.active = (request[r].op = "activate")
    BY <1>5 DEF UserRow
  <2>2. Write(r, row) /\ (actor = target => request[r].op # "activate")
    BY <1>6 DEF SetStatus
  <2> HIDE DEF row
  <2> QED
    BY <1>3, <1>4, <2>1, <2>2
<1>7. CASE UpdateProfile(r)
  <2>1. PICK f \in Profiles : Write(r, [users[target] EXCEPT !.profile = f])
    BY <1>7 DEF UpdateProfile
  <2>2. /\ [users[target] EXCEPT !.profile = f] \in UserRow
        /\ [users[target] EXCEPT !.profile = f].active = users[target].active
    BY <1>5 DEF UserRow
  <2> QED
    BY <1>4, <2>1, <2>2
<1>8. CASE ResetPassword(r)
  <2>1. PICK p \in Passwords : Write(r, [users[target] EXCEPT !.password = p])
    BY <1>8 DEF ResetPassword
  <2>2. /\ [users[target] EXCEPT !.password = p] \in UserRow
        /\ [users[target] EXCEPT !.password = p].active = users[target].active
    BY <1>5 DEF UserRow
  <2> QED
    BY <1>4, <2>1, <2>2
<1>9. CASE ChangePassword(r)
  <2> DEFINE Row(p) == IF request[r].attached THEN [users[actor] EXCEPT !.password = p]
                                              ELSE users[actor]
  <2>1. PICK p \in Passwords : Write(r, Row(p))
    BY <1>9 DEF ChangePassword
  <2>2. Row(p) \in UserRow /\ Row(p).active = users[actor].active
    BY <1>5 DEF UserRow
  <2>3. actor = target
    BY <1>3, <1>9 DEF ChangePassword, Handling, IInv, RequestsOK
  <2> QED
    BY <1>4, <2>1, <2>2, <2>3
<1> QED
  BY <1>2, <1>6, <1>7, <1>8, <1>9

\* Nobody makes its own account active, even while a stale copy lets it in.
THEOREM NoSelfActivationSound == Spec => NoSelfActivation
<1>1. IInv /\ [Next]_vars =>
        [\A a \in Accounts : ~users[a].active /\ users'[a].active =>
           \E r \in Requests : /\ request[r].pc = "handle" /\ request'[r].pc = "invalidate"
                               /\ request[r].target = a /\ request[r].actor # a]_vars
  BY ActivationStep
<1> QED
  BY <1>1, Invariance, PTL DEF Spec, NoSelfActivation
-----------------------------------------------------------------------------
\* An owner is shut out by another owner only, and not by a demo account:
\* set_user_status refuses an owner who names itself, and nobody below reaches one.
LEMMA OwnerDeactivationStep ==
  ASSUME IInv, [Next]_vars, NEW o \in Accounts, Role[o] = "owner",
         users[o].active, ~users'[o].active
  PROVE  \E r \in Requests : /\ Handling(r, {"deactivate"}) /\ request'[r].pc = "invalidate"
                             /\ request[r].target = o
                             /\ request[r].actor \in InCharge \ {o}
<1>t. users \in [Accounts -> UserRow] /\ request \in [Requests -> RequestRecord]
  BY DEF IInv, TypeOK
<1>1. users' # users
  OBVIOUS
<1>2. PICK r \in Requests :
        SetStatus(r) \/ UpdateProfile(r) \/ ResetPassword(r) \/ ChangePassword(r)
  BY <1>1 DEF Next, vars, Authenticate, Handle, Arrive, CacheHit, CacheMiss, SelectUser,
              FillCache, FinishRequest, CrashRequest, Invalidate, Expire
<1> DEFINE actor == request[r].actor
           target == request[r].target
<1>3. request[r].pc = "handle" /\ actor \in Accounts /\ target \in Accounts
  BY <1>2 DEF IInv, RequestsOK, SetStatus, UpdateProfile, ResetPassword, ChangePassword, Handling
<1>4. ASSUME NEW row \in UserRow, Write(r, row)
      PROVE  target = o /\ ~row.active /\ request'[r].pc = "invalidate"
  <2>1. users' = [users EXCEPT ![target] = row]
    BY <1>4 DEF Write
  <2>2. target = o /\ ~row.active
    BY <1>t, <1>3, <2>1
  <2>3. request'[r].pc = "invalidate"
    BY <1>t, <1>4 DEF Write, RequestRecord
  <2> QED
    BY <2>2, <2>3
<1>5. users[target] \in UserRow /\ users[actor] \in UserRow
  BY <1>t, <1>3
<1>6. CASE SetStatus(r)
  <2> DEFINE row == [users[target] EXCEPT !.active = (request[r].op = "activate")]
  <2>1. row \in UserRow /\ row.active = (request[r].op = "activate")
    BY <1>5 DEF UserRow
  <2>2. /\ Write(r, row) /\ request[r].op \in {"activate", "deactivate"} /\ actor \notin Demo
        /\ IF actor = target THEN Role[actor] = "project_manager" ELSE Manages(actor, target)
    BY <1>6 DEF SetStatus, Handling
  <2> HIDE DEF row
  <2>3. target = o /\ request[r].op = "deactivate" /\ request'[r].pc = "invalidate"
    BY <1>4, <2>1, <2>2
  <2>4. actor # o /\ Role[actor] = "owner"
    BY <2>2, <2>3 DEF Manages
  <2> QED
    BY <1>3, <2>2, <2>3, <2>4 DEF Handling, InCharge
<1>7. ASSUME NEW row \in UserRow, Write(r, row), row.active = users[target].active
      PROVE  FALSE
  BY <1>4, <1>7
<1>8. CASE UpdateProfile(r)
  <2>1. PICK f \in Profiles : Write(r, [users[target] EXCEPT !.profile = f])
    BY <1>8 DEF UpdateProfile
  <2>2. /\ [users[target] EXCEPT !.profile = f] \in UserRow
        /\ [users[target] EXCEPT !.profile = f].active = users[target].active
    BY <1>5 DEF UserRow
  <2> QED
    BY <1>7, <2>1, <2>2
<1>9. CASE ResetPassword(r)
  <2>1. PICK p \in Passwords : Write(r, [users[target] EXCEPT !.password = p])
    BY <1>9 DEF ResetPassword
  <2>2. /\ [users[target] EXCEPT !.password = p] \in UserRow
        /\ [users[target] EXCEPT !.password = p].active = users[target].active
    BY <1>5 DEF UserRow
  <2> QED
    BY <1>7, <2>1, <2>2
<1>10. CASE ChangePassword(r)
  <2> DEFINE Row(p) == IF request[r].attached THEN [users[actor] EXCEPT !.password = p]
                                              ELSE users[actor]
  <2>1. PICK p \in Passwords : Write(r, Row(p))
    BY <1>10 DEF ChangePassword
  <2>2. Row(p) \in UserRow /\ Row(p).active = users[actor].active
    BY <1>5 DEF UserRow
  <2>3. actor = target
    BY <1>3, <1>10 DEF ChangePassword, Handling, IInv, RequestsOK
  <2> QED
    BY <1>7, <2>1, <2>2, <2>3
<1> QED
  BY <1>2, <1>6, <1>8, <1>9, <1>10

\* For any accounts, an owner that loses access lost it to a request of another
\* owner; no manager, no worker, no demo account and no stale copy of its own can do it.
THEOREM OnlyOwnersDeactivateOwners ==
  Spec => [][\A o \in Accounts :
               Role[o] = "owner" /\ users[o].active /\ ~users'[o].active =>
                 \E r \in Requests : /\ Handling(r, {"deactivate"})
                                     /\ request'[r].pc = "invalidate"
                                     /\ request[r].target = o
                                     /\ request[r].actor \in InCharge \ {o}]_vars
<1>1. IInv /\ [Next]_vars =>
        [\A o \in Accounts :
           Role[o] = "owner" /\ users[o].active /\ ~users'[o].active =>
             \E r \in Requests : /\ Handling(r, {"deactivate"})
                                 /\ request'[r].pc = "invalidate"
                                 /\ request[r].target = o
                                 /\ request[r].actor \in InCharge \ {o}]_vars
  BY OwnerDeactivationStep
<1> QED
  BY <1>1, Invariance, PTL DEF Spec

\* One step changes the row of one account at most.
LEMMA OneRowAtOnce ==
  ASSUME IInv, [Next]_vars, NEW a \in Accounts, NEW b \in Accounts, a # b, users'[a] # users[a]
  PROVE  users'[b] = users[b]
<1>t. users \in [Accounts -> UserRow]
  BY DEF IInv, TypeOK
<1>1. PICK r \in Requests :
        SetStatus(r) \/ UpdateProfile(r) \/ ResetPassword(r) \/ ChangePassword(r)
  BY DEF Next, vars, Authenticate, Handle, Arrive, CacheHit, CacheMiss, SelectUser,
         FillCache, FinishRequest, CrashRequest, Invalidate, Expire
<1>2. PICK row \in UserRow : Write(r, row)
  BY <1>1, HandlersWriteRows
<1>3. users' = [users EXCEPT ![request[r].target] = row]
  BY <1>2 DEF Write
<1> QED
  BY <1>t, <1>3

\* For any accounts, the last owner that may write is only shut out by another one
\* that is itself inactive by then: let in before its own deactivation, or by a copy.
THEOREM LastOwnerOutSound == Spec => LastOwnerOut
<1> DEFINE Out == SomeoneInCharge /\ ~SomeoneInCharge' =>
             \E r \in Requests :
               /\ Handling(r, {"deactivate"}) /\ request'[r].pc = "invalidate"
               /\ request[r].actor \in InCharge \ {request[r].target} /\ ~users[request[r].actor].active
<1>1. IInv /\ [Next]_vars => Out
  <2> SUFFICES ASSUME IInv, [Next]_vars, SomeoneInCharge, ~SomeoneInCharge'
               PROVE  \E r \in Requests :
                        /\ Handling(r, {"deactivate"}) /\ request'[r].pc = "invalidate"
                        /\ request[r].actor \in InCharge \ {request[r].target}
                        /\ ~users[request[r].actor].active
    OBVIOUS
  <2>1. PICK o \in InCharge : users[o].active
    BY DEF SomeoneInCharge
  <2>2. o \in Accounts /\ Role[o] = "owner" /\ ~users'[o].active
    BY <2>1 DEF SomeoneInCharge, InCharge
  <2>3. PICK r \in Requests : /\ Handling(r, {"deactivate"}) /\ request'[r].pc = "invalidate"
                              /\ request[r].target = o
                              /\ request[r].actor \in InCharge \ {o}
    BY <2>1, <2>2, OwnerDeactivationStep
  <2>4. ~users'[request[r].actor].active
    BY <2>3 DEF SomeoneInCharge, InCharge
  <2>5. users'[request[r].actor] = users[request[r].actor]
    BY <2>1, <2>2, <2>3, OneRowAtOnce DEF InCharge
  <2> QED
    BY <2>3, <2>4, <2>5
<1>2. LastOwnerOut <=> [][Out]_vars
  BY DEF LastOwnerOut
<1> HIDE DEF Out
<1> QED
  BY <1>1, <1>2, Invariance, PTL DEF Spec

\* With one owner that is not a demo account, as the migrations seed the table and
\* as register keeps it, that owner is never shut out, whatever overlaps, expires
\* or crashes.
THEOREM SoleOwnerStays ==
  ASSUME NEW o, InCharge = {o}
  PROVE  Spec => [](users[o].active)
<1> DEFINE On == users[o].active
<1>0. o \in Accounts /\ Role[o] = "owner"
  BY DEF InCharge
<1>1. Init => On
  BY <1>0 DEF Init
<1>2. IInv /\ On /\ [Next]_vars => On'
  BY <1>0, OwnerDeactivationStep
<1> HIDE DEF On
<1> QED
  BY <1>1, <1>2, Invariance, PTL DEF Spec, On
-----------------------------------------------------------------------------
\* Deactivated, with no copy in Redis and no request past its authentication.
ShutOut(a) ==
  /\ ~users[a].active /\ cache[a] = NoEntry
  /\ \A r \in Requests : request[r].actor = a =>
                           request[r].pc \notin {"fill", "handle", "invalidate"}

\* Nothing but an activation ends it: the lookup misses, and the SELECT that
\* follows finds an inactive row, so nothing is written to Redis for a.
LEMMA ShutOutStep ==
  ASSUME IInv, [Next]_vars, NEW a \in Accounts, ShutOut(a), ~users'[a].active
  PROVE  ShutOut(a)'
<1>t. /\ users \in [Accounts -> UserRow]
      /\ cache \in [Accounts -> UserRow \cup {NoEntry}]
      /\ request \in [Requests -> RequestRecord]
  BY DEF IInv, TypeOK
<1>f. Free.actor = NoAccount /\ a # NoAccount
  BY NoAccountAssumption DEF Free
<1> DEFINE Out(q) == request'[q].actor = a =>
                       request'[q].pc \notin {"fill", "handle", "invalidate"}
<1>g. SUFFICES cache'[a] = NoEntry /\ \A q \in Requests : Out(q)
  BY DEF ShutOut
<1>o. ASSUME NEW q \in Requests, request'[q] = request[q] PROVE Out(q)
  BY <1>o DEF ShutOut
<1> HIDE DEF Out
<1>h. ASSUME NEW r \in Requests, NEW state, request' = [request EXCEPT ![r] = state],
             state.actor = a => state.pc \notin {"fill", "handle", "invalidate"}
      PROVE  \A q \in Requests : Out(q)
  <2> TAKE q \in Requests
  <2>1. CASE q = r
    BY <1>t, <1>h, <2>1 DEF Out
  <2>2. CASE q # r
    BY <1>t, <1>h, <1>o, <2>2
  <2> QED
    BY <2>1, <2>2
<1>1. ASSUME NEW r \in Requests, NEW op \in Operations, NEW b \in Accounts,
             NEW t \in Accounts, Arrive(r, op, b, t)
      PROVE  cache'[a] = NoEntry /\ \A q \in Requests : Out(q)
  <2> DEFINE state == [Free EXCEPT !.pc = "lookup", !.op = op, !.actor = b, !.target = t]
  <2>1. request' = [request EXCEPT ![r] = state] /\ cache' = cache
    BY <1>1 DEF Arrive
  <2>2. state.pc = "lookup"
    BY DEF Free
  <2> HIDE DEF state
  <2> QED
    BY <1>h, <2>1, <2>2 DEF ShutOut
<1>2. ASSUME NEW r \in Requests, CacheHit(r)
      PROVE  cache'[a] = NoEntry /\ \A q \in Requests : Out(q)
  <2>1. request[r].actor # a /\ cache' = cache
    BY <1>2 DEF CacheHit, ShutOut
  <2> DEFINE state == Entered(request[r], cache[request[r].actor], FALSE)
  <2>2. request' = [request EXCEPT ![r] = state] \/ request' = [request EXCEPT ![r] = Free]
    BY <1>t, <1>2 DEF CacheHit
  <2>3. state.actor = request[r].actor
    BY <1>t DEF Entered, RequestRecord
  <2> HIDE DEF state
  <2> QED
    BY <1>f, <1>h, <2>1, <2>2, <2>3 DEF ShutOut
<1>3. ASSUME NEW r \in Requests, CacheMiss(r)
      PROVE  cache'[a] = NoEntry /\ \A q \in Requests : Out(q)
  <2>1. request' = [request EXCEPT ![r] = [request[r] EXCEPT !.pc = "select"]] /\ cache' = cache
    BY <1>3 DEF CacheMiss
  <2>2. [request[r] EXCEPT !.pc = "select"].pc = "select"
    BY <1>t DEF RequestRecord
  <2> QED
    BY <1>h, <2>1, <2>2 DEF ShutOut
<1>4. ASSUME NEW r \in Requests, SelectUser(r)
      PROVE  cache'[a] = NoEntry /\ \A q \in Requests : Out(q)
  <2> DEFINE row == users[request[r].actor]
             state == [request[r] EXCEPT !.pc = "fill", !.user = row, !.attached = TRUE]
  <2>1. /\ \/ row.active /\ request' = [request EXCEPT ![r] = state]
           \/ request' = [request EXCEPT ![r] = Free]
        /\ cache' = cache
    BY <1>t, <1>4 DEF SelectUser
  <2>2. state.actor = request[r].actor
    BY <1>t DEF RequestRecord
  <2>3. row.active => request[r].actor # a
    BY DEF ShutOut
  <2> HIDE DEF state, row
  <2> QED
    BY <1>f, <1>h, <2>1, <2>2, <2>3 DEF ShutOut
<1>5. ASSUME NEW r \in Requests, FillCache(r)
      PROVE  cache'[a] = NoEntry /\ \A q \in Requests : Out(q)
  <2> DEFINE state == Entered(request[r], request[r].user, TRUE)
  <2>1. request[r].actor # a
    BY <1>5 DEF FillCache, ShutOut
  <2>2. request' = [request EXCEPT ![r] = state]
    BY <1>5 DEF FillCache
  <2>3. state.actor = request[r].actor
    BY <1>t DEF Entered, RequestRecord
  <2>4. cache'[a] = NoEntry
    BY <1>t, <1>5, <2>1 DEF FillCache, ShutOut
  <2> HIDE DEF state
  <2> QED
    BY <1>h, <2>1, <2>2, <2>3, <2>4
<1>6. ASSUME NEW r \in Requests,
             SetStatus(r) \/ UpdateProfile(r) \/ ResetPassword(r) \/ ChangePassword(r)
      PROVE  cache'[a] = NoEntry /\ \A q \in Requests : Out(q)
  <2> DEFINE state == [request[r] EXCEPT !.pc = "invalidate", !.user = NoEntry,
                                         !.attached = FALSE]
  <2>1. PICK row \in UserRow : Write(r, row)
    BY <1>6, HandlersWriteRows
  <2>2. request[r].pc = "handle"
    BY <1>6, HandlersWriteRows
  <2>3. request[r].actor # a
    BY <2>2 DEF ShutOut
  <2>4. request' = [request EXCEPT ![r] = state] /\ cache' = cache
    BY <2>1 DEF Write
  <2>5. state.actor = request[r].actor
    BY <1>t DEF RequestRecord
  <2> HIDE DEF state
  <2> QED
    BY <1>h, <2>3, <2>4, <2>5 DEF ShutOut
<1>7. ASSUME NEW r \in Requests, FinishRequest(r) \/ CrashRequest(r) \/ Invalidate(r)
      PROVE  cache'[a] = NoEntry /\ \A q \in Requests : Out(q)
  <2>1. request' = [request EXCEPT ![r] = Free]
    BY <1>7 DEF FinishRequest, CrashRequest, Invalidate
  <2>2. cache'[a] = NoEntry
    BY <1>t, <1>7 DEF FinishRequest, CrashRequest, Invalidate, ShutOut
  <2> QED
    BY <1>f, <1>h, <2>1, <2>2
<1>8. ASSUME NEW b \in Accounts, Expire(b)
      PROVE  cache'[a] = NoEntry /\ \A q \in Requests : Out(q)
  BY <1>t, <1>o, <1>8 DEF Expire, ShutOut
<1>9. CASE UNCHANGED vars
  BY <1>o, <1>9 DEF vars, ShutOut
<1> QED
  BY <1>1, <1>2, <1>3, <1>4, <1>5, <1>6, <1>7, <1>8, <1>9 DEF Next, Authenticate, Handle

\* The safety half of DeactivationTakesEffect: once the copy and the requests
\* already under way are gone, a deactivated account is not served again before
\* somebody activates it, although its own requests keep arriving.
THEOREM ShutOutLasts ==
  Spec => [][\A a \in Accounts : ShutOut(a) /\ ~users'[a].active => ShutOut(a)']_vars
<1>1. IInv /\ [Next]_vars =>
        [\A a \in Accounts : ShutOut(a) /\ ~users'[a].active => ShutOut(a)']_vars
  BY ShutOutStep
<1> QED
  BY <1>1, Invariance, PTL DEF Spec
=============================================================================
