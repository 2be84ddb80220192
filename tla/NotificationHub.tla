--------------------------- MODULE NotificationHub ---------------------------
(***************************************************************************)
(* In-app notifications: notify_project_stakeholders stores one document   *)
(* per recipient in MongoDB and pushes it to the recipient's WebSockets,   *)
(* which the ConnectionManager of the API process keeps in one list per    *)
(* user.  send_to_user walks that list itself, not a copy, and awaits every *)
(* send; sockets connect and disconnect meanwhile.                         *)
(***************************************************************************)
EXTENDS Naturals, SequencesExt

CONSTANTS
  Users,
  Sockets,     \* WebSocket objects, each accepted once
  UserOf,      \* the user a socket authenticates: [Sockets -> Users]
  Dispatches   \* calls of notify_project_stakeholders

VARIABLES
  connections,  \* active_connections of the API process; no key is <<>>
  socket,       \* the life of each socket
  dispatch,     \* where each call is
  inbox,        \* the document of a call for a user
  pushes        \* how often a call was sent to a socket

vars == <<connections, socket, dispatch, inbox, pushes>>

SocketStates == {"new", "open", "broken", "ended"}   \* broken: the peer is gone
InboxStates == {"none", "lost", "unread", "read", "deleted"}   \* lost: the insert raised

\* celery: the call is made by a Celery process, through the _sync variant;
\* left: recipients to come; next: index in the list; over: the list being
\* walked is empty or not in the manager any more; dead: sends that raised;
\* audience: history, the sockets registered when the walk began.
Dispatch ==
  [pc : {"idle", "insert", "push", "done"}, celery : BOOLEAN, left : SUBSET Users,
   user : Users, next : Nat, over : BOOLEAN, dead : SUBSET Sockets, audience : SUBSET Sockets]

\* The values each variable may have; the manager lists sockets only.
TypeOK ==
  /\ DOMAIN connections = Users /\ \A u \in Users : connections[u] \in Seq(Sockets)
  /\ socket \in [Sockets -> SocketStates]
  /\ dispatch \in [Dispatches -> Dispatch]
  /\ inbox \in [Dispatches \X Users -> InboxStates]
  /\ pushes \in [Sockets \X Dispatches -> Nat]

Init ==
  /\ connections = [u \in Users |-> <<>>]
  /\ socket = [s \in Sockets |-> "new"]
  /\ \E u \in Users :
       dispatch = [d \in Dispatches |->
                     [pc |-> "idle", celery |-> FALSE, left |-> {}, user |-> u, next |-> 1,
                      over |-> TRUE, dead |-> {}, audience |-> {}]]
  /\ inbox = [du \in Dispatches \X Users |-> "none"]
  /\ pushes = [sd \in Sockets \X Dispatches |-> 0]

-----------------------------------------------------------------------------
(* ConnectionManager.                                                      *)

Registered(u) == ToSet(connections[u])

\* Mutants of Added: the newest socket goes first; the arguments are swapped.
AddedFirst(list, s) == <<s>> \o list
AddedUser(list, s) == Append(list, UserOf[s])

Added(list, s) == Append(list, s)

\* Mutant of Dropped: the whole list of the user goes with one socket.
DroppedAll(list, gone) == IF \E s \in gone : Contains(list, s) THEN <<>> ELSE list

\* disconnect of each of gone; a socket not in the list is no error.
Dropped(list, gone) ==
  LET upTo[n \in 0 .. Len(list)] ==
        IF n = 0 THEN <<>>
        ELSE IF list[n] \in gone THEN upTo[n - 1] ELSE Append(upTo[n - 1], list[n])
  IN  upTo[Len(list)]

\* An emptied list is deleted from the dict: whoever walks it is at its end,
\* even if the user connects again and gets a new list.
Detached(u, list) ==
  [d \in Dispatches |->
     IF dispatch[d].pc = "push" /\ dispatch[d].user = u /\ list = <<>>
     THEN [dispatch[d] EXCEPT !.over = TRUE] ELSE dispatch[d]]

\* The endpoint: accept, then append.
Connect(s) ==
  /\ socket[s] = "new"
  /\ socket' = [socket EXCEPT ![s] = "open"]
  /\ connections' = [connections EXCEPT ![UserOf[s]] = Added(@, s)]
  /\ UNCHANGED <<dispatch, inbox, pushes>>

PeerLeaves(s) ==
  /\ socket[s] = "open"
  /\ socket' = [socket EXCEPT ![s] = "broken"]
  /\ UNCHANGED <<connections, dispatch, inbox, pushes>>

\* receive_text raises WebSocketDisconnect.
HandlerDisconnects(s) ==
  LET u == UserOf[s]
      list == Dropped(connections[u], {s}) IN
  /\ socket[s] = "broken"
  /\ socket' = [socket EXCEPT ![s] = "ended"]
  /\ connections' = [connections EXCEPT ![u] = list]
  /\ dispatch' = Detached(u, list)
  /\ UNCHANGED <<inbox, pushes>>

\* receive_text raises anything else (a binary frame has no text): the handler
\* ends and the socket stays in the list.
HandlerFails(s) ==
  /\ socket[s] = "open"
  /\ socket' = [socket EXCEPT ![s] = "ended"]
  /\ UNCHANGED <<connections, dispatch, inbox, pushes>>

-----------------------------------------------------------------------------
(* notify_project_stakeholders.                                            *)

Goes(d, record) == dispatch' = [dispatch EXCEPT ![d] = record]

\* Between two walks nothing is left of a walk.
NoWalk(call) == [call EXCEPT !.next = 1, !.over = TRUE, !.dead = {}, !.audience = {}]

\* The next recipient of the set, in any order, or the end.
Onwards(d, call, left) ==
  \/ left = {} /\ Goes(d, [call EXCEPT !.pc = "done", !.left = {}])
  \/ \E u \in left : Goes(d, [call EXCEPT !.pc = "insert", !.left = left \ {u}, !.user = u])

\* The owner of the project and its managers.
Start(d, recipients, celery) ==
  /\ dispatch[d].pc = "idle" /\ recipients # {}
  /\ Onwards(d, [dispatch[d] EXCEPT !.celery = celery], recipients)
  /\ UNCHANGED <<connections, socket, inbox, pushes>>

\* insert_one, and the start of the walk.  A Celery process has no connections.
Insert(d) ==
  LET u == dispatch[d].user IN
  /\ dispatch[d].pc = "insert"
  /\ inbox' = [inbox EXCEPT ![<<d, u>>] = "unread"]
  /\ Goes(d, [dispatch[d] EXCEPT
                !.pc = "push", !.next = 1, !.dead = {}, !.audience = Registered(u),
                !.over = dispatch[d].celery \/ connections[u] = <<>>])
  /\ UNCHANGED <<connections, socket, pushes>>

\* Mutant of InsertFails: the exception ends the whole call.
InsertAborts(d) ==
  /\ dispatch[d].pc = "insert"
  /\ inbox' = [inbox EXCEPT ![<<d, dispatch[d].user>>] = "lost"]
  /\ Onwards(d, dispatch[d], {})
  /\ UNCHANGED <<connections, socket, pushes>>

\* MongoDB raises; the other recipients are served all the same.
InsertFails(d) ==
  /\ dispatch[d].pc = "insert"
  /\ inbox' = [inbox EXCEPT ![<<d, dispatch[d].user>>] = "lost"]
  /\ Onwards(d, dispatch[d], dispatch[d].left)
  /\ UNCHANGED <<connections, socket, pushes>>

\* Mutant of Walking: the last socket of the list is left out.
WalkingBeforeLast(d) ==
  /\ dispatch[d].pc = "push" /\ ~dispatch[d].over
  /\ dispatch[d].next < Len(connections[dispatch[d].user])

Walking(d) ==
  /\ dispatch[d].pc = "push" /\ ~dispatch[d].over
  /\ dispatch[d].next <= Len(connections[dispatch[d].user])

\* One turn of the loop: send_json to the socket now at this index.  A send to a
\* peer that has left may still succeed.
Push(d) ==
  LET s == connections[dispatch[d].user][dispatch[d].next] IN
  /\ Walking(d)
  /\ \/ /\ socket[s] \in {"open", "broken"}
        /\ pushes' = [pushes EXCEPT ![<<s, d>>] = @ + 1]
        /\ Goes(d, [dispatch[d] EXCEPT !.next = @ + 1])
     \/ /\ socket[s] \in {"broken", "ended"}
        /\ pushes' = pushes
        /\ Goes(d, [dispatch[d] EXCEPT !.next = @ + 1, !.dead = @ \cup {s}])
  /\ UNCHANGED <<connections, socket, inbox>>

\* The end of the loop: the sockets that raised are disconnected, then the next
\* recipient.
EndPush(d) ==
  LET u == dispatch[d].user
      list == Dropped(connections[u], dispatch[d].dead)
      call == NoWalk(dispatch[d]) IN
  /\ dispatch[d].pc = "push" /\ ~Walking(d)
  /\ connections' = [connections EXCEPT ![u] = list]
  /\ \/ /\ call.left = {}
        /\ dispatch' = [Detached(u, list) EXCEPT ![d] = [call EXCEPT !.pc = "done"]]
     \/ \E v \in call.left :
          dispatch' = [Detached(u, list) EXCEPT ![d] =
                         [call EXCEPT !.pc = "insert", !.left = @ \ {v}, !.user = v]]
  /\ UNCHANGED <<socket, inbox, pushes>>

-----------------------------------------------------------------------------
(* What a user does with a document.  mark_as_read of one already read      *)
(* modifies nothing and answers 404.                                       *)

MarkAsRead(d, u) ==
  /\ inbox[<<d, u>>] = "unread"
  /\ inbox' = [inbox EXCEPT ![<<d, u>>] = "read"]
  /\ UNCHANGED <<connections, socket, dispatch, pushes>>

MarkAllAsRead(u) ==
  /\ \E d \in Dispatches : inbox[<<d, u>>] = "unread"
  /\ inbox' = [du \in Dispatches \X Users |->
                 IF du[2] = u /\ inbox[du] = "unread" THEN "read" ELSE inbox[du]]
  /\ UNCHANGED <<connections, socket, dispatch, pushes>>

DeleteNotification(d, u) ==
  /\ inbox[<<d, u>>] \in {"unread", "read"}
  /\ inbox' = [inbox EXCEPT ![<<d, u>>] = "deleted"]
  /\ UNCHANGED <<connections, socket, dispatch, pushes>>

-----------------------------------------------------------------------------
Advance(d) == Insert(d) \/ InsertFails(d) \/ Push(d) \/ EndPush(d)

Next ==
  \/ \E s \in Sockets : Connect(s) \/ PeerLeaves(s) \/ HandlerDisconnects(s) \/ HandlerFails(s)
  \/ \E d \in Dispatches : \/ \E r \in SUBSET Users, celery \in BOOLEAN : Start(d, r, celery)
                           \/ Advance(d)
                           \/ \E u \in Users : MarkAsRead(d, u) \/ DeleteNotification(d, u)
  \/ \E u \in Users : MarkAllAsRead(u)

Spec == Init /\ [][Next]_vars

(* The event loop resumes every call, and every send returns or raises.    *)
Fairness == \A d \in Dispatches : WF_vars(Advance(d))

FairSpec == Spec /\ Fairness

-----------------------------------------------------------------------------
(* Properties.                                                             *)

\* A live socket stays registered: no failed send, disconnect or emptied list of
\* another socket of the same user takes it out of the manager.
LiveSocketsRegistered ==
  \A s \in Sockets : socket[s] = "open" => s \in Registered(UserOf[s])

\* No socket is sent the same notification twice, although the list changes while
\* send_to_user walks it by index; and one that is sent was stored first, for the user
\* of that socket, so a client that reloads finds it (unless it has deleted it since).
PushedOnceAndStored ==
  \A s \in Sockets, d \in Dispatches :
    /\ pushes[<<s, d>>] <= 1
    /\ pushes[<<s, d>>] > 0 => inbox[<<d, UserOf[s]>>] \in {"unread", "read", "deleted"}

\* Every recipient gets a document unless its own insert fails: neither a dead
\* socket nor a failed insert of another recipient ends the call.
EveryRecipientServed ==
  \A d \in Dispatches, u \in Users :
    u \in dispatch[d].left ~> inbox[<<d, u>>] # "none"

\* "Pushed live via WebSocket": a socket of the API process that was registered when
\* the walk began, and is open when it ends, has been sent the notification, unless
\* the list it is walked by shrank meanwhile: a new tab or a failed send costs nobody
\* a notification, only a tab that left before its turn does.
SkippedOnlyIfShifted ==
  [][\A d \in Dispatches :
       ~dispatch[d].celery /\ dispatch[d].pc = "push" /\ dispatch'[d].pc # "push"
         /\ dispatch[d].audience \subseteq Registered(dispatch[d].user) =>
         \A s \in dispatch[d].audience : socket[s] = "open" => pushes[<<s, d>>] > 0]_vars

\* The inductive invariant behind the theorems of SiteAlerts_proofs.

\* A user's list holds sockets of that user that were accepted, each once.
ListsSound ==
  \A u \in Users :
    /\ \A i \in DOMAIN connections[u] :
         UserOf[connections[u][i]] = u /\ socket[connections[u][i]] # "new"
    /\ \A i, j \in DOMAIN connections[u] : connections[u][i] = connections[u][j] => i = j

\* Only sockets that are gone are disconnected after a walk.
DeadAreGone ==
  \A d \in Dispatches : dispatch[d].pc = "push" =>
    \A s \in dispatch[d].dead : socket[s] \in {"broken", "ended"}

\* A call has sent nothing to the users it has yet to serve, nor to sockets that the walk
\* has yet to reach, and a user it serves is not among those to come.
NothingAhead ==
  \A d \in Dispatches, s \in Sockets :
    \/ dispatch[d].pc = "idle" \/ socket[s] = "new" \/ UserOf[s] \in dispatch[d].left
    \/ dispatch[d].pc = "insert" /\ dispatch[d].user = UserOf[s]
    \/ /\ dispatch[d].pc = "push" /\ dispatch[d].user = UserOf[s] /\ ~dispatch[d].over
       /\ \E i \in DOMAIN connections[UserOf[s]] :
            i >= dispatch[d].next /\ connections[UserOf[s]][i] = s
    => pushes[<<s, d>>] = 0

InTurn ==
  \A d \in Dispatches :
    /\ dispatch[d].pc \in {"insert", "push"} => dispatch[d].user \notin dispatch[d].left
    /\ dispatch[d].pc = "push" =>
         inbox[<<d, dispatch[d].user>>] \in {"unread", "read", "deleted"} /\ dispatch[d].next >= 1

\* As long as the audience of a walk is complete it comes first in the list, and what
\* the walk has passed of it was sent the notification or raised.
AudienceFirst ==
  \A d \in Dispatches :
    LET call == dispatch[d]
        list == connections[call.user] IN
    call.pc = "push" =>
      /\ \A s \in call.audience : socket[s] # "new" /\ UserOf[s] = call.user
      /\ ~call.celery /\ call.audience \subseteq Registered(call.user) =>
           /\ call.over => call.audience = {}
           /\ \A i, j \in DOMAIN list : i < j /\ list[j] \in call.audience => list[i] \in call.audience
           /\ \A i \in DOMAIN list : i < call.next /\ list[i] \in call.audience =>
                pushes[<<list[i], d>>] > 0 \/ list[i] \in call.dead

\* Lists, walks and documents, together inductive.
IInv ==
  /\ TypeOK /\ ListsSound /\ DeadAreGone /\ NothingAhead /\ InTurn /\ AudienceFirst
  /\ LiveSocketsRegistered /\ PushedOnceAndStored
=============================================================================
