--------------------------- MODULE ResponseCaches ---------------------------
(***************************************************************************)
(* The responses the API keeps in Redis (core.cache) and the writes that   *)
(* drop them: project, daily_log, material, incident, equipment,           *)
(* attendance, user, worker, dashboard and ml under app/services.  A key   *)
(* is a kind and a project, a user or "all", or, for the lists of a daily  *)
(* log that are found by the log alone, the project of the address and the *)
(* project of the log.  The pages, filters, years and daily logs of one    *)
(* key are written and dropped together.  Of a response only its age is    *)
(* kept.  A request is cut where it awaits: admitted, committed, each      *)
(* deletion, and a read between its SELECTs and SETEX.                     *)
(***************************************************************************)
EXTENDS Naturals, Sequences

CONSTANTS
  Projects, Owners, Managers, Workers,
  Requests,   \* HTTP requests and tasks being served at once
  Kinds       \* kinds of key watched; no key depends on another

ProjectKinds == {"manager", "logs", "attendance"}
EntryKinds == {"materials", "incidents", "equipment"}
OfficeKinds == {"projects", "aggregate", "users"}
WorkerKinds == {"worker projects", "history", "today"}
GlobalKinds == {"owner", "ml"}

ASSUME KindsAssumption ==
  Kinds \subseteq ProjectKinds \cup EntryKinds \cup OfficeKinds \cup WorkerKinds \cup GlobalKinds
ASSUME RolesAssumption == Owners \cap Managers = {}

Office == Owners \cup Managers

Keys ==
  ((Kinds \cap ProjectKinds) \X Projects) \cup ((Kinds \cap EntryKinds) \X (Projects \X Projects))
    \cup ((Kinds \cap OfficeKinds) \X Office)
    \cup ((Kinds \cap WorkerKinds) \X Workers) \cup ((Kinds \cap GlobalKinds) \X {"all"})

KeysOf(kinds, owners) == {k \in Keys : k[1] \in kinds /\ k[2] \in owners}
All(kinds) == {k \in Keys : k[1] \in kinds}

VARIABLES
  copy,      \* of a key: none, fresh, or stale: overtaken by a commit
  request,
  project,   \* none, live or gone
  manages, works,   \* project_assignments, worker_assignments
  logged, phased    \* projects with a daily log, with a phase

site == <<project, manages, works, logged, phased>>
vars == <<copy, request, site>>

Ages == {"none", "fresh", "stale"}

Idle == [pc |-> "idle"]

RequestState ==
  [pc : {"idle"}]
    \cup [pc : {"admitted"}, by : Office, project : Projects, member : BOOLEAN]
    \cup [pc : {"dropping"}, drops : Seq(SUBSET Keys)]
    \cup [pc : {"filling"}, key : Keys, fresh : BOOLEAN]

\* The values each variable may have; no request waits with nothing to drop.
TypeOK ==
  /\ copy \in [Keys -> Ages]
  /\ request \in [Requests -> RequestState]
  /\ \A r \in Requests : request[r].pc = "dropping" => request[r].drops # << >>
  /\ project \in [Projects -> {"none", "live", "gone"}]
  /\ manages \in [Projects -> SUBSET Managers]
  /\ works \in [Projects -> SUBSET Workers]
  /\ logged \in SUBSET Projects /\ phased \in SUBSET Projects

Init ==
  /\ copy = [k \in Keys |-> "none"]
  /\ request = [r \in Requests |-> Idle]
  /\ project = [p \in Projects |-> "none"]
  /\ manages = [p \in Projects |-> {}] /\ works = [p \in Projects |-> {}]
  /\ logged = {} /\ phased = {}

-----------------------------------------------------------------------------
At(r, pc) == request[r].pc = pc
Goes(r, state) == request' = [request EXCEPT ![r] = state]

(* Reads.  A key whose answer is empty of substance is not stored at all:  *)
(* no project, no daily log, no assignment.                                *)
Readable(k) ==
  CASE k[1] = "manager" -> project[k[2]] = "live"
    [] k[1] = "attendance" -> k[2] \in logged
    [] k[1] = "aggregate" -> \E p \in Projects : k[2] \in manages[p]
    [] k[1] = "today" -> \E p \in logged : k[2] \in works[p]
    [] OTHER -> TRUE

\* get_cache finds nothing, or cannot be asked, or finds an empty list of
\* projects, which is falsy; the rows are selected.
Miss(r, k) ==
  /\ At(r, "idle") /\ Readable(k)
  /\ Goes(r, [pc |-> "filling", key |-> k, fresh |-> TRUE])
  /\ UNCHANGED <<copy, site>>

\* set_cache.
Fill(r) ==
  /\ At(r, "filling")
  /\ copy' = [copy EXCEPT ![request[r].key] = IF request[r].fresh THEN "fresh" ELSE "stale"]
  /\ Goes(r, Idle)
  /\ UNCHANGED site

\* The time to live of a key runs out.
Expire(k) ==
  /\ copy[k] # "none"
  /\ copy' = [copy EXCEPT ![k] = "none"]
  /\ UNCHANGED <<request, site>>

-----------------------------------------------------------------------------
(* Writes.                                                                 *)

\* Role and assignment of the user are checked before anything is written.
Admit(r, u, p) ==
  /\ At(r, "idle")
  /\ Goes(r, [pc |-> "admitted", by |-> u, project |-> p,
              member |-> u \in Owners \/ (project[p] = "live" /\ u \in manages[p])])
  /\ UNCHANGED <<copy, site>>

\* A row is missing, a constraint fails, or the user may not: nothing is written.
Refuse(r) == At(r, "admitted") /\ Goes(r, Idle) /\ UNCHANGED <<copy, site>>

By(r) == request[r].by
Here(r) == request[r].project
OnLive(r) == At(r, "admitted") /\ project[Here(r)] = "live"
ByOwner(r) == OnLive(r) /\ By(r) \in Owners
ByMember(r) == OnLive(r) /\ request[r].member

\* After the commit the copies of the responses that read the rows are stale,
\* and so is what other requests have selected and not yet stored.
Commit(r, touched, drops) ==
  /\ copy' = [k \in Keys |-> IF k \in touched /\ copy[k] = "fresh" THEN "stale" ELSE copy[k]]
  /\ request' = [o \in Requests |->
       IF o = r THEN [pc |-> "dropping", drops |-> drops]
       ELSE IF At(o, "filling") /\ request[o].key \in touched
            THEN [request[o] EXCEPT !.fresh = FALSE]
            ELSE request[o]]

\* delete_cache, or delete_pattern: a key stored between its KEYS and its DEL
\* is as good as stored after both.
Drop(r) ==
  /\ At(r, "dropping")
  /\ copy' = [k \in Keys |-> IF k \in Head(request[r].drops) THEN "none" ELSE copy[k]]
  /\ Goes(r, IF Len(request[r].drops) = 1 THEN Idle
             ELSE [request[r] EXCEPT !.drops = Tail(@)])
  /\ UNCHANGED site

\* Redis fails: core.cache logs the error and goes on.
FillFails(r) == At(r, "filling") /\ Goes(r, Idle) /\ UNCHANGED <<copy, site>>

DropFails(r) ==
  /\ At(r, "dropping")
  /\ Goes(r, IF Len(request[r].drops) = 1 THEN Idle
             ELSE [request[r] EXCEPT !.drops = Tail(@)])
  /\ UNCHANGED <<copy, site>>

\* What a request is still to delete.
Pending(r) ==
  IF At(r, "dropping") THEN UNION {request[r].drops[i] : i \in DOMAIN request[r].drops} ELSE {}

\* The request ends after its commit and before its deletions are done.
Dies(r) ==
  /\ At(r, "dropping")
  /\ Goes(r, Idle)
  /\ UNCHANGED <<copy, site>>

-----------------------------------------------------------------------------
(* The responses that read the rows of a write.                            *)

ReadProject(p) ==
  KeysOf({"projects"}, Owners \cup manages[p]) \cup KeysOf({"manager"}, {p})
    \cup KeysOf({"aggregate"}, manages[p]) \cup KeysOf({"worker projects"}, works[p])
    \cup All({"owner", "ml"})
ReadPhase(p) == KeysOf({"manager"}, {p}) \cup All({"ml"})
ReadRows(p) ==   \* the rows of a daily log
  KeysOf({"manager"}, {p}) \cup KeysOf({"aggregate"}, manages[p]) \cup All({"owner", "ml"})
ReadLog(p) == ReadRows(p) \cup KeysOf({"logs"}, {p}) \cup KeysOf({"today"}, works[p])
ReadList(kind, p) == KeysOf({kind}, Projects \X {p})
ReadManager(u) == KeysOf({"projects", "aggregate"}, {u}) \cup All({"users"})
ReadWorker(w) == KeysOf({"worker projects", "today"}, {w}) \cup All({"users", "owner"})
ReadUsers == All({"users", "logs", "today", "owner"})

\* What the writes of a daily log drop of the dashboards.
Dashboards(p, u) ==
  <<KeysOf({"manager"}, {p}), KeysOf({"aggregate"}, {u}), All({"owner"})>>

(* services.project                                                        *)

CreateProject(r) ==
  /\ At(r, "admitted") /\ By(r) \in Owners /\ project[Here(r)] = "none"
  /\ project' = [project EXCEPT ![Here(r)] = "live"]
  /\ Commit(r, KeysOf({"projects"}, Owners) \cup All({"owner", "ml"}),
               <<All({"projects"}), All({"ml"})>>)
  /\ UNCHANGED <<manages, works, logged, phased>>

\* Mutant of UpdateProject: the manager's dashboard is not dropped.
UpdateQuietly(r) ==
  /\ ByOwner(r)
  /\ Commit(r, ReadProject(Here(r)), <<All({"projects"}), {}, All({"ml"})>>)
  /\ UNCHANGED site

\* "dashboard:owner" is the name of no key: the owner's end in a year or "all".
UpdateProject(r) ==
  /\ ByOwner(r)
  /\ Commit(r, ReadProject(Here(r)),
               <<All({"projects"}), KeysOf({"manager"}, {Here(r)}), {}, All({"ml"})>>)
  /\ UNCHANGED site

\* Rows that refer to the project make the database refuse its deletion.
DeleteProject(r) ==
  LET p == Here(r) IN
  /\ ByOwner(r)
  /\ manages[p] = {} /\ works[p] = {} /\ p \notin logged \cup phased
  /\ project' = [project EXCEPT ![p] = "gone"]
  /\ Commit(r, ReadProject(p), <<All({"projects"}), {}, All({"ml"})>>)
  /\ UNCHANGED <<manages, works, logged, phased>>

AssignManager(r, u) ==
  LET p == Here(r) IN
  /\ ByOwner(r) /\ u \notin manages[p]
  /\ manages' = [manages EXCEPT ![p] = @ \cup {u}]
  /\ Commit(r, ReadManager(u), <<All({"projects"})>>)
  /\ UNCHANGED <<project, works, logged, phased>>

AssignWorker(r, w) ==
  LET p == Here(r) IN
  /\ ByMember(r) /\ w \notin works[p]
  /\ works' = [works EXCEPT ![p] = @ \cup {w}]
  /\ Commit(r, ReadWorker(w), <<All({"projects"}), KeysOf({"worker projects"}, {w})>>)
  /\ UNCHANGED <<project, manages, logged, phased>>

UnassignManager(r, u) ==
  LET p == Here(r) IN
  /\ ByOwner(r) /\ u \in manages[p]
  /\ manages' = [manages EXCEPT ![p] = @ \ {u}]
  /\ Commit(r, ReadManager(u), <<All({"projects"})>>)
  /\ UNCHANGED <<project, works, logged, phased>>

\* Any manager may: the assignment of the caller is not looked at.
UnassignWorker(r, w) ==
  LET p == Here(r) IN
  /\ OnLive(r) /\ w \in works[p]
  /\ works' = [works EXCEPT ![p] = @ \ {w}]
  /\ Commit(r, ReadWorker(w), <<All({"projects"}), KeysOf({"worker projects"}, {w})>>)
  /\ UNCHANGED <<project, manages, logged, phased>>

CreatePhase(r) ==
  /\ ByOwner(r)
  /\ phased' = phased \cup {Here(r)}
  /\ Commit(r, ReadPhase(Here(r)), <<KeysOf({"manager"}, {Here(r)})>>)
  /\ UNCHANGED <<project, manages, works, logged>>

UpdatePhase(r) ==
  /\ ByMember(r) /\ Here(r) \in phased
  /\ Commit(r, ReadPhase(Here(r)), <<KeysOf({"manager"}, {Here(r)})>>)
  /\ UNCHANGED site

(* services.daily_log, material, incident, attendance, equipment           *)

CreateLog(r) ==
  /\ ByMember(r)
  /\ logged' = logged \cup {Here(r)}
  /\ Commit(r, ReadLog(Here(r)),
               Append(Dashboards(Here(r), By(r)), KeysOf({"logs"}, {Here(r)})))
  /\ UNCHANGED <<project, manages, works, phased>>

InLog(r) == ByMember(r) /\ Here(r) \in logged

\* The date of a log shows in the histories of the workers that attended.
UpdateLog(r) ==
  /\ InLog(r)
  /\ Commit(r, ReadLog(Here(r)) \cup All({"history"}),
               Append(Dashboards(Here(r), By(r)), KeysOf({"logs"}, {Here(r)})))
  /\ UNCHANGED site

\* The worker's own history is not dropped.
CreateAttendance(r, w) ==
  /\ InLog(r) /\ w \in works[Here(r)]
  /\ Commit(r, ReadRows(Here(r)) \cup KeysOf({"attendance"}, {Here(r)}) \cup KeysOf({"history"}, {w}),
               <<KeysOf({"attendance"}, {Here(r)})>> \o Dashboards(Here(r), By(r)))
  /\ UNCHANGED site

\* Materials, incidents and equipment are written in the log of the address,
\* which may be a log of a project q other than the project of the address:
\* the assignment to that one is checked, and its keys are the ones dropped.
\* Create, update and delete drop the same keys.
InAnyLog(r, q) == At(r, "admitted") /\ request[r].member /\ q \in logged

\* The list of the log is not dropped.
WriteMaterial(r, q) ==
  /\ InAnyLog(r, q)
  /\ Commit(r, ReadRows(q) \cup ReadList("materials", q),
               Append(Dashboards(Here(r), By(r)), All({"ml"})))
  /\ UNCHANGED site

WriteIncident(r, q) ==
  /\ InAnyLog(r, q)
  /\ Commit(r, ReadRows(q) \cup ReadList("incidents", q),
               <<KeysOf({"incidents"}, {<<Here(r), q>>})>> \o Dashboards(Here(r), By(r)))
  /\ UNCHANGED site

WriteEquipment(r, q) ==
  /\ InAnyLog(r, q)
  /\ Commit(r, ReadList("equipment", q), <<KeysOf({"equipment"}, {<<Here(r), q>>})>>)
  /\ UNCHANGED site

(* services.user and the retraining task                                   *)

\* update_user_by_id and set_user_status drop the lists of the caller alone.
WriteUser(r) ==
  /\ At(r, "admitted")
  /\ Commit(r, ReadUsers, <<KeysOf({"users"}, {By(r)})>>)
  /\ UNCHANGED site

Retrain(r) ==
  /\ At(r, "idle")
  /\ Commit(r, All({"ml"}), <<All({"ml"})>>)
  /\ UNCHANGED site

-----------------------------------------------------------------------------
Write(r) ==
  \/ CreateProject(r) \/ UpdateProject(r) \/ DeleteProject(r)
  \/ \E u \in Managers : AssignManager(r, u) \/ UnassignManager(r, u)
  \/ \E w \in Workers : AssignWorker(r, w) \/ UnassignWorker(r, w) \/ CreateAttendance(r, w)
  \/ CreatePhase(r) \/ UpdatePhase(r) \/ CreateLog(r) \/ UpdateLog(r)
  \/ \E q \in Projects : WriteMaterial(r, q) \/ WriteIncident(r, q) \/ WriteEquipment(r, q)
  \/ WriteUser(r) \/ Retrain(r)

Next ==
  \/ \E r \in Requests :
       \/ \E k \in Keys : Miss(r, k)
       \/ \E u \in Office, p \in Projects : Admit(r, u, p)
       \/ Refuse(r) \/ Fill(r) \/ Write(r) \/ Drop(r) \/ FillFails(r) \/ DropFails(r) \/ Dies(r)
  \/ \E k \in Keys : Expire(k)

Spec == Init /\ [][Next]_vars

-----------------------------------------------------------------------------
(* Properties.                                                             *)

\* The keys all of whose rows are written by operations that drop them.
Kept ==
  {k \in Keys :
     \/ k[1] \in {"projects", "attendance"}
     \/ k[1] = "manager" /\ project[k[2]] = "live"
     \/ k[1] \in {"incidents", "equipment"} /\ k[2][1] = k[2][2]}

\* A copy that does not show the tables and that no request is about to drop.
Neglected(k) == copy[k] = "stale" /\ \A r \in Requests : k \notin Pending(r)

\* The answer stored was selected before a commit that it should show.
StoresLate(r, k) == Fill(r) /\ request[r].key = k /\ ~request[r].fresh

\* A deletion of the copy fails, or the request ends without it.
GivesUp(r, k) == k \in Pending(r) /\ (DropFails(r) \/ Dies(r))

\* Rows of the project of the key are written under another one's address.
WrittenAbroad(r, k) ==
  \E q \in Projects :
    /\ k[2] \in {q, <<q, q>>}
    /\ WriteMaterial(r, q) \/ WriteIncident(r, q) \/ WriteEquipment(r, q)
    /\ Here(r) # q

\* Project lists, managers' dashboards of existing projects, attendance lists,
\* and incident and equipment lists asked for under the log's own project: a
\* copy comes to show what is no longer so, with nobody about to drop it, in
\* three ways and no other, however requests overlap.
NeglectHasCause ==
  [][\A k \in Kept' : ~Neglected(k) /\ Neglected(k)' =>
       \E r \in Requests : StoresLate(r, k) \/ GivesUp(r, k) \/ WrittenAbroad(r, k)]_vars
=============================================================================
