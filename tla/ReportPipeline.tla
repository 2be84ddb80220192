--------------------------- MODULE ReportPipeline ---------------------------
(***************************************************************************)
(* Weekly reports: the request that queues one, the Celery job that        *)
(* uploads the PDF and inserts the row, the nightly cleanup, and the two   *)
(* Redis entries in front of the table (report:exists, report:list).       *)
(*                                                                         *)
(* The PDF of a report is named after its project and the day it was made: *)
(* every report of one project and day shares one file.  Time is counted   *)
(* in ticks; a day is named by the tick it began with.                     *)
(***************************************************************************)
EXTENDS Integers

CONSTANTS
  Ids,         \* ids of reports
  Users,       \* owners and managers
  Owners,      \* the owners among them
  Projects,
  Assigned,    \* pairs <<user, project>> of project_assignments
  Workers,     \* Celery processes running generate_weekly_report
  DayLength,   \* ticks in a day
  Retention,   \* ticks in 14 days
  MaxNow,      \* bound: the last tick
  MaxQueued,   \* bound: messages of one kind in the broker
  NoUser,      \* generated_by of a scheduled report
  NoReport, NoList

ASSUME DayAssumption == DayLength \in Nat \ {0} /\ Retention \in Nat /\ Retention > DayLength
ASSUME BoundsAssumption == MaxNow \in Nat /\ MaxQueued \in Nat
ASSUME ProjectsAssumption == Projects # {}
ASSUME OwnersAssumption == Owners \subseteq Users /\ NoUser \notin Users
ASSUME AssignedAssumption == Assigned \subseteq Users \X Projects

Authors == Users \cup {NoUser}
Days == Nat
Files == Projects \X Days   \* reports/report_{project}_{week_start}.pdf
Report == [project : Projects, by : Authors, day : Days, created : Nat]

ASSUME NullsAssumption ==
  NoReport \notin Report /\ NoReport \notin Ids /\ \A s \in SUBSET Ids : s # NoList

VARIABLES
  now, today,  \* the tick, and the tick at which the current day began
  reports,     \* committed rows
  files,       \* objects in the bucket
  generated,   \* report:exists keys in Redis: <<user, project, day>>
  listed,      \* report:list entries, per user and project
  trigger,     \* POST /reports/{project}/generate, per user
  listing,     \* GET /reports/{project}, per user
  queue,       \* generate_weekly_report messages, per project and author
  worker,      \* the job of each worker
  cleanup      \* cleanup_old_reports: the batch it has read, and its report

vars == <<now, today, reports, files, generated, listed, trigger, listing,
          queue, worker, cleanup>>

time == <<now, today>>
tables == <<reports, files>>
caches == <<generated, listed>>
requests == <<trigger, listing>>

AnyProject == CHOOSE p \in Projects : TRUE
Waiting == [pc |-> "idle", project |-> AnyProject, day |-> 0]
NotListing == [pc |-> "idle", project |-> AnyProject, seen |-> {}]
Idle == [pc |-> "idle", project |-> AnyProject, by |-> NoUser, day |-> 0, started |-> 0]
Off == [pc |-> "off", batch |-> {}, report |-> NoReport]
Died == [pc |-> "died", batch |-> {}, report |-> NoReport]

\* The values each variable may have; a file is named by project and day, never by author.
TypeOK ==
  /\ now \in Nat /\ today \in Nat
  /\ reports \in [Ids -> Report \cup {NoReport}]
  /\ files \in SUBSET Files
  /\ generated \in SUBSET (Users \X Projects \X Days)
  /\ listed \in [Users \X Projects -> {NoList} \cup SUBSET Ids]
  /\ trigger \in [Users -> [pc : {"idle", "marking", "sending"}, project : Projects, day : Days]]
  /\ listing \in [Users -> [pc : {"idle", "filling"}, project : Projects, seen : SUBSET Ids]]
  /\ queue \in [Projects \X Authors -> Nat]
  /\ worker \in [Workers -> [pc : {"idle", "upload", "insert", "drop"}, project : Projects,
                             by : Authors, day : Days, started : Nat]]
  /\ cleanup \in [pc : {"off", "died", "file", "row"}, batch : SUBSET Ids,
                  report : Ids \cup {NoReport}]

Init ==
  /\ now = 0 /\ today = 0
  /\ reports = [i \in Ids |-> NoReport]
  /\ files = {}
  /\ generated = {}
  /\ listed = [up \in Users \X Projects |-> NoList]
  /\ trigger = [u \in Users |-> Waiting]
  /\ listing = [u \in Users |-> NotListing]
  /\ queue = [m \in Projects \X Authors |-> 0]
  /\ worker = [w \in Workers |-> Idle]
  /\ cleanup = Off

-----------------------------------------------------------------------------
Exists(i) == reports[i] # NoReport
FileOf(i) == <<reports[i].project, reports[i].day>>
Age(i) == now - reports[i].created
\* Mutant of IsOld: created_at <= cutoff instead of <.
IsOldOrDue(i) == Exists(i) /\ Age(i) >= Retention

IsOld(i) == Exists(i) /\ Age(i) > Retention

\* verify_project_access.
MayOpen(u, p) == u \in Owners \/ <<u, p>> \in Assigned

\* The rows report_exists_today selects.
MadeToday(u, p) ==
  {i \in Ids : /\ Exists(i) /\ reports[i].project = p
               /\ reports[i].by = u /\ reports[i].created >= today}

\* The rows get_reports selects: an owner sees all, a manager its own and the
\* scheduled ones.
Visible(u, p) ==
  {i \in Ids : /\ Exists(i) /\ reports[i].project = p
               /\ u \in Owners \/ reports[i].by \in {u, NoUser}}

-----------------------------------------------------------------------------
(* Asking for a report.  With two rows of today the SELECT raises           *)
(* MultipleResultsFound: a 500, and nothing changes.                       *)

\* Mutant of CheckToday: the key is set before there is a report.
CheckAndMark(u, p) ==
  /\ trigger[u].pc = "idle" /\ MayOpen(u, p)
  /\ trigger' = [trigger EXCEPT ![u] = [pc |-> "marking", project |-> p, day |-> today]]
  /\ UNCHANGED <<time, tables, caches, listing, queue, worker, cleanup>>

CheckToday(u, p) ==
  /\ trigger[u].pc = "idle" /\ MayOpen(u, p)
  /\ \/ /\ MadeToday(u, p) = {}
        /\ trigger' = [trigger EXCEPT ![u] = [pc |-> "sending", project |-> p, day |-> today]]
     \/ /\ \E i \in Ids : MadeToday(u, p) = {i}
        /\ <<u, p, today>> \notin generated
        /\ trigger' = [trigger EXCEPT ![u] = [pc |-> "marking", project |-> p, day |-> today]]
  /\ UNCHANGED <<time, tables, caches, listing, queue, worker, cleanup>>

\* set_cache of report:exists, or its swallowed error; the answer is "exists".
MarkGenerated(u) ==
  /\ trigger[u].pc = "marking"
  /\ trigger' = [trigger EXCEPT ![u] = Waiting]
  /\ \/ generated' = generated \cup {<<u, trigger[u].project, trigger[u].day>>}
     \/ generated' = generated
  /\ UNCHANGED <<time, tables, listed, listing, queue, worker, cleanup>>

\* delay, or the OperationalError that becomes a 503 (the broker may hold the
\* message all the same).
Send(u) ==
  LET m == <<trigger[u].project, u>> IN
  /\ trigger[u].pc = "sending" /\ queue[m] < MaxQueued
  /\ trigger' = [trigger EXCEPT ![u] = Waiting]
  /\ \E n \in {0, 1} : queue' = [queue EXCEPT ![m] = @ + n]
  /\ UNCHANGED <<time, tables, caches, listing, worker, cleanup>>

\* trigger_all_weekly_reports; a broker error leaves out the rest.
ScheduleAll(sent) ==
  /\ sent # {} /\ \A p \in sent : queue[<<p, NoUser>>] < MaxQueued
  /\ queue' = [m \in Projects \X Authors |->
                 IF m[1] \in sent /\ m[2] = NoUser THEN queue[m] + 1 ELSE queue[m]]
  /\ UNCHANGED <<time, tables, caches, requests, worker, cleanup>>

-----------------------------------------------------------------------------
(* generate_weekly_report.                                                 *)

\* The broker may hand out the message again (its visibility timeout).
Receive(w, p, by) ==
  /\ worker[w].pc = "idle" /\ queue[<<p, by>>] > 0
  /\ \E n \in {0, 1} : queue' = [queue EXCEPT ![<<p, by>>] = @ - n]
  /\ worker' = [worker EXCEPT ![w] = [pc |-> "upload", project |-> p, by |-> by,
                                      day |-> today, started |-> now]]
  /\ UNCHANGED <<time, tables, caches, requests, cleanup>>

Upload(w) ==
  /\ worker[w].pc = "upload"
  /\ files' = files \cup {<<worker[w].project, worker[w].day>>}
  /\ worker' = [worker EXCEPT ![w].pc = "insert"]
  /\ UNCHANGED <<time, reports, caches, requests, queue, cleanup>>

Insert(w, i) ==
  /\ worker[w].pc = "insert" /\ ~Exists(i)
  /\ reports' = [reports EXCEPT ![i] = [project |-> worker[w].project, by |-> worker[w].by,
                                        day |-> worker[w].day, created |-> now]]
  /\ worker' = [worker EXCEPT ![w].pc = "drop"]
  /\ UNCHANGED <<time, files, caches, requests, queue, cleanup>>

\* The job deletes every report:list and report:exists key of its project.
DropCaches(w) ==
  LET p == worker[w].project IN
  /\ worker[w].pc = "drop"
  /\ worker' = [worker EXCEPT ![w] = Idle]
  /\ generated' = {g \in generated : g[2] # p}
  /\ listed' = [up \in Users \X Projects |-> IF up[2] = p THEN NoList ELSE listed[up]]
  /\ UNCHANGED <<time, tables, requests, queue, cleanup>>

\* S3, the database or Redis raises (each is caught), or the process dies.
JobFails(w) ==
  /\ worker[w].pc # "idle"
  /\ worker' = [worker EXCEPT ![w] = Idle]
  /\ UNCHANGED <<time, tables, caches, requests, queue, cleanup>>

-----------------------------------------------------------------------------
(* Listing the reports of a project; a hit changes nothing.                *)

ReadList(u, p) ==
  /\ listing[u].pc = "idle" /\ MayOpen(u, p) /\ listed[<<u, p>>] = NoList
  /\ listing' = [listing EXCEPT ![u] = [pc |-> "filling", project |-> p,
                                        seen |-> Visible(u, p)]]
  /\ UNCHANGED <<time, tables, caches, trigger, queue, worker, cleanup>>

FillList(u) ==
  /\ listing[u].pc = "filling"
  /\ listing' = [listing EXCEPT ![u] = NotListing]
  /\ \/ listed' = [listed EXCEPT ![<<u, listing[u].project>>] = listing[u].seen]
     \/ listed' = listed
  /\ UNCHANGED <<time, tables, generated, trigger, queue, worker, cleanup>>

\* Mutant of ExpireList: lists are stored without a lifetime.
ExpireListNever(u, p) == FALSE /\ UNCHANGED vars

\* Redis entries run out: an hour for a list, a day for the other.
ExpireList(u, p) ==
  /\ listed[<<u, p>>] # NoList
  /\ listed' = [listed EXCEPT ![<<u, p>>] = NoList]
  /\ UNCHANGED <<time, tables, generated, requests, queue, worker, cleanup>>

ExpireGenerated(g) ==
  /\ g \in generated
  /\ generated' = generated \ {g}
  /\ UNCHANGED <<time, tables, listed, requests, queue, worker, cleanup>>

-----------------------------------------------------------------------------
(* cleanup_old_reports, which takes the old reports one at a time.         *)

Cleaning == cleanup.pc \in {"file", "row"}

\* The rest of the batch, in whatever order the SELECT returned it.
TakeNext(batch) ==
  \/ batch = {} /\ cleanup' = Off
  \/ \E i \in batch : cleanup' = [pc |-> "file", batch |-> batch \ {i}, report |-> i]

StartCleanup ==
  LET old == {i \in Ids : IsOld(i)} IN
  /\ ~Cleaning /\ old # {}
  /\ TakeNext(old)
  /\ UNCHANGED <<time, tables, caches, requests, queue, worker>>

\* Mutant of DeleteFile: an error of S3 is swallowed, and the row goes all the same.
DeleteFileOrNot(i) ==
  /\ cleanup.pc = "file" /\ cleanup.report = i
  /\ files' \in {files, files \ {FileOf(i)}}
  /\ cleanup' = [cleanup EXCEPT !.pc = "row"]
  /\ UNCHANGED <<time, reports, caches, requests, queue, worker>>

DeleteFile(i) ==
  /\ cleanup.pc = "file" /\ cleanup.report = i
  /\ files' = files \ {FileOf(i)}
  /\ cleanup' = [cleanup EXCEPT !.pc = "row"]
  /\ UNCHANGED <<time, reports, caches, requests, queue, worker>>

DeleteRow(i) ==
  /\ cleanup.pc = "row" /\ cleanup.report = i
  /\ reports' = [reports EXCEPT ![i] = NoReport]
  /\ TakeNext(cleanup.batch)
  /\ UNCHANGED <<time, files, caches, requests, queue, worker>>

\* Mutant of SkipReport: the first error ends the run.
StopAtFirstError ==
  /\ Cleaning
  /\ cleanup' = Off
  /\ UNCHANGED <<time, tables, caches, requests, queue, worker>>

\* S3 or the commit raises: rollback, and on to the next report.
SkipReport ==
  /\ Cleaning
  /\ TakeNext(cleanup.batch)
  /\ UNCHANGED <<time, tables, caches, requests, queue, worker>>

CleanupCrash ==
  /\ Cleaning
  /\ cleanup' = Died
  /\ UNCHANGED <<time, tables, caches, requests, queue, worker>>

-----------------------------------------------------------------------------
\* A job takes no longer than a tick, so it may run across midnight once.
Tick ==
  /\ now < MaxNow
  /\ \A w \in Workers : worker[w].pc # "idle" => worker[w].started = now
  /\ now' = now + 1
  /\ today' = IF now' = today + DayLength THEN now' ELSE today
  /\ UNCHANGED <<tables, caches, requests, queue, worker, cleanup>>

Clean == StartCleanup \/ SkipReport \/ \E i \in Ids : DeleteFile(i) \/ DeleteRow(i)

Next ==
  \/ \E u \in Users, p \in Projects : CheckToday(u, p) \/ ReadList(u, p) \/ ExpireList(u, p)
  \/ \E u \in Users : MarkGenerated(u) \/ Send(u) \/ FillList(u)
  \/ \E sent \in SUBSET Projects : ScheduleAll(sent)
  \/ \E w \in Workers : \/ \E p \in Projects, by \in Authors : Receive(w, p, by)
                        \/ \E i \in Ids : Insert(w, i)
                        \/ Upload(w) \/ DropCaches(w) \/ JobFails(w)
  \/ \E g \in generated : ExpireGenerated(g)
  \/ Clean \/ CleanupCrash
  \/ Tick

Spec == Init /\ [][Next]_vars

(* Beat starts the cleanup every night and a run of it gets on; requests   *)
(* are served and Redis entries expire.                                    *)
Fairness ==
  /\ WF_vars(Clean)
  /\ \A u \in Users : WF_vars(FillList(u))
  /\ \A u \in Users, p \in Projects : WF_vars(ExpireList(u, p))

FairSpec == Spec /\ Fairness

-----------------------------------------------------------------------------
(* Properties.                                                             *)

\* "PDF reports ... stored for download": a report keeps its file for at least
\* 14 days less the day it shares the file with, whatever the cleanup deletes,
\* however often a delete fails halfway, and even if its job ran across midnight.
FileWhileYoung ==
  \A i \in Ids : Exists(i) /\ Age(i) <= Retention - DayLength => FileOf(i) \in files

\* The cleanup leaves no file behind: when a row goes its file is gone, and no
\* job is putting it back.
DeletedWithItsFile ==
  [][\A i \in Ids : Exists(i) /\ ~Exists(i)' => FileOf(i) \notin files']_vars

\* "You have already generated a report today" is told from Redis only to a user
\* who has: a row of today is never cleaned up, nor a key written without one.
RefusedOnlyIfGenerated ==
  \A u \in Users, p \in Projects : <<u, p, today>> \in generated => MadeToday(u, p) # {}

\* The inductive invariant behind the theorems of ReportPipeline_proofs.

\* The clock is within the current day.
InDay == today <= now /\ now < today + DayLength

\* A report was made on its day or the tick after it, and only an old day's file
\* is missing.
MadeOnTime ==
  \A i \in Ids : Exists(i) =>
    /\ reports[i].day <= reports[i].created /\ reports[i].created <= reports[i].day + DayLength
    /\ reports[i].created <= now
    /\ FileOf(i) \notin files => now - reports[i].day > Retention

\* A job ends within a tick, and its file waits for its row.
JobsOnTime ==
  \A w \in Workers : worker[w].pc # "idle" =>
    /\ worker[w].started <= now /\ now <= worker[w].started + 1
    /\ worker[w].day <= worker[w].started /\ worker[w].started < worker[w].day + DayLength
    /\ worker[w].pc = "insert" => <<worker[w].project, worker[w].day>> \in files

\* The cleanup works on old reports, each once, and takes the file first.
BatchIsOld ==
  /\ \A i \in cleanup.batch : IsOld(i)
  /\ cleanup.report \notin cleanup.batch
  /\ Cleaning => cleanup.report \in Ids /\ IsOld(cleanup.report)
  /\ cleanup.pc = "row" => FileOf(cleanup.report) \notin files

\* What a key of today says, or is about to say, is true.
GeneratedIsTrue ==
  /\ \A g \in generated : g[3] <= today
  /\ \A u \in Users : trigger[u].day <= today
  /\ \A u \in Users :
       trigger[u].pc = "marking" /\ trigger[u].day = today
         => MadeToday(u, trigger[u].project) # {}
  /\ RefusedOnlyIfGenerated

\* The clock, reports, jobs, the batch and the keys, together inductive.
IInv == TypeOK /\ InDay /\ MadeOnTime /\ JobsOnTime /\ BatchIsOld /\ GeneratedIsTrue

\* A report that stays gets into the list of everyone who may see it, for good,
\* although the delete of the cached list may fail or be overtaken by an older
\* read that fills it again.
EveryReportIsListed ==
  \A i \in Ids, u \in Users, p \in Projects :
    <>[](i \in Visible(u, p)) => <>[](listed[<<u, p>>] # NoList => i \in listed[<<u, p>>])

\* An old report is deleted in the end unless its own delete keeps failing:
\* another one that fails every night does not stand in its way.
OldReportsPurged ==
  \A i \in Ids :
    /\ ~[]<><<CleanupCrash>>_vars
    /\ SF_vars(DeleteFile(i)) /\ SF_vars(DeleteRow(i))
    => (IsOld(i) ~> ~Exists(i))
=============================================================================
