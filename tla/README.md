# SiteSync API: specification, model checking and proofs

SiteSync is a FastAPI back end for construction sites: projects, daily logs and
what belongs to them, dashboards, an AI assistant over the history of a site,
weekly PDF reports and in-app alerts. This directory holds TLA+ modules
translated from `src/app`, TLC configurations that check them on small
instances, and proofs that TLAPS checks for every value of the constants.

    tlc -workers 2 -config ai_lifecycle.cfg MCAIQueryLifecycle
    tlapm AIQueryLifecycle_proofs.tla

## 1. The system

### Processes and stores

| Part | Where | State |
| --- | --- | --- |
| API | one uvicorn process, one asyncio event loop | requests under way; `ConnectionManager.active_connections` |
| Worker | one Celery container, prefork, one process per CPU | the task each process runs |
| Beat | one process | a schedule: AI cleanup 03:00, report cleanup 04:00, weekly reports Monday 08:00, retraining Monday 09:00 |
| PostgreSQL | READ COMMITTED sessions | all tables, embeddings (pgvector) included |
| Redis | cache | keys with a time to live: default 1 h, project and user lists 120 s, dashboards 60 s, today's log 300 s, users 24 h |
| Broker | SQS or Redis | messages, acknowledged before the task runs; visibility timeout 600 s |
| MongoDB | Motor | notifications |
| S3 | boto3 | photos and reports |
| Language model | Groq over HTTP | none |

A request of the API can be overtaken by another one wherever it awaits: at
every statement, commit, Redis call and send. Tasks run beside the API and each
other without locks. Redis errors are logged and swallowed (`core/cache.py`).
No statement in `src/app` locks a row with `FOR UPDATE`; the code relies on constraints and on
commits happening in a lucky order. This is where nearly all of its hard
behaviour comes from, and what the modules are cut along.

### Components

For each: its state, its operations, and what makes it correct. "Partly" and
"not modelled" are explained in section 6.

**AI queries** (`routers|services|tasks/ai_query.py`). Rows Pending, Done or
Failed; one embedding per remembered answer. Ask (insert, enqueue, or 503 and a
compensating delete), process (model, duplicate test, embedding, commit), poll
(expires a stale Pending row), delete one or all, nightly cleanup. *Correct:*
what later questions may quote was answered by the model; a status means what
its text says; no question waits forever; a refused one leaves nothing behind.

**Sessions and users** (`core/dependencies.py`, `services/user.py`). The user
rows and the copy `auth:user:{id}` in Redis. Authenticate (get, select, set),
set status, update, reset and change passwords, drop the copy. Demo accounts
(`core/demo.py`) write no user. *Correct:* whoever was deactivated is locked out in
the end and cannot undo it; an owner who may write can always get in; a changed
password is stored.

**Weekly reports** (`routers|services|tasks/report.py`, `services/s3.py`). Rows,
PDF files, `report:exists` and `report:list` keys. Trigger, schedule, job
(upload, insert, drop), list, cleanup (delete file, delete row). *Correct:* a
report that is not old has its file; rows and files go together; refusals are
true; old reports go; new ones get listed.

**Notifications** (`services/notification.py`, `core/ws_manager.py`,
`routers/ws.py`). Documents in MongoDB; lists of sockets in the API process.
Connect, disconnect, notify (for each stakeholder insert, then send to each
socket), mark, mark all, delete. *Correct:* everyone gets a document, live
sockets are sent it, once.

**Site photos** (`services/site_photo.py`). Rows, objects, a cached list per
log. Upload (count, read the body, put, insert, drop the list), delete (object,
row, list), list. *Correct:* the limit per log, no lost or orphaned objects, a
current list.

**Materials and budget alert** (`services/material.py`). Costs and the budget of
a project. Create compares the total with the budget and announces the
overrun; update, delete and `update_project` only write. Nothing tests that the log
of the address is of the project of the address. *Correct:* an overrun is announced
once, and only when there is one.

**Log embeddings** (`tasks/embedding.py`, `services/embedding.py`). One text per
daily log, rebuilt from four SELECTs by a task that every edit of the log
queues. *Correct:* the text catches up with the tables and never goes back.

**Response caches** (`core/cache.py` and the services that use it). Fifteen or
so kinds of key; reads store, writes delete keys or patterns. *Correct:* a copy
that a write has overtaken is dropped.

**Accounts, projects, phases, assignments, logs, attendance**
(`services/auth.py`, `project.py`, `daily_log.py`, `attendance.py`). Rows, each
with a unique key and foreign keys. Every operation tests in a few SELECTs and
then inserts or deletes one row; no transaction spans the two. *Correct:* roles
and assignments match whatever interleaves; no row is left without what it
refers to; a request alone is answered by its tests and not by a constraint.

**Incident alert** (`services/incident.py`, `tasks/webhook.py`). The severity of
a row, a message per alert, retries. Create (insert, read back, queue), update,
delete, post to Slack, retry. *Correct:* what Slack shows was High, is shown, and
is repeated only where an answer was lost.

**Predictions** (`routers|services|tasks/ml.py`, `ml/`). Three model files, the
cached answers. Retrain (select, train, dump in place, three times, then drop
`ml:*`), predict (cached answer, or select, load, compute, store). *Correct:*
nobody predicts with a file in pieces, and neither a broken file nor an answer
from old rows stays.

**Dashboards and features** (`services/dashboard.py`, `ml/features.py`). No state
of their own: some thirty aggregate queries over logs, materials, incidents and
attendance. *Correct:* the same figure is the same wherever it is shown.

**Daily logs, incidents, equipment, worker pages** have cached responses, in
ResponseCaches, and are edits of a log, in LogEmbedding.

**Login, middleware, health, PDF layout, most schemas and migrations**: see
section 6.

### How they interact

A handler changes rows, deletes keys in Redis, queues tasks by id and calls the
notification service. Tasks read the rows again, later, in a session of their
own. A task that announces something does so from its own process, where
`ConnectionManager` has no sockets. The one thing all share is the database;
the copies in Redis, the messages of the broker, the objects of S3, the
documents of MongoDB are not part of its transactions. The modules are
therefore separate state machines; each models the shared stores it touches.
Where components meet, one of them appears as the other's environment: edits of
materials, incidents and attendance are `Commit` and `Enqueue` of LogEmbedding,
reports and overruns are `Start` of NotificationHub, assignments are what
ResponseCaches reads. Attendance, logs and incidents are rows in ProjectRegistry
and IncidentAlert, where their races are, and sums in DashboardFigures. The
cached predictions that `Write` of MLModels drops are one kind of key in
ResponseCaches.

### What is hard

`PROJECT.json` lists the hazards with their lines. They are of six kinds: state
read before an await and used after it; a message delivered again or lost; a
commit without the deletion, upload or message that should follow; two requests
or tasks interleaved between a check and a write; things that must happen
in the end although each attempt may fail; and figures that many queries compute
at the edges of weeks, years and joins.

## 2. The modules

| Module | Code | Checked with | Proved in |
| --- | --- | --- | --- |
| `AIQueryLifecycle` | AI queries | `MCAIQueryLifecycle` | `AIQueryLifecycle_proofs` |
| `AIQueryPromise` | abstract: what an asker is promised | as a property | |
| `AuthSession` | sessions and users | `MCAuthSession` | `AuthSession_proofs` |
| `ReportPipeline` | weekly reports | `MCReportPipeline` | `ReportPipeline_proofs` |
| `NotificationHub` | notifications, WebSocket | `MCSiteAlerts` | `SiteAlerts_proofs` |
| `SitePhotos` | photos | `MCSitePhotos` | `SitePhotos_proofs` |
| `BudgetAlert` | materials, budget alert | `MCSiteAlerts` | `SiteAlerts_proofs` |
| `LogEmbedding` | log embeddings, the edits that feed them | `LogTexts` | `SiteAlerts_proofs` |
| `ResponseCaches` | cached responses and all writes that drop them | `MCResponseCaches` | `ResponseCaches_proofs` |
| `ProjectRegistry` | accounts, projects, assignments, phases, logs, attendance | `MCProjectRegistry` | `ProjectRegistry_proofs` |
| `MLModels` | model files, retraining, predictions | `MCMLModels` | `Predictions_proofs` |
| `IncidentAlert` | incidents of one row, the Slack webhook | `MCSiteAlerts` | `SiteAlerts_proofs` |
| `DashboardFigures` | figures of the dashboards and of the predictions | `MCDashboardFigures` | `Predictions_proofs` |

`SiteAlerts` extends IncidentAlert and instantiates BudgetAlert and
NotificationHub; `scene`, chosen at the start, says which of the three moves.
`MCSiteAlerts` gives its constants their values. `LogTexts` instantiates
LogEmbedding under names that meet none of those of SiteAlerts, so that one proof
module can speak of all four. `Predictions_proofs` is about what is predicted from
and with, and extends MLModels and DashboardFigures; that is why the latter says
`FiguresInit`, `FiguresNext` and `FiguresTypeOK`.

Everywhere a transaction's commit is one step, a SELECT is one step, and a Redis,
S3 or MongoDB call is one step that may fail. Every request or task is a record
with a `pc` that names the await it is at.

**AIQueryLifecycle.** `rows`, `embeddings`, `messages`, `delivered`, `request`,
`worker`, `expiring`, `cleanup`. A worker loads a row (`Receive`), holds it while
the model thinks (`Answered`, `Fails`), flushes (`FlushAnswer`), inserts the
embedding (`StoreEmbedding`) or just commits (`SaveOutcome`). SQLAlchemy's UPDATE
names only the columns that changed since loading: `Updated(row, base, draft)`.
A flushed row is locked until the commit (`Locked`). The foreign key of the
embeddings is `Deletable`. The prompt, retrieval and vectors are left out: an
answer is a model value and `Similar` says which questions are near-duplicates.
Age has three values: fresh, stale (past PENDING_TIMEOUT_MINUTES), old (90 days).

**AIQueryPromise.** A question's phase (new, Pending, Done, Failed, gone) and the
set of remembered ones. `ImplementsPromise` instantiates it with a refinement
mapping; its fairness, that no phase stays Pending, is implemented too.

**AuthSession.** `users`, `cache`, `request`. `Arrive`, then `CacheHit`, or
`CacheMiss`, `SelectUser`, `FillCache`; then one handler step (read of the target
and commit), then `Invalidate`. `attached` records whether the User object belongs
to the session: `User(**cached)` does not. Only `change_password` uses the object,
so only there it is kept. `Demo` are the accounts whose writes `block_demo_writes`
refuses (`Handling`); it is a dependency of every router but those of login and
WebSockets.

**ReportPipeline.** `now`, `today`, `reports`, `files`, `generated`, `listed`,
`trigger`, `listing`, `queue`, `worker`, `cleanup`. Reports of one project and
day share one file, as in the code. A job takes at most a tick
(`Tick` waits for it), so it may cross midnight but does not last days.

**NotificationHub.** `connections` are lists, because `send_to_user` walks the
list by index while other steps shorten it; `dispatch` is where each call is.
`celery` marks calls made by a worker, where `NoWalk` finds no sockets.

**SitePhotos.** `rows`, `bucket`, `drawn` (names, which are UUIDs), `listed`,
`request`, and the history `abandoned`: photos whose upload or delete failed
between bucket and table.

**BudgetAlert.** `cost`, `away`, `drawn` (primary keys), `budget`, `request`. A
create is five steps. `away` are the rows on logs of other projects: a create of this
project's address may put its row there (`CommitMaterial`), and one of another
project's address may put its row here, where nobody compares it with the budget
(`CreateThroughAnother`). `crossed` and `overtaken` are histories: the creates whose
own commit took the total over the budget, and those for which a commit of another
request made stale what they had read (`Stale`).

**LogEmbedding.** `content` holds version numbers of the four parts of a log;
`embedded` those behind the stored text. The histories are `lost`, that a message or
task was lost; `passed` of a task, that another one has stored its text since this one
began; and `backdated`, that the text was stored by a task that had been passed.

**ResponseCaches.** Of a response only its age is kept: `none`, `fresh`, or `stale`,
when a commit has changed what it shows. A commit makes stale what it touches and
lists the deletions the code goes on to make, in order. The lists of materials,
incidents and equipment are stored under the project of the address and found by the
log alone (`EntryKinds`), so their keys have two projects: that of the address and
that of the log. `WriteMaterial`, `WriteIncident` and `WriteEquipment` touch the
project of the log and drop the keys of the address, as the code does.

**ProjectRegistry.** `table` is a set of rows, each its table's name and its
unique key; `role`, `creator`; `req`. `Tests` lists what each operation awaits,
in order, `Passes` what each test asks of the tables, `Target` the row it then
inserts or deletes. One action `Test` serves all ten operations, because they
differ in nothing else. `Insertable` and `Deletable` are the unique and foreign
keys of the migrations. `disturbed` is history: a commit since the request began
touched a row it depends on. `RoleNotLoaded` is an outcome of every attendance:
which of the two ways to be authenticated fails is left open, and `Test` leaves
open that neither does, as in the tests of the repository. Ids of projects are
given out once. There is one log per project: a date adds only more keys.

**MLModels.** `data` is the version of the tables; a model file has the version
it was trained on and is absent, partial, mixed or whole. `trainer`, `reader`,
`queue`, `cache`. `joblib.dump` is two steps (`OpenFile` truncates, `CloseFile`
ends), `joblib.load` two (`BeginLoad`, `EndLoad`), and what a disturbed load
gives is a choice: an exception, a mixture, or, when the same rows gave the same
bytes, the model. The three functions of `train.py`, and the three of
`predict.py`, are one action each, taken per model; the map names one of them for
each definition. `budget_overrun.joblib` is written and never loaded, as in the
code.

**IncidentAlert.** `row`, `create`, `edit`, `queue` (messages per number of
retries), `worker`, `announced`, `configured`. `create_incident` commits, reads
the row back (`Refresh`) and decides by what it read (`Alert`); `Update` writes
only what differs from the loaded row. `Post` chooses whether Slack shows the
message and whether the answer arrives. `lost` records what the queue refused,
what died, and the last retry that failed.

**DashboardFigures.** `logs`, `cost` (of the materials there are, per log and name),
`incidents`, `hours` (of the attendances there are), `status`, `staff`, `today`. Each aggregate query is an operator over a set of
logs; the records `Owner`, `Manager`, `Aggregate` and `Worker` are the
dashboards, `BudgetFeatures`, `DelayFeatures` and `ForecastFeatures` what the
models see. `Joined` is the fan-out of the two outer joins. The actions only
change the rows and the date.

## 3. What is checked

Eleven runs must pass and one must find a violation. The bounds are the
smallest where the hazards occur, and each property has a mutant of the code in
its module that breaks it under the same bounds.

| Run | Instance | Shows |
| --- | --- | --- |
| `ai_lifecycle` | one question, two workers, two deliveries, two answers; or two questions, one worker, one answer, one delivery each | `IInv` (with `MemoryHoldsAnswers`, `RefusedLeavesNoRow`, `PendingHasNoAnswer`); `StatusMatchesAnswer` while the broker delivers once; `EmbeddedWithItsAnswer`; `ImplementsPromise`; `OldQueriesPurged` |
| `auth_session` | two requests, two passwords, Redis errors and crashes; an owner and a manager, two owners, or an owner and a demo owner | `IInv` (with `OnlyActiveCached`); `LastOwnerOut`; `NoSelfActivation`; `DeactivationTakesEffect` |
| `auth_password` | an owner and a worker, one request, two passwords, no failures | that `ChangedPasswordIsStored` is violated |
| `report_files` | two reports, two workers, days of 2 ticks, retention 3, 6 ticks | `FileWhileYoung`; `DeletedWithItsFile`; `OldReportsPurged` |
| `report_lists` | a user and the schedule, two reports, one worker, 3 ticks | `IInv` (with `RefusedOnlyIfGenerated`); `EveryReportIsListed` |
| `alerts` | one incident, two editors, two workers, 3 retries, a message delivered twice; or two materials of cost -1, 1 or 3, on logs of this project or another, budgets 2 and 3, two requests; or a user with two sockets, one with a single one, one call | `AlertsInv`; `AlertsWereHigh`; `RepeatedOnlyInDoubt`; `AlertedOrLost`; `AlertAmissHasCause`; `LiveSocketsRegistered`; `PushedOnceAndStored`; `SkippedOnlyIfShifted`; `EveryRecipientServed` |
| `photos` | one log with a limit of 1, three names, three requests | `IInv` (with `OvershootBounded`, `BucketMatchesRows`); `ListGoesWrongInFlight` |
| `embed` | two editors, two workers, one edit per part, queue of one | `TextInv` (with `CurrentWhenQuiet`); `TextNeverOlder`; `TextEventuallyCurrent` |
| `caches` | two projects, an owner, a manager, a worker; one project list, manager dashboard or incident list at a time; two requests | `NeglectHasCause` |
| `registry` | an owner and a manager, one account to register, one project, two requests; all ten operations | `IInv` (with `RowsMatchRoles`, `AccountsMatchCreators`, `RowsAreReferenced`); `AnswersAreSerial`; `ErrorsNeedRaces` |
| `ml_models` | two trainings, a request, two versions of the tables, one failure | `IInv` (with `RegularLoads`); `NeverOlder`; `PredictionsHeal` |
| `figures` | two projects, four dates over three weeks and two years, two names, a worker, four rows | `FiguresTypeOK`; `DashboardsAgree`; `RecentTrendsAgree`; `FeaturesAgree`; `WeekTurns` |

The properties in brackets are conjuncts of `IInv`, each a theorem of its own;
`TypeOK` is another conjunct, and `FiguresTypeOK` all the figures need. `AlertsInv` is the `IInv` of three modules at once,
`TextInv` that of LogEmbedding; the type invariant of ResponseCaches is a theorem.

### Why the bounds are enough to be interesting

- *ai_lifecycle*: two deliveries and two workers let one row be processed twice
  at once, expired in between, deleted in between. Two answers tell the texts of
  the two runs apart. Rows meet in the duplicate test and in deletes of several: for
  those there are two questions, near-duplicates of each other, of which one may be
  remembered when the cleanup deletes both. The proofs cover any number.
- *auth_session*: two requests are enough for a fill to land after a delete, for
  an account to be changed while its owner is being let in, and for two owners to
  deactivate each other. A scene says which two accounts send requests; the others
  stay as they are. With two owners or a demo owner there are only requests that
  read and change a status, which is what these scenes are about.
- *report_files*: six ticks are three days: a job crosses midnight, a file is
  shared by two reports of a day, and reports grow old. *report_lists* needs a
  day boundary only.
- *photos*: a limit of 1 with three uploads overshoots by 2, the most that
  `OvershootBounded` allows, which is the point.
- *embed*: `MaxEdits` is one per part, so edits fall between any two of the
  four SELECTs. `MaxQueue` of one stands for the broker: a second message makes
  a request wait, which only delays it.
- *caches*: no key depends on another, so at each moment one key is stored or about
  to be, any one. Two projects are needed for a write in one under the address of
  the other. Other kinds of key differ by the commits and deletions listed for them,
  not by machinery.
- *alerts*: the incident has the `max_retries` of the code. Costs reach, pass
  and miss the budget exactly. Two tabs are the smallest list in which a removal at
  the index of the walk shifts another socket, and a second user with a tab the
  smallest audience of two. Longer lists and several walks at once are not
  checked, but the proofs cover them. The three parts share no state, so that
  their interleavings would show nothing that one of them alone does not.
- *registry*: two requests give every race of a test and a commit. The seeded
  owner and manager are two of those the migrations leave; the third account can
  become a worker or a second manager. The proofs cover any number of requests.
- *ml_models*: two trainings are enough to write one file at once, to close it in
  either order and to leave it mixed; one failure leaves it in pieces. There are
  rows for two of the three models, one that is loaded and one that is not: the
  third is skipped.
- *figures*: the second week spans a new year; a log of the last date is one to
  come on all other days. Four rows allow a log with a material and two incidents,
  or two logs with a row each. A cost is 2 or -1, an attendance 0 or 4 hours: a row
  that adds nothing is not the same as no row.

`CHECK_DEADLOCK FALSE` is set where the system of the model really stops: the
clock reaches `MaxNow`, names, keys, sockets or calls run out.

### Fairness

Liveness is checked under weak fairness of steps that the event loop, a running
worker or a store takes on its own: resuming a request, ending a transaction,
expiring a key. Beat starts the cleanups every night (`WF` of
`CleanupReadsStale` and `Clean`); an expiry by the AI cleanup that could finish
again and again finishes once (`SF`). In `OldReportsPurged` strong fairness of
the delete of one report is a premise, as is that the cleanup does not die every
night, because nothing in the code guarantees them; what is shown is that
*another* report cannot stand in its way. No client is assumed to do anything,
nor is any Redis or broker call assumed to succeed. The liveness half of
`ImplementsPromise`, that every question is settled, needs no worker at all: the
cleanup settles what workers lose. `OldQueriesPurged` has strong fairness of the
delete of the batch as a premise of its own, because nothing in the code keeps it
from failing every night; without the premise it does not hold.
`TextEventuallyCurrent` needs workers to run, and says nothing once
`lost` holds or while the last word is that of a task that was passed. `PredictionsHeal` assumes that beat goes on
queueing retrainings (every Monday), that workers run them and that copies
expire; failures are bounded, so there is a last one. `AlertedOrLost` assumes
that a request that was begun goes on and that the workers run what is queued;
posts may always fail. `EveryRecipientServed` assumes that a call that was begun
goes on.

### Where the code does not keep what it says

`auth_password` must find `ChangedPasswordIsStored` violated: a user let in from
Redis is an object of no session, so `change_password` changes no row
(`services/user.py:206`) and answers that it did.

Passing properties are stated as strongly as the code allows. What they stop
short of is behaviour the modules have. Some of it a property delimits:

- The cleanup deletes old questions in one transaction, and an embedded one
  cannot be deleted (`models/embedding.py:41` has no ON DELETE), so from then on
  every night fails (`tasks/ai_query.py:108`), for the others of the batch too,
  against "Delete queries older than 90 days" (`tasks/ai_query.py:104`).
  `OldQueriesPurged` says that an old question goes or an embedded one blocks the
  batch; that it goes, or is itself embedded, is violated by the two questions of
  the run.
- Two owners who deactivate each other at once leave nobody who can activate an
  owner (`services/user.py:157`). `LastOwnerOut` says that nothing else does: the
  last one is shut out by another owner who is inactive by then. In the tables that
  the migrations leave, the second owner is a demo account, and nobody registers an
  owner (`services/auth.py:43`), so it cannot happen there (`SoleOwnerStays`).
- The services of materials, incidents and equipment never test that the log of the
  address is of the project of the address (`services/material.py:79`,
  `services/incident.py:80`, `services/equipment.py:66`); those of attendance and
  photos do. A material through another project's address is compared with that
  project's budget: it may announce an overrun that is none, which
  `AlertAmissHasCause` names next to stale reads; one that it causes in the project
  of the log is announced by nobody (`CreateThroughAnother`). A write
  through another project's address drops the copies of the address and leaves those
  of the log, with nobody about to drop them: `WrittenAbroad` in `NeglectHasCause`.
- A disconnect during `send_to_user` shifts the list it walks, and the next live
  socket is skipped (`core/ws_manager.py:30`): `SkippedOnlyIfShifted` says that
  nothing else costs a socket its notification.
- The features of the budget predictions join materials and incidents to a log
  and count a material once per incident (`ml/features.py:33`), so a project
  within its budget is predicted as over it: `FeaturesAgree` has equality only
  while no log has two incidents. No schema refuses a negative cost
  (`schemas/material.py:6`), and one counted twice hides an overrun: that a project
  over budget is one in the features too has the premise that it has no such cost.
- `update_project` stores any status, and the schema of the dashboards knows two
  (`schemas/dashboard.py:9`); one project on hold makes the owner's dashboard of
  all years an error. The count of workers of last week is the query of now
  (`services/dashboard.py:329`), so its delta is 0. Both are in `DashboardsAgree`.
- `create_attendance` reads `current_user.role.name`
  (`services/attendance.py:25`), and no way to authenticate leaves the role
  loaded: every call is a 500 (`RoleNotLoaded`, and "crash" in
  `AnswersAreSerial`). The tests pass because their users are selected with the
  role (`tests/conftest.py:123`).
- Any IntegrityError of a log is "Log already exists for this date"
  (`routers/daily_log.py:69`); the owner gets it for a project that does not
  exist (`Serial`).

And some no property excludes:

- A poll that read Pending overwrites an answer saved in between with TIMEOUT
  (`services/ai_query.py:230`). A second delivery can mix a status of one run
  with a text of the other. Two near-duplicates may both be remembered
  (`services/ai_query.py:139`).
- A copy of a user filled after a change outlives it by up to 24 hours
  (`core/dependencies.py:46`); `DeactivationTakesEffect` holds only in the end.
- The cleanup of one report removes the file of younger ones of the same day
  (`services/report.py:286`), so `FileWhileYoung` ends a day before retention
  does. Two requests before the first job ends make two reports of a day
  (`routers/report.py:35`), and a third then fails. The cleanup leaves deleted
  reports in cached lists (`services/report.py:287`).
- Notifications sent from Celery reach no socket (`services/notification.py:49`).
- Two uploads that count before either commits exceed the limit
  (`services/site_photo.py:92`); a list filled late misses a photo for an hour
  (`services/site_photo.py:171`).
- Updates and budget changes exceed a budget without an alert, alone or overlapping
  with creates (`services/material.py:136`, `services/project.py:101`).
- Two overlapping embedding tasks may store the older text last
  (`tasks/embedding.py:53`): `backdated`.
- A cached dashboard of a project is returned before the project and the assignment
  of the caller are tested (`services/dashboard.py:361`).
- Two registrations of one email, two attendances of one worker and log: the
  loser gets a 500 and not its message (`services/auth.py:58`,
  `services/attendance.py:54`). A second assignment of one user, and the delete
  of a project that is in use, always do (`services/project.py:146`, `123`).
- A manager who is unassigned between the test and the commit still commits
  (`services/project.py:133`): tests of roles hold at the commit, because roles never change;
  tests of assignments do not.
- A request that loads a model file while it is written is a 500, or predicts
  with a mixture (`ml/predict.py:19`).
- An alert is not taken back when the severity is lowered, nor sent when it is
  raised by an update (`services/incident.py:142`).
- The owner's total budget is that of active projects and the total spending that
  of all of them (`services/dashboard.py:343`, `268`). `DelayFeatures` weighs the
  hours of a log by its incidents (`ml/features.py:73`).
- No write drops the cached list of materials (`services/material.py:94`),
  another manager's aggregate dashboard (`services/daily_log.py:115`) or a
  worker's attendance history (`services/attendance.py:141`).
  `delete_cache("dashboard:owner")` (`services/project.py:112`) names a key that
  is never stored. Such keys are outside `Kept`, and so are lists of a log that
  were asked for under another project's address.

## 4. What is proved

For every value of the constants that satisfies the named assumptions. Each
argument is an inductive invariant, `IInv` but for the figures, with
`Init => IInv` and `IInv /\ [Next]_vars => IInv'`; TLC checks it too, but for
that of ReportPipeline only on the instance of `report_lists`. ResponseCaches needs
only its `TypeOK`.

- **AIQueryLifecycle_proofs**: `MemoryHoldsAnswers`, `PendingHasNoAnswer`,
  `RefusedLeavesNoRow`, `EmbeddedWithItsAnswer`. A partial UPDATE makes them
  non-inductive: whether a commit leaves Done next to its answer depends on what
  the row was when it was loaded. `LoadedOK` says what may have happened to a
  row since then (Pending never comes back), `DraftOK` what a worker may be about
  to save, and `AnsweredIsRemembered` that a row once answered finds a
  near-duplicate in the memory, so that a worker past the duplicate test holds
  a base that never was answered and its UPDATE writes both columns. That
  argument needs `Similar` to be reflexive, its assumption: the distance of a
  question to itself is below the threshold.
  `StatusMatchesAnswer` adds `FirstDelivery`, that the one worker of a question
  delivered once loaded it Pending or expired, and that only the expiry has touched
  it since, and `DraftsAgree`, that what a worker is about to save agrees in itself.
  `KeepsPromise` is the safety half of `ImplementsPromise`: initial states map
  to initial states, and every action to a step of AIQueryPromise or to none.
- **AuthSession_proofs**: `OnlyActiveCached`, because what a request is about to
  store was active when it was selected (`RequestsOK`); `NoSelfActivation`, from
  the guards of the four handlers. `OnlyOwnersDeactivateOwners`: whoever turns an
  owner's `is_active` off is another owner and no demo account, however old the
  session that lets him in. From it `LastOwnerOut`, for any number of owners: a step
  writes one row (`OneRowAtOnce`), so an owner who may write and is not the target is
  as inactive before the step as after it. `SoleOwnerStays` has the hypothesis
  `InCharge = {o}`, one owner who may write, as the migrations leave it. `ShutOutLasts` is what `DeactivationTakesEffect` rests
  on: once no copy and no request of a deactivated account is left, none comes
  back before somebody activates it.
- **ReportPipeline_proofs**: `FileWhileYoung`, `DeletedWithItsFile`,
  `RefusedOnlyIfGenerated`. The invariant bounds a report's creation by its day
  (`MadeOnTime`, `JobsOnTime`) and says that a job's file waits for its row and
  that only a day past retention lost its file. `Retention > DayLength` is
  assumed.
- **SitePhotos_proofs**: `BucketMatchesRows`, from the uniqueness of names across
  rows and requests (`NamesOK`); `OvershootBounded`, by counting: a request that
  passes the count finds the rows below the limit and at most the other requests
  uploading. Requests are assumed to be a finite, non-empty set.
  `ListGoesWrongInFlight` goes through the actions that touch rows or the list.
- **SiteAlerts_proofs, incidents**: `AlertsWereHigh`, since a message is queued
  only behind a row that was read back High (`HighFirst`); `RepeatedOnlyInDoubt`,
  by counting. `Counted` bounds what Slack shows and the attempts by the messages
  still to come: a message queued with `n` retries behind it stands for the
  posts it may yet make. Its sums over the retries (`UnderWay`, `PostsLeft`) count
  messages in the queue and workers that hold one. `Workers` is assumed finite.
- **SiteAlerts_proofs, notifications**: `LiveSocketsRegistered`,
  `PushedOnceAndStored` and `SkippedOnlyIfShifted`, for lists of any length and
  any number of calls. `ListsSound`: a list holds accepted sockets of its user,
  each once. `NothingAhead`: no socket at or after the index of a walk has been
  sent that notification, which is why a removal, that moves sockets to smaller
  indexes only, repeats none. `AudienceFirst`: while the sockets that were there when
  the walk began still are, they come first in the list, and those before the index
  were sent it or raised. `DeadAreGone`: only sockets that are gone are disconnected
  after a walk; `InTurn`: a user is served once. The lemmas say what deletion by
  value leaves of a list.
- **SiteAlerts_proofs, materials**: `AlertAmissHasCause`. A row has a key that was
  drawn and a create that refreshes its row (`RowsAreDrawn`); only a create that has
  inserted can have crossed the budget (`CrossedByInserting`); until a create is
  overtaken, what it read of budget, total and row is still so and, if its row is on a
  log of this project, decides whether its commit crossed the budget (`ReadsHold`).
  `Materials` is assumed finite, costs and budgets integers of either sign.
- **SiteAlerts_proofs, log texts**: `CurrentWhenQuiet` and `TextNeverOlder` for any
  number of workers, overlapping or not. `Between` says that a task that was not passed
  has selected versions between the stored and the current ones, `UpToDate` that with
  no message left or to come either a task under way has seen the latest ones, or the
  text is the latest or backdated and every task under way was passed.
- **SiteAlerts_proofs**: `AlertsInvariance` puts the first three together: the
  invariants hold in the composition that the run checks, whichever scene it
  plays.
- **ResponseCaches_proofs**: `NeglectHasCause` for any projects, users, requests
  and all kinds of key; the run watches three of them. `WriteCommits` goes
  through the writes: the deletions of each cover what it has made stale of
  `Kept`, or it was written under another project's address. `Kept` is taken after
  the step, because it grows when a project is created.
- **ProjectRegistry_proofs**: `RowsMatchRoles`, `AccountsMatchCreators`,
  `RowsAreReferenced` for any users, projects and requests at once. What makes
  check-then-insert safe is that the facts it relies on are stable: a role never
  changes and a user never goes (`UsersHaveRoles`), so what a request found out
  about roles holds until its commit (`TestsHold`). For attendance it takes
  `RowsMatchRoles` itself: the worker's assignment may be gone, but its role is
  what it was. References need no test at all: the constraints keep them.
  These are `TablesAgree`. `AnswersAreSerial` and `ErrorsNeedRaces` add that the
  tests an undisturbed request has passed would still pass (`TestsStillPass`), and
  that the id of a project to come is given to nobody else (`IdsGivenOnce`).
- **Predictions_proofs, models**: `RegularLoads` for any trainings and requests.
  `WritersKnown` says that nobody writes a whole file and one training alone a
  partial one, `LoadsSound` that a load nobody disturbed still has the file it
  began with. `NeverOlder` takes `TrainedInOrder`: while trainings take turns,
  the rows that one has read are no older than those behind any file.
- **Predictions_proofs, figures**: `DashboardsAgree`, `RecentTrendsAgree`,
  `FeaturesAgree` and `WeekTurns`, for any calendar, projects and rows, with costs
  and hours of either sign. The figures are functions of the rows, so the type invariant is inductive and
  enough: each invariant follows from `FiguresTypeOK` in one state. What it takes
  is that a sum does not depend on the order in which CHOOSE takes its elements
  (`SumsAny`, by the size of the set), and from that `SumUnion`, `SumMore`,
  `SumLess` and `SumGroups`: a sum is the same taken group by group, which is what
  a GROUP BY does and nearly every figure is. `TrendsSum` and `OwnerCell` say so of
  the tables that leave out empty groups. `FeaturesAgree` rests on a
  joined row being there at least once; `RecentTrendsAgree` on the weeks growing
  with the dates, so that a log to come is of this week or a later one; `WeekTurns`
  on a day turning at most one week (`WeekTurnsByOne`), so that last week is the
  week that was. `FiniteAssumption` (finitely many projects, names, workers, dates),
  `CalendarAssumption` and `FiguresAssumption` are what a calendar and the columns
  give; of costs, hours and budgets they say that they are integers, because the
  schemas check no sign. Only the budget half of `FeaturesAgree` needs costs that are
  not negative, and says so (`SumNat`).

The library's induction needs an operator as argument, which no installed prover
can give it. Where an argument is inductive (sums, walks of a list), the proofs
take the least of a set of numbers, or a finite set one element smaller.

Only model-checked: liveness (`DeactivationTakesEffect`, `OldReportsPurged`,
`OldQueriesPurged`, `EveryReportIsListed`, `EveryRecipientServed`,
`AlertedOrLost`, `TextEventuallyCurrent`, `PredictionsHeal` and the liveness half
of `ImplementsPromise`), because fairness and ENABLED are out of the prover's
reach. Every invariant and every action property of the passing runs is a theorem.

## 5. Simplifications worth knowing

- AuthSession takes a handler's read of the target and its commit as one step,
  BudgetAlert an update, a delete or a change of the budget; costs are integers.
- Paging, filters and totals are not modelled; in ResponseCaches one key stands
  for all pages, filters, years and logs of a kind, because writes delete them by
  pattern, and `delete_pattern`'s KEYS and DEL are one step. What a copy holds
  and who is served it is left out, as is ageing by the date ("today").
- NotificationHub does not restart the API process.
- ProjectRegistry: a test that takes two SELECTs of rows that never change (a
  user and a role) is one step; `update_project`, `update_phase` and
  changes of a log are writes of columns that no test reads, and are left out.
  The column values of a row are left out but for roles and creators.
- DashboardFigures: a dashboard is read in one step, although the code sends
  about thirty queries and can see commits between them; costs are whole (the
  column `total_cost` and the product in `ml/features.py` round differently by
  less than a cent); an average is a pair of sum and count. The phase summaries,
  counts of assigned workers, the filter of open incidents and the shift of
  today are left out. The first date of a week is a fact about `WeekOf`.
- IncidentAlert: the backoff of a retry is a delay of any length; description and
  status of an incident are left out, because Slack's text is not compared.
- MLModels: what is trained and predicted is a version; `Enough` says for which
  versions a model has rows enough.
- A Redis entry may expire at any moment; only 24 h against 120 s is lost.
- A worker process that dies loses its message, since Celery acknowledges early;
  the broker may deliver once more before that.

## 6. What is not modelled

| Part | Why |
| --- | --- |
| Login, tokens, password hashes | reads one row and calls libraries; the cached roles are copies of rows that never change |
| What models predict (`ml/train.py`, `ml/predict.py`) | numerics of libraries; only files, versions and rows are modelled |
| Worker shift of today, assignments list, downloads, pages of lists | single reads |
| `WorkerDashboard` and phases in full | reads; see DashboardFigures |
| Middleware, limits, logging, settings | stateless, or state of a library |
| The three paths a demo owner may write (`core/demo.py:15`) | AI queries, retraining and reports look at no demo account; the refusals are in AuthSession |
| Database sessions, start-up, health checks | engine configuration, pings |
| Request and response schemas | validation of one request, but for statuses and severities |
| PDF layout | layout |
| Migrations and load test | history of the schema, demonstration rows, a load generator; tables, keys, seeded roles and users are behind ProjectRegistry |

## 7. Plan

1. *Done*: AIQueryLifecycle with AIQueryPromise, AuthSession, ReportPipeline,
   NotificationHub, SitePhotos, BudgetAlert, LogEmbedding, ResponseCaches;
   ProjectRegistry, MLModels, IncidentAlert, DashboardFigures; the proofs of all.
2. Models: a dashboard read query by query while commits fall between, with a
   bound on what its figures may disagree by.
