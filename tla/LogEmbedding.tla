---------------------------- MODULE LogEmbedding ----------------------------
(***************************************************************************)
(* The embedded text of one daily log (tasks.embedding): every change of   *)
(* the log, its materials, attendance or incidents commits and then queues *)
(* a task; the task selects the four parts one statement after the other   *)
(* and upserts the text.  Beginning with no row, the log is version 0.     *)
(***************************************************************************)
EXTENDS Naturals

CONSTANTS
  Requests,    \* HTTP requests being served at once
  Workers,     \* processes of the Celery worker
  MaxEdits,    \* bound on the changes of one part
  MaxQueue     \* bound on the messages at which a backfill still adds one

VARIABLES
  content,    \* version of each part in the tables
  queue,      \* messages for this log
  request,
  worker,     \* the part a worker selects next, and what it has selected
  embedded,   \* the parts behind daily_log_embeddings.content_text
  lost,       \* history: a message was not queued, or a task failed or died
  backdated   \* history: the text was stored by a task that was passed

history == <<lost, backdated>>
vars == <<content, queue, request, worker, embedded, lost, backdated>>

\* In the order of the selects: daily log, materials, attendance, incidents.
Parts == 1 .. 4
Texts == [Parts -> Nat]
NoText == [p \in Parts |-> 0]

\* passed (history): another task has stored its text since this one began.
Tasks == [at : 0 .. 5, seen : Texts, passed : BOOLEAN]
Idle == [at |-> 0, seen |-> NoText, passed |-> FALSE]
Begun == [at |-> 1, seen |-> NoText, passed |-> FALSE]

\* The values each variable may have; the queue never goes below zero.
TypeOK ==
  /\ content \in Texts /\ embedded \in Texts
  /\ queue \in Nat
  /\ request \in [Requests -> {"free", "queueing"}]
  /\ worker \in [Workers -> Tasks]
  /\ lost \in BOOLEAN /\ backdated \in BOOLEAN

Init ==
  /\ content = NoText /\ embedded = NoText
  /\ queue = 0
  /\ request = [r \in Requests |-> "free"]
  /\ worker = [w \in Workers |-> Idle]
  /\ lost = FALSE /\ backdated = FALSE

Exists == content[1] > 0

-----------------------------------------------------------------------------
\* create_daily_log, and what is then written into the log.
Commit(r, p) ==
  /\ request[r] = "free"
  /\ p = 1 \/ Exists
  /\ content[p] < MaxEdits
  /\ content' = [content EXCEPT ![p] = @ + 1]
  /\ request' = [request EXCEPT ![r] = "queueing"]
  /\ UNCHANGED <<queue, worker, embedded, history>>

\* Mutant of Enqueue: no message while a task of the log is queued or running.
EnqueueUnlessBusy(r) ==
  /\ request[r] = "queueing"
  /\ request' = [request EXCEPT ![r] = "free"]
  /\ queue' = IF queue > 0 \/ \E w \in Workers : worker[w].at > 0 THEN queue ELSE queue + 1
  /\ UNCHANGED <<content, worker, embedded, history>>

\* delay(), or an OperationalError that is only logged.
Enqueue(r) ==
  /\ request[r] = "queueing"
  /\ request' = [request EXCEPT ![r] = "free"]
  /\ \/ queue' = queue + 1 /\ lost' = lost
     \/ queue' = queue /\ lost' = TRUE
  /\ UNCHANGED <<content, worker, embedded, backdated>>

Backfill ==
  /\ Exists /\ queue < MaxQueue
  /\ queue' = queue + 1
  /\ UNCHANGED <<content, request, worker, embedded, history>>

\* The broker may deliver a message once more.
Receive(w) ==
  /\ worker[w].at = 0 /\ queue > 0
  /\ queue' \in {queue - 1, queue}
  /\ worker' = [worker EXCEPT ![w] = Begun]
  /\ UNCHANGED <<content, request, embedded, history>>

SelectPart(w) ==
  LET p == worker[w].at IN
  /\ p \in Parts
  /\ worker' = [worker EXCEPT ![w].at = p + 1, ![w].seen[p] = content[p]]
  /\ UNCHANGED <<content, queue, request, embedded, history>>

\* The others that are under way have been passed.
Ends(w) ==
  worker' = [v \in Workers |-> IF v = w THEN Idle
                              ELSE [worker[v] EXCEPT !.passed = worker[v].at > 0]]

\* Mutant of Upsert: ON CONFLICT DO NOTHING.
InsertOnly(w) ==
  /\ worker[w].at = 5
  /\ embedded' = IF embedded = NoText THEN worker[w].seen ELSE embedded
  /\ backdated' = worker[w].passed
  /\ Ends(w)
  /\ UNCHANGED <<content, queue, request, lost>>

Upsert(w) ==
  /\ worker[w].at = 5
  /\ embedded' = worker[w].seen
  /\ backdated' = worker[w].passed
  /\ Ends(w)
  /\ UNCHANGED <<content, queue, request, lost>>

\* Mutant of TaskFails: the row was deleted to be inserted again.
TaskFailsHalfway(w) ==
  /\ worker[w].at > 0
  /\ worker' = [worker EXCEPT ![w] = Idle]
  /\ embedded' = NoText /\ lost' = TRUE
  /\ UNCHANGED <<content, queue, request, backdated>>

\* Rolled back and logged, or the process died: the message is gone.
TaskFails(w) ==
  /\ worker[w].at > 0
  /\ worker' = [worker EXCEPT ![w] = Idle]
  /\ lost' = TRUE
  /\ UNCHANGED <<content, queue, request, embedded, backdated>>

Works(w) == Receive(w) \/ SelectPart(w) \/ Upsert(w)

Next ==
  \/ \E r \in Requests : Enqueue(r) \/ (\E p \in Parts : Commit(r, p))
  \/ \E w \in Workers : Works(w) \/ TaskFails(w)
  \/ Backfill

Spec == Init /\ [][Next]_vars

\* A request that committed goes on, and so does a worker with a message.
Fairness ==
  /\ \A r \in Requests : WF_vars(Enqueue(r))
  /\ \A w \in Workers : WF_vars(Works(w))

FairSpec == Spec /\ Fairness

-----------------------------------------------------------------------------
(* Properties.  Workers select and upsert without a lock, so a task that   *)
(* another one has passed may store the older text last: backdated.        *)

Quiet == /\ queue = 0
         /\ \A r \in Requests : request[r] = "free"
         /\ \A w \in Workers : worker[w].at = 0

\* When nothing is under way, what the assistant searches is the log as it is,
\* however many tasks overlapped, were repeated or met edits half-way, unless
\* one was lost or the one that stored the text had been passed by another.
CurrentWhenQuiet == Quiet /\ ~lost /\ ~backdated => embedded = content

\* Only a task that was passed takes a part of the text back to an earlier
\* version, whatever is lost, repeated or edited between two selects.
NeverOlder == [][backdated' \/ \A p \in Parts : embedded'[p] >= embedded[p]]_vars

\* Edits end (MaxEdits), and the text catches up for good, duplicates or not,
\* unless a task was lost or one that was passed had the last word.
EventuallyCurrent == <>lost \/ <>[]backdated \/ <>[](embedded = content)

\* The inductive invariant behind the theorems of SiteAlerts_proofs.

\* What a worker has selected is no later than the tables and, unless it was
\* passed, no earlier than the stored text.
Between ==
  /\ \A p \in Parts : embedded[p] <= content[p]
  /\ \A w \in Workers : \A p \in Parts : p < worker[w].at =>
       /\ worker[w].seen[p] <= content[p]
       /\ ~worker[w].passed => embedded[p] <= worker[w].seen[p]

\* The task has selected nothing that has changed since.
Current(w) ==
  worker[w].at > 0 /\ \A p \in Parts : p < worker[w].at => worker[w].seen[p] = content[p]

\* With no message left or to come, a task under way is current, or the text
\* was stored by one that was, or by one that was passed.
UpToDate ==
  ~lost /\ queue = 0 /\ (\A r \in Requests : request[r] = "free") =>
    \/ \E w \in Workers : Current(w)
    \/ /\ backdated \/ embedded = content
       /\ \A w \in Workers : worker[w].at > 0 => worker[w].passed

\* Versions and the last word, together inductive.
IInv == TypeOK /\ Between /\ UpToDate
=============================================================================
