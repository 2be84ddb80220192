---------------------------- MODULE IncidentAlert ----------------------------
(***************************************************************************)
(* The Slack alert of an incident of High severity: create_incident puts a  *)
(* message in the queue after it has read the row back, other requests      *)
(* change or delete the row meanwhile, and send_incident_webhook posts to   *)
(* Slack, retrying what failed (services.incident, tasks.webhook).          *)
(***************************************************************************)
EXTENDS Naturals, FiniteSets

CONSTANTS
  Incidents,
  Editors,      \* requests that change or delete an incident
  Workers,      \* processes of the Celery worker
  MaxRetries,   \* max_retries of the task
  MaxCopies     \* bound on the messages the broker delivers twice

ASSUME BoundsAssumption == MaxRetries \in Nat /\ MaxCopies \in Nat
ASSUME WorkersAssumption == IsFiniteSet(Workers)

VARIABLES
  row,          \* the severity in the table; Low stands for Medium also
  create,       \* create_incident, and the severity it read back
  edit,         \* update_incident and delete_incident: what they loaded
  configured,   \* WEBHOOK_URL is set
  queue,        \* messages per incident and number of retries
  worker,
  announced,    \* what Slack shows
  attempts,     \* history: posts
  doubts,       \* history: posts shown by Slack whose answer was lost
  copies,       \* history: messages delivered twice
  wasHigh,      \* history: incidents that were High at some time
  lost          \* history: alerts given up, refused by the queue or lost by a death

vars == <<row, create, edit, configured, queue, worker, announced, attempts, doubts,
          copies, wasHigh, lost>>
history == <<announced, attempts, doubts, wasHigh>>

Severities == {"Low", "High"}
Retries == 0 .. MaxRetries
Free == [at |-> "free"]

TypeOK ==
  /\ row \in [Incidents -> Severities \cup {"none", "gone"}]
  /\ create \in [Incidents -> [at : {"new", "inserted", "alerting", "done", "failed"}, seen : Severities]]
  /\ edit \in [Editors -> {Free} \cup [at : {"updating"}, of : Incidents, had : Severities, to : Severities]
                                 \cup [at : {"deleting"}, of : Incidents]]
  /\ configured \in BOOLEAN
  /\ queue \in [Incidents -> [Retries -> Nat]]
  /\ worker \in [Workers -> {Free} \cup [at : {"running", "failing"}, of : Incidents, retries : Retries]]
  /\ announced \in [Incidents -> Nat]
  /\ attempts \in [Incidents -> Nat]
  /\ doubts \in [Incidents -> Nat]
  /\ copies \in [Incidents -> 0 .. MaxCopies]
  /\ wasHigh \subseteq Incidents /\ lost \subseteq Incidents

Init ==
  /\ row = [i \in Incidents |-> "none"]
  /\ create = [i \in Incidents |-> [at |-> "new", seen |-> "Low"]]
  /\ edit = [e \in Editors |-> Free]
  /\ configured \in BOOLEAN
  /\ queue = [i \in Incidents |-> [k \in Retries |-> 0]]
  /\ worker = [w \in Workers |-> Free]
  /\ announced = [i \in Incidents |-> 0] /\ attempts = [i \in Incidents |-> 0]
  /\ doubts = [i \in Incidents |-> 0] /\ copies = [i \in Incidents |-> 0]
  /\ wasHigh = {} /\ lost = {}

Exists(i) == row[i] \in Severities
Store(i, s) ==
  /\ row' = [row EXCEPT ![i] = s]
  /\ wasHigh' = IF s = "High" THEN wasHigh \cup {i} ELSE wasHigh

-----------------------------------------------------------------------------
(* create_incident.                                                        *)

\* After the manager's assignment was tested: insert and commit.
Insert(i, s) ==
  /\ create[i].at = "new"
  /\ Store(i, s)
  /\ create' = [create EXCEPT ![i].at = "inserted"]
  /\ UNCHANGED <<edit, configured, queue, worker, announced, attempts, doubts, copies, lost>>

\* Mutant of Refresh: the severity asked for is taken for the one stored.
RefreshNot(i) ==
  /\ create[i].at = "inserted"
  /\ create' = [create EXCEPT ![i] = [at |-> "alerting", seen |-> "High"]]
  /\ UNCHANGED <<row, edit, configured, queue, worker, history, copies, lost>>

\* db.refresh selects the row again, which by now another request may have changed;
\* a row that is gone raises.
Refresh(i) ==
  /\ create[i].at = "inserted"
  /\ create' = [create EXCEPT ![i] =
                 IF Exists(i) THEN [at |-> "alerting", seen |-> row[i]] ELSE [@ EXCEPT !.at = "failed"]]
  /\ UNCHANGED <<row, edit, configured, queue, worker, history, copies, lost>>

\* send_incident_webhook.delay, after the caches were dropped and the embedding was
\* queued; an unreachable queue is only logged.
Alert(i) ==
  /\ create[i].at = "alerting"
  /\ create' = [create EXCEPT ![i].at = "done"]
  /\ IF create[i].seen = "High"
     THEN \/ queue' = [queue EXCEPT ![i][0] = @ + 1] /\ UNCHANGED lost
          \/ lost' = lost \cup {i} /\ UNCHANGED queue
     ELSE UNCHANGED <<queue, lost>>
  /\ UNCHANGED <<row, edit, configured, worker, history, copies>>

\* The API process dies during the request.
RequestDies(i) ==
  /\ create[i].at \in {"inserted", "alerting"}
  /\ create' = [create EXCEPT ![i].at = "failed"]
  /\ lost' = lost \cup {i}
  /\ UNCHANGED <<row, edit, configured, queue, worker, history, copies>>

-----------------------------------------------------------------------------
(* update_incident and delete_incident; neither sends an alert.            *)

LoadToUpdate(e, i, s) ==
  /\ edit[e] = Free /\ Exists(i)
  /\ edit' = [edit EXCEPT ![e] = [at |-> "updating", of |-> i, had |-> row[i], to |-> s]]
  /\ UNCHANGED <<row, create, configured, queue, worker, history, copies, lost>>

\* Only what differs from the loaded row is written; a row that is gone raises.
Update(e) ==
  /\ edit[e].at = "updating"
  /\ IF Exists(edit[e].of) /\ edit[e].to # edit[e].had
     THEN Store(edit[e].of, edit[e].to) ELSE UNCHANGED <<row, wasHigh>>
  /\ edit' = [edit EXCEPT ![e] = Free]
  /\ UNCHANGED <<create, configured, queue, worker, announced, attempts, doubts, copies, lost>>

LoadToDelete(e, i) ==
  /\ edit[e] = Free /\ Exists(i)
  /\ edit' = [edit EXCEPT ![e] = [at |-> "deleting", of |-> i]]
  /\ UNCHANGED <<row, create, configured, queue, worker, history, copies, lost>>

Delete(e) ==
  /\ edit[e].at = "deleting"
  /\ row' = [row EXCEPT ![edit[e].of] = "gone"]
  /\ edit' = [edit EXCEPT ![e] = Free]
  /\ UNCHANGED <<create, configured, queue, worker, history, copies, lost>>

-----------------------------------------------------------------------------
(* send_incident_webhook.                                                  *)

\* A message is acknowledged as it is taken, or is delivered a second time later.
Receive(w, i, k) ==
  /\ worker[w] = Free /\ queue[i][k] > 0
  /\ worker' = [worker EXCEPT ![w] = [at |-> "running", of |-> i, retries |-> k]]
  /\ \/ queue' = [queue EXCEPT ![i][k] = @ - 1] /\ UNCHANGED copies
     \/ copies[i] < MaxCopies /\ copies' = [copies EXCEPT ![i] = @ + 1] /\ UNCHANGED queue
  /\ UNCHANGED <<row, create, edit, configured, history, lost>>

\* Without a WEBHOOK_URL the task ends.
SkipPost(w) ==
  /\ worker[w].at = "running" /\ ~configured
  /\ worker' = [worker EXCEPT ![w] = Free]
  /\ UNCHANGED <<row, create, edit, configured, queue, history, copies, lost>>

\* Mutant of Post: what was answered is taken for a failure.
PostDisbelieved(w, shown, answered) ==
  LET i == worker[w].of IN
  /\ worker[w].at = "running" /\ configured
  /\ attempts' = [attempts EXCEPT ![i] = @ + 1]
  /\ announced' = [announced EXCEPT ![i] = IF shown THEN @ + 1 ELSE @]
  /\ doubts' = [doubts EXCEPT ![i] = IF shown /\ ~answered THEN @ + 1 ELSE @]
  /\ worker' = [worker EXCEPT ![w].at = "failing"]
  /\ UNCHANGED <<row, create, edit, configured, queue, copies, wasHigh, lost>>

\* requests.post: Slack shows the message or not, and the answer tells, or it comes
\* too late or not at all (timeout=5).
Post(w, shown, answered) ==
  LET i == worker[w].of IN
  /\ worker[w].at = "running" /\ configured
  /\ attempts' = [attempts EXCEPT ![i] = @ + 1]
  /\ announced' = [announced EXCEPT ![i] = IF shown THEN @ + 1 ELSE @]
  /\ doubts' = [doubts EXCEPT ![i] = IF shown /\ ~answered THEN @ + 1 ELSE @]
  /\ worker' = [worker EXCEPT ![w] = IF shown /\ answered THEN Free ELSE [@ EXCEPT !.at = "failing"]]
  /\ UNCHANGED <<row, create, edit, configured, queue, copies, wasHigh, lost>>

\* autoretry_for=(RequestException,): a new message with a countdown.
Retry(w) ==
  LET i == worker[w].of k == worker[w].retries IN
  /\ worker[w].at = "failing" /\ k < MaxRetries
  /\ worker' = [worker EXCEPT ![w] = Free]
  /\ queue' = [queue EXCEPT ![i][k + 1] = @ + 1]
  /\ UNCHANGED <<row, create, edit, configured, history, copies, lost>>

\* Mutant of GiveUp: the first failure is the last.
GiveUpAtOnce(w) ==
  /\ worker[w].at = "failing"
  /\ worker' = [worker EXCEPT ![w] = Free]
  /\ UNCHANGED <<row, create, edit, configured, queue, history, copies, lost>>

\* The last retry failed: the exception is the task's result, which nobody reads.
GiveUp(w) ==
  /\ worker[w].at = "failing" /\ worker[w].retries = MaxRetries
  /\ worker' = [worker EXCEPT ![w] = Free]
  /\ lost' = lost \cup {worker[w].of}
  /\ UNCHANGED <<row, create, edit, configured, queue, history, copies>>

\* The process dies, or the retry cannot be queued; the message was acknowledged.
WorkerDies(w) ==
  /\ worker[w] # Free
  /\ worker' = [worker EXCEPT ![w] = Free]
  /\ lost' = lost \cup {worker[w].of}
  /\ UNCHANGED <<row, create, edit, configured, queue, history, copies>>

-----------------------------------------------------------------------------
Creates(i) == (\E s \in Severities : Insert(i, s)) \/ Refresh(i) \/ Alert(i)
Takes(w) == \E i \in Incidents, k \in Retries : Receive(w, i, k)
Runs(w) == SkipPost(w) \/ Retry(w) \/ GiveUp(w) \/ (\E shown, answered \in BOOLEAN : Post(w, shown, answered))

Next ==
  \/ \E i \in Incidents : Creates(i) \/ RequestDies(i)
  \/ \E e \in Editors :
       \/ Update(e) \/ Delete(e)
       \/ \E i \in Incidents : LoadToDelete(e, i) \/ (\E s \in Severities : LoadToUpdate(e, i, s))
  \/ \E w \in Workers : Takes(w) \/ Runs(w) \/ WorkerDies(w)

Spec == Init /\ [][Next]_vars

\* A request that was begun goes on, the broker delivers and a task goes on.
Fairness ==
  /\ \A i \in Incidents : WF_vars(Refresh(i) \/ Alert(i))
  /\ \A w \in Workers : WF_vars(Takes(w)) /\ WF_vars(Runs(w))

FairSpec == Spec /\ Fairness

-----------------------------------------------------------------------------
(* Properties.                                                             *)

\* Whatever other requests do to the row while it is created, Slack is told only of
\* incidents that are in the table or were, and were High at some time.
AlertsWereHigh == \A i \in Incidents : announced[i] > 0 => i \in wasHigh

\* Slack shows an incident once, and once more only for each answer that was lost and
\* each message that was delivered twice: a retry never follows a success; and however
\* deliveries and retries interleave, one delivery makes at most four posts.
RepeatedOnlyInDoubt ==
  \A i \in Incidents : /\ announced[i] <= 1 + doubts[i] + copies[i]
                       /\ attempts[i] <= (MaxRetries + 1) * (1 + copies[i])

\* An incident read back as High is shown by Slack, unless the queue refused it, a
\* process died with it, or the last retry failed.
AlertedOrLost ==
  \A i \in Incidents :
    configured /\ create[i] = [at |-> "alerting", seen |-> "High"] ~> announced[i] > 0 \/ i \in lost

\* The inductive invariant behind the theorems of SiteAlerts_proofs.

\* Whatever may come to announce an incident comes from a row that was High.
HighFirst ==
  \A i \in Incidents :
    \/ row[i] = "High" \/ create[i] = [at |-> "alerting", seen |-> "High"]
    \/ (\E k \in Retries : queue[i][k] > 0) \/ (\E w \in Workers : worker[w] # Free /\ worker[w].of = i)
    \/ announced[i] > 0
    => i \in wasHigh

\* Deliveries of the alert of i, queued or taken, that have k posts behind them.
Behind == 0 .. MaxRetries + 1
Carries(task, i, k) ==
  task # Free /\ task.of = i /\ k = IF task.at = "failing" THEN task.retries + 1 ELSE task.retries
Under(i, k) ==
  (IF k \in Retries THEN queue[i][k] ELSE 0) + Cardinality({w \in Workers : Carries(worker[w], i, k)})

Sum(f) ==
  LET upTo[k \in Behind] == IF k = 0 THEN f[0] ELSE upTo[k - 1] + f[k]
  IN  upTo[MaxRetries + 1]

UnderWay(i) == Sum([k \in Behind |-> Under(i, k)])
PostsLeft(i) == Sum([k \in Behind |-> (MaxRetries + 1 - k) * Under(i, k)])

\* A delivery ends when it was answered, and makes one post less with every retry.
Counted ==
  \A i \in Incidents :
    /\ create[i].at # "done" => UnderWay(i) = 0 /\ PostsLeft(i) = 0 /\ attempts[i] = 0 /\ announced[i] = 0
    /\ UnderWay(i) <= 1 + copies[i] /\ UnderWay(i) + announced[i] <= 1 + doubts[i] + copies[i]
    /\ PostsLeft(i) + attempts[i] <= (MaxRetries + 1) * (1 + copies[i])
    /\ doubts[i] <= announced[i] /\ announced[i] <= attempts[i]

\* Types, severities and counts, together inductive.
IInv == TypeOK /\ HighFirst /\ Counted
=============================================================================
