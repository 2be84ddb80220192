-------------------------- MODULE AIQueryLifecycle --------------------------
(***************************************************************************)
(* The life of a row of ai_queries: the API request that creates it and    *)
(* hands it to Celery, the worker that asks the language model, the        *)
(* embedding kept for later questions, the poll that expires it, the       *)
(* deletes of the user, and the nightly cleanup.                           *)
(*                                                                         *)
(* Processes interleave between two database commits.  A flushed UPDATE    *)
(* holds the row until its transaction ends, and an UPDATE writes only the *)
(* columns that differ from what its session loaded.                       *)
(***************************************************************************)
EXTENDS Naturals

CONSTANTS
  Users,          \* owners who ask questions
  Queries,        \* ids of ai_queries; the sequence never reuses one
  Workers,        \* Celery processes running process_ai_query
  Projects,
  LLMAnswers,     \* texts the language model may return (external)
  Similar,        \* pairs of queries whose questions are near-duplicates
  MaxDeliveries,  \* bound: times the broker hands out one message
  NoProject, NoQuery, NoRow, NoAnswer, NoEmbedding

ASSUME SimilarAssumption ==
  /\ Similar \subseteq Queries \X Queries
  /\ \A q \in Queries : <<q, q>> \in Similar
ASSUME MaxDeliveriesAssumption == MaxDeliveries \in Nat \ {0}

Statuses == {"Pending", "Done", "Failed"}
FailureTexts == {"TIMEOUT", "RATE_LIMIT", "ERROR"}
Answers == LLMAnswers \cup FailureTexts \cup {NoAnswer}
Ages == {"fresh", "stale", "old"}   \* at most 5 minutes, more, over 90 days

\* The columns a session may change, as loaded or as it wants them.
Columns == [status : Statuses, answer : Answers]
Row == [user : Users, project : Projects \cup {NoProject},
        status : Statuses, answer : Answers, age : Ages]

ASSUME NullsAssumption ==
  /\ NoQuery \notin Queries /\ NoRow \notin Row /\ NoProject \notin Projects
  /\ NoEmbedding \notin LLMAnswers
  /\ NoAnswer \notin LLMAnswers \cup FailureTexts
  /\ LLMAnswers \cap FailureTexts = {}

VARIABLES
  rows,        \* committed ai_queries
  embeddings,  \* the answer inside each committed ai_query_embeddings row
  request,     \* where POST /ai/query is, per query
  messages,    \* process_ai_query messages waiting in the broker
  delivered,   \* messages handed to a worker so far
  worker,      \* the job of each worker
  expiring,    \* queries some GET has read as stale and is about to expire
  cleanup      \* the nightly task and the batch it has read

vars == <<rows, embeddings, request, messages, delivered, worker, expiring, cleanup>>

Blank == [status |-> "Pending", answer |-> NoAnswer]
Idle == [pc |-> "idle", query |-> NoQuery, project |-> NoProject,
         base |-> Blank, draft |-> Blank]
Off == [pc |-> "off", batch |-> {}]
Failure(text) == [status |-> "Failed", answer |-> text]

WorkerStates ==
  [pc : {"idle", "asking", "answered", "storing", "saving"},
   query : Queries \cup {NoQuery}, project : Projects \cup {NoProject},
   base : Columns, draft : Columns]

RequestStates == {"unsent", "created", "undelivered", "accepted", "refused", "error"}

\* The values each variable may have.
TypeOK ==
  /\ rows \in [Queries -> Row \cup {NoRow}]
  /\ embeddings \in [Queries -> LLMAnswers \cup {NoEmbedding}]
  /\ request \in [Queries -> RequestStates]
  /\ messages \in [Queries -> Nat]
  /\ delivered \in [Queries -> Nat]
  /\ worker \in [Workers -> WorkerStates]
  /\ expiring \in SUBSET Queries
  /\ cleanup \in [pc : {"off", "expire", "purge"}, batch : SUBSET Queries]

Init ==
  /\ rows = [q \in Queries |-> NoRow]
  /\ embeddings = [q \in Queries |-> NoEmbedding]
  /\ request = [q \in Queries |-> "unsent"]
  /\ messages = [q \in Queries |-> 0]
  /\ delivered = [q \in Queries |-> 0]
  /\ worker = [w \in Workers |-> Idle]
  /\ expiring = {}
  /\ cleanup = Off

-----------------------------------------------------------------------------
Exists(q) == rows[q] # NoRow
Embedded(q) == embeddings[q] # NoEmbedding

\* Mutant of Updated: an UPDATE that gives way to whoever settled the row first.
UpdatedIfPending(row, base, draft) ==
  IF row.status = "Pending" THEN [row EXCEPT !.status = draft.status, !.answer = draft.answer]
                            ELSE row

\* The row with the columns of draft that differ from base.
Updated(row, base, draft) ==
  [row EXCEPT !.status = IF draft.status # base.status THEN draft.status ELSE @,
              !.answer = IF draft.answer # base.answer THEN draft.answer ELSE @]

\* A session with nothing to change sends no UPDATE and waits for nobody.
Changes(w) == worker[w].draft # worker[w].base

\* A flushed, uncommitted UPDATE keeps every other writer of the row waiting.
Locked(q) == \E w \in Workers : /\ worker[w].query = q
                                /\ worker[w].pc = "storing"
                                /\ Changes(w)

StalePending(q) == Exists(q) /\ rows[q].status = "Pending" /\ rows[q].age # "fresh"

\* Mutant of Deletable: no foreign key protects an embedded query.
DeletableUnreferenced(qs) == \A q \in qs : ~Locked(q)

\* The foreign key of ai_query_embeddings has no ON DELETE: a DELETE that
\* meets one embedded query fails as a whole.
Deletable(qs) == \A q \in qs : ~Embedded(q) /\ ~Locked(q)
WithoutRows(qs) == [q \in Queries |-> IF q \in qs THEN NoRow ELSE rows[q]]
\* Mutant of TimedOut: the expiry forgets the text.
TimedOutWithoutText(qs) ==
  [q \in Queries |-> IF q \in qs
                     THEN Updated(rows[q], Blank, [status |-> "Failed", answer |-> NoAnswer])
                     ELSE rows[q]]

TimedOut(qs) ==
  [q \in Queries |-> IF q \in qs THEN Updated(rows[q], Blank, Failure("TIMEOUT"))
                                 ELSE rows[q]]

-----------------------------------------------------------------------------
(* The request that creates a query.                                       *)

CreateQuery(u, q, p) ==
  /\ request[q] = "unsent"
  /\ request' = [request EXCEPT ![q] = "created"]
  /\ rows' = [rows EXCEPT ![q] = [user |-> u, project |-> p, status |-> "Pending",
                                  answer |-> NoAnswer, age |-> "fresh"]]
  /\ UNCHANGED <<embeddings, messages, delivered, worker, expiring, cleanup>>

Enqueue(q) ==
  /\ request[q] = "created"
  /\ request' = [request EXCEPT ![q] = "accepted"]
  /\ messages' = [messages EXCEPT ![q] = @ + 1]
  /\ UNCHANGED <<rows, embeddings, delivered, worker, expiring, cleanup>>

\* delay raises OperationalError; the broker may hold the message all the same.
EnqueueFails(q) ==
  /\ request[q] = "created"
  /\ request' = [request EXCEPT ![q] = "undelivered"]
  /\ \E n \in {0, 1} : messages' = [messages EXCEPT ![q] = @ + n]
  /\ UNCHANGED <<rows, embeddings, delivered, worker, expiring, cleanup>>

\* The compensating delete before the 503.
RemoveUndelivered(q) ==
  /\ request[q] = "undelivered" /\ ~Locked(q)
  /\ IF Embedded(q)
     THEN /\ request' = [request EXCEPT ![q] = "error"]
          /\ rows' = rows
     ELSE /\ request' = [request EXCEPT ![q] = "refused"]
          /\ rows' = WithoutRows({q})
  /\ UNCHANGED <<embeddings, messages, delivered, worker, expiring, cleanup>>

\* The API process dies between two steps of the request: no response.
RequestCrash(q) ==
  /\ request[q] \in {"created", "undelivered"}
  /\ request' = [request EXCEPT ![q] = "error"]
  /\ UNCHANGED <<rows, embeddings, messages, delivered, worker, expiring, cleanup>>

\* A message prefetched but not started outlives the visibility timeout.
Redeliver(q) ==
  /\ messages[q] > 0
  /\ messages[q] + delivered[q] < MaxDeliveries
  /\ messages' = [messages EXCEPT ![q] = @ + 1]
  /\ UNCHANGED <<rows, embeddings, request, delivered, worker, expiring, cleanup>>

-----------------------------------------------------------------------------
(* _process_ai_query.  Celery acknowledges a message before running it.    *)

Receive(w, q) ==
  /\ worker[w].pc = "idle" /\ messages[q] > 0
  /\ messages' = [messages EXCEPT ![q] = @ - 1]
  /\ delivered' = [delivered EXCEPT ![q] = @ + 1]
  /\ worker' = IF Exists(q)
               THEN [worker EXCEPT ![w] =
                       [pc |-> "asking", query |-> q, project |-> rows[q].project,
                        base |-> [status |-> rows[q].status, answer |-> rows[q].answer],
                        draft |-> Blank]]
               ELSE worker
  /\ UNCHANGED <<rows, embeddings, request, expiring, cleanup>>

\* Mutant of Answered: no answer is ever embedded.
AnsweredUnremembered(w, a) ==
  /\ worker[w].pc = "asking"
  /\ worker' = [worker EXCEPT ![w].draft = [status |-> "Done", answer |-> a],
                              ![w].pc = "saving"]
  /\ UNCHANGED <<rows, embeddings, request, messages, delivered, expiring, cleanup>>

\* The model answers.  A query without project has nothing to embed.
Answered(w, a) ==
  /\ worker[w].pc = "asking"
  /\ worker' = [worker EXCEPT
       ![w].draft = [status |-> "Done", answer |-> a],
       ![w].pc = IF worker[w].project = NoProject THEN "saving" ELSE "answered"]
  /\ UNCHANGED <<rows, embeddings, request, messages, delivered, expiring, cleanup>>

\* A rate limit, a timeout or any other exception before anything is flushed:
\* from the model, or (ERROR only) from generate_embedding after it answered.
Fails(w, text) ==
  /\ \/ worker[w].pc = "asking"
     \/ worker[w].pc = "answered" /\ text = "ERROR"
  /\ worker' = [worker EXCEPT ![w].draft = Failure(text), ![w].pc = "saving"]
  /\ UNCHANGED <<rows, embeddings, request, messages, delivered, expiring, cleanup>>

\* What the query for the closest embedding of the same project sees.
Remembered(q, project) ==
  \E e \in Queries : /\ Embedded(e) /\ <<q, e>> \in Similar
                     /\ rows[e].project = project
HasNearDuplicate(w) == Remembered(worker[w].query, worker[w].project)

\* maybe_store_query_embedding up to the duplicate test: its SELECT flushes the
\* UPDATE first.  On a deleted row the flush fails, the commit in the finally
\* block fails too, and nothing is saved.  A duplicate ends in that commit.
FlushAnswer(w) ==
  LET q == worker[w].query IN
  /\ worker[w].pc = "answered" /\ (Changes(w) => ~Locked(q))
  /\ \/ /\ ~Exists(q)
        /\ worker' = [worker EXCEPT ![w] = Idle]
        /\ rows' = rows
     \/ /\ Exists(q) /\ HasNearDuplicate(w)
        /\ worker' = [worker EXCEPT ![w] = Idle]
        /\ rows' = [rows EXCEPT ![q] = Updated(@, worker[w].base, worker[w].draft)]
     \/ /\ Exists(q) /\ ~HasNearDuplicate(w)
        /\ worker' = [worker EXCEPT ![w].pc = "storing"]
        /\ rows' = rows
  /\ UNCHANGED <<embeddings, request, messages, delivered, expiring, cleanup>>

\* The INSERT and the commit.  A missing parent row or a second embedding of
\* the same query violates a constraint and the transaction is lost.
StoreEmbedding(w) ==
  LET q == worker[w].query IN
  /\ worker[w].pc = "storing"
  /\ worker' = [worker EXCEPT ![w] = Idle]
  /\ IF Exists(q) /\ ~Embedded(q)
     THEN /\ embeddings' = [embeddings EXCEPT ![q] = worker[w].draft.answer]
          /\ rows' = [rows EXCEPT ![q] = Updated(@, worker[w].base, worker[w].draft)]
     ELSE UNCHANGED <<rows, embeddings>>
  /\ UNCHANGED <<request, messages, delivered, expiring, cleanup>>

\* The commit of a failure, or of an answer that is not embedded.
SaveOutcome(w) ==
  LET q == worker[w].query IN
  /\ worker[w].pc = "saving" /\ (Changes(w) => ~Locked(q))
  /\ worker' = [worker EXCEPT ![w] = Idle]
  /\ rows' = IF Exists(q)
             THEN [rows EXCEPT ![q] = Updated(@, worker[w].base, worker[w].draft)]
             ELSE rows
  /\ UNCHANGED <<embeddings, request, messages, delivered, expiring, cleanup>>

\* The process dies, or a failed statement poisons the transaction: nothing is
\* saved, and the message is gone.
WorkerCrash(w) ==
  /\ worker[w].pc # "idle"
  /\ worker' = [worker EXCEPT ![w] = Idle]
  /\ UNCHANGED <<rows, embeddings, request, messages, delivered, expiring, cleanup>>

-----------------------------------------------------------------------------
(* The user: polls and deletes.                                            *)

PollReadsStale(q) ==
  /\ StalePending(q) /\ q \notin expiring
  /\ expiring' = expiring \cup {q}
  /\ UNCHANGED <<rows, embeddings, request, messages, delivered, worker, cleanup>>

\* The UPDATE names the row by its key only; on a deleted row it fails.
PollExpires(q) ==
  /\ q \in expiring /\ ~Locked(q)
  /\ expiring' = expiring \ {q}
  /\ rows' = IF Exists(q) THEN TimedOut({q}) ELSE rows
  /\ UNCHANGED <<embeddings, request, messages, delivered, worker, cleanup>>

DeleteQuery(q) ==
  /\ Exists(q) /\ Deletable({q})
  /\ rows' = WithoutRows({q})
  /\ UNCHANGED <<embeddings, request, messages, delivered, worker, expiring, cleanup>>

DeleteAllQueries(u) ==
  LET qs == {q \in Queries : Exists(q) /\ rows[q].user = u} IN
  /\ qs # {} /\ Deletable(qs)
  /\ rows' = WithoutRows(qs)
  /\ UNCHANGED <<embeddings, request, messages, delivered, worker, expiring, cleanup>>

-----------------------------------------------------------------------------
(* _cleanup_old_ai_queries, and time.                                      *)

OldQueries == {q \in Queries : Exists(q) /\ rows[q].age = "old"}

\* Mutant of CleanupReadsStale: nothing is expired, and Pending rows are kept.
CleanupSkipsPending ==
  /\ cleanup.pc = "off"
  /\ cleanup' = [pc |-> "purge", batch |-> {q \in OldQueries : rows[q].status # "Pending"}]
  /\ UNCHANGED <<rows, embeddings, request, messages, delivered, worker, expiring>>

CleanupReadsStale ==
  /\ cleanup.pc = "off"
  /\ LET stale == {q \in Queries : StalePending(q)} IN
     cleanup' = IF stale = {} THEN [pc |-> "purge", batch |-> OldQueries]
                              ELSE [pc |-> "expire", batch |-> stale]
  /\ UNCHANGED <<rows, embeddings, request, messages, delivered, worker, expiring>>

CleanupExpires ==
  /\ cleanup.pc = "expire"
  /\ \A q \in cleanup.batch : Exists(q) /\ ~Locked(q)
  /\ rows' = TimedOut(cleanup.batch)
  /\ cleanup' = [pc |-> "purge", batch |-> OldQueries]
  /\ UNCHANGED <<embeddings, request, messages, delivered, worker, expiring>>

\* DELETE of a row already gone only warns; one embedded row stops them all.
CleanupPurges ==
  /\ cleanup.pc = "purge" /\ Deletable(cleanup.batch)
  /\ rows' = WithoutRows(cleanup.batch)
  /\ cleanup' = Off
  /\ UNCHANGED <<embeddings, request, messages, delivered, worker, expiring>>

\* A row of the batch deleted since it was read, an embedded row, a crash.
CleanupFails ==
  /\ cleanup.pc # "off"
  /\ cleanup' = Off
  /\ UNCHANGED <<rows, embeddings, request, messages, delivered, worker, expiring>>

Grow(q) ==
  /\ Exists(q) /\ rows[q].age # "old"
  /\ rows' = [rows EXCEPT ![q].age = IF @ = "fresh" THEN "stale" ELSE "old"]
  /\ UNCHANGED <<embeddings, request, messages, delivered, worker, expiring, cleanup>>

-----------------------------------------------------------------------------
Next ==
  \/ \E q \in Queries :
       \/ \E u \in Users, p \in Projects \cup {NoProject} : CreateQuery(u, q, p)
       \/ Enqueue(q) \/ EnqueueFails(q) \/ RemoveUndelivered(q) \/ RequestCrash(q)
       \/ Redeliver(q)
       \/ PollReadsStale(q) \/ PollExpires(q) \/ DeleteQuery(q) \/ Grow(q)
  \/ \E w \in Workers :
       \/ \E q \in Queries : Receive(w, q)
       \/ \E a \in LLMAnswers : Answered(w, a)
       \/ \E t \in FailureTexts : Fails(w, t)
       \/ FlushAnswer(w) \/ StoreEmbedding(w) \/ SaveOutcome(w) \/ WorkerCrash(w)
  \/ \E u \in Users : DeleteAllQueries(u)
  \/ CleanupReadsStale \/ CleanupExpires \/ CleanupPurges \/ CleanupFails

Spec == Init /\ [][Next]_vars

(* Time passes, a flushed transaction ends (commit, or the connection of a *)
(* dead worker is closed), beat starts the cleanup every night, and a run  *)
(* of it that could expire its batch again and again does so once.         *)
(* Nothing is assumed of the workers, the broker or the user.              *)
Fairness ==
  /\ \A q \in Queries : WF_vars(Grow(q))
  /\ \A w \in Workers : WF_vars(StoreEmbedding(w))
  /\ WF_vars(CleanupReadsStale)
  /\ SF_vars(CleanupExpires) /\ WF_vars(CleanupFails)

FairSpec == Spec /\ Fairness

-----------------------------------------------------------------------------
(* Properties.                                                             *)

\* The text kept for later questions (PAST_ANSWERS in retrieve_context) is
\* always an answer of the language model to a query that still has a row with
\* a project: a failure text is never embedded, whatever fails before or after
\* the row was changed, and no delete, of the user or of the cleanup, leaves
\* an embedding behind.
MemoryHoldsAnswers ==
  \A q \in Queries : Embedded(q) =>
    embeddings[q] \in LLMAnswers /\ Exists(q) /\ rows[q].project # NoProject

\* The commit that inserts an embedding leaves its query Done with the very
\* answer that was embedded, although its UPDATE may skip columns and other
\* sessions may have rewritten the row since the worker loaded it.
EmbeddedWithItsAnswer ==
  [][\A q \in Queries : ~Embedded(q) /\ Embedded(q)' =>
       rows'[q].status = "Done" /\ rows'[q].answer = embeddings'[q]]_vars

\* A client told 503 has no row left in its list of queries, and none comes
\* back, even if the broker kept the message and a worker was busy with it.
RefusedLeavesNoRow ==
  \A q \in Queries : request[q] = "refused" => ~Exists(q)

\* A row waits for an answer exactly while it has none, through every expiry,
\* redelivery and partial UPDATE.
PendingHasNoAnswer ==
  \A q \in Queries : Exists(q) => (rows[q].status = "Pending" <=> rows[q].answer = NoAnswer)

\* The status agrees with the text shown next to it: Done with an answer of the
\* model, Failed with a failure text.  Expiries and partial UPDATEs of rows read
\* long before cannot mix them, as long as the broker delivers once; a second
\* delivery can, which the README tells.
StatusMatchesAnswer ==
  \A q \in Queries : Exists(q) /\ delivered[q] <= 1 =>
    /\ rows[q].status = "Done" => rows[q].answer \in LLMAnswers
    /\ rows[q].status = "Failed" => rows[q].answer \in FailureTexts

\* "Delete queries older than 90 days": unless the delete of the batch fails every
\* night for reasons of its own, every old row is deleted in the end, whatever else is
\* expired, deleted or fails meanwhile, or else an old row is embedded, which is then
\* what makes the delete of all the others fail.
OldQueriesPurged ==
  SF_vars(CleanupPurges) =>
    \A q \in Queries :
      (q \in OldQueries) ~> (~Exists(q) \/ \E e \in OldQueries : Embedded(e))

-----------------------------------------------------------------------------
(* The inductive invariant behind the theorems of AIQueryLifecycle_proofs. *)

\* An id that was never sent has no row, so a deleted row never reappears.
UnsentHasNoRow == \A q \in Queries : request[q] = "unsent" => ~Exists(q)

WasAnswered(columns) == columns.status = "Done" \/ columns.answer \in LLMAnswers

\* A project query that was ever answered has a near-duplicate in the memory:
\* its own embedding, or the one that made the worker skip it.
AnsweredIsRemembered ==
  \A q \in Queries :
    Exists(q) /\ rows[q].project # NoProject /\ WasAnswered(rows[q])
      => Remembered(q, rows[q].project)

\* What a worker has loaded is an earlier version of the row.
LoadedOK(w) ==
  LET q == worker[w].query  base == worker[w].base IN
  /\ q \in Queries /\ request[q] # "unsent"
  /\ Exists(q) => rows[q].project = worker[w].project
  /\ base.status = "Pending" <=> base.answer = NoAnswer
  /\ Exists(q) /\ base.status # "Pending" => rows[q].status # "Pending"
  /\ worker[w].project # NoProject /\ WasAnswered(base)
       => Remembered(q, worker[w].project)

\* What a worker is about to save.
DraftOK(w) ==
  LET draft == worker[w].draft IN
  /\ worker[w].pc \in {"answered", "storing"} =>
       worker[w].project # NoProject /\ draft.status = "Done" /\ draft.answer \in LLMAnswers
  /\ worker[w].pc = "storing" => ~WasAnswered(worker[w].base)
  /\ worker[w].pc = "saving" => draft.status # "Pending" /\ draft.answer # NoAnswer
  /\ worker[w].pc = "saving" /\ worker[w].project # NoProject =>
       draft.status = "Failed" /\ draft.answer \in FailureTexts

WorkersOK == \A w \in Workers : worker[w].pc # "idle" => LoadedOK(w) /\ DraftOK(w)

\* A status with the text that belongs to it.
Agrees(columns) ==
  \/ columns.status = "Pending" /\ columns.answer = NoAnswer
  \/ columns.status = "Done" /\ columns.answer \in LLMAnswers
  \/ columns.status = "Failed" /\ columns.answer \in FailureTexts

DraftsAgree ==
  \A w \in Workers :
    worker[w].pc \in {"answered", "storing", "saving"} => Agrees(worker[w].draft)

Busy(w, q) == worker[w].pc # "idle" /\ worker[w].query = q

\* While q was delivered once at most, one worker at most has ever had it.  What
\* that worker loaded is Pending or expired, so its UPDATE writes both columns,
\* or the text of a failure over another failure.
FirstDelivery(q) ==
  delivered[q] <= 1 =>
    /\ Exists(q) => Agrees(rows[q])
    /\ delivered[q] = 0 =>
         (Exists(q) => rows[q].status # "Done") /\ \A w \in Workers : ~Busy(w, q)
    /\ \A w \in Workers : Busy(w, q) =>
         /\ \A v \in Workers : Busy(v, q) => v = w
         /\ Agrees(worker[w].base) /\ worker[w].base.status # "Done"
         /\ Exists(q) /\ worker[w].base.status = "Failed" => rows[q].status = "Failed"

\* Rows, memory and what each worker is about to save, together inductive.
IInv ==
  /\ TypeOK /\ MemoryHoldsAnswers /\ PendingHasNoAnswer /\ RefusedLeavesNoRow
  /\ UnsentHasNoRow /\ AnsweredIsRemembered /\ WorkersOK
  /\ DraftsAgree /\ \A q \in Queries : FirstDelivery(q)

-----------------------------------------------------------------------------
(* What the users of the AI assistant are promised.                        *)

Phase(q) == CASE Exists(q) -> rows[q].status
              [] ~Exists(q) /\ request[q] = "unsent" -> "new"
              [] OTHER -> "gone"

Promise == INSTANCE AIQueryPromise
             WITH phase <- [q \in Queries |-> Phase(q)],
                  memory <- {q \in Queries : Embedded(q)}

\* Every run of the detailed system is a run of the promise, including its
\* fairness: nothing stays Pending, nothing deleted returns, what is
\* remembered was answered and is never dropped.
ImplementsPromise == Promise!Spec
=============================================================================
