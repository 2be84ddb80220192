----------------------- MODULE AIQueryLifecycle_proofs -----------------------
(***************************************************************************)
(* Proofs about AIQueryLifecycle, for any number of queries, workers,      *)
(* answers and deliveries.  IInv is inductive: TypeStep keeps the types,   *)
(* RowStepHolds says what one step may do to a row and its embedding, and  *)
(* the remaining conjuncts follow from it.                                 *)
(***************************************************************************)
EXTENDS AIQueryLifecycle, TLAPS

\* The empty tables satisfy the invariant.
LEMMA InitIInv == Init => IInv
BY NullsAssumption
DEF Init, IInv, TypeOK, MemoryHoldsAnswers, PendingHasNoAnswer, RefusedLeavesNoRow,
    UnsentHasNoRow, AnsweredIsRemembered, WorkersOK, Exists, Embedded, Off, Idle, Blank,
    WorkerStates, Columns, Statuses, Answers, RequestStates, DraftsAgree, FirstDelivery,
    Busy

(* What an UPDATE of the changed columns leaves in a row.                  *)
LEMMA UpdatedFields ==
  ASSUME NEW row \in Row, NEW base \in Columns, NEW draft \in Columns
  PROVE  LET new == Updated(row, base, draft) IN
         /\ new \in Row
         /\ new.user = row.user /\ new.project = row.project /\ new.age = row.age
         /\ new.status = IF draft.status # base.status THEN draft.status ELSE row.status
         /\ new.answer = IF draft.answer # base.answer THEN draft.answer ELSE row.answer
<1> DEFINE s == IF draft.status # base.status THEN draft.status ELSE row.status
           a == IF draft.answer # base.answer THEN draft.answer ELSE row.answer
           half == [row EXCEPT !.status = s]
           new == [half EXCEPT !.answer = a]
<1>1. s \in Statuses /\ a \in Answers
  BY DEF Row, Columns
<1> HIDE DEF s, a
<1>2. half \in Row /\ half.status = s /\ half.answer = row.answer /\ half.user = row.user
      /\ half.project = row.project /\ half.age = row.age
  BY <1>1 DEF Row
<1> HIDE DEF half
<1>3. new \in Row /\ new.status = s /\ new.answer = a /\ new.user = row.user
      /\ new.project = row.project /\ new.age = row.age
  BY <1>1, <1>2 DEF Row
<1>4. Updated(row, base, draft) = new
  BY DEF Updated, half, s, a
<1> QED
  BY <1>3, <1>4 DEF s, a

(* What an expiry leaves in a row, and in the rows it does not name.       *)
LEMMA TimedOutFields ==
  ASSUME NEW qs \in SUBSET Queries, \A q \in qs : Exists(q), TypeOK, NEW q \in Queries
  PROVE  LET row == TimedOut(qs)[q] IN
         /\ q \notin qs => row = rows[q]
         /\ q \in qs => /\ row \in Row /\ row.project = rows[q].project
                        /\ row.status = "Failed" /\ row.answer = "TIMEOUT"
<1>1. Blank \in Columns /\ Failure("TIMEOUT") \in Columns
  BY DEF Blank, Failure, Columns, Statuses, Answers, FailureTexts
<1>2. NoAnswer # "TIMEOUT"
  BY NullsAssumption DEF FailureTexts
<1>3. ASSUME q \in qs PROVE rows[q] \in Row
  BY <1>3 DEF TypeOK, Exists
<1> QED
  BY <1>1, <1>2, <1>3, UpdatedFields DEF TimedOut, Blank, Failure

-----------------------------------------------------------------------------
(* Type correctness, action by action.                                     *)
LEMMA TypeStep == TypeOK /\ WorkersOK /\ [Next]_vars => TypeOK'
<1> SUFFICES ASSUME TypeOK, WorkersOK, [Next]_vars PROVE TypeOK'
  OBVIOUS
<1> USE DEF TypeOK
<1>1. ASSUME NEW q \in Queries, NEW u \in Users, NEW p \in Projects \cup {NoProject},
             CreateQuery(u, q, p)
      PROVE TypeOK'
  <2>1. [user |-> u, project |-> p, status |-> "Pending", answer |-> NoAnswer,
         age |-> "fresh"] \in Row
    BY DEF Row, Statuses, Answers, Ages
  <2> QED
    BY <1>1, <2>1 DEF CreateQuery, RequestStates
<1>2. ASSUME NEW q \in Queries,
             Enqueue(q) \/ EnqueueFails(q) \/ RequestCrash(q) \/ Redeliver(q)
      PROVE TypeOK'
  BY <1>2 DEF Enqueue, EnqueueFails, RequestCrash, Redeliver, RequestStates
<1>3. ASSUME NEW q \in Queries, RemoveUndelivered(q) \/ DeleteQuery(q)
      PROVE TypeOK'
  BY <1>3 DEF RemoveUndelivered, DeleteQuery, WithoutRows, RequestStates
<1>4. ASSUME NEW q \in Queries, Exists(q), NEW base \in Columns, NEW draft \in Columns
      PROVE Updated(rows[q], base, draft) \in Row
  BY <1>4, UpdatedFields DEF Exists
<1>5. ASSUME NEW qs \in SUBSET Queries, \A q \in qs : Exists(q)
      PROVE TimedOut(qs) \in [Queries -> Row \cup {NoRow}]
  BY <1>4, <1>5 DEF TimedOut, Blank, Failure, Columns, Statuses, Answers, FailureTexts
<1>6. ASSUME NEW q \in Queries, PollReadsStale(q) \/ PollExpires(q)
      PROVE TypeOK'
  BY <1>5, <1>6 DEF PollReadsStale, PollExpires
<1>7. ASSUME NEW q \in Queries, Grow(q)
      PROVE TypeOK'
  BY <1>7 DEF Grow, Exists, Row, Ages
<1>8. ASSUME NEW w \in Workers, NEW q \in Queries, Receive(w, q)
      PROVE TypeOK'
  <2>1. Exists(q) => [status |-> rows[q].status, answer |-> rows[q].answer] \in Columns
    BY DEF Exists, Row, Columns
  <2>2. Exists(q) => rows[q].project \in Projects \cup {NoProject}
    BY DEF Exists, Row
  <2>3. Blank \in Columns
    BY DEF Blank, Columns, Statuses, Answers
  <2>4. worker' \in [Workers -> WorkerStates]
    BY <1>8, <2>1, <2>2, <2>3 DEF Receive, WorkerStates
  <2> QED
    BY <1>8, <2>4 DEF Receive
<1>9. ASSUME NEW w \in Workers, NEW a \in LLMAnswers, Answered(w, a)
      PROVE TypeOK'
  <2>1. [status |-> "Done", answer |-> a] \in Columns
    BY DEF Columns, Statuses, Answers
  <2>2. worker' \in [Workers -> WorkerStates]
    BY <1>9, <2>1 DEF Answered, WorkerStates
  <2> QED
    BY <1>9, <2>2 DEF Answered
<1>10. ASSUME NEW w \in Workers, NEW t \in FailureTexts, Fails(w, t)
       PROVE TypeOK'
  <2>1. Failure(t) \in Columns
    BY DEF Failure, Columns, Statuses, Answers
  <2>2. worker' \in [Workers -> WorkerStates]
    BY <1>10, <2>1 DEF Fails, WorkerStates
  <2> QED
    BY <1>10, <2>2 DEF Fails
<1>11. Idle \in WorkerStates
  BY DEF Idle, Blank, WorkerStates, Columns, Statuses, Answers
<1>12. ASSUME NEW w \in Workers
       PROVE worker[w].base \in Columns /\ worker[w].draft \in Columns
  BY DEF WorkerStates
<1>13. ASSUME NEW w \in Workers, FlushAnswer(w)
       PROVE TypeOK'
  <2>1. rows' \in [Queries -> Row \cup {NoRow}]
    BY <1>4, <1>12, <1>13 DEF FlushAnswer
  <2>2. worker' \in [Workers -> WorkerStates]
    BY <1>11, <1>13 DEF FlushAnswer, WorkerStates
  <2> QED
    BY <1>13, <2>1, <2>2 DEF FlushAnswer
<1>14. ASSUME NEW w \in Workers, StoreEmbedding(w)
       PROVE TypeOK'
  <2>1. rows' \in [Queries -> Row \cup {NoRow}]
    BY <1>4, <1>12, <1>14 DEF StoreEmbedding
  <2>2. worker' \in [Workers -> WorkerStates]
    BY <1>11, <1>14 DEF StoreEmbedding
  <2>3. embeddings' \in [Queries -> LLMAnswers \cup {NoEmbedding}]
    BY <1>14 DEF StoreEmbedding, WorkersOK, DraftOK
  <2> QED
    BY <1>14, <2>1, <2>2, <2>3 DEF StoreEmbedding
<1>15. ASSUME NEW w \in Workers, SaveOutcome(w) \/ WorkerCrash(w)
       PROVE TypeOK'
  <2>1. rows' \in [Queries -> Row \cup {NoRow}]
    BY <1>4, <1>12, <1>15 DEF SaveOutcome, WorkerCrash
  <2>2. worker' \in [Workers -> WorkerStates]
    BY <1>11, <1>15 DEF SaveOutcome, WorkerCrash
  <2> QED
    BY <1>15, <2>1, <2>2 DEF SaveOutcome, WorkerCrash
<1>16. ASSUME NEW u \in Users, DeleteAllQueries(u)
       PROVE TypeOK'
  BY <1>16 DEF DeleteAllQueries, WithoutRows
<1>17. CASE CleanupReadsStale
  BY <1>17 DEF CleanupReadsStale, OldQueries
<1>18. CASE CleanupExpires
  BY <1>5, <1>18 DEF CleanupExpires, OldQueries
<1>19. CASE CleanupPurges \/ CleanupFails
  BY <1>19 DEF CleanupPurges, CleanupFails, WithoutRows, Off
<1>20. CASE UNCHANGED vars
  BY <1>20 DEF vars
<1> QED
  BY <1>1, <1>2, <1>3, <1>6, <1>7, <1>8, <1>9, <1>10, <1>13, <1>14, <1>15, <1>16,
     <1>17, <1>18, <1>19, <1>20 DEF Next

-----------------------------------------------------------------------------
(* What one step may do to the row and the embedding of one query.         *)

\* The columns stay, are expired, or are those of a worker that commits.
RowWritten(q) ==
  \/ rows'[q].status = rows[q].status /\ rows'[q].answer = rows[q].answer
  \/ rows'[q].status = "Failed" /\ rows'[q].answer = "TIMEOUT"
  \/ \E w \in Workers :
       /\ worker[w].pc \in {"answered", "storing", "saving"} /\ worker[w].query = q
       /\ rows'[q] = Updated(rows[q], worker[w].base, worker[w].draft)
       /\ worker[w].pc = "answered" => HasNearDuplicate(w)
       /\ worker[w].pc = "storing" => Embedded(q)'
       /\ worker'[w] = Idle

RowStep(q) ==
  /\ request'[q] = "unsent" => request[q] = "unsent" /\ rows'[q] = rows[q]
  /\ ~Exists(q) /\ Exists(q)' =>
       request[q] = "unsent" /\ request'[q] = "created" /\ ~WasAnswered(rows'[q])
       /\ rows'[q].status = "Pending" /\ rows'[q].answer = NoAnswer
  /\ Exists(q) /\ Exists(q)' =>
       rows'[q].project = rows[q].project
       /\ (rows[q].status # "Pending" => rows'[q].status # "Pending")
  /\ Exists(q) /\ Exists(q)' => RowWritten(q)
  /\ Embedded(q) => Exists(q)' /\ embeddings'[q] = embeddings[q]
  /\ request'[q] = "refused" => request[q] = "refused" \/ ~Exists(q)'

\* Every step does to a row and its embedding only what RowStep allows.
LEMMA RowStepHolds ==
  ASSUME IInv, [Next]_vars, NEW q \in Queries PROVE RowStep(q)
<1> USE DEF RowStep, RowWritten, Exists, Embedded
<1>1. CASE rows' = rows /\ embeddings' = embeddings /\ request' = request
  BY <1>1 DEF IInv, MemoryHoldsAnswers
<1>2. ASSUME NEW r \in Queries, NEW u \in Users, NEW p \in Projects \cup {NoProject},
             CreateQuery(u, r, p)
      PROVE RowStep(q)
  BY <1>2, NullsAssumption
  DEF CreateQuery, IInv, TypeOK, MemoryHoldsAnswers, UnsentHasNoRow, WasAnswered
<1>3. ASSUME NEW r \in Queries, Enqueue(r) \/ EnqueueFails(r) \/ RequestCrash(r)
      PROVE RowStep(q)
  BY <1>3 DEF Enqueue, EnqueueFails, RequestCrash, IInv, TypeOK, MemoryHoldsAnswers
<1>4. ASSUME NEW r \in Queries, RemoveUndelivered(r)
      PROVE RowStep(q)
  BY <1>4 DEF RemoveUndelivered, WithoutRows, IInv, TypeOK, MemoryHoldsAnswers
<1>5. ASSUME NEW qs \in SUBSET Queries, Deletable(qs), rows' = WithoutRows(qs),
             embeddings' = embeddings, request' = request
      PROVE RowStep(q)
  BY <1>5 DEF Deletable, WithoutRows, IInv, MemoryHoldsAnswers, RefusedLeavesNoRow,
     UnsentHasNoRow
<1>6. ASSUME NEW qs \in SUBSET Queries, \A r \in qs : Exists(r), rows' = TimedOut(qs),
             embeddings' = embeddings, request' = request
      PROVE RowStep(q)
  <2>1. CASE q \in qs
    <3>1. /\ rows'[q] \in Row /\ rows'[q].project = rows[q].project
          /\ rows'[q].status = "Failed" /\ rows'[q].answer = "TIMEOUT"
      BY <1>6, <2>1, TimedOutFields DEF IInv
    <3>2. rows'[q] # NoRow /\ rows[q] # NoRow
      BY <1>6, <2>1, <3>1, NullsAssumption
    <3> QED
      BY <1>6, <3>1, <3>2 DEF IInv, UnsentHasNoRow, RefusedLeavesNoRow
  <2>2. CASE q \notin qs
    <3>1. rows'[q] = rows[q]
      BY <1>6, <2>2, TimedOutFields DEF IInv
    <3> QED
      BY <1>6, <3>1 DEF IInv, MemoryHoldsAnswers, RefusedLeavesNoRow
  <2> QED
    BY <2>1, <2>2
<1>7. ASSUME NEW r \in Queries, Grow(r)
      PROVE RowStep(q)
  <2>1. rows[r] \in Row /\ rows[r].age \in Ages
    BY <1>7 DEF Grow, IInv, TypeOK, Row
  <2> DEFINE older == IF rows[r].age = "fresh" THEN "stale" ELSE "old"
             grown == [rows[r] EXCEPT !.age = older]
  <2>2. grown \in Row /\ grown.project = rows[r].project /\ grown.status = rows[r].status
        /\ grown.answer = rows[r].answer
    BY <2>1 DEF Row, Ages
  <2>3. rows'[q] = IF q = r THEN grown ELSE rows[q]
    BY <1>7 DEF Grow, IInv, TypeOK
  <2>4. embeddings' = embeddings /\ request' = request
    BY <1>7 DEF Grow
  <2> HIDE DEF grown
  <2>5. grown # NoRow /\ rows[r] # NoRow
    BY <2>1, <2>2, NullsAssumption
  <2> QED
    BY <2>2, <2>3, <2>4, <2>5 DEF IInv, MemoryHoldsAnswers, RefusedLeavesNoRow, UnsentHasNoRow
<1>8. ASSUME NEW w \in Workers, NEW r \in Queries, worker[w].query = r, Exists(r),
             worker[w].pc \in {"answered", "saving", "storing"},
             rows' = [rows EXCEPT ![r] = Updated(@, worker[w].base, worker[w].draft)],
             embeddings' = embeddings \/
               /\ ~Embedded(r)
               /\ embeddings' = [embeddings EXCEPT ![r] = worker[w].draft.answer],
             request' = request,
             worker[w].pc = "answered" => HasNearDuplicate(w),
             worker[w].pc = "storing" => Embedded(r)',
             worker' = [worker EXCEPT ![w] = Idle]
      PROVE RowStep(q)
  <2>1. request[r] # "unsent" /\ rows[r] \in Row
    BY <1>8 DEF IInv, TypeOK, WorkersOK, LoadedOK
  <2>2. worker[w].base \in Columns /\ worker[w].draft \in Columns
    BY DEF IInv, TypeOK, WorkerStates
  <2>3. worker[w].draft.status # "Pending"
    BY <1>8 DEF IInv, WorkersOK, DraftOK
  <2>4. rows'[r] = Updated(rows[r], worker[w].base, worker[w].draft)
    BY <1>8, <2>1 DEF IInv, TypeOK
  <2>5. rows'[r] \in Row /\ rows'[r].project = rows[r].project
        /\ (rows[r].status # "Pending" => rows'[r].status # "Pending")
    BY <2>1, <2>2, <2>3, <2>4, UpdatedFields
  <2>6. \A e \in Queries \ {r} : rows'[e] = rows[e] /\ embeddings'[e] = embeddings[e]
    BY <1>8, <2>1 DEF IInv, TypeOK
  <2>7. Embedded(r) => embeddings'[r] = embeddings[r]
    BY <1>8
  <2>8. RowWritten(r)
    <3>1. worker'[w] = Idle
      BY <1>8 DEF IInv, TypeOK
    <3> QED
      BY <1>8, <2>4, <3>1
  <2>9. CASE q = r
    <3> HIDE DEF RowWritten
    <3>1. rows'[r] # NoRow
      BY <2>5, NullsAssumption
    <3> QED
      BY <1>8, <2>1, <2>5, <2>7, <2>8, <2>9, <3>1
      DEF IInv, RefusedLeavesNoRow, MemoryHoldsAnswers
  <2>10. CASE q # r
    BY <1>8, <2>6, <2>10 DEF IInv, MemoryHoldsAnswers, RefusedLeavesNoRow
  <2> QED
    BY <2>9, <2>10
<1>9. ASSUME NEW w \in Workers,
             FlushAnswer(w) \/ StoreEmbedding(w) \/ SaveOutcome(w)
      PROVE RowStep(q)
  <2> HIDE DEF RowWritten, RowStep
  <2>1. CASE rows' = rows /\ embeddings' = embeddings
    BY <1>1, <1>9, <2>1 DEF FlushAnswer, StoreEmbedding, SaveOutcome
  <2>2. PICK r \in Queries : worker[w].query = r
    BY <1>9 DEF FlushAnswer, StoreEmbedding, SaveOutcome, IInv, WorkersOK, LoadedOK
  <2>3. CASE FlushAnswer(w) /\ rows' # rows
    BY <1>8, <2>2, <2>3 DEF FlushAnswer
  <2>4. CASE SaveOutcome(w) /\ rows' # rows
    BY <1>8, <2>2, <2>4 DEF SaveOutcome
  <2>5. CASE StoreEmbedding(w) /\ Exists(r) /\ ~Embedded(r)
    <3>1. worker[w].draft.answer \in LLMAnswers
      BY <2>5 DEF StoreEmbedding, IInv, WorkersOK, DraftOK
    <3>2. embeddings'[r] = worker[w].draft.answer
      BY <2>2, <2>5 DEF StoreEmbedding, IInv, TypeOK
    <3>3. Embedded(r)'
      BY <3>1, <3>2, NullsAssumption
    <3> QED
      BY <1>8, <2>2, <2>5, <3>3 DEF StoreEmbedding
  <2> QED
    BY <1>9, <2>1, <2>2, <2>3, <2>4, <2>5 DEF FlushAnswer, SaveOutcome, StoreEmbedding
<1>10. ASSUME NEW r \in Queries,
              PollReadsStale(r) \/ PollExpires(r) \/ DeleteQuery(r) \/ Redeliver(r)
       PROVE RowStep(q)
  BY <1>1, <1>5, <1>6, <1>10 DEF PollReadsStale, PollExpires, DeleteQuery, Redeliver
<1>11. ASSUME NEW w \in Workers,
              \/ \E r \in Queries : Receive(w, r)
              \/ \E a \in LLMAnswers : Answered(w, a)
              \/ \E t \in FailureTexts : Fails(w, t)
              \/ WorkerCrash(w)
       PROVE RowStep(q)
  BY <1>1, <1>11 DEF Receive, Answered, Fails, WorkerCrash
<1>12. ASSUME NEW u \in Users, DeleteAllQueries(u)
       PROVE RowStep(q)
  BY <1>5, <1>12 DEF DeleteAllQueries
<1>13. CASE CleanupReadsStale \/ CleanupExpires \/ CleanupPurges \/ CleanupFails
  <2>1. cleanup.batch \in SUBSET Queries
    BY DEF IInv, TypeOK
  <2> QED
    BY <1>1, <1>5, <1>6, <1>13, <2>1
    DEF CleanupReadsStale, CleanupExpires, CleanupPurges, CleanupFails
<1>14. CASE UNCHANGED vars
  BY <1>1, <1>14 DEF vars
<1> QED
  BY <1>2, <1>3, <1>4, <1>7, <1>9, <1>10, <1>11, <1>12, <1>13, <1>14 DEF Next

-----------------------------------------------------------------------------
(* The other conjuncts of IInv.                                            *)

\* An embedding appears only in the commit of a worker that has its query.
LEMMA NewEmbedding ==
  ASSUME IInv, [Next]_vars, NEW q \in Queries, ~Embedded(q), Embedded(q)'
  PROVE  \E w \in Workers : StoreEmbedding(w) /\ worker[w].query = q /\ Exists(q)
<1>1. embeddings' # embeddings
  BY DEF Embedded
<1>2. PICK w \in Workers : StoreEmbedding(w)
  BY <1>1
  DEF Next, vars, CreateQuery, Enqueue, EnqueueFails, RemoveUndelivered, RequestCrash,
      Redeliver, PollReadsStale, PollExpires, DeleteQuery, Grow, Receive, Answered, Fails,
      FlushAnswer, SaveOutcome, WorkerCrash, DeleteAllQueries, CleanupReadsStale,
      CleanupExpires, CleanupPurges, CleanupFails
<1>3. worker[w].query = q /\ Exists(q)
  BY <1>1, <1>2 DEF StoreEmbedding, Embedded, IInv, TypeOK
<1> QED
  BY <1>2, <1>3

\* No step embeds a failure or takes the row of an embedding.
LEMMA MemoryStep == IInv /\ [Next]_vars => MemoryHoldsAnswers'
<1> SUFFICES ASSUME IInv, [Next]_vars, NEW q \in Queries, Embedded(q)'
             PROVE  /\ embeddings'[q] \in LLMAnswers /\ Exists(q)'
                    /\ rows'[q].project # NoProject
  BY DEF MemoryHoldsAnswers
<1>1. embeddings'[q] \in LLMAnswers
  BY TypeStep DEF IInv, TypeOK, Embedded
<1>2. CASE Embedded(q)
  BY <1>1, <1>2, RowStepHolds DEF RowStep, IInv, MemoryHoldsAnswers
<1>3. CASE ~Embedded(q)
  <2>1. PICK w \in Workers : StoreEmbedding(w) /\ worker[w].query = q /\ Exists(q)
    BY <1>3, NewEmbedding
  <2>2. rows[q].project # NoProject
    BY <2>1 DEF StoreEmbedding, IInv, WorkersOK, LoadedOK, DraftOK
  <2>3. rows'[q] # NoRow
    <3>1. rows'[q] = Updated(rows[q], worker[w].base, worker[w].draft)
      BY <1>3, <2>1 DEF StoreEmbedding, IInv, TypeOK
    <3>2. rows[q] \in Row /\ worker[w].base \in Columns /\ worker[w].draft \in Columns
      BY <2>1 DEF Exists, IInv, TypeOK, WorkerStates
    <3> QED
      BY <3>1, <3>2, UpdatedFields, NullsAssumption
  <2> QED
    BY <1>1, <2>1, <2>2, <2>3, RowStepHolds DEF RowStep, Exists
<1> QED
  BY <1>2, <1>3

\* A question that has a near-duplicate in the memory keeps one.
LEMMA RememberedStep ==
  ASSUME IInv, [Next]_vars, NEW q \in Queries, NEW p, Remembered(q, p)
  PROVE  Remembered(q, p)'
<1>1. PICK e \in Queries : Embedded(e) /\ <<q, e>> \in Similar /\ rows[e].project = p
  BY DEF Remembered
<1>2. Exists(e)
  BY <1>1 DEF IInv, MemoryHoldsAnswers
<1>3. RowStep(e)
  BY RowStepHolds
<1>4. embeddings'[e] # NoEmbedding /\ rows'[e].project = p
  BY <1>1, <1>2, <1>3 DEF RowStep, Embedded
<1> QED
  BY <1>1, <1>4 DEF Remembered, Embedded

\* The parts of the invariant that are about rows are kept.
LEMMA RowsStep ==
  IInv /\ [Next]_vars => /\ UnsentHasNoRow' /\ RefusedLeavesNoRow'
                         /\ PendingHasNoAnswer' /\ AnsweredIsRemembered'
<1> SUFFICES ASSUME IInv, [Next]_vars, NEW q \in Queries
             PROVE  /\ request'[q] = "unsent" => ~Exists(q)'
                    /\ request'[q] = "refused" => ~Exists(q)'
                    /\ Exists(q)' =>
                         /\ rows'[q].status = "Pending" <=> rows'[q].answer = NoAnswer
                         /\ rows'[q].project # NoProject /\ WasAnswered(rows'[q])
                              => Remembered(q, rows[q].project)'
  BY DEF UnsentHasNoRow, RefusedLeavesNoRow, PendingHasNoAnswer, AnsweredIsRemembered,
         WasAnswered
<1>1. RowStep(q)
  BY RowStepHolds
<1>2. request'[q] = "unsent" => ~Exists(q)'
  BY <1>1 DEF RowStep, IInv, UnsentHasNoRow, Exists
<1>3. request'[q] = "refused" => ~Exists(q)'
  BY <1>1 DEF RowStep, IInv, RefusedLeavesNoRow, Exists
<1>4. CASE ~Exists(q) /\ Exists(q)'
  BY <1>1, <1>2, <1>3, <1>4 DEF RowStep
<1>5. CASE Exists(q) /\ Exists(q)'
  <2>1. /\ rows'[q].project = rows[q].project /\ RowWritten(q)
        /\ rows[q].status # "Pending" => rows'[q].status # "Pending"
    BY <1>1, <1>5 DEF RowStep
  <2>2. rows[q] \in Row
    BY <1>5 DEF Exists, IInv, TypeOK
  <2>3. ASSUME Remembered(q, rows[q].project)
        PROVE  Remembered(q, rows[q].project)'
    BY <2>1, <2>3, RememberedStep
  <2>4. CASE rows'[q].status = rows[q].status /\ rows'[q].answer = rows[q].answer
    BY <1>2, <1>3, <1>5, <2>1, <2>3, <2>4
    DEF IInv, PendingHasNoAnswer, AnsweredIsRemembered, WasAnswered
  <2>5. CASE rows'[q].status = "Failed" /\ rows'[q].answer = "TIMEOUT"
    BY <1>2, <1>3, <2>5, NullsAssumption DEF WasAnswered, FailureTexts
  <2>6. CASE \E w \in Workers :
               /\ worker[w].pc \in {"answered", "storing", "saving"} /\ worker[w].query = q
               /\ rows'[q] = Updated(rows[q], worker[w].base, worker[w].draft)
               /\ worker[w].pc = "answered" => HasNearDuplicate(w)
               /\ worker[w].pc = "storing" => Embedded(q)'
               /\ worker'[w] = Idle
    <3>1. PICK w \in Workers :
            /\ worker[w].pc \in {"answered", "storing", "saving"} /\ worker[w].query = q
            /\ rows'[q] = Updated(rows[q], worker[w].base, worker[w].draft)
            /\ worker[w].pc = "answered" => HasNearDuplicate(w)
            /\ worker[w].pc = "storing" => Embedded(q)'
      BY <2>6
    <3> DEFINE base == worker[w].base
               draft == worker[w].draft
    <3>2. base \in Columns /\ draft \in Columns
      BY DEF IInv, TypeOK, WorkerStates
    <3>3. LoadedOK(w) /\ DraftOK(w)
      BY <3>1 DEF IInv, WorkersOK
    <3>4. /\ draft.status # "Pending" /\ draft.answer # NoAnswer
          /\ base.status = "Pending" <=> base.answer = NoAnswer
          /\ base.status # "Pending" => rows[q].status # "Pending"
          /\ rows[q].project = worker[w].project
      BY <1>5, <3>1, <3>3, NullsAssumption DEF LoadedOK, DraftOK
    <3> DEFINE new == Updated(rows[q], base, draft)
    <3>5. /\ new.status = IF draft.status # base.status THEN draft.status ELSE rows[q].status
          /\ new.answer = IF draft.answer # base.answer THEN draft.answer ELSE rows[q].answer
      BY <2>2, <3>2, UpdatedFields
    <3>6. rows'[q] = new
      BY <3>1
    <3> HIDE DEF new
    <3>7. /\ rows'[q].status = IF draft.status # base.status THEN draft.status
                                                              ELSE rows[q].status
          /\ rows'[q].answer = IF draft.answer # base.answer THEN draft.answer
                                                              ELSE rows[q].answer
      BY <3>5, <3>6
    <3>8. rows'[q].status = "Pending" <=> rows'[q].answer = NoAnswer
      BY <1>5, <3>4, <3>7 DEF IInv, PendingHasNoAnswer
    <3>9. ASSUME rows[q].project # NoProject, WasAnswered(rows'[q])
          PROVE  Remembered(q, rows[q].project)'
      <4>1. CASE worker[w].pc = "answered"
        BY <2>3, <3>1, <3>4, <4>1 DEF HasNearDuplicate
      <4>2. CASE worker[w].pc = "storing"
        BY <2>1, <3>1, <4>2, SimilarAssumption DEF Remembered, Embedded
      <4>3. CASE worker[w].pc = "saving"
        <5>1. draft.status = "Failed" /\ draft.answer \in FailureTexts
          BY <3>3, <3>4, <3>9, <4>3 DEF DraftOK
        <5>2. WasAnswered(rows[q])
          BY <3>7, <3>9, <5>1, NullsAssumption DEF WasAnswered
        <5> QED
          BY <1>5, <2>3, <3>9, <5>2 DEF IInv, AnsweredIsRemembered
      <4> QED
        BY <3>1, <4>1, <4>2, <4>3
    <3> QED
      BY <1>2, <1>3, <2>1, <3>8, <3>9
  <2> QED
    BY <2>1, <2>4, <2>5, <2>6 DEF RowWritten
<1> QED
  BY <1>2, <1>3, <1>4, <1>5

\* What was loaded stays an earlier version of the row, whoever writes it.
LEMMA LoadedStep ==
  ASSUME IInv, [Next]_vars, NEW w \in Workers, worker[w].pc # "idle",
         worker'[w].query = worker[w].query, worker'[w].project = worker[w].project,
         worker'[w].base = worker[w].base
  PROVE  LoadedOK(w)'
<1>1. LoadedOK(w)
  BY DEF IInv, WorkersOK
<1>2. PICK q \in Queries : worker[w].query = q
  BY <1>1 DEF LoadedOK
<1>3. PICK p : worker[w].project = p
  OBVIOUS
<1>4. RowStep(q)
  BY RowStepHolds
<1>5. request'[q] # "unsent"
  BY <1>1, <1>2, <1>4 DEF LoadedOK, RowStep
<1>6. Exists(q)' => Exists(q)
  BY <1>1, <1>2, <1>4 DEF LoadedOK, RowStep
<1>7. Exists(q)' => rows'[q].project = p
  BY <1>1, <1>2, <1>3, <1>4, <1>6 DEF LoadedOK, RowStep
<1>8. Exists(q)' /\ worker[w].base.status # "Pending" => rows'[q].status # "Pending"
  BY <1>1, <1>2, <1>4, <1>6 DEF LoadedOK, RowStep
<1>9. p # NoProject /\ WasAnswered(worker[w].base) => Remembered(q, p)'
  BY <1>1, <1>2, <1>3, RememberedStep DEF LoadedOK
<1> QED
  BY <1>1, <1>2, <1>3, <1>5, <1>7, <1>8, <1>9 DEF LoadedOK, WasAnswered

\* What one step may do to one worker.
LEMMA WorkerCases ==
  ASSUME IInv, [Next]_vars, NEW w \in Workers
  PROVE  \/ worker'[w] = worker[w]
         \/ worker'[w] = Idle
         \/ \E q \in Queries : Receive(w, q) /\ Exists(q)
         \/ \E a \in LLMAnswers : Answered(w, a)
         \/ \E t \in FailureTexts : Fails(w, t)
         \/ FlushAnswer(w) /\ ~HasNearDuplicate(w)
<1>1. CASE worker' = worker
  BY <1>1
<1>2. ASSUME NEW v \in Workers,
             \/ \E q \in Queries : Receive(v, q)
             \/ \E a \in LLMAnswers : Answered(v, a)
             \/ \E t \in FailureTexts : Fails(v, t)
      PROVE \/ worker'[w] = worker[w]
            \/ \E q \in Queries : Receive(w, q) /\ Exists(q)
            \/ \E a \in LLMAnswers : Answered(w, a)
            \/ \E t \in FailureTexts : Fails(w, t)
  BY <1>2 DEF Receive, Answered, Fails, IInv, TypeOK
<1>3. ASSUME NEW v \in Workers,
             StoreEmbedding(v) \/ SaveOutcome(v) \/ WorkerCrash(v) \/ FlushAnswer(v)
      PROVE \/ worker'[w] = worker[w] \/ worker'[w] = Idle
            \/ FlushAnswer(w) /\ ~HasNearDuplicate(w)
  BY <1>3 DEF StoreEmbedding, SaveOutcome, WorkerCrash, FlushAnswer, IInv, TypeOK
<1> QED
  BY <1>1, <1>2, <1>3
  DEF Next, vars, CreateQuery, Enqueue, EnqueueFails, RemoveUndelivered, RequestCrash,
      Redeliver, PollReadsStale, PollExpires, DeleteQuery, Grow, DeleteAllQueries,
      CleanupReadsStale, CleanupExpires, CleanupPurges, CleanupFails

\* What workers have loaded and are about to save stays sound.
LEMMA WorkersStep == IInv /\ [Next]_vars => WorkersOK'
<1> SUFFICES ASSUME IInv, [Next]_vars, NEW w \in Workers, worker'[w].pc # "idle"
             PROVE  LoadedOK(w)' /\ DraftOK(w)'
  BY DEF WorkersOK
<1>1. worker[w] \in WorkerStates /\ worker \in [Workers -> WorkerStates]
  BY DEF IInv, TypeOK
<1>2. CASE worker'[w] = worker[w]
  <2>1. DraftOK(w)
    BY <1>2 DEF IInv, WorkersOK
  <2> QED
    BY <1>2, <2>1, LoadedStep DEF DraftOK
<1>3. CASE worker'[w] = Idle
  BY <1>3 DEF Idle
<1>4. ASSUME NEW q \in Queries, Receive(w, q), Exists(q)
      PROVE LoadedOK(w)' /\ DraftOK(w)'
  <2>1. /\ worker'[w].query = q /\ worker'[w].project = rows[q].project
        /\ worker'[w].base.status = rows[q].status
        /\ worker'[w].base.answer = rows[q].answer
        /\ worker'[w].pc = "asking"
    BY <1>1, <1>4 DEF Receive
  <2>2. rows' = rows /\ embeddings' = embeddings /\ request' = request
    BY <1>4 DEF Receive
  <2>3. request[q] # "unsent" /\ (rows[q].status = "Pending" <=> rows[q].answer = NoAnswer)
    BY <1>4 DEF IInv, UnsentHasNoRow, PendingHasNoAnswer
  <2>4. rows[q].project # NoProject /\ WasAnswered(rows[q]) => Remembered(q, rows[q].project)
    BY <1>4 DEF IInv, AnsweredIsRemembered
  <2>5. LoadedOK(w)'
    BY <2>1, <2>2, <2>3, <2>4 DEF LoadedOK, WasAnswered, Remembered, Embedded, Exists
  <2> QED
    BY <2>1, <2>5 DEF DraftOK
<1>5. ASSUME NEW a \in LLMAnswers, Answered(w, a)
      PROVE LoadedOK(w)' /\ DraftOK(w)'
  <2> DEFINE draft == [status |-> "Done", answer |-> a]
             pc == IF worker[w].project = NoProject THEN "saving" ELSE "answered"
  <2>1. /\ worker'[w].query = worker[w].query /\ worker'[w].project = worker[w].project
        /\ worker'[w].base = worker[w].base /\ worker'[w].draft = draft
        /\ worker'[w].pc = pc
    BY <1>1, <1>5 DEF Answered, WorkerStates
  <2>2. worker[w].pc # "idle"
    BY <1>5 DEF Answered
  <2>3. LoadedOK(w)'
    BY <2>1, <2>2, LoadedStep
  <2>4. DraftOK(w)'
    BY <2>1, NullsAssumption DEF DraftOK
  <2> QED
    BY <2>3, <2>4
<1>6. ASSUME NEW t \in FailureTexts, Fails(w, t)
      PROVE LoadedOK(w)' /\ DraftOK(w)'
  <2>1. /\ worker'[w].query = worker[w].query /\ worker'[w].project = worker[w].project
        /\ worker'[w].base = worker[w].base /\ worker'[w].draft = Failure(t)
        /\ worker'[w].pc = "saving"
    BY <1>1, <1>6 DEF Fails, WorkerStates
  <2>2. worker[w].pc # "idle"
    BY <1>6 DEF Fails
  <2>3. LoadedOK(w)'
    BY <2>1, <2>2, LoadedStep
  <2>4. DraftOK(w)'
    BY <2>1, NullsAssumption DEF DraftOK, Failure
  <2> QED
    BY <2>3, <2>4
<1>7. CASE FlushAnswer(w) /\ ~HasNearDuplicate(w)
  <2>1. /\ worker'[w].query = worker[w].query /\ worker'[w].project = worker[w].project
        /\ worker'[w].base = worker[w].base /\ worker'[w].draft = worker[w].draft
        /\ worker'[w].pc = "storing"
    BY <1>1, <1>7 DEF FlushAnswer, WorkerStates, Idle
  <2>2. worker[w].pc = "answered"
    BY <1>7 DEF FlushAnswer
  <2>3. LoadedOK(w)'
    BY <2>1, <2>2, LoadedStep
  <2>4. LoadedOK(w) /\ DraftOK(w)
    BY <2>2 DEF IInv, WorkersOK
  <2>5. ~WasAnswered(worker[w].base)
    BY <1>7, <2>2, <2>4 DEF LoadedOK, DraftOK, HasNearDuplicate
  <2>6. DraftOK(w)'
    BY <2>1, <2>2, <2>4, <2>5 DEF DraftOK, WasAnswered
  <2> QED
    BY <2>3, <2>6
<1> QED
  BY <1>2, <1>3, <1>4, <1>5, <1>6, <1>7, WorkerCases

-----------------------------------------------------------------------------
(* Status and text, while the broker delivers a message once.              *)

\* What a worker is about to save fits together.
LEMMA DraftsStep == IInv /\ [Next]_vars => DraftsAgree'
<1> SUFFICES ASSUME IInv, [Next]_vars, NEW w \in Workers,
                    worker'[w].pc \in {"answered", "storing", "saving"}
             PROVE  Agrees(worker'[w].draft)
  BY DEF DraftsAgree, Agrees
<1>1. worker[w] \in WorkerStates /\ worker \in [Workers -> WorkerStates]
  BY DEF IInv, TypeOK
<1>2. CASE worker'[w] = worker[w]
  BY <1>2 DEF IInv, DraftsAgree
<1>3. CASE worker'[w] = Idle
  BY <1>3 DEF Idle
<1>4. ASSUME NEW q \in Queries, Receive(w, q), Exists(q) PROVE FALSE
  BY <1>1, <1>4 DEF Receive
<1>5. ASSUME NEW a \in LLMAnswers, Answered(w, a) PROVE Agrees(worker'[w].draft)
  <2>1. worker'[w].draft = [status |-> "Done", answer |-> a]
    BY <1>1, <1>5 DEF Answered, WorkerStates
  <2> QED
    BY <2>1 DEF Agrees
<1>6. ASSUME NEW t \in FailureTexts, Fails(w, t) PROVE Agrees(worker'[w].draft)
  <2>1. worker'[w].draft = Failure(t)
    BY <1>1, <1>6 DEF Fails, WorkerStates
  <2> QED
    BY <2>1 DEF Agrees, Failure
<1>7. CASE FlushAnswer(w) /\ ~HasNearDuplicate(w)
  <2>1. worker[w].pc = "answered" /\ worker'[w].draft = worker[w].draft
    BY <1>1, <1>7 DEF FlushAnswer, WorkerStates, Idle
  <2> QED
    BY <2>1 DEF IInv, DraftsAgree
<1> QED
  BY <1>2, <1>3, <1>4, <1>5, <1>6, <1>7, WorkerCases

\* A message is counted when a worker takes it.
LEMMA DeliveredStep ==
  ASSUME IInv, [Next]_vars, NEW q \in Queries
  PROVE  \/ delivered'[q] = delivered[q] /\ ~\E w \in Workers : Receive(w, q)
         \/ delivered'[q] = delivered[q] + 1 /\ \E w \in Workers : Receive(w, q)
<1>t. delivered \in [Queries -> Nat]
  BY DEF IInv, TypeOK
<1>1. CASE \E w \in Workers : Receive(w, q)
  BY <1>t, <1>1 DEF Receive
<1>2. ASSUME NEW w \in Workers, NEW r \in Queries \ {q}, Receive(w, r)
      PROVE  delivered'[q] = delivered[q]
  BY <1>t, <1>2 DEF Receive
<1>3. CASE delivered' = delivered
  BY <1>1, <1>3
<1> QED
  BY <1>1, <1>2, <1>3
  DEF Next, vars, CreateQuery, Enqueue, EnqueueFails, RemoveUndelivered, RequestCrash,
      Redeliver, PollReadsStale, PollExpires, DeleteQuery, Grow, Answered, Fails,
      FlushAnswer, StoreEmbedding, SaveOutcome, WorkerCrash, DeleteAllQueries,
      CleanupReadsStale, CleanupExpires, CleanupPurges, CleanupFails

\* The one worker that takes the first message loads a row that nobody answered.
LEMMA FirstReceive ==
  ASSUME IInv, NEW w \in Workers, NEW q \in Queries, Receive(w, q), delivered[q] = 0
  PROVE  FirstDelivery(q)'
<1>t. /\ worker \in [Workers -> WorkerStates] /\ delivered' = [delivered EXCEPT ![q] = 1]
      /\ delivered \in [Queries -> Nat] /\ delivered[q] <= 1
  BY DEF IInv, TypeOK, Receive
<1>1. /\ Exists(q) => Agrees(rows[q]) /\ rows[q].status # "Done"
      /\ \A v \in Workers : ~Busy(v, q)
  BY <1>t DEF IInv, FirstDelivery
<1>2. rows' = rows /\ \A v \in Workers \ {w} : worker'[v] = worker[v]
  BY <1>t DEF Receive
<1>3. \A v \in Workers : Busy(v, q)' => v = w
  BY <1>1, <1>2 DEF Busy
<1>4. CASE ~Exists(q)
  <2>1. ~Busy(w, q)'
    BY <1>1, <1>4 DEF Receive, Busy
  <2> QED
    BY <1>t, <1>2, <1>3, <1>4, <2>1 DEF FirstDelivery, Exists
<1>5. CASE Exists(q)
  <2>1. worker'[w].base = [status |-> rows[q].status, answer |-> rows[q].answer]
    BY <1>t, <1>5 DEF Receive
  <2>2. Agrees(worker'[w].base) /\ worker'[w].base.status = rows[q].status
    BY <1>1, <1>5, <2>1 DEF Agrees
  <2>3. Agrees(rows'[q])
    BY <1>1, <1>2, <1>5 DEF Agrees
  <2> QED
    BY <1>t, <1>1, <1>2, <1>3, <1>5, <2>2, <2>3 DEF FirstDelivery, Agrees, Exists
<1> QED
  BY <1>4, <1>5

\* An UPDATE by that worker leaves a row whose status and text agree.
LEMMA FirstUpdate ==
  ASSUME IInv, NEW w \in Workers, NEW q \in Queries, Exists(q), delivered[q] <= 1,
         worker[w].pc \in {"answered", "storing", "saving"}, worker[w].query = q
  PROVE  Agrees(Updated(rows[q], worker[w].base, worker[w].draft))
<1> DEFINE base == worker[w].base
           draft == worker[w].draft
           new == Updated(rows[q], base, draft)
<1>1. Busy(w, q)
  BY DEF Busy
<1>2. /\ Agrees(rows[q]) /\ Agrees(base) /\ base.status # "Done"
      /\ base.status = "Failed" => rows[q].status = "Failed"
  BY <1>1 DEF IInv, FirstDelivery
<1>3. Agrees(draft) /\ draft.status # "Pending"
  BY NullsAssumption DEF IInv, DraftsAgree, WorkersOK, DraftOK
<1>4. rows[q] \in Row /\ base \in Columns /\ draft \in Columns
  BY DEF Exists, IInv, TypeOK, WorkerStates
<1>5. /\ new.status = IF draft.status # base.status THEN draft.status ELSE rows[q].status
      /\ new.answer = IF draft.answer # base.answer THEN draft.answer ELSE rows[q].answer
  BY <1>4, UpdatedFields
<1> HIDE DEF new
<1>6. ASSUME base.status = "Pending" PROVE Agrees(new)
  BY <1>2, <1>3, <1>5, <1>6, NullsAssumption DEF Agrees
<1>7. ASSUME base.status = "Failed" PROVE Agrees(new)
  BY <1>2, <1>3, <1>5, <1>7, NullsAssumption DEF Agrees
<1>8. Agrees(new)
  BY <1>2, <1>6, <1>7 DEF Agrees
<1> QED
  BY <1>8 DEF new

\* Every step keeps FirstDelivery: a second worker needs a second delivery, and
\* an expiry writes status and text together.
LEMMA FirstDeliveryStep ==
  ASSUME IInv, [Next]_vars, NEW q \in Queries PROVE FirstDelivery(q)'
<1>d. delivered \in [Queries -> Nat]
  BY DEF IInv, TypeOK
<1>1. CASE \E w \in Workers : Receive(w, q)
  <2>1. PICK w \in Workers : Receive(w, q)
    BY <1>1
  <2>2. CASE delivered[q] = 0
    BY <2>1, <2>2, FirstReceive
  <2>3. CASE delivered[q] # 0
    <3>1. delivered'[q] = delivered[q] + 1
      BY <1>d, <2>1 DEF Receive
    <3> QED
      BY <1>d, <2>3, <3>1 DEF FirstDelivery
  <2> QED
    BY <2>1, <2>2, <2>3
<1>2. CASE ~\E w \in Workers : Receive(w, q)
  <2>1. delivered'[q] = delivered[q]
    BY <1>2, DeliveredStep
  <2> SUFFICES ASSUME delivered[q] <= 1 PROVE FirstDelivery(q)'
    BY <2>1 DEF FirstDelivery
  <2>2. FirstDelivery(q) /\ RowStep(q)
    BY RowStepHolds DEF IInv
  <2>3. ASSUME NEW w \in Workers, Busy(w, q)'
        PROVE  Busy(w, q) /\ worker'[w].base = worker[w].base
    <3>t. worker \in [Workers -> WorkerStates]
      BY DEF IInv, TypeOK
    <3>1. CASE worker'[w] = worker[w]
      BY <2>3, <3>1 DEF Busy
    <3>2. CASE worker'[w] = Idle
      BY <2>3, <3>2 DEF Busy, Idle
    <3>3. ASSUME NEW r \in Queries, Receive(w, r), Exists(r) PROVE FALSE
      BY <1>2, <2>3, <3>t, <3>3 DEF Receive, Busy
    <3>4. ASSUME NEW a \in LLMAnswers, Answered(w, a)
          PROVE  Busy(w, q) /\ worker'[w].base = worker[w].base
      BY <2>3, <3>t, <3>4 DEF Answered, Busy, WorkerStates
    <3>5. ASSUME NEW t \in FailureTexts, Fails(w, t)
          PROVE  Busy(w, q) /\ worker'[w].base = worker[w].base
      BY <2>3, <3>t, <3>5 DEF Fails, Busy, WorkerStates
    <3>6. CASE FlushAnswer(w) /\ ~HasNearDuplicate(w)
      BY <2>3, <3>t, <3>6 DEF FlushAnswer, Busy, WorkerStates, Idle
    <3> QED
      BY <3>1, <3>2, <3>3, <3>4, <3>5, <3>6, WorkerCases
  <2>4. Exists(q)' => Agrees(rows'[q]) /\ (delivered[q] = 0 => rows'[q].status # "Done")
    <3> SUFFICES ASSUME Exists(q)'
                 PROVE  Agrees(rows'[q]) /\ (delivered[q] = 0 => rows'[q].status # "Done")
      OBVIOUS
    <3>1. CASE ~Exists(q)
      BY <2>2, <3>1 DEF RowStep, Agrees
    <3>2. CASE Exists(q)
      <4>1. Agrees(rows[q]) /\ (delivered[q] = 0 => rows[q].status # "Done")
        BY <2>2, <3>2 DEF FirstDelivery
      <4>2. RowWritten(q)
        BY <2>2, <3>2 DEF RowStep
      <4>3. CASE rows'[q].status = rows[q].status /\ rows'[q].answer = rows[q].answer
        BY <4>1, <4>3 DEF Agrees
      <4>4. CASE rows'[q].status = "Failed" /\ rows'[q].answer = "TIMEOUT"
        BY <4>4 DEF Agrees, FailureTexts
      <4>5. ASSUME NEW w \in Workers, worker[w].pc \in {"answered", "storing", "saving"},
                   worker[w].query = q,
                   rows'[q] = Updated(rows[q], worker[w].base, worker[w].draft)
            PROVE  Agrees(rows'[q]) /\ (delivered[q] = 0 => rows'[q].status # "Done")
        <5>1. Busy(w, q)
          BY <4>5 DEF Busy
        <5>2. delivered[q] # 0
          BY <2>2, <5>1 DEF FirstDelivery
        <5> QED
          BY <3>2, <4>5, <5>2, FirstUpdate
      <4> QED
        BY <4>2, <4>3, <4>4, <4>5 DEF RowWritten
    <3> QED
      BY <3>1, <3>2
  <2>5. ASSUME NEW w \in Workers, Busy(w, q)', Exists(q)', worker'[w].base.status = "Failed"
        PROVE  rows'[q].status = "Failed"
    <3>1. Busy(w, q) /\ worker[w].base.status = "Failed"
      BY <2>3, <2>5
    <3>2. request[q] # "unsent"
      BY <3>1 DEF IInv, WorkersOK, LoadedOK, Busy
    <3>3. Exists(q) /\ RowWritten(q)
      BY <2>2, <2>5, <3>2 DEF RowStep
    <3>4. rows[q].status = "Failed"
      BY <2>2, <3>1, <3>3 DEF FirstDelivery
    <3>5. ASSUME NEW v \in Workers, worker[v].pc \in {"answered", "storing", "saving"},
                 worker[v].query = q, worker'[v] = Idle
          PROVE  FALSE
      <4>1. v = w
        BY <2>2, <3>1, <3>5 DEF FirstDelivery, Busy
      <4> QED
        BY <2>5, <3>5, <4>1 DEF Busy, Idle
    <3> QED
      BY <3>3, <3>4, <3>5 DEF RowWritten
  <2>6. ASSUME NEW w \in Workers, Busy(w, q)'
        PROVE  /\ delivered[q] # 0
               /\ \A v \in Workers : Busy(v, q)' => v = w
               /\ Agrees(worker'[w].base) /\ worker'[w].base.status # "Done"
    <3>1. Busy(w, q) /\ worker'[w].base = worker[w].base
      BY <2>3, <2>6
    <3>2. \A v \in Workers : Busy(v, q)' => Busy(v, q)
      BY <2>3
    <3> QED
      BY <2>2, <3>1, <3>2 DEF FirstDelivery
  <2> QED
    BY <2>1, <2>4, <2>5, <2>6 DEF FirstDelivery, Agrees
<1> QED
  BY <1>1, <1>2

\* Only what had never been answered is embedded, so that commit writes the
\* status and the text.
LEMMA EmbeddingStep ==
  ASSUME IInv, [Next]_vars, NEW q \in Queries, ~Embedded(q), Embedded(q)'
  PROVE  rows'[q].status = "Done" /\ rows'[q].answer = embeddings'[q]
<1>1. PICK w \in Workers : StoreEmbedding(w) /\ worker[w].query = q /\ Exists(q)
  BY NewEmbedding
<1>2. /\ worker[w].draft.status = "Done" /\ worker[w].draft.answer \in LLMAnswers
      /\ ~WasAnswered(worker[w].base)
  BY <1>1 DEF StoreEmbedding, IInv, WorkersOK, DraftOK
<1>3. /\ rows'[q] = Updated(rows[q], worker[w].base, worker[w].draft)
      /\ embeddings'[q] = worker[w].draft.answer
  BY <1>1 DEF StoreEmbedding, IInv, TypeOK
<1>4. rows[q] \in Row /\ worker[w].base \in Columns /\ worker[w].draft \in Columns
  BY <1>1 DEF Exists, IInv, TypeOK, WorkerStates
<1> DEFINE new == Updated(rows[q], worker[w].base, worker[w].draft)
<1>5. /\ new.status = IF worker[w].draft.status # worker[w].base.status
                      THEN worker[w].draft.status ELSE rows[q].status
      /\ new.answer = IF worker[w].draft.answer # worker[w].base.answer
                      THEN worker[w].draft.answer ELSE rows[q].answer
  BY <1>4, UpdatedFields
<1> HIDE DEF new
<1>6. new.status = "Done" /\ new.answer = worker[w].draft.answer
  BY <1>2, <1>5 DEF WasAnswered
<1> QED
  BY <1>3, <1>6 DEF new

-----------------------------------------------------------------------------
(* The theorems.                                                           *)

\* IInv holds in every reachable state: the one invariant the theorems below
\* are read off from.
THEOREM Invariance == Spec => []IInv
<1>1. IInv /\ [Next]_vars => IInv'
  BY TypeStep, MemoryStep, RowsStep, WorkersStep, DraftsStep, FirstDeliveryStep DEF IInv
<1> QED
  BY <1>1, InitIInv, PTL DEF Spec

\* Every variable keeps its type, for any number of queries and workers.
THEOREM TypeCorrect == Spec => []TypeOK
BY Invariance, PTL DEF IInv

\* What later questions are answered from is an answer of the model to a
\* question that is still there (maybe_store_query_embedding and the foreign
\* key against every delete).
THEOREM MemorySound == Spec => []MemoryHoldsAnswers
BY Invariance, PTL DEF IInv

\* A row is Pending exactly while it has no answer, whatever interleaving of
\* workers, polls and cleanups wrote its columns.
THEOREM PendingSound == Spec => []PendingHasNoAnswer
BY Invariance, PTL DEF IInv

\* After a 503 the row is gone and stays gone.
THEOREM RefusalSound == Spec => []RefusedLeavesNoRow
BY Invariance, PTL DEF IInv

\* Until the broker delivers a message twice, Done comes with an answer of the
\* model and Failed with a failure text, whatever expiries, crashes and deletes
\* fall between the load and the partial UPDATE.
THEOREM StatusSound == Spec => []StatusMatchesAnswer
<1>1. IInv => StatusMatchesAnswer
  BY DEF IInv, FirstDelivery, StatusMatchesAnswer, Agrees
<1> QED
  BY <1>1, Invariance, PTL

\* The commit that stores an embedding leaves the query Done with that answer:
\* a worker gets there only when what it loaded had never been answered, so
\* its UPDATE writes both columns.
THEOREM EmbeddingCommit == Spec => EmbeddedWithItsAnswer
<1>1. IInv /\ [Next]_vars =>
        [\A q \in Queries : ~Embedded(q) /\ Embedded(q)' =>
           rows'[q].status = "Done" /\ rows'[q].answer = embeddings'[q]]_vars
  BY EmbeddingStep
<1> QED
  BY <1>1, Invariance, PTL DEF Spec, EmbeddedWithItsAnswer

-----------------------------------------------------------------------------
(* The lifecycle keeps the promise, fairness apart: every step is a step   *)
(* of AIQueryPromise or changes neither the phases nor the memory.         *)

\* What the user sees of a question.
LEMMA PhaseIs ==
  ASSUME NEW q \in Queries
  PROVE  /\ Exists(q) => Phase(q) = rows[q].status
         /\ ~Exists(q) /\ request[q] = "unsent" => Phase(q) = "new"
         /\ ~Exists(q) /\ request[q] # "unsent" => Phase(q) = "gone"
BY DEF Phase

LEMMA NextPhaseIs ==
  ASSUME NEW q \in Queries
  PROVE  /\ Exists(q)' => Phase(q)' = rows'[q].status
         /\ ~Exists(q)' /\ request'[q] = "unsent" => Phase(q)' = "new"
         /\ ~Exists(q)' /\ request'[q] # "unsent" => Phase(q)' = "gone"
BY DEF Phase

LEMMA InitPromise == Init => Promise!Init
BY DEF Init, Promise!Init, Phase, Exists, Embedded

\* What a step may do to the phases, in the terms of the promise.
LEMMA PromisedStutter ==
  ASSUME \A q \in Queries : Phase(q)' = Phase(q), embeddings' = embeddings
  PROVE  UNCHANGED Promise!vars
BY DEF Promise!vars, Embedded

LEMMA PromisedAsk ==
  ASSUME NEW r \in Queries, Phase(r) = "new", Phase(r)' = "Pending",
         \A q \in Queries \ {r} : Phase(q)' = Phase(q), embeddings' = embeddings
  PROVE  Promise!Next
<1>1. Promise!Ask(r)
  BY DEF Promise!Ask, Promise!Become, Embedded
<1> QED
  BY <1>1 DEF Promise!Next

LEMMA PromisedAnswer ==
  ASSUME NEW r \in Queries, Phase(r) \in {"Pending", "Failed", "Done"}, Phase(r)' = "Done",
         \A q \in Queries \ {r} : Phase(q)' = Phase(q) /\ embeddings'[q] = embeddings[q],
         embeddings'[r] = embeddings[r] \/ Embedded(r)'
  PROVE  Promise!Next
<1>1. Promise!Answer(r)
  BY DEF Promise!Answer, Promise!Become, Embedded
<1> QED
  BY <1>1 DEF Promise!Next

LEMMA PromisedFail ==
  ASSUME NEW qs \in SUBSET Queries,
         \A q \in qs : Phase(q) \in {"Pending", "Failed", "Done"} /\ Phase(q)' = "Failed",
         \A q \in Queries \ qs : Phase(q)' = Phase(q), embeddings' = embeddings
  PROVE  Promise!Next
<1>1. Promise!Fail(qs)
  BY DEF Promise!Fail, Promise!Become, Embedded
<1> QED
  BY <1>1 DEF Promise!Next

LEMMA PromisedForget ==
  ASSUME NEW qs \in SUBSET Queries,
         \A q \in qs : /\ Phase(q) \in {"Pending", "Failed", "Done"} /\ Phase(q)' = "gone"
                       /\ ~Embedded(q),
         \A q \in Queries \ qs : Phase(q)' = Phase(q), embeddings' = embeddings
  PROVE  Promise!Next
<1>1. Promise!Forget(qs)
  BY DEF Promise!Forget, Promise!Become, Embedded
<1> QED
  BY <1>1 DEF Promise!Next

\* Where neither the row nor the request changes in kind, the phase stays.
LEMMA SamePhase ==
  ASSUME NEW q \in Queries, Exists(q)' <=> Exists(q),
         Exists(q) => rows'[q].status = rows[q].status,
         request'[q] = "unsent" <=> request[q] = "unsent"
  PROVE  Phase(q)' = Phase(q)
BY PhaseIs, NextPhaseIs

\* A question that has a row is in one of the three phases of a row.
LEMMA RowPhase ==
  ASSUME TypeOK, NEW q \in Queries, Exists(q)
  PROVE  Phase(q) \in {"Pending", "Failed", "Done"}
BY PhaseIs DEF TypeOK, Exists, Row, Statuses

\* A DELETE that the foreign key lets through forgets questions.
LEMMA DeleteForgets ==
  ASSUME IInv, NEW qs \in SUBSET Queries, \A q \in qs : Embedded(q) => ~Exists(q),
         rows' = WithoutRows(qs), embeddings' = embeddings,
         \A q \in Queries : request'[q] = "unsent" <=> request[q] = "unsent"
  PROVE  Promise!Next
<1> DEFINE gone == {q \in qs : Exists(q)}
<1>1. ASSUME NEW q \in gone
      PROVE  /\ Phase(q) \in {"Pending", "Failed", "Done"} /\ Phase(q)' = "gone"
             /\ ~Embedded(q)
  <2>1. Phase(q) \in {"Pending", "Failed", "Done"}
    BY RowPhase DEF IInv
  <2>2. request'[q] # "unsent" /\ ~Exists(q)'
    BY DEF IInv, UnsentHasNoRow, WithoutRows, Exists
  <2> QED
    BY <2>1, <2>2, NextPhaseIs
<1>2. ASSUME NEW q \in Queries \ gone
      PROVE  Phase(q)' = Phase(q)
  <2>1. rows'[q] = rows[q]
    BY DEF WithoutRows, Exists
  <2> QED
    BY <2>1, SamePhase DEF Exists
<1>3. gone \in SUBSET Queries
  OBVIOUS
<1> HIDE DEF gone
<1> QED
  BY <1>1, <1>2, <1>3, PromisedForget

\* An expiry fails questions, those settled meanwhile among them.
LEMMA ExpiryFails ==
  ASSUME IInv, NEW qs \in SUBSET Queries, \A q \in qs : Exists(q),
         rows' = TimedOut(qs), embeddings' = embeddings, request' = request
  PROVE  Promise!Next
<1>1. ASSUME NEW q \in qs
      PROVE  Phase(q) \in {"Pending", "Failed", "Done"} /\ Phase(q)' = "Failed"
  <2>1. rows'[q] \in Row /\ rows'[q].status = "Failed"
    BY TimedOutFields DEF IInv
  <2>2. Exists(q)'
    BY <2>1, NullsAssumption DEF Exists
  <2> QED
    BY <2>1, <2>2, NextPhaseIs, RowPhase DEF IInv
<1>2. ASSUME NEW q \in Queries \ qs PROVE Phase(q)' = Phase(q)
  <2>1. rows'[q] = rows[q]
    BY TimedOutFields DEF IInv
  <2> QED
    BY <2>1, SamePhase DEF Exists
<1> QED
  BY <1>1, <1>2, PromisedFail

\* The commit of a worker answers its question, or fails it if a failure was
\* loaded or is saved.
LEMMA CommitSettles ==
  ASSUME IInv, [Next]_vars, NEW w \in Workers, NEW r \in Queries, worker[w].query = r,
         Exists(r), worker[w].pc \in {"answered", "saving", "storing"},
         rows' = [rows EXCEPT ![r] = Updated(@, worker[w].base, worker[w].draft)],
         request' = request,
         embeddings' = embeddings \/
           /\ rows'[r].status = "Done" /\ Embedded(r)'
           /\ \A q \in Queries \ {r} : embeddings'[q] = embeddings[q]
  PROVE  Promise!Next
<1> DEFINE base == worker[w].base
           draft == worker[w].draft
           new == Updated(rows[r], base, draft)
<1>1. rows[r] \in Row /\ base \in Columns /\ draft \in Columns
  BY DEF Exists, IInv, TypeOK, WorkerStates
<1>2. new \in Row /\ new.status = IF draft.status # base.status THEN draft.status
                                                                 ELSE rows[r].status
  BY <1>1, UpdatedFields
<1>3. draft.status # "Pending" /\ (base.status # "Pending" => rows[r].status # "Pending")
  BY DEF IInv, WorkersOK, DraftOK, LoadedOK
<1>4. rows'[r] = new /\ \A q \in Queries \ {r} : rows'[q] = rows[q]
  BY DEF IInv, TypeOK
<1> HIDE DEF new
<1>5. new.status \in {"Done", "Failed"}
  BY <1>1, <1>2, <1>3 DEF Columns, Row, Statuses
<1>6. Phase(r) \in {"Pending", "Failed", "Done"} /\ Phase(r)' = rows'[r].status
  BY <1>2, <1>4, NullsAssumption, RowPhase, NextPhaseIs DEF Exists, IInv
<1>7. ASSUME NEW q \in Queries \ {r} PROVE Phase(q)' = Phase(q)
  BY <1>4, SamePhase DEF Exists
<1>8. CASE new.status = "Done"
  BY <1>4, <1>6, <1>7, <1>8, PromisedAnswer
<1>9. CASE new.status = "Failed"
  <2>1. embeddings' = embeddings
    BY <1>4, <1>9
  <2>2. {r} \in SUBSET Queries
    OBVIOUS
  <2> QED
    BY <1>4, <1>6, <1>7, <1>9, <2>1, <2>2, PromisedFail
<1> QED
  BY <1>5, <1>8, <1>9

\* Every step is a step of the promise or a stutter.
LEMMA PromiseStep == IInv /\ [Next]_vars => [Promise!Next]_(Promise!vars)
<1> SUFFICES ASSUME IInv, [Next]_vars PROVE Promise!Next \/ UNCHANGED Promise!vars
  OBVIOUS
<1>1. ASSUME rows' = rows, embeddings' = embeddings,
             \A q \in Queries : request'[q] = "unsent" <=> request[q] = "unsent"
      PROVE  UNCHANGED Promise!vars
  BY <1>1, SamePhase, PromisedStutter DEF Exists
<1>2. ASSUME NEW r \in Queries, NEW u \in Users, NEW p \in Projects \cup {NoProject},
             CreateQuery(u, r, p)
      PROVE  Promise!Next
  <2> DEFINE new == [user |-> u, project |-> p, status |-> "Pending", answer |-> NoAnswer,
                     age |-> "fresh"]
  <2>1. new \in Row /\ new.status = "Pending"
    BY DEF Row, Statuses, Answers, Ages
  <2>2. /\ rows' = [rows EXCEPT ![r] = new] /\ request' = [request EXCEPT ![r] = "created"]
        /\ embeddings' = embeddings /\ request[r] = "unsent"
    BY <1>2 DEF CreateQuery
  <2> HIDE DEF new
  <2>3. Phase(r) = "new"
    BY <2>2, PhaseIs DEF IInv, UnsentHasNoRow
  <2>4. Phase(r)' = "Pending"
    BY <2>1, <2>2, NullsAssumption, NextPhaseIs DEF IInv, TypeOK, Exists
  <2>5. ASSUME NEW q \in Queries \ {r} PROVE Phase(q)' = Phase(q)
    BY <2>2, SamePhase DEF IInv, TypeOK, Exists
  <2> QED
    BY <2>2, <2>3, <2>4, <2>5, PromisedAsk
<1>3. ASSUME NEW r \in Queries, Enqueue(r) \/ EnqueueFails(r) \/ RequestCrash(r)
      PROVE  UNCHANGED Promise!vars
  <2>1. \A q \in Queries : request'[q] = "unsent" <=> request[q] = "unsent"
    BY <1>3 DEF Enqueue, EnqueueFails, RequestCrash, IInv, TypeOK
  <2> QED
    BY <1>1, <1>3, <2>1 DEF Enqueue, EnqueueFails, RequestCrash
<1>4. ASSUME NEW r \in Queries, RemoveUndelivered(r)
      PROVE  Promise!Next \/ UNCHANGED Promise!vars
  <2>1. \A q \in Queries : request'[q] = "unsent" <=> request[q] = "unsent"
    BY <1>4 DEF RemoveUndelivered, IInv, TypeOK
  <2>2. CASE Embedded(r)
    BY <1>1, <1>4, <2>1, <2>2 DEF RemoveUndelivered
  <2>3. CASE ~Embedded(r)
    <3>1. {r} \in SUBSET Queries
      OBVIOUS
    <3> QED
      BY <1>4, <2>1, <2>3, <3>1, DeleteForgets DEF RemoveUndelivered
  <2> QED
    BY <2>2, <2>3
<1>5. ASSUME NEW qs \in SUBSET Queries, Deletable(qs), rows' = WithoutRows(qs),
             embeddings' = embeddings, request' = request
      PROVE  Promise!Next
  BY <1>5, DeleteForgets DEF Deletable
<1>6. ASSUME NEW r \in Queries, Grow(r)
      PROVE  UNCHANGED Promise!vars
  <2>1. rows[r] \in Row /\ rows[r].age \in Ages
    BY <1>6 DEF Grow, IInv, TypeOK, Exists, Row
  <2> DEFINE grown == [rows[r] EXCEPT !.age = IF rows[r].age = "fresh" THEN "stale" ELSE "old"]
  <2>2. grown \in Row /\ grown.status = rows[r].status
    BY <2>1 DEF Row, Ages
  <2>3. /\ rows' = [rows EXCEPT ![r] = grown] /\ Exists(r)
        /\ embeddings' = embeddings /\ request' = request
    BY <1>6 DEF Grow, IInv, TypeOK
  <2> HIDE DEF grown
  <2>4. ASSUME NEW q \in Queries PROVE Phase(q)' = Phase(q)
    BY <2>2, <2>3, NullsAssumption, SamePhase DEF Exists, IInv, TypeOK
  <2> QED
    BY <2>3, <2>4, PromisedStutter
<1>7. ASSUME NEW w \in Workers, FlushAnswer(w) \/ StoreEmbedding(w) \/ SaveOutcome(w)
      PROVE  Promise!Next \/ UNCHANGED Promise!vars
  <2>1. PICK r \in Queries : worker[w].query = r
    BY <1>7 DEF FlushAnswer, StoreEmbedding, SaveOutcome, IInv, WorkersOK, LoadedOK
  <2>2. request' = request
    BY <1>7 DEF FlushAnswer, StoreEmbedding, SaveOutcome
  <2>3. CASE rows' = rows /\ embeddings' = embeddings
    BY <1>1, <2>2, <2>3
  <2>4. CASE (FlushAnswer(w) \/ SaveOutcome(w)) /\ rows' # rows
    <3>1. /\ Exists(r) /\ embeddings' = embeddings
          /\ worker[w].pc \in {"answered", "saving", "storing"}
          /\ rows' = [rows EXCEPT ![r] = Updated(@, worker[w].base, worker[w].draft)]
      BY <2>1, <2>4 DEF FlushAnswer, SaveOutcome
    <3> QED
      BY <2>1, <2>2, <3>1, CommitSettles
  <2>5. CASE StoreEmbedding(w) /\ Exists(r) /\ ~Embedded(r)
    <3>1. /\ worker[w].pc \in {"answered", "saving", "storing"}
          /\ rows' = [rows EXCEPT ![r] = Updated(@, worker[w].base, worker[w].draft)]
          /\ embeddings' = [embeddings EXCEPT ![r] = worker[w].draft.answer]
      BY <2>1, <2>5 DEF StoreEmbedding
    <3>2. worker[w].draft.answer \in LLMAnswers
      BY <2>5 DEF StoreEmbedding, IInv, WorkersOK, DraftOK
    <3>3. Embedded(r)' /\ \A q \in Queries \ {r} : embeddings'[q] = embeddings[q]
      BY <3>1, <3>2, NullsAssumption DEF Embedded, IInv, TypeOK
    <3>4. rows'[r].status = "Done"
      BY <2>5, <3>3, EmbeddingStep
    <3> QED
      BY <2>1, <2>2, <2>5, <3>1, <3>3, <3>4, CommitSettles
  <2> QED
    BY <1>7, <2>1, <2>3, <2>4, <2>5 DEF StoreEmbedding, FlushAnswer, SaveOutcome
<1>8. ASSUME NEW r \in Queries,
             PollReadsStale(r) \/ PollExpires(r) \/ DeleteQuery(r) \/ Redeliver(r)
      PROVE  Promise!Next \/ UNCHANGED Promise!vars
  <2>1. {r} \in SUBSET Queries
    OBVIOUS
  <2> QED
    BY <1>1, <1>5, <1>8, <2>1, ExpiryFails
    DEF PollReadsStale, PollExpires, DeleteQuery, Redeliver
<1>9. ASSUME NEW w \in Workers,
             \/ \E q \in Queries : Receive(w, q)
             \/ \E a \in LLMAnswers : Answered(w, a)
             \/ \E t \in FailureTexts : Fails(w, t)
             \/ WorkerCrash(w)
      PROVE  UNCHANGED Promise!vars
  BY <1>1, <1>9 DEF Receive, Answered, Fails, WorkerCrash
<1>10. ASSUME NEW u \in Users, DeleteAllQueries(u)
       PROVE  Promise!Next
  BY <1>5, <1>10 DEF DeleteAllQueries
<1>11. CASE CleanupReadsStale \/ CleanupExpires \/ CleanupPurges \/ CleanupFails
  <2>1. cleanup.batch \in SUBSET Queries
    BY DEF IInv, TypeOK
  <2> QED
    BY <1>1, <1>5, <1>11, <2>1, ExpiryFails
    DEF CleanupReadsStale, CleanupExpires, CleanupPurges, CleanupFails
<1>12. CASE UNCHANGED vars
  BY <1>1, <1>12 DEF vars
<1> QED
  BY <1>2, <1>3, <1>4, <1>6, <1>7, <1>8, <1>9, <1>10, <1>11, <1>12 DEF Next

\* The safety half of ImplementsPromise: with any number of questions, workers
\* and deliveries, nothing deleted returns, nothing settled is Pending again, an
\* embedded question is never deleted, and only its own answer embeds it.
THEOREM KeepsPromise == Spec => Promise!Init /\ [][Promise!Next]_(Promise!vars)
<1>1. Init => Promise!Init
  BY InitPromise
<1>2. IInv /\ [Next]_vars => [Promise!Next]_(Promise!vars)
  BY PromiseStep
<1> QED
  BY <1>1, <1>2, Invariance, PTL DEF Spec
=============================================================================
