------------------------------ MODULE MLModels ------------------------------
(***************************************************************************)
(* The model files of the predictions: the Celery task that trains them    *)
(* one after the other and writes each in place (tasks.ml, ml.train), and  *)
(* the API requests that load them and cache what they predict             *)
(* (services.ml, ml.predict).  Both mount the same volume.  A version is   *)
(* the state of the tables a model was trained on; 0 stands for no model.  *)
(***************************************************************************)
EXTENDS Naturals

CONSTANTS
  Trainers,    \* processes of the Celery worker
  Readers,     \* API requests being served at once
  MaxData,     \* bound on the versions of the tables
  Enough,      \* the models that each version has rows enough for
  MaxQueue,    \* bound on the queued retrainings
  MaxAborts    \* bound on the trainings that fail or die

ASSUME BoundsAssumption ==
  /\ MaxData \in Nat \ {0} /\ MaxQueue \in Nat /\ MaxAborts \in Nat
  /\ Enough \in [1 .. MaxData -> SUBSET (1 .. 3)]

VARIABLES
  data,        \* version of the tables
  queue,       \* retrain_ml_models messages
  trainer,     \* the step of each training: 4 drops the cached answers
  file,        \* MODELS_DIR
  cache,       \* ml:* in Redis: {} or the version behind the answer
  reader,
  overlapped,  \* history: two trainings ran at once
  aborts       \* history: trainings that failed or died

vars == <<data, queue, trainer, file, cache, reader, overlapped, aborts>>

\* In the order of _retrain; budget_overrun.joblib is written and never loaded.
Models == 1 .. 3
Loaded == {2, 3}
Versions == 0 .. MaxData
Mixture == MaxData + 1     \* bytes of two models that happen to load

Idle == [at |-> 0, seen |-> 0, writing |-> FALSE]
Free == [at |-> "free", of |-> 1, sound |-> FALSE, got |-> 0, since |-> {0}]

\* The values each variable may have.
TypeOK ==
  /\ data \in 1 .. MaxData
  /\ queue \in 0 .. MaxQueue
  /\ trainer \in [Trainers -> [at : 0 .. 4, seen : Versions, writing : BOOLEAN]]
  /\ file \in [Models -> [is : {"absent", "partial", "mixed", "whole"}, v : Versions]]
  /\ cache \in [Models -> SUBSET (Versions \cup {Mixture})]
  /\ reader \in [Readers -> [at : {"free", "asking", "loading", "storing"}, of : Models,
                             sound : BOOLEAN, got : Versions \cup {Mixture},
                             since : SUBSET Versions]]
  /\ overlapped \in BOOLEAN /\ aborts \in 0 .. MaxAborts

Init ==
  /\ data = 1 /\ queue = 0
  /\ trainer = [t \in Trainers |-> Idle]
  /\ file = [m \in Models |-> [is |-> "absent", v |-> 0]]
  /\ cache = [m \in Models |-> {}]
  /\ reader = [r \in Readers |-> Free]
  /\ overlapped = FALSE /\ aborts = 0

Writes(t, m) == trainer[t].at = m /\ trainer[t].writing
OthersWrite(t, m) == \E u \in Trainers \ {t} : Writes(u, m)

-----------------------------------------------------------------------------
(* The tables and the schedule.                                            *)

\* Projects and materials change, and ml:* is dropped with them.
Write ==
  /\ data < MaxData
  /\ data' = data + 1
  /\ cache' = [m \in Models |-> {}]
  /\ UNCHANGED <<queue, trainer, file, reader, overlapped, aborts>>

\* beat on Mondays, or POST /ml/retrain; an unreachable queue answers 503.
TriggerRetrain ==
  /\ queue < MaxQueue
  /\ queue' = queue + 1
  /\ UNCHANGED <<data, trainer, file, cache, reader, overlapped, aborts>>

-----------------------------------------------------------------------------
(* _retrain.                                                               *)

\* The message is acknowledged as it is taken.
Receive(t) ==
  /\ trainer[t].at = 0 /\ queue > 0
  /\ queue' = queue - 1
  /\ trainer' = [trainer EXCEPT ![t].at = 1]
  /\ overlapped' = (overlapped \/ \E u \in Trainers : trainer[u].at > 0)
  /\ UNCHANGED <<data, file, cache, reader, aborts>>

\* get_*_features: the rows the next model is trained on.
SelectFeatures(t) ==
  /\ trainer[t].at \in Models /\ trainer[t].seen = 0
  /\ trainer' = [trainer EXCEPT ![t].seen = data]
  /\ UNCHANGED <<data, queue, file, cache, reader, overlapped, aborts>>

\* Mutant of SkipTraining: a model that has a file is not trained again.
SkipTrained(t) ==
  /\ trainer[t].seen > 0 /\ ~trainer[t].writing
  /\ trainer[t].at \notin Enough[trainer[t].seen] \/ file[trainer[t].at].is # "absent"
  /\ trainer' = [trainer EXCEPT ![t] = [Idle EXCEPT !.at = trainer[t].at + 1]]
  /\ UNCHANGED <<data, queue, file, cache, reader, overlapped, aborts>>

\* Fewer than two active projects, or six months of costs: the file stays.
SkipTraining(t) ==
  /\ trainer[t].seen > 0 /\ ~trainer[t].writing
  /\ trainer[t].at \notin Enough[trainer[t].seen]
  /\ trainer' = [trainer EXCEPT ![t] = [Idle EXCEPT !.at = trainer[t].at + 1]]
  /\ UNCHANGED <<data, queue, file, cache, reader, overlapped, aborts>>

\* Mutant of OpenFile: the old file is removed first.
OpenRemoved(t) ==
  LET m == trainer[t].at IN
  /\ trainer[t].seen > 0 /\ ~trainer[t].writing /\ m \in Enough[trainer[t].seen]
  /\ trainer' = [trainer EXCEPT ![t].writing = TRUE]
  /\ file' = [file EXCEPT ![m] = [is |-> "absent", v |-> 0]]
  /\ UNCHANGED <<data, queue, cache, reader, overlapped, aborts>>

\* joblib.dump opens the file of the model in place and truncates it; whoever
\* is loading it reads on in what comes next.
OpenFile(t) ==
  LET m == trainer[t].at IN
  /\ trainer[t].seen > 0 /\ ~trainer[t].writing /\ m \in Enough[trainer[t].seen]
  /\ trainer' = [trainer EXCEPT ![t].writing = TRUE]
  /\ file' = [file EXCEPT ![m].is = IF OthersWrite(t, m) THEN "mixed" ELSE "partial"]
  /\ reader' = [r \in Readers |->
                  IF reader[r].at = "loading" /\ reader[r].of = m
                  THEN [reader[r] EXCEPT !.sound = FALSE] ELSE reader[r]]
  /\ UNCHANGED <<data, queue, cache, overlapped, aborts>>

\* What a training closes is whole, unless another one wrote into it: then the
\* last to close may have overwritten all of it, or not.
Closed(t, m) ==
  IF file[m].is = "partial" THEN {"whole"}
  ELSE IF OthersWrite(t, m) THEN {"mixed"} ELSE {"mixed", "whole"}

CloseFile(t) ==
  LET m == trainer[t].at IN
  /\ trainer[t].writing
  /\ \E is \in Closed(t, m) : file' = [file EXCEPT ![m] = [is |-> is, v |-> trainer[t].seen]]
  /\ reader' = [r \in Readers |->
                  IF reader[r].at = "loading" /\ reader[r].of = m
                  THEN [reader[r] EXCEPT !.since = @ \cup {trainer[t].seen}] ELSE reader[r]]
  /\ trainer' = [trainer EXCEPT ![t] = [Idle EXCEPT !.at = m + 1]]
  /\ UNCHANGED <<data, queue, cache, overlapped, aborts>>

\* scan_iter("ml:*") and a delete of each key.
DropAnswers(t) ==
  /\ trainer[t].at = 4
  /\ cache' = [m \in Models |-> {}]
  /\ trainer' = [trainer EXCEPT ![t] = Idle]
  /\ UNCHANGED <<data, queue, file, reader, overlapped, aborts>>

\* An exception is logged and ends the task, and so does the death of the process:
\* what follows is left out, and the file being written stays as it is.
Abort(t) ==
  /\ trainer[t].at > 0 /\ aborts < MaxAborts
  /\ aborts' = aborts + 1
  /\ trainer' = [trainer EXCEPT ![t] = Idle]
  /\ \E D \in SUBSET Models :
       /\ D = {} \/ trainer[t].at = 4
       /\ cache' = [m \in Models |-> IF m \in D THEN {} ELSE cache[m]]
  /\ UNCHANGED <<data, queue, file, reader, overlapped>>

-----------------------------------------------------------------------------
(* get_budget_overrun_predictions, get_delay_risk_predictions and           *)
(* get_material_forecast_predictions.                                       *)

\* A copy is served; without one the features are selected and a model is asked for.
Ask(r, m) ==
  /\ reader[r].at = "free" /\ cache[m] = {}
  /\ reader' = [reader EXCEPT ![r] = [Free EXCEPT !.at = "asking", !.of = m]]
  /\ UNCHANGED <<data, queue, trainer, file, cache, overlapped, aborts>>

\* predict_budget_overrun computes; the others predict nothing without a file.
NoModel(r) ==
  /\ reader[r].at = "asking"
  /\ reader[r].of \in Loaded => file[reader[r].of].is = "absent"
  /\ reader' = [reader EXCEPT ![r].at = "storing"]
  /\ UNCHANGED <<data, queue, trainer, file, cache, overlapped, aborts>>

\* joblib.load takes its time while the trainings write.
BeginLoad(r) ==
  LET f == file[reader[r].of] IN
  /\ reader[r].at = "asking" /\ reader[r].of \in Loaded /\ f.is # "absent"
  /\ reader' = [reader EXCEPT ![r] = [@ EXCEPT !.at = "loading", !.sound = (f.is = "whole"), !.since = {f.v}]]
  /\ UNCHANGED <<data, queue, trainer, file, cache, overlapped, aborts>>

EndLoad(r) ==
  /\ reader[r].at = "loading" /\ reader[r].sound
  /\ reader' = [reader EXCEPT ![r] = [@ EXCEPT !.at = "storing", !.got = file[reader[r].of].v]]
  /\ UNCHANGED <<data, queue, trainer, file, cache, overlapped, aborts>>

\* Mutant of LoadRaises: a file that cannot be loaded counts as missing.
LoadFindsNothing(r) ==
  /\ reader[r].at = "loading" /\ ~reader[r].sound
  /\ reader' = [reader EXCEPT ![r] = [@ EXCEPT !.at = "storing", !.got = 0]]
  /\ UNCHANGED <<data, queue, trainer, file, cache, overlapped, aborts>>

\* The exception is a 500, and nothing is stored.
LoadRaises(r) ==
  /\ reader[r].at = "loading" /\ ~reader[r].sound
  /\ reader' = [reader EXCEPT ![r] = Free]
  /\ UNCHANGED <<data, queue, trainer, file, cache, overlapped, aborts>>

\* A file that was rewritten during the load may load all the same: trainings on
\* the same rows write the same bytes (random_state=42), others make a mixture.
LoadMixture(r) ==
  LET f == file[reader[r].of] IN
  /\ reader[r].at = "loading" /\ ~reader[r].sound /\ f.is # "partial"
  /\ \E g \in {f.v, Mixture} :
       /\ g = f.v <=> f.is = "whole" /\ reader[r].since = {f.v}
       /\ reader' = [reader EXCEPT ![r] = [@ EXCEPT !.at = "storing", !.got = g]]
  /\ UNCHANGED <<data, queue, trainer, file, cache, overlapped, aborts>>

\* set_cache, or a Redis error that is only logged.
Store(r) ==
  /\ reader[r].at = "storing"
  /\ cache' \in {cache, [cache EXCEPT ![reader[r].of] = {reader[r].got}]}
  /\ reader' = [reader EXCEPT ![r] = Free]
  /\ UNCHANGED <<data, queue, trainer, file, overlapped, aborts>>

\* DEFAULT_CACHE_TTL.
Expire(m) ==
  /\ cache[m] # {}
  /\ cache' = [cache EXCEPT ![m] = {}]
  /\ UNCHANGED <<data, queue, trainer, file, reader, overlapped, aborts>>

-----------------------------------------------------------------------------
Trains(t) == \/ SelectFeatures(t) \/ SkipTraining(t) \/ OpenFile(t) \/ CloseFile(t)
             \/ DropAnswers(t)
Answers(r) == \/ NoModel(r) \/ BeginLoad(r) \/ EndLoad(r) \/ LoadRaises(r) \/ LoadMixture(r)
              \/ Store(r)

Next ==
  \/ Write \/ TriggerRetrain
  \/ \E t \in Trainers : Receive(t) \/ Trains(t) \/ Abort(t)
  \/ \E r \in Readers : Answers(r) \/ (\E m \in Models : Ask(r, m))
  \/ \E m \in Models : Expire(m)

Spec == Init /\ [][Next]_vars

\* beat goes on, the broker delivers, a training or request under way goes on,
\* and Redis expires its keys.
Fairness ==
  /\ WF_vars(TriggerRetrain)
  /\ \A t \in Trainers : WF_vars(Receive(t)) /\ WF_vars(Trains(t))
  /\ \A r \in Readers : WF_vars(Answers(r))
  /\ \A m \in Models : WF_vars(Expire(m))

FairSpec == Spec /\ Fairness

-----------------------------------------------------------------------------
(* Properties.                                                             *)

\* Nothing locks the file, and yet a request that loads it predicts with the model
\* that was the last one written when the load began, or with one written since;
\* unless two trainings ran at once, or one opened the file during the load.
RegularLoads ==
  \A r \in Readers : reader[r].at = "storing" /\ reader[r].got # Mixture =>
    reader[r].got \in reader[r].since

\* Until two trainings overlap, no model is replaced by one of older rows.
NeverOlder == [][overlapped \/ \A m \in Models : file'[m].v >= file[m].v]_vars

\* Once there are rows enough for good, a file that a failed training left in
\* pieces is mended by a later one, whoever loads it meanwhile, and no answer of
\* older rows stays cached, also where a retraining failed before it dropped them.
PredictionsHeal ==
  <>overlapped \/
    \A m \in Loaded : m \in Enough[MaxData] /\ <>(data = MaxData) =>
      /\ []<>(file[m] = [is |-> "whole", v |-> MaxData])
      /\ <>[](cache[m] \subseteq {MaxData})

\* The inductive invariant behind the theorems of Predictions_proofs.

\* A training that writes has read the rows of a model.
WritersHaveRows ==
  \A t \in Trainers :
    /\ trainer[t].seen > 0 => trainer[t].at \in Models
    /\ trainer[t].writing => trainer[t].seen > 0

\* Nobody writes a whole file, and one training alone a partial one.
WritersKnown ==
  \A m \in Models :
    /\ file[m].is = "whole" => \A t \in Trainers : ~Writes(t, m)
    /\ file[m].is = "partial" => \A t, u \in Trainers : Writes(t, m) /\ Writes(u, m) => t = u

\* A load that nothing disturbed still has the file it began with.
LoadsSound ==
  \A r \in Readers :
    /\ reader[r].at = "asking" => reader[r].got = 0 /\ reader[r].since = {0}
    /\ reader[r].at = "loading" /\ reader[r].sound =>
         file[reader[r].of].is = "whole" /\ file[reader[r].of].v \in reader[r].since

\* No model is ahead of the tables; and while trainings come one at a time, the rows
\* that one of them has read are no older than those of any file it may replace.
TrainedInOrder ==
  /\ \A m \in Models : file[m].v <= data
  /\ \A t \in Trainers : trainer[t].seen <= data
  /\ ~overlapped =>
       /\ \A t, u \in Trainers : trainer[t].at > 0 /\ trainer[u].at > 0 => t = u
       /\ \A t \in Trainers, m \in Models :
            trainer[t].seen > 0 => file[m].v <= trainer[t].seen

\* Writers, loads and what they yield, together inductive.
IInv == /\ TypeOK /\ WritersHaveRows /\ WritersKnown /\ LoadsSound /\ RegularLoads
        /\ TrainedInOrder
=============================================================================
