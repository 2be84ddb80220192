-------------------------- MODULE SiteAlerts_proofs --------------------------
(***************************************************************************)
(* What holds of what a commit sets off, for any number of rows, workers,  *)
(* sockets and calls: the Slack alert of an incident (IncidentAlert), the  *)
(* notifications and their sockets (NotificationHub, as Hub), the overrun  *)
(* of a budget (BudgetAlert, as Budget), and the text that the worker      *)
(* embeds (LogEmbedding, as Text).                                         *)
(***************************************************************************)
EXTENDS SiteAlerts, LogTexts, Sequences, WellFoundedInduction, FiniteSetTheorems, TLAPS

-----------------------------------------------------------------------------
(* Sums.                                                                   *)

\* Every set of numbers has a least one, by which what follows is proved by induction.
LEMMA Least ==
  ASSUME NEW T, T \subseteq Nat, T # {}
  PROVE  \E n \in T : \A m \in T : n <= m
<1>1. IsWellFoundedOn(OpToRel(<, Nat), Nat)
  BY NatLessThanWellFounded
<1>2. PICK n \in T : \A m \in T : ~(<<m, n>> \in OpToRel(<, Nat))
  BY <1>1, WFMin
<1>3. \A m \in T : ~(m < n)
  BY <1>2 DEF OpToRel
<1> QED
  BY <1>3

\* What holds at 0, and at n if it holds at n - 1, holds up to b.
LEMMA UpTo ==
  ASSUME NEW b \in Nat, NEW H, 0 \in H,
         \A n \in 1 .. b : n - 1 \in H => n \in H
  PROVE  \A n \in 0 .. b : n \in H
<1> DEFINE T == {n \in 0 .. b : n \notin H}
<1>1. CASE T = {}
  BY <1>1
<1>2. CASE T # {}
  <2>1. T \subseteq Nat
    OBVIOUS
  <2>2. PICK n \in T : \A m \in T : n <= m
    BY <1>2, <2>1, Least
  <2>3. n \in 1 .. b /\ n - 1 \notin T
    BY <2>2
  <2> QED
    BY <2>2, <2>3
<1> QED
  BY <1>1, <1>2

\* The sums up to k are the function that they are defined by.
LEMMA SumOf ==
  ASSUME NEW f
  PROVE  \E u : /\ u = [k \in Behind |-> IF k = 0 THEN f[0] ELSE u[k - 1] + f[k]]
                /\ Sum(f) = u[MaxRetries + 1]
<1> DEFINE Is(u, n) == u = [k \in 0 .. n |-> IF k = 0 THEN f[0] ELSE u[k - 1] + f[k]]
           b == MaxRetries + 1
           H == {n \in 0 .. b : \E u : Is(u, n)}
<1>0. b \in Nat
  BY BoundsAssumption
<1>1. 0 \in H
  <2> DEFINE v == [k \in 0 .. 0 |-> f[0]]
  <2>1. Is(v, 0)
    OBVIOUS
  <2> HIDE DEF v, Is
  <2> QED
    BY <1>0, <2>1
<1>2. ASSUME NEW n \in 1 .. b, n - 1 \in H PROVE n \in H
  <2>1. PICK u : Is(u, n - 1)
    BY <1>2
  <2> DEFINE v == [k \in 0 .. n |-> IF k = n THEN u[n - 1] + f[n] ELSE u[k]]
  <2>0. n - 1 \in 0 .. n - 1 /\ 0 .. n - 1 \subseteq 0 .. n
    OBVIOUS
  <2>2. \A k \in 0 .. n : v[k] = IF k = 0 THEN f[0] ELSE v[k - 1] + f[k]
    <3>1. \A k \in 0 .. n - 1 : u[k] = IF k = 0 THEN f[0] ELSE u[k - 1] + f[k]
      BY <2>1
    <3>2. \A k \in 0 .. n - 1 : v[k] = u[k]
      OBVIOUS
    <3>3. v[n] = v[n - 1] + f[n]
      BY <2>0, <3>2
    <3>4. ASSUME NEW k \in 0 .. n - 1 PROVE v[k] = IF k = 0 THEN f[0] ELSE v[k - 1] + f[k]
      <4>1. k = 0 \/ k - 1 \in 0 .. n - 1
        OBVIOUS
      <4> QED
        BY <3>1, <3>2, <4>1
    <3> QED
      BY <3>3, <3>4
  <2>3. Is(v, n)
    <3>1. v = [k \in 0 .. n |-> v[k]]
      OBVIOUS
    <3> HIDE DEF v
    <3> QED
      BY <2>2, <3>1
  <2> HIDE DEF v, Is
  <2> QED
    BY <2>3
<1>3. \E u : Is(u, b)
  <2> HIDE DEF H
  <2>1. b \in H
    BY <1>0, <1>1, <1>2, UpTo
  <2> QED
    BY <2>1 DEF H
<1> DEFINE w == CHOOSE u : Is(u, b)
<1>4. Is(w, b)
  BY <1>3
<1>5. Sum(f) = w[b]
  BY DEF Sum, Behind
<1> QED
  BY <1>4, <1>5 DEF Behind

\* The equations of that function, without the function.
LEMMA SumEquations ==
  ASSUME NEW f \in [Behind -> Nat]
  PROVE  \E u : /\ u[0] = f[0] /\ Sum(f) = u[MaxRetries + 1]
                /\ \A k \in 1 .. MaxRetries + 1 : u[k] = u[k - 1] + f[k]
<1>1. PICK u : /\ u = [k \in Behind |-> IF k = 0 THEN f[0] ELSE u[k - 1] + f[k]]
               /\ Sum(f) = u[MaxRetries + 1]
  BY SumOf
<1>2. /\ 0 \in Behind /\ 1 .. MaxRetries + 1 \subseteq Behind
      /\ \A k \in 1 .. MaxRetries + 1 : k # 0
  BY BoundsAssumption DEF Behind
<1>3. \A k \in Behind : u[k] = IF k = 0 THEN f[0] ELSE u[k - 1] + f[k]
  BY <1>1
<1> QED
  BY <1>1, <1>2, <1>3

\* A sum of numbers is a number, and no less than any of them.
LEMMA SumNat ==
  ASSUME NEW f \in [Behind -> Nat]
  PROVE  Sum(f) \in Nat /\ \A k \in Behind : f[k] <= Sum(f)
<1> DEFINE b == MaxRetries + 1
<1>0. b \in Nat /\ Behind = 0 .. b
  BY BoundsAssumption DEF Behind
<1>1. PICK u : u[0] = f[0] /\ Sum(f) = u[b] /\ \A k \in 1 .. b : u[k] = u[k - 1] + f[k]
  BY SumEquations
<1> DEFINE H == {n \in 0 .. b : u[n] \in Nat /\ \A k \in 0 .. n : f[k] <= u[n]}
<1>2. 0 \in H
  BY <1>0, <1>1
<1>3. ASSUME NEW n \in 1 .. b, n - 1 \in H PROVE n \in H
  <2>1. u[n - 1] \in Nat /\ f[n] \in Nat /\ \A k \in 0 .. n - 1 : f[k] \in Nat /\ f[k] <= u[n - 1]
    BY <1>0, <1>3
  <2>2. u[n] = u[n - 1] + f[n]
    BY <1>1
  <2>3. \A k \in 0 .. n : k = n \/ k \in 0 .. n - 1
    OBVIOUS
  <2>4. u[n] \in Nat /\ f[n] <= u[n] /\ u[n - 1] <= u[n]
    BY <2>1, <2>2
  <2>5. ASSUME NEW k \in 0 .. n PROVE f[k] <= u[n]
    BY <2>1, <2>3, <2>4
  <2> QED
    BY <2>4, <2>5
<1>4. b \in H
  <2> HIDE DEF H
  <2>1. b \in Nat
    BY <1>0
  <2> HIDE DEF b
  <2>2. \A n \in 0 .. b : n \in H
    BY <2>1, <1>2, <1>3, UpTo
  <2> QED
    BY <2>1, <2>2
<1> QED
  BY <1>0, <1>1, <1>4

\* A sum of nothing.
LEMMA SumZero == Sum([k \in Behind |-> 0]) = 0
<1> DEFINE b == MaxRetries + 1
           z == [k \in Behind |-> 0]
<1>0. b \in Nat /\ Behind = 0 .. b
  BY BoundsAssumption DEF Behind
<1>1. z \in [Behind -> Nat]
  OBVIOUS
<1>2. \A k \in Behind : z[k] = 0
  OBVIOUS
<1> HIDE DEF z
<1>3. PICK u : u[0] = z[0] /\ Sum(z) = u[b] /\ \A k \in 1 .. b : u[k] = u[k - 1] + z[k]
  BY <1>1, SumEquations
<1> DEFINE H == {n \in 0 .. b : u[n] = 0}
<1>4. 0 \in H
  BY <1>0, <1>2, <1>3
<1>5. ASSUME NEW n \in 1 .. b, n - 1 \in H PROVE n \in H
  <2>1. u[n] = u[n - 1] + z[n] /\ u[n - 1] = 0
    BY <1>3, <1>5
  <2>2. z[n] = 0
    BY <1>0, <1>2
  <2> QED
    BY <2>1, <2>2
<1>6. b \in H
  <2> HIDE DEF H
  <2>1. b \in Nat
    BY <1>0
  <2> HIDE DEF b
  <2>2. \A n \in 0 .. b : n \in H
    BY <2>1, <1>4, <1>5, UpTo
  <2> QED
    BY <2>1, <2>2
<1> QED
  BY <1>3, <1>6 DEF z

\* One entry that grows by b - a makes the sum grow by as much.
LEMMA SumStep ==
  ASSUME NEW f \in [Behind -> Nat], NEW g \in [Behind -> Nat], NEW j \in Behind,
         NEW c \in Nat, NEW d \in Nat,
         \A k \in Behind \ {j} : g[k] = f[k], g[j] + c = f[j] + d
  PROVE  Sum(g) + c = Sum(f) + d
<1> DEFINE b == MaxRetries + 1
<1>0. b \in Nat /\ Behind = 0 .. b
  BY BoundsAssumption DEF Behind
<1>1. PICK u : u[0] = f[0] /\ Sum(f) = u[b] /\ \A k \in 1 .. b : u[k] = u[k - 1] + f[k]
  BY SumEquations
<1>2. PICK v : v[0] = g[0] /\ Sum(g) = v[b] /\ \A k \in 1 .. b : v[k] = v[k - 1] + g[k]
  BY SumEquations
<1> DEFINE H == {n \in 0 .. b : /\ u[n] \in Nat /\ v[n] \in Nat
                                /\ IF n < j THEN v[n] = u[n] ELSE v[n] + c = u[n] + d}
<1>3. 0 \in H
  BY <1>0, <1>1, <1>2
<1>4. ASSUME NEW n \in 1 .. b, n - 1 \in H PROVE n \in H
  <2>1. u[n] = u[n - 1] + f[n] /\ v[n] = v[n - 1] + g[n]
    BY <1>1, <1>2
  <2>2. n \in Behind /\ f[n] \in Nat /\ g[n] \in Nat /\ n \in Nat /\ j \in Nat
    BY <1>0
  <2>3. IF n = j THEN g[n] + c = f[n] + d ELSE g[n] = f[n]
    BY <2>2
  <2>4. /\ u[n - 1] \in Nat /\ v[n - 1] \in Nat
        /\ IF n - 1 < j THEN v[n - 1] = u[n - 1] ELSE v[n - 1] + c = u[n - 1] + d
    BY <1>4
  <2> QED
    BY <2>1, <2>2, <2>3, <2>4
<1>5. b \in H
  <2> HIDE DEF H
  <2>1. b \in Nat
    BY <1>0
  <2> HIDE DEF b
  <2>2. \A n \in 0 .. b : n \in H
    BY <2>1, <1>3, <1>4, UpTo
  <2> QED
    BY <2>1, <2>2
<1>6. ~(b < j)
  BY <1>0
<1> QED
  BY <1>1, <1>2, <1>5, <1>6

-----------------------------------------------------------------------------
(* IncidentAlert.                                                          *)

\* The deliveries of i with k posts behind them are counted by numbers.
LEMMA UnderNat ==
  TypeOK => \A i \in Incidents, k \in Behind : Under(i, k) \in Nat
<1> SUFFICES ASSUME TypeOK, NEW i \in Incidents, NEW k \in Behind
             PROVE  Under(i, k) \in Nat
  OBVIOUS
<1>1. Cardinality({w \in Workers : Carries(worker[w], i, k)}) \in Nat
  BY WorkersAssumption, FS_Subset, FS_CardinalityType
<1> QED
  BY <1>1 DEF Under, TypeOK

\* The same of the next state.
LEMMA UnderNatNext ==
  (TypeOK => \A i \in Incidents, k \in Behind : Under(i, k) \in Nat)'
BY UnderNat, PTL

\* The two sums over them are numbers too.
LEMMA SumsNat ==
  TypeOK => \A i \in Incidents :
         /\ UnderWay(i) \in Nat /\ PostsLeft(i) \in Nat
         /\ \A k \in Behind : /\ Under(i, k) \in Nat /\ Under(i, k) <= UnderWay(i)
                              /\ (MaxRetries + 1 - k) * Under(i, k) \in Nat
                              /\ (MaxRetries + 1 - k) * Under(i, k) <= PostsLeft(i)
<1> SUFFICES ASSUME TypeOK, NEW i \in Incidents
             PROVE  /\ UnderWay(i) \in Nat /\ PostsLeft(i) \in Nat
                    /\ \A k \in Behind : /\ Under(i, k) \in Nat /\ Under(i, k) <= UnderWay(i)
                                         /\ (MaxRetries + 1 - k) * Under(i, k) \in Nat
                                         /\ (MaxRetries + 1 - k) * Under(i, k) <= PostsLeft(i)
  OBVIOUS
<1> DEFINE f == [k \in Behind |-> Under(i, k)]
           g == [k \in Behind |-> (MaxRetries + 1 - k) * Under(i, k)]
<1>1. f \in [Behind -> Nat]
  BY UnderNat
<1>2. \A k \in Behind : MaxRetries + 1 - k \in Nat
  BY BoundsAssumption DEF Behind
<1>3. \A m, n \in Nat : m * n \in Nat
  OBVIOUS
<1>4. \A k \in Behind : (MaxRetries + 1 - k) * Under(i, k) \in Nat
  BY <1>2, <1>3, UnderNat
<1>5. g \in [Behind -> Nat]
  BY <1>4
<1>6. UnderWay(i) = Sum(f) /\ PostsLeft(i) = Sum(g)
  BY DEF UnderWay, PostsLeft
<1>7. \A k \in Behind : f[k] = Under(i, k) /\ g[k] = (MaxRetries + 1 - k) * Under(i, k)
  OBVIOUS
<1> HIDE DEF f, g
<1> QED
  BY <1>1, <1>4, <1>5, <1>6, <1>7, SumNat, UnderNat

\* So they are after a step.
LEMMA SumsNatNext ==
  (TypeOK => \A i \in Incidents :
         /\ UnderWay(i) \in Nat /\ PostsLeft(i) \in Nat
         /\ \A k \in Behind : /\ Under(i, k) \in Nat /\ Under(i, k) <= UnderWay(i)
                              /\ (MaxRetries + 1 - k) * Under(i, k) \in Nat
                              /\ (MaxRetries + 1 - k) * Under(i, k) <= PostsLeft(i))'
BY SumsNat, PTL

\* What does not change the deliveries of i does not change the sums.
LEMMA Stays ==
  ASSUME NEW i \in Incidents, \A k \in Behind : Under(i, k)' = Under(i, k)
  PROVE  UnderWay(i)' = UnderWay(i) /\ PostsLeft(i)' = PostsLeft(i)
<1>1. [k \in Behind |-> Under(i, k)'] = [k \in Behind |-> Under(i, k)]
  OBVIOUS
<1>2. [k \in Behind |-> (MaxRetries + 1 - k) * Under(i, k)']
        = [k \in Behind |-> (MaxRetries + 1 - k) * Under(i, k)]
  OBVIOUS
<1> QED
  BY <1>1, <1>2 DEF UnderWay, PostsLeft

\* c deliveries fewer and d more, all with j posts behind them.
LEMMA Changes ==
  ASSUME TypeOK, TypeOK', NEW i \in Incidents, NEW j \in Behind, NEW c \in Nat, NEW d \in Nat,
         Under(i, j)' + c = Under(i, j) + d, \A k \in Behind \ {j} : Under(i, k)' = Under(i, k)
  PROVE  /\ UnderWay(i)' + c = UnderWay(i) + d
         /\ PostsLeft(i)' + (MaxRetries + 1 - j) * c = PostsLeft(i) + (MaxRetries + 1 - j) * d
<1> DEFINE f == [k \in Behind |-> Under(i, k)]
           g == [k \in Behind |-> Under(i, k)']
           ff == [k \in Behind |-> (MaxRetries + 1 - k) * Under(i, k)]
           gg == [k \in Behind |-> (MaxRetries + 1 - k) * Under(i, k)']
           x == MaxRetries + 1 - j
<1>1. x \in Nat
  BY BoundsAssumption DEF Behind
<1>2. \A k \in Behind : /\ Under(i, k) \in Nat /\ (MaxRetries + 1 - k) * Under(i, k) \in Nat
                        /\ Under(i, k)' \in Nat /\ (MaxRetries + 1 - k) * Under(i, k)' \in Nat
  <2>2. \A k \in Behind : Under(i, k)' \in Nat /\ MaxRetries + 1 - k \in Nat
    BY UnderNatNext, BoundsAssumption DEF Behind
  <2>3. \A m, n \in Nat : m * n \in Nat
    OBVIOUS
  <2>4. \A k \in Behind : (MaxRetries + 1 - k) * Under(i, k)' \in Nat
    BY <2>2, <2>3
  <2> QED
    BY <2>2, <2>4, SumsNat
<1>3. f \in [Behind -> Nat] /\ g \in [Behind -> Nat] /\ ff \in [Behind -> Nat] /\ gg \in [Behind -> Nat]
  BY <1>2
<1>4. UnderWay(i) = Sum(f) /\ PostsLeft(i) = Sum(ff) /\ UnderWay(i)' = Sum(g) /\ PostsLeft(i)' = Sum(gg)
  BY DEF UnderWay, PostsLeft
<1>5. /\ g[j] + c = f[j] + d /\ \A k \in Behind \ {j} : g[k] = f[k]
      /\ gg[j] = x * g[j] /\ ff[j] = x * f[j] /\ \A k \in Behind \ {j} : gg[k] = ff[k]
  OBVIOUS
<1>6. \A m, n \in Nat : x * (m + n) = x * m + x * n /\ x * m \in Nat
  BY <1>1
<1>7. gg[j] + x * c = ff[j] + x * d
  <2>1. f[j] \in Nat /\ g[j] \in Nat
    BY <1>3
  <2> HIDE DEF f, g, ff, gg, x
  <2>2. x * (g[j] + c) = x * g[j] + x * c /\ x * (f[j] + d) = x * f[j] + x * d
    BY <1>6, <2>1
  <2> QED
    BY <1>5, <2>2
<1>8. x * c \in Nat /\ x * d \in Nat
  BY <1>6
<1> HIDE DEF f, g, ff, gg
<1>9. Sum(g) + c = Sum(f) + d
  BY <1>3, <1>5, SumStep
<1>10. Sum(gg) + x * c = Sum(ff) + x * d
  <2>1. ff \in [Behind -> Nat] /\ gg \in [Behind -> Nat] /\ \A k \in Behind \ {j} : gg[k] = ff[k]
    BY <1>3, <1>5
  <2>2. ASSUME NEW m \in Nat, NEW n \in Nat, gg[j] + m = ff[j] + n
        PROVE  Sum(gg) + m = Sum(ff) + n
    BY <2>1, <2>2, SumStep
  <2> QED
    BY <1>7, <1>8, <2>2
<1> QED
  BY <1>4, <1>9, <1>10

\* The values that the variables may have.
CreateRecords == [at : {"new", "inserted", "alerting", "done", "failed"}, seen : Severities]
TaskRecords == [at : {"running", "failing"}, of : Incidents, retries : Retries]

\* The records that the steps build.
LEMMA Records ==
  /\ \A c \in CreateRecords :
       /\ [c EXCEPT !.at = "inserted"] \in CreateRecords /\ [c EXCEPT !.at = "done"] \in CreateRecords
       /\ [c EXCEPT !.at = "failed"] \in CreateRecords
  /\ \A s \in Severities : [at |-> "alerting", seen |-> s] \in CreateRecords
  /\ \A i \in Incidents, k \in Retries : [at |-> "running", of |-> i, retries |-> k] \in TaskRecords
  /\ \A t \in TaskRecords : [t EXCEPT !.at = "failing"] \in TaskRecords
  /\ 0 \in Retries /\ Retries \subseteq Nat /\ \A k \in Retries : k < MaxRetries => k + 1 \in Retries
BY BoundsAssumption DEF CreateRecords, TaskRecords, Retries

\* One step per action, each keeping the types.
LEMMA TypeStep == TypeOK /\ [Next]_vars => TypeOK'
<1> SUFFICES ASSUME TypeOK, [Next]_vars PROVE TypeOK'
  OBVIOUS
<1>0. /\ create \in [Incidents -> CreateRecords]
      /\ worker \in [Workers -> {Free} \cup TaskRecords]
  BY DEF TypeOK, CreateRecords, TaskRecords
<1>q. \A i \in Incidents, k \in Retries, n \in Nat :
        [queue EXCEPT ![i][k] = n] \in [Incidents -> [Retries -> Nat]]
  BY DEF TypeOK
<1>n. \A i \in Incidents, k \in Retries : queue[i][k] \in Nat
  BY DEF TypeOK
<1> USE DEF TypeOK
<1>1. ASSUME NEW i \in Incidents, NEW s \in Severities, Insert(i, s) PROVE TypeOK'
  <2>1. create' \in [Incidents -> CreateRecords]
    BY <1>0, <1>1, Records DEF Insert
  <2>2. row' \in [Incidents -> Severities \cup {"none", "gone"}] /\ wasHigh' \subseteq Incidents
    BY <1>1 DEF Insert, Store
  <2>3. UNCHANGED <<edit, configured, queue, worker, announced, attempts, doubts, copies, lost>>
    BY <1>1 DEF Insert
  <2> QED
    BY <2>1, <2>2, <2>3 DEF CreateRecords
<1>2. ASSUME NEW i \in Incidents, Refresh(i) PROVE TypeOK'
  <2>1. create' \in [Incidents -> CreateRecords]
    BY <1>0, <1>2, Records DEF Refresh, Exists
  <2>2. UNCHANGED <<row, edit, configured, queue, worker, history, copies, lost>>
    BY <1>2 DEF Refresh
  <2> QED
    BY <2>1, <2>2 DEF CreateRecords, history
<1>3. ASSUME NEW i \in Incidents, Alert(i) PROVE TypeOK'
  <2>1. create' \in [Incidents -> CreateRecords]
    BY <1>0, <1>3, Records DEF Alert
  <2>2. queue' \in [Incidents -> [Retries -> Nat]]
    <3>1. queue[i][0] + 1 \in Nat
      BY <1>n, Records
    <3>2. queue' = queue \/ queue' = [queue EXCEPT ![i][0] = @ + 1]
      BY <1>3 DEF Alert
    <3>3. [queue EXCEPT ![i][0] = @ + 1] \in [Incidents -> [Retries -> Nat]]
      BY <1>q, <3>1, Records
    <3> QED
      BY <3>2, <3>3
  <2>4. lost' \subseteq Incidents
    BY <1>3 DEF Alert
  <2>3. UNCHANGED <<row, edit, configured, worker, history, copies>>
    BY <1>3 DEF Alert
  <2> QED
    BY <2>1, <2>2, <2>3, <2>4 DEF CreateRecords, history
<1>4. ASSUME NEW i \in Incidents, RequestDies(i) PROVE TypeOK'
  <2>1. create' \in [Incidents -> CreateRecords]
    BY <1>0, <1>4, Records DEF RequestDies
  <2> QED
    BY <1>4, <2>1 DEF RequestDies, CreateRecords, history
<1>5. ASSUME NEW e \in Editors, NEW i \in Incidents, NEW s \in Severities, LoadToUpdate(e, i, s) PROVE TypeOK'
  <2>1. edit' \in [Editors -> {Free} \cup [at : {"updating"}, of : Incidents, had : Severities, to : Severities]
                                     \cup [at : {"deleting"}, of : Incidents]]
    BY <1>5 DEF LoadToUpdate, Exists
  <2>2. UNCHANGED <<row, create, configured, queue, worker, history, copies, lost>>
    BY <1>5 DEF LoadToUpdate
  <2> QED
    BY <2>1, <2>2 DEF history
<1>6. ASSUME NEW e \in Editors, Update(e) PROVE TypeOK'
  BY <1>6 DEF Update, Store, Free
<1>7. ASSUME NEW e \in Editors, NEW i \in Incidents, LoadToDelete(e, i) PROVE TypeOK'
  BY <1>7 DEF LoadToDelete, history
<1>8. ASSUME NEW e \in Editors, Delete(e) PROVE TypeOK'
  BY <1>8 DEF Delete, history
<1>9. ASSUME NEW w \in Workers, NEW i \in Incidents, NEW k \in Retries, Receive(w, i, k) PROVE TypeOK'
  <2>1. queue' \in [Incidents -> [Retries -> Nat]] /\ copies' \in [Incidents -> 0 .. MaxCopies]
    <3>1. queue[i][k] - 1 \in Nat
      BY <1>9, <1>n DEF Receive
    <3>3. \/ queue' = [queue EXCEPT ![i][k] = @ - 1] /\ UNCHANGED copies
          \/ copies[i] < MaxCopies /\ copies' = [copies EXCEPT ![i] = @ + 1] /\ UNCHANGED queue
      BY <1>9 DEF Receive
    <3>2. copies[i] < MaxCopies => copies[i] + 1 \in 0 .. MaxCopies
      BY BoundsAssumption
    <3>4. [queue EXCEPT ![i][k] = @ - 1] \in [Incidents -> [Retries -> Nat]]
      BY <1>q, <3>1
    <3>5. queue' \in [Incidents -> [Retries -> Nat]]
      BY <3>3, <3>4
    <3>6. copies' \in [Incidents -> 0 .. MaxCopies]
      BY <3>2, <3>3
    <3> QED
      BY <3>5, <3>6
  <2>2. worker' \in [Workers -> {Free} \cup TaskRecords]
    BY <1>0, <1>9, Records DEF Receive
  <2>3. UNCHANGED <<row, create, edit, configured, history, lost>>
    BY <1>9 DEF Receive
  <2> QED
    BY <2>1, <2>2, <2>3 DEF TaskRecords, history
<1>10. ASSUME NEW w \in Workers, SkipPost(w) \/ GiveUp(w) \/ WorkerDies(w) PROVE TypeOK'
  <2>1. worker' \in [Workers -> {Free} \cup TaskRecords]
    BY <1>0, <1>10 DEF SkipPost, GiveUp, WorkerDies
  <2>2. lost' \subseteq Incidents
    <3>1. worker[w] # Free => worker[w].of \in Incidents
      BY <1>0 DEF TaskRecords
    <3>2. SkipPost(w) \/ GiveUp(w) => worker[w] # Free
      BY DEF SkipPost, GiveUp, Free
    <3> QED
      BY <1>10, <3>1, <3>2 DEF SkipPost, GiveUp, WorkerDies
  <2>3. UNCHANGED <<row, create, edit, configured, queue, history, copies>>
    BY <1>10 DEF SkipPost, GiveUp, WorkerDies
  <2> QED
    BY <2>1, <2>2, <2>3 DEF TaskRecords, history
<1>11. ASSUME NEW w \in Workers, NEW shown \in BOOLEAN, NEW answered \in BOOLEAN, Post(w, shown, answered)
       PROVE TypeOK'
  <2>1. worker[w] \in TaskRecords
    BY <1>0, <1>11 DEF Post, Free
  <2>2. worker' \in [Workers -> {Free} \cup TaskRecords]
    BY <1>0, <1>11, <2>1, Records DEF Post
  <2>3. /\ attempts' \in [Incidents -> Nat] /\ announced' \in [Incidents -> Nat]
        /\ doubts' \in [Incidents -> Nat]
    <3>1. worker[w].of \in Incidents
      BY <2>1 DEF TaskRecords
    <3>2. \A i \in Incidents : /\ attempts[i] + 1 \in Nat /\ announced[i] + 1 \in Nat
                              /\ doubts[i] + 1 \in Nat
      OBVIOUS
    <3>3. attempts' \in [Incidents -> Nat]
      BY <1>11, <3>1, <3>2 DEF Post
    <3>4. announced' \in [Incidents -> Nat]
      BY <1>11, <3>1, <3>2 DEF Post
    <3>5. doubts' \in [Incidents -> Nat]
      BY <1>11, <3>1, <3>2 DEF Post
    <3> QED
      BY <3>3, <3>4, <3>5
  <2>4. UNCHANGED <<row, create, edit, configured, queue, copies, wasHigh, lost>>
    BY <1>11 DEF Post
  <2> QED
    BY <2>2, <2>3, <2>4 DEF TaskRecords
<1>12. ASSUME NEW w \in Workers, Retry(w) PROVE TypeOK'
  <2>1. worker[w] \in TaskRecords
    BY <1>0, <1>12 DEF Retry, Free
  <2>2. queue' \in [Incidents -> [Retries -> Nat]]
    <3>1. /\ worker[w].of \in Incidents /\ worker[w].retries + 1 \in Retries
          /\ queue' = [queue EXCEPT ![worker[w].of][worker[w].retries + 1] = @ + 1]
      BY <1>12, <2>1, Records DEF Retry, TaskRecords
    <3>2. queue[worker[w].of][worker[w].retries + 1] + 1 \in Nat
      BY <1>n, <3>1
    <3> QED
      BY <1>q, <3>1, <3>2
  <2>3. worker' \in [Workers -> {Free} \cup TaskRecords]
    BY <1>0, <1>12 DEF Retry
  <2>4. UNCHANGED <<row, create, edit, configured, history, copies, lost>>
    BY <1>12 DEF Retry
  <2> QED
    BY <2>2, <2>3, <2>4 DEF TaskRecords, history
<1>13. CASE UNCHANGED vars
  BY <1>13 DEF vars
<1> QED
  BY <1>1, <1>2, <1>3, <1>4, <1>5, <1>6, <1>7, <1>8, <1>9, <1>10, <1>11, <1>12, <1>13
     DEF Next, Creates, Takes, Runs

\* What HighFirst speaks of.
Source(i) ==
  \/ row[i] = "High" \/ create[i] = [at |-> "alerting", seen |-> "High"]
  \/ (\E k \in Retries : queue[i][k] > 0) \/ (\E w \in Workers : worker[w] # Free /\ worker[w].of = i)
  \/ announced[i] > 0

\* No step makes a source of an incident but from another one, or by storing High.
LEMMA HighFirstStep == TypeOK /\ HighFirst /\ [Next]_vars => HighFirst'
<1> SUFFICES ASSUME TypeOK, HighFirst, [Next]_vars, NEW i \in Incidents, Source(i)'
             PROVE  (i \in wasHigh)'
  BY DEF HighFirst, Source
<1>0. Source(i) => i \in wasHigh
  BY DEF HighFirst, Source
<1>t. /\ \A n \in Incidents : create[n] \in CreateRecords /\ queue[n] \in [Retries -> Nat] /\ announced[n] \in Nat
      /\ \A w \in Workers : worker[w] # Free => worker[w] \in TaskRecords
      /\ DOMAIN create = Incidents /\ DOMAIN row = Incidents /\ DOMAIN queue = Incidents
      /\ DOMAIN worker = Workers /\ DOMAIN announced = Incidents
  BY DEF TypeOK, CreateRecords, TaskRecords
<1>s. /\ row[i] = "High" => Source(i)
      /\ create[i] = [at |-> "alerting", seen |-> "High"] => Source(i)
      /\ \A k \in Retries : queue[i][k] > 0 => Source(i)
      /\ \A w \in Workers : worker[w] # Free /\ worker[w].of = i => Source(i)
      /\ announced[i] > 0 => Source(i)
  BY DEF Source
<1>1. ASSUME NEW n \in Incidents, NEW s \in Severities, Insert(n, s) PROVE (i \in wasHigh)'
  BY <1>0, <1>1, <1>s, <1>t DEF Insert, Store, Source, CreateRecords
<1>2. ASSUME NEW n \in Incidents, Refresh(n) PROVE (i \in wasHigh)'
  BY <1>0, <1>2, <1>s, <1>t DEF Refresh, Exists, Source, CreateRecords, history
<1>3. ASSUME NEW n \in Incidents, Alert(n) PROVE (i \in wasHigh)'
  BY <1>0, <1>3, <1>s, <1>t DEF Alert, Source, CreateRecords, history
<1>4. ASSUME NEW n \in Incidents, RequestDies(n) PROVE (i \in wasHigh)'
  BY <1>0, <1>4, <1>s, <1>t DEF RequestDies, Source, CreateRecords, history
<1>5. ASSUME NEW e \in Editors, Update(e) PROVE (i \in wasHigh)'
  BY <1>0, <1>5, <1>s, <1>t DEF Update, Store, Source
<1>6. ASSUME NEW e \in Editors, Delete(e) PROVE (i \in wasHigh)'
  BY <1>0, <1>6, <1>s, <1>t DEF Delete, Source, history
<1>7. ASSUME UNCHANGED <<row, create, queue, worker, announced, wasHigh>> PROVE (i \in wasHigh)'
  BY <1>0, <1>7 DEF Source
<1>8. ASSUME NEW w \in Workers, NEW n \in Incidents, NEW k \in Retries, Receive(w, n, k) PROVE (i \in wasHigh)'
  BY <1>0, <1>8, <1>s, <1>t DEF Receive, Source, history
<1>9. ASSUME NEW w \in Workers, SkipPost(w) \/ GiveUp(w) \/ WorkerDies(w) PROVE (i \in wasHigh)'
  BY <1>0, <1>9, <1>s, <1>t DEF SkipPost, GiveUp, WorkerDies, Source, history
<1>10. ASSUME NEW w \in Workers, NEW shown \in BOOLEAN, NEW answered \in BOOLEAN, Post(w, shown, answered)
       PROVE (i \in wasHigh)'
  BY <1>0, <1>10, <1>s, <1>t DEF Post, Source, Free, TaskRecords
<1>11. ASSUME NEW w \in Workers, Retry(w) PROVE (i \in wasHigh)'
  BY <1>0, <1>11, <1>s, <1>t DEF Retry, Source, Free, TaskRecords, history
<1> QED
  BY <1>1, <1>2, <1>3, <1>4, <1>5, <1>6, <1>7, <1>8, <1>9, <1>10, <1>11
     DEF Next, Creates, Takes, Runs, LoadToUpdate, LoadToDelete, vars, history

\* One delivery fewer, and one more.
LEMMA Fewer ==
  ASSUME TypeOK, TypeOK', NEW i \in Incidents, NEW j \in Behind,
         Under(i, j)' + 1 = Under(i, j), \A k \in Behind \ {j} : Under(i, k)' = Under(i, k)
  PROVE  UnderWay(i)' + 1 = UnderWay(i) /\ PostsLeft(i)' + (MaxRetries + 1 - j) = PostsLeft(i)
<1>1. Under(i, j)' + 1 = Under(i, j) + 0
  BY UnderNat
<1>2. 1 \in Nat /\ 0 \in Nat
  OBVIOUS
<1>3. /\ UnderWay(i)' + 1 = UnderWay(i) + 0
      /\ PostsLeft(i)' + (MaxRetries + 1 - j) * 1 = PostsLeft(i) + (MaxRetries + 1 - j) * 0
  BY <1>1, <1>2, Changes
<1>4. UnderWay(i) \in Nat /\ PostsLeft(i) \in Nat /\ MaxRetries + 1 - j \in Nat
  BY SumsNat, BoundsAssumption DEF Behind
<1> QED
  BY <1>3, <1>4

\* One task more behind j attempts: one more under way, with the posts it has left.
LEMMA More ==
  ASSUME TypeOK, TypeOK', NEW i \in Incidents, NEW j \in Behind,
         Under(i, j)' = Under(i, j) + 1, \A k \in Behind \ {j} : Under(i, k)' = Under(i, k)
  PROVE  UnderWay(i)' = UnderWay(i) + 1 /\ PostsLeft(i)' = PostsLeft(i) + (MaxRetries + 1 - j)
<1>1. Under(i, j)' + 0 = Under(i, j) + 1
  BY UnderNat, UnderNatNext
<1>2. 1 \in Nat /\ 0 \in Nat
  OBVIOUS
<1>3. /\ UnderWay(i)' + 0 = UnderWay(i) + 1
      /\ PostsLeft(i)' + (MaxRetries + 1 - j) * 0 = PostsLeft(i) + (MaxRetries + 1 - j) * 1
  BY <1>1, <1>2, Changes
<1>4. /\ UnderWay(i) \in Nat /\ PostsLeft(i) \in Nat /\ MaxRetries + 1 - j \in Nat
      /\ UnderWay(i)' \in Nat /\ PostsLeft(i)' \in Nat
  BY SumsNat, SumsNatNext, BoundsAssumption DEF Behind
<1> QED
  BY <1>3, <1>4

\* One delivery that goes from j posts behind it to j + 1.
LEMMA Shifts ==
  ASSUME TypeOK, TypeOK', NEW i \in Incidents, NEW j \in Retries,
         Under(i, j)' + 1 = Under(i, j), Under(i, j + 1)' = Under(i, j + 1) + 1,
         \A k \in Behind \ {j, j + 1} : Under(i, k)' = Under(i, k)
  PROVE  UnderWay(i)' = UnderWay(i) /\ PostsLeft(i)' + 1 = PostsLeft(i)
<1> DEFINE f == [k \in Behind |-> Under(i, k)]
           g == [k \in Behind |-> Under(i, k)']
           h == [f EXCEPT ![j] = Under(i, j)']
           x == MaxRetries - j
           ff == [k \in Behind |-> (MaxRetries + 1 - k) * Under(i, k)]
           gg == [k \in Behind |-> (MaxRetries + 1 - k) * Under(i, k)']
           hh == [ff EXCEPT ![j] = (MaxRetries + 1 - j) * Under(i, j)']
<1>1. x \in Nat /\ j \in Behind /\ j + 1 \in Behind /\ j # j + 1
  BY BoundsAssumption DEF Behind, Retries
<1>2. \A k \in Behind : Under(i, k) \in Nat /\ Under(i, k)' \in Nat /\ MaxRetries + 1 - k \in Nat
  BY UnderNat, UnderNatNext, BoundsAssumption DEF Behind
<1>3. \A m, n \in Nat : m * n \in Nat
  OBVIOUS
<1>4. \A k \in Behind : (MaxRetries + 1 - k) * Under(i, k) \in Nat /\ (MaxRetries + 1 - k) * Under(i, k)' \in Nat
  BY <1>2, <1>3
<1>5. /\ f \in [Behind -> Nat] /\ g \in [Behind -> Nat] /\ h \in [Behind -> Nat]
      /\ ff \in [Behind -> Nat] /\ gg \in [Behind -> Nat] /\ hh \in [Behind -> Nat]
  BY <1>1, <1>2, <1>4
<1>6. UnderWay(i) = Sum(f) /\ PostsLeft(i) = Sum(ff) /\ UnderWay(i)' = Sum(g) /\ PostsLeft(i)' = Sum(gg)
  BY DEF UnderWay, PostsLeft
<1>7. /\ \A k \in Behind \ {j} : h[k] = f[k] /\ hh[k] = ff[k]
      /\ \A k \in Behind \ {j + 1} : g[k] = h[k] /\ gg[k] = hh[k]
  BY <1>1
<1>8. h[j] + 1 = f[j] + 0 /\ g[j + 1] + 0 = h[j + 1] + 1
  BY <1>1, <1>2
<1>9. hh[j] + (x + 1) = ff[j] + 0
  <2>1. MaxRetries + 1 - j = x + 1
    BY <1>1, BoundsAssumption DEF Behind
  <2>2. hh[j] = (x + 1) * Under(i, j)' /\ ff[j] = (x + 1) * Under(i, j)
    BY <1>1, <2>1
  <2>3. \A m \in Nat : (x + 1) * m + (x + 1) = (x + 1) * (m + 1) + 0
    BY <1>1
  <2> HIDE DEF x, hh, ff
  <2> QED
    BY <1>1, <1>2, <2>2, <2>3
<1>10. gg[j + 1] + 0 = hh[j + 1] + x
  <2>1. MaxRetries + 1 - (j + 1) = x
    BY <1>1, BoundsAssumption DEF Behind
  <2>2. gg[j + 1] = x * Under(i, j + 1)' /\ hh[j + 1] = x * Under(i, j + 1)
    BY <1>1, <2>1
  <2>3. \A m \in Nat : x * (m + 1) + 0 = x * m + x
    BY <1>1
  <2> HIDE DEF x, hh, gg
  <2> QED
    BY <1>1, <1>2, <2>2, <2>3
<1> HIDE DEF f, g, h, ff, gg, hh
<1>11. Sum(h) + 1 = Sum(f) + 0
  <2>1. f \in [Behind -> Nat] /\ h \in [Behind -> Nat] /\ \A k \in Behind \ {j} : h[k] = f[k]
    BY <1>5, <1>7
  <2>2. ASSUME NEW m \in Nat, NEW n \in Nat, h[j] + m = f[j] + n
        PROVE  Sum(h) + m = Sum(f) + n
    BY <1>1, <2>1, <2>2, SumStep
  <2> QED
    BY <1>8, <2>2
<1>12. Sum(g) + 0 = Sum(h) + 1
  <2>1. h \in [Behind -> Nat] /\ g \in [Behind -> Nat] /\ \A k \in Behind \ {j + 1} : g[k] = h[k]
    BY <1>5, <1>7
  <2>2. ASSUME NEW m \in Nat, NEW n \in Nat, g[j + 1] + m = h[j + 1] + n
        PROVE  Sum(g) + m = Sum(h) + n
    BY <1>1, <2>1, <2>2, SumStep
  <2> QED
    BY <1>8, <2>2
<1>13. x + 1 \in Nat
  BY <1>1
<1>14. Sum(hh) + (x + 1) = Sum(ff) + 0
  <2>1. ff \in [Behind -> Nat] /\ hh \in [Behind -> Nat] /\ \A k \in Behind \ {j} : hh[k] = ff[k]
    BY <1>5, <1>7
  <2>2. ASSUME NEW m \in Nat, NEW n \in Nat, hh[j] + m = ff[j] + n
        PROVE  Sum(hh) + m = Sum(ff) + n
    BY <1>1, <2>1, <2>2, SumStep
  <2> QED
    BY <1>9, <1>13, <2>2
<1>15. Sum(gg) + 0 = Sum(hh) + x
  <2>1. hh \in [Behind -> Nat] /\ gg \in [Behind -> Nat] /\ \A k \in Behind \ {j + 1} : gg[k] = hh[k]
    BY <1>5, <1>7
  <2>2. ASSUME NEW m \in Nat, NEW n \in Nat, gg[j + 1] + m = hh[j + 1] + n
        PROVE  Sum(gg) + m = Sum(hh) + n
    BY <1>1, <2>1, <2>2, SumStep
  <2> QED
    BY <1>1, <1>10, <2>2
<1>16. /\ Sum(f) \in Nat /\ Sum(g) \in Nat /\ Sum(h) \in Nat
       /\ Sum(ff) \in Nat /\ Sum(gg) \in Nat /\ Sum(hh) \in Nat
  BY <1>5, SumNat
<1> QED
  <2> HIDE DEF x
  <2> QED
    BY <1>1, <1>6, <1>11, <1>12, <1>14, <1>15, <1>16

\* The messages of i with k posts behind them, and one task among the deliveries.
Waiting(i, k) == IF k \in Retries THEN queue[i][k] ELSE 0
One(task, i, k) == IF Carries(task, i, k) THEN 1 ELSE 0

\* The workers whose task is such a delivery.
Holders(i, k) == {w \in Workers : Carries(worker[w], i, k)}

\* The worker w gets the task t.
LEMMA Carriers ==
  ASSUME TypeOK, NEW w \in Workers, NEW t, worker' = [worker EXCEPT ![w] = t], NEW i, NEW k
  PROVE  /\ Cardinality(Holders(i, k)) \in Nat /\ Cardinality(Holders(i, k)') \in Nat
         /\ Cardinality(Holders(i, k)') + One(worker[w], i, k) = Cardinality(Holders(i, k)) + One(t, i, k)
<1> DEFINE S == {v \in Workers : Carries(worker[v], i, k)}
           T == {v \in Workers : Carries(worker'[v], i, k)}
           R == S \ {w}
<1>1. IsFiniteSet(R)
  BY WorkersAssumption, FS_Subset
<1>2. \A v \in Workers : worker'[v] = IF v = w THEN t ELSE worker[v]
  BY DEF TypeOK
<1>3. S = IF Carries(worker[w], i, k) THEN R \cup {w} ELSE R
  OBVIOUS
<1>4. T = IF Carries(t, i, k) THEN R \cup {w} ELSE R
  BY <1>2
<1>5. Cardinality(R) \in Nat /\ Cardinality(R \cup {w}) = Cardinality(R) + 1
  <2>1. w \notin R
    OBVIOUS
  <2> HIDE DEF R
  <2> QED
    BY <1>1, <2>1, FS_CardinalityType, FS_AddElement
<1> HIDE DEF R, S, T
<1>6. Cardinality(S) = Cardinality(R) + One(worker[w], i, k)
  BY <1>3, <1>5 DEF One
<1>7. Cardinality(T) = Cardinality(R) + One(t, i, k)
  BY <1>4, <1>5 DEF One
<1>8. One(worker[w], i, k) \in Nat /\ One(t, i, k) \in Nat
  BY DEF One
<1>9. /\ Cardinality(S) \in Nat /\ Cardinality(T) \in Nat
      /\ Cardinality(T) + One(worker[w], i, k) = Cardinality(S) + One(t, i, k)
  BY <1>5, <1>6, <1>7, <1>8
<1> QED
  BY <1>9 DEF S, T, Holders

\* The posts that are behind the delivery a worker carries.
Posts(task) == IF task.at = "failing" THEN task.retries + 1 ELSE task.retries

\* A task carries one delivery, of its incident.
LEMMA Carrying ==
  ASSUME TypeOK, NEW w \in Workers, worker[w] # Free
  PROVE  /\ worker[w] \in TaskRecords /\ worker[w].of \in Incidents
         /\ Posts(worker[w]) \in Behind /\ worker[w].retries \in Retries
         /\ \A i, k : One(worker[w], i, k) = IF i = worker[w].of /\ k = Posts(worker[w]) THEN 1 ELSE 0
<1>1. worker[w] \in TaskRecords
  BY DEF TypeOK, TaskRecords
<1>2. worker[w].retries + 1 \in Behind /\ worker[w].retries \in Behind
  BY <1>1, BoundsAssumption DEF TaskRecords, Retries, Behind
<1>3. Posts(worker[w]) \in Behind
  BY <1>2 DEF Posts
<1>4. \A i, k : Carries(worker[w], i, k) <=> i = worker[w].of /\ k = Posts(worker[w])
  BY DEF Carries, Posts
<1>5. \A i, k : One(worker[w], i, k) = IF i = worker[w].of /\ k = Posts(worker[w]) THEN 1 ELSE 0
  BY <1>4 DEF One
<1> QED
  BY <1>1, <1>3, <1>5 DEF TaskRecords

\* How the deliveries change when the worker w gets the task t.
LEMMA UnderStep ==
  ASSUME TypeOK, TypeOK', NEW w \in Workers, NEW t, worker' = [worker EXCEPT ![w] = t],
         NEW i \in Incidents, NEW k \in Behind
  PROVE  /\ Under(i, k)' + One(worker[w], i, k) + Waiting(i, k)
              = Under(i, k) + One(t, i, k) + Waiting(i, k)'
         /\ Waiting(i, k) \in Nat /\ Waiting(i, k)' \in Nat
         /\ Under(i, k) \in Nat /\ Under(i, k)' \in Nat
<1>1. Waiting(i, k) \in Nat /\ Waiting(i, k)' \in Nat
  BY DEF Waiting, TypeOK
<1> DEFINE n == Cardinality(Holders(i, k))
           m == Cardinality(Holders(i, k)')
<1>2. n \in Nat /\ m \in Nat /\ m + One(worker[w], i, k) = n + One(t, i, k)
  BY Carriers
<1>3. Under(i, k) = Waiting(i, k) + n /\ Under(i, k)' = Waiting(i, k)' + m
  BY DEF Under, Waiting, Holders
<1>4. One(worker[w], i, k) \in Nat /\ One(t, i, k) \in Nat
  BY DEF One
<1> QED
  BY <1>1, <1>2, <1>3, <1>4

\* A worker without a task carries nothing.
LEMMA FreeCarriesNothing == \A i, k : One(Free, i, k) = 0
BY DEF One, Carries

\* A delivery that ends.
LEMMA Ends ==
  ASSUME TypeOK, TypeOK', NEW w \in Workers, worker[w] # Free,
         worker' = [worker EXCEPT ![w] = Free], queue' = queue, NEW i \in Incidents
  PROVE  IF i = worker[w].of
         THEN /\ UnderWay(i)' + 1 = UnderWay(i)
              /\ PostsLeft(i)' + (MaxRetries + 1 - Posts(worker[w])) = PostsLeft(i)
         ELSE UnderWay(i)' = UnderWay(i) /\ PostsLeft(i)' = PostsLeft(i)
<1>1. PICK j \in Behind : j = Posts(worker[w])
  BY Carrying
<1>2. \A k \in Behind : Waiting(i, k)' = Waiting(i, k)
  BY DEF Waiting
<1>3. ASSUME NEW k \in Behind PROVE Under(i, k)' + One(worker[w], i, k) = Under(i, k)
  <2>1. /\ Under(i, k)' + One(worker[w], i, k) + Waiting(i, k) = Under(i, k) + One(Free, i, k) + Waiting(i, k)'
        /\ Waiting(i, k) \in Nat /\ Under(i, k) \in Nat /\ Under(i, k)' \in Nat
    BY UnderStep
  <2>2. One(Free, i, k) = 0 /\ One(worker[w], i, k) \in Nat
    BY FreeCarriesNothing DEF One
  <2> QED
    BY <1>2, <2>1, <2>2
<1>4. \A k \in Behind : Under(i, k)' + (IF i = worker[w].of /\ k = j THEN 1 ELSE 0) = Under(i, k)
  BY <1>1, <1>3, Carrying
<1>5. \A k \in Behind : Under(i, k) \in Nat /\ Under(i, k)' \in Nat
  BY UnderNat, UnderNatNext
<1>6. CASE i = worker[w].of
  <2>1. Under(i, j)' + 1 = Under(i, j)
    BY <1>1, <1>4, <1>5, <1>6
  <2>2. ASSUME NEW k \in Behind \ {j} PROVE Under(i, k)' = Under(i, k)
    BY <1>4, <1>5
  <2> QED
    BY <1>1, <1>6, <2>1, <2>2, Fewer
<1>7. CASE i # worker[w].of
  BY <1>4, <1>5, <1>7, Stays
<1> QED
  BY <1>6, <1>7

\* A post that failed, by what it leaves of the task.
LEMMA FailsAs ==
  ASSUME TypeOK, TypeOK', NEW w \in Workers, worker[w] # Free, worker[w].at = "running",
         NEW t, t = [worker[w] EXCEPT !.at = "failing"], worker' = [worker EXCEPT ![w] = t],
         queue' = queue, NEW i \in Incidents
  PROVE  IF i = worker[w].of
         THEN UnderWay(i)' = UnderWay(i) /\ PostsLeft(i)' + 1 = PostsLeft(i)
         ELSE UnderWay(i)' = UnderWay(i) /\ PostsLeft(i)' = PostsLeft(i)
<1>1. PICK j \in Retries : j = worker[w].retries
  BY Carrying
<1>2. worker[w] \in TaskRecords /\ \A k : One(worker[w], i, k) = IF i = worker[w].of /\ k = j THEN 1 ELSE 0
  BY <1>1, Carrying DEF Posts
<1>3. \A k : One(t, i, k) = IF i = worker[w].of /\ k = j + 1 THEN 1 ELSE 0
  <2>1. t.at = "failing" /\ t.of = worker[w].of /\ t.retries = j /\ t # Free
    <3>1. /\ DOMAIN worker[w] = {"at", "of", "retries"} /\ Free.at = "free"
      BY <1>2 DEF TaskRecords, Free
    <3>2. t.at = "failing" /\ t.of = worker[w].of /\ t.retries = worker[w].retries
      BY <3>1
    <3> QED
      BY <1>1, <3>1, <3>2
  <2>2. \A k : Carries(t, i, k) <=> i = worker[w].of /\ k = j + 1
    BY <2>1 DEF Carries
  <2> QED
    BY <2>2 DEF One
<1>4. ASSUME NEW k \in Behind PROVE Under(i, k)' + One(worker[w], i, k) = Under(i, k) + One(t, i, k)
  <2>1. /\ Under(i, k)' + One(worker[w], i, k) + Waiting(i, k) = Under(i, k) + One(t, i, k) + Waiting(i, k)'
        /\ Waiting(i, k) \in Nat /\ Under(i, k) \in Nat /\ Under(i, k)' \in Nat
    BY UnderStep, Zenon
  <2>2. One(t, i, k) \in Nat /\ One(worker[w], i, k) \in Nat /\ Waiting(i, k)' = Waiting(i, k)
    BY DEF One, Waiting
  <2> QED
    BY <2>1, <2>2
<1>5. \A k \in Behind : Under(i, k) \in Nat /\ Under(i, k)' \in Nat
  BY UnderNat, UnderNatNext
<1>6. j \in Behind /\ j + 1 \in Behind /\ j # j + 1
  BY BoundsAssumption DEF Behind, Retries
<1>7. CASE i = worker[w].of
  <2>1. Under(i, j)' + 1 = Under(i, j) /\ Under(i, j + 1)' = Under(i, j + 1) + 1
    BY <1>2, <1>3, <1>4, <1>5, <1>6, <1>7
  <2>2. ASSUME NEW k \in Behind \ {j, j + 1} PROVE Under(i, k)' = Under(i, k)
    BY <1>2, <1>3, <1>4, <1>5
  <2> QED
    BY <1>7, <2>1, <2>2, Shifts
<1>8. CASE i # worker[w].of
  <2>1. ASSUME NEW k \in Behind PROVE Under(i, k)' = Under(i, k)
    BY <1>2, <1>3, <1>4, <1>5, <1>8
  <2> QED
    BY <1>8, <2>1, Stays
<1> QED
  BY <1>7, <1>8

\* A post that failed, as the worker says it.
LEMMA Fails ==
  ASSUME TypeOK, TypeOK', NEW w \in Workers, worker[w] # Free, worker[w].at = "running",
         worker' = [worker EXCEPT ![w].at = "failing"], queue' = queue, NEW i \in Incidents
  PROVE  IF i = worker[w].of
         THEN UnderWay(i)' = UnderWay(i) /\ PostsLeft(i)' + 1 = PostsLeft(i)
         ELSE UnderWay(i)' = UnderWay(i) /\ PostsLeft(i)' = PostsLeft(i)
<1>1. PICK t : t = [worker[w] EXCEPT !.at = "failing"]
  OBVIOUS
<1>2. worker' = [worker EXCEPT ![w] = t]
  BY <1>1
<1> QED
  BY <1>1, <1>2, FailsAs, Zenon

\* A message that is taken, or delivered once more.
LEMMA Taken ==
  ASSUME TypeOK, TypeOK', NEW w \in Workers, NEW n \in Incidents, NEW j \in Retries, Receive(w, n, j),
         NEW i \in Incidents
  PROVE  IF i = n /\ queue' = queue
         THEN UnderWay(i)' = UnderWay(i) + 1 /\ PostsLeft(i)' = PostsLeft(i) + (MaxRetries + 1 - j)
         ELSE UnderWay(i)' = UnderWay(i) /\ PostsLeft(i)' = PostsLeft(i)
<1> DEFINE t == [at |-> "running", of |-> n, retries |-> j]
<1>1. /\ worker' = [worker EXCEPT ![w] = t] /\ worker[w] = Free /\ queue[n][j] > 0
      /\ queue' = [queue EXCEPT ![n][j] = @ - 1] \/ queue' = queue
  BY DEF Receive
<1>2. \A k : One(t, i, k) = IF i = n /\ k = j THEN 1 ELSE 0
  BY DEF One, Carries, Free
<1> HIDE DEF t
<1>3. j \in Behind
  BY BoundsAssumption DEF Behind, Retries
<1>4. \A k \in Behind : Under(i, k) \in Nat /\ Under(i, k)' \in Nat
  BY UnderNat, UnderNatNext
<1>5. ASSUME NEW k \in Behind
      PROVE  /\ Under(i, k)' + Waiting(i, k) = Under(i, k) + One(t, i, k) + Waiting(i, k)'
             /\ Waiting(i, k) \in Nat /\ Waiting(i, k)' \in Nat
  <2>1. /\ Under(i, k)' + One(worker[w], i, k) + Waiting(i, k) = Under(i, k) + One(t, i, k) + Waiting(i, k)'
        /\ Waiting(i, k) \in Nat /\ Waiting(i, k)' \in Nat
    BY <1>1, UnderStep
  <2>2. One(worker[w], i, k) = 0
    BY <1>1, FreeCarriesNothing
  <2> QED
    BY <1>4, <2>1, <2>2
<1>6. CASE queue' = queue
  <2>1. \A k \in Behind : Waiting(i, k)' = Waiting(i, k)
    BY <1>6 DEF Waiting
  <2>2. ASSUME i = n PROVE UnderWay(i)' = UnderWay(i) + 1 /\ PostsLeft(i)' = PostsLeft(i) + (MaxRetries + 1 - j)
    <3>1. Under(i, j)' = Under(i, j) + 1
      BY <1>2, <1>3, <1>4, <1>5, <2>1, <2>2
    <3>2. ASSUME NEW k \in Behind \ {j} PROVE Under(i, k)' = Under(i, k)
      BY <1>2, <1>4, <1>5, <2>1
    <3> QED
      BY <1>3, <3>1, <3>2, More
  <2>3. ASSUME i # n PROVE UnderWay(i)' = UnderWay(i) /\ PostsLeft(i)' = PostsLeft(i)
    <3>1. ASSUME NEW k \in Behind PROVE Under(i, k)' = Under(i, k)
      BY <1>2, <1>4, <1>5, <2>1, <2>3
    <3> QED
      BY <3>1, Stays
  <2> QED
    BY <1>6, <2>2, <2>3
<1>7. CASE queue' # queue
  <2>1. ASSUME NEW k \in Behind PROVE Waiting(i, k)' + One(t, i, k) = Waiting(i, k)
    <3>1. queue' = [queue EXCEPT ![n][j] = @ - 1] /\ queue \in [Incidents -> [Retries -> Nat]]
      BY <1>1, <1>7 DEF TypeOK
    <3>2. k \in Retries => queue'[i][k] = IF i = n /\ k = j THEN queue[i][k] - 1 ELSE queue[i][k]
      BY <3>1
    <3>3. k \in Retries => queue[i][k] \in Nat
      BY <3>1
    <3> QED
      BY <1>2, <3>2, <3>3 DEF Waiting
  <2>2. ASSUME NEW k \in Behind PROVE Under(i, k)' = Under(i, k)
    <3>1. One(t, i, k) \in Nat
      BY DEF One
    <3> QED
      BY <1>4, <1>5, <2>1, <3>1
  <2> QED
    BY <1>7, <2>2, Stays
<1> QED
  BY <1>6, <1>7

\* A failed delivery goes back to the queue.
LEMMA Requeued ==
  ASSUME TypeOK, TypeOK', NEW w \in Workers, Retry(w), NEW i \in Incidents
  PROVE  UnderWay(i)' = UnderWay(i) /\ PostsLeft(i)' = PostsLeft(i)
<1>1. worker[w] # Free /\ worker' = [worker EXCEPT ![w] = Free]
  BY DEF Retry, Free
<1>2. PICK n \in Incidents, j \in Retries : n = worker[w].of /\ j = worker[w].retries
  BY <1>1, Carrying
<1>3. \A k : One(worker[w], i, k) = IF i = n /\ k = j + 1 THEN 1 ELSE 0
  BY <1>1, <1>2, Carrying DEF Posts, Retry
<1>4. queue' = [queue EXCEPT ![n][j + 1] = @ + 1] /\ queue \in [Incidents -> [Retries -> Nat]] /\ j + 1 \in Retries
  BY <1>2, Records DEF Retry, TypeOK
<1>5. ASSUME NEW k \in Behind PROVE Waiting(i, k)' = Waiting(i, k) + One(worker[w], i, k)
  <2>1. k \in Retries => queue'[i][k] = IF i = n /\ k = j + 1 THEN queue[i][k] + 1 ELSE queue[i][k]
    BY <1>4
  <2>2. k \in Retries => queue[i][k] \in Nat
    BY <1>4
  <2> QED
    BY <1>3, <1>4, <2>1, <2>2 DEF Waiting
<1>6. ASSUME NEW k \in Behind PROVE Under(i, k)' = Under(i, k)
  <2>1. /\ Under(i, k)' + One(worker[w], i, k) + Waiting(i, k) = Under(i, k) + One(Free, i, k) + Waiting(i, k)'
        /\ Waiting(i, k) \in Nat /\ Under(i, k) \in Nat /\ Under(i, k)' \in Nat
    BY <1>1, UnderStep
  <2>2. One(Free, i, k) = 0 /\ One(worker[w], i, k) \in Nat
    BY FreeCarriesNothing DEF One
  <2> QED
    BY <1>5, <2>1, <2>2
<1> QED
  BY <1>6, Stays

\* What Counted says of one incident.
CountedFor(i) ==
  /\ create[i].at # "done" => UnderWay(i) = 0 /\ PostsLeft(i) = 0 /\ attempts[i] = 0 /\ announced[i] = 0
  /\ UnderWay(i) <= 1 + copies[i] /\ UnderWay(i) + announced[i] <= 1 + doubts[i] + copies[i]
  /\ PostsLeft(i) + attempts[i] <= (MaxRetries + 1) * (1 + copies[i])
  /\ doubts[i] <= announced[i] /\ announced[i] <= attempts[i]

\* The posts that the copies of a message allow.
LEMMA Allowance ==
  ASSUME NEW c \in Nat
  PROVE  /\ (MaxRetries + 1) * (1 + c) \in Nat /\ MaxRetries + 1 <= (MaxRetries + 1) * (1 + c)
         /\ (MaxRetries + 1) * (1 + (c + 1)) = (MaxRetries + 1) * (1 + c) + (MaxRetries + 1)
<1> DEFINE m == MaxRetries + 1
<1>1. m \in Nat
  BY BoundsAssumption
<1> HIDE DEF m
<1>2. m * (1 + c) = m + m * c /\ m * c \in Nat /\ m * (1 + (c + 1)) = m * (1 + c) + m
  BY <1>1
<1>3. m * (1 + c) \in Nat /\ m <= m * (1 + c)
  BY <1>1, <1>2
<1> QED
  BY <1>2, <1>3 DEF m

\* No step delivers or posts more than the copies allow.
LEMMA CountedStep == TypeOK /\ TypeOK' /\ Counted /\ [Next]_vars => Counted'
<1> SUFFICES ASSUME TypeOK, TypeOK', Counted, [Next]_vars, NEW i \in Incidents
             PROVE  CountedFor(i)'
  BY DEF Counted, CountedFor
<1>0. CountedFor(i)
  BY DEF Counted, CountedFor
<1>t. /\ UnderWay(i) \in Nat /\ PostsLeft(i) \in Nat /\ UnderWay(i)' \in Nat /\ PostsLeft(i)' \in Nat
      /\ attempts[i] \in Nat /\ announced[i] \in Nat /\ doubts[i] \in Nat /\ copies[i] \in Nat
      /\ MaxRetries + 1 \in Nat
  BY SumsNat, SumsNatNext, BoundsAssumption DEF TypeOK
<1>d. /\ DOMAIN create = Incidents /\ DOMAIN copies = Incidents /\ DOMAIN attempts = Incidents
      /\ DOMAIN announced = Incidents /\ DOMAIN doubts = Incidents
  BY DEF TypeOK
<1>u. \A w \in Workers : worker[w] # Free /\ worker[w].of = i => UnderWay(i) >= 1 /\ create[i].at = "done"
  <2> SUFFICES ASSUME NEW w \in Workers, worker[w] # Free, worker[w].of = i PROVE UnderWay(i) >= 1
    BY <1>0, <1>t DEF CountedFor
  <2>1. PICK k \in Behind : k = Posts(worker[w])
    BY Carrying
  <2>2. w \in Holders(i, k)
    BY <2>1 DEF Holders, Carries, Posts
  <2>3. IsFiniteSet(Holders(i, k))
    BY WorkersAssumption, FS_Subset DEF Holders
  <2>4. Cardinality(Holders(i, k)) \in Nat /\ Cardinality(Holders(i, k)) # 0
    BY <2>2, <2>3, FS_CardinalityType, FS_EmptySet
  <2>5. Under(i, k) = Waiting(i, k) + Cardinality(Holders(i, k)) /\ Waiting(i, k) \in Nat
    BY DEF Under, Waiting, Holders, TypeOK
  <2>6. Under(i, k) \in Nat /\ Under(i, k) <= UnderWay(i)
    BY SumsNat
  <2> QED
    BY <1>t, <2>4, <2>5, <2>6
<1>same. ASSUME UNCHANGED <<queue, worker>>
         PROVE  UnderWay(i)' = UnderWay(i) /\ PostsLeft(i)' = PostsLeft(i)
  <2>1. \A k \in Behind : Under(i, k)' = Under(i, k)
    BY <1>same DEF Under
  <2> QED
    BY <2>1, Stays
\* Nothing that is counted changes.
<1>1. ASSUME UNCHANGED <<queue, worker, attempts, announced, doubts, copies>>,
             create'[i].at # "done" => create[i].at # "done"
      PROVE  CountedFor(i)'
  BY <1>0, <1>1, <1>same, <1>t DEF CountedFor
<1>2. ASSUME NEW n \in Incidents, Alert(n) PROVE CountedFor(i)'
  <2>1. /\ create[n].at = "alerting" /\ (i = n => create[i].at # "done" /\ create'[i].at = "done")
        /\ i # n => create'[i] = create[i]
        /\ UNCHANGED <<worker, attempts, announced, doubts, copies>>
        /\ queue' = [queue EXCEPT ![n][0] = @ + 1] \/ queue' = queue
    BY <1>2, <1>d DEF Alert, history, TypeOK, CreateRecords
  <2>2. CASE i = n /\ queue' # queue
    <3>1. queue' = [queue EXCEPT ![i][0] = @ + 1] /\ 0 \in Retries /\ 0 \in Behind
      BY <2>1, <2>2, Records, BoundsAssumption DEF Behind
    <3>2. queue'[i][0] = queue[i][0] + 1 /\ \A k \in Retries \ {0} : queue'[i][k] = queue[i][k]
      BY <3>1 DEF TypeOK
    <3>3. \A k \in Retries : queue[i][k] \in Nat
      BY DEF TypeOK
    <3>4. /\ Cardinality({w \in Workers : Carries(worker[w], i, 0)})' = Cardinality({w \in Workers : Carries(worker[w], i, 0)})
      BY <2>1
    <3>5. Cardinality({w \in Workers : Carries(worker[w], i, 0)}) \in Nat
      BY WorkersAssumption, FS_Subset, FS_CardinalityType
    <3>6. Under(i, 0)' = Under(i, 0) + 1
      BY <3>1, <3>2, <3>3, <3>4, <3>5 DEF Under
    <3>7. ASSUME NEW k \in Behind \ {0} PROVE Under(i, k)' = Under(i, k)
      BY <2>1, <3>2 DEF Under
    <3>8. UnderWay(i)' = UnderWay(i) + 1 /\ PostsLeft(i)' = PostsLeft(i) + (MaxRetries + 1)
      BY <1>t, <3>1, <3>6, <3>7, More
    <3>9. UnderWay(i) = 0 /\ PostsLeft(i) = 0 /\ attempts[i] = 0 /\ announced[i] = 0 /\ doubts[i] = 0
      BY <1>0, <1>t, <2>1, <2>2 DEF CountedFor
    <3>10. MaxRetries + 1 <= (MaxRetries + 1) * (1 + copies[i])
      BY <1>t, Allowance
    <3> QED
      BY <1>t, <2>1, <2>2, <3>8, <3>9, <3>10 DEF CountedFor
  <2>3. CASE i # n \/ queue' = queue
    <3>1. \A k \in Retries : queue'[i][k] = queue[i][k]
      BY <2>1, <2>3 DEF TypeOK
    <3>2. ASSUME NEW k \in Behind PROVE Under(i, k)' = Under(i, k)
      BY <2>1, <3>1 DEF Under
    <3>3. UnderWay(i)' = UnderWay(i) /\ PostsLeft(i)' = PostsLeft(i)
      BY <3>2, Stays
    <3> QED
      BY <1>0, <1>t, <2>1, <3>3 DEF CountedFor
  <2> QED
    BY <2>2, <2>3
<1>3. ASSUME NEW w \in Workers, NEW n \in Incidents, NEW j \in Retries, Receive(w, n, j) PROVE CountedFor(i)'
  <2>1. UNCHANGED <<create, attempts, announced, doubts>>
    BY <1>3 DEF Receive, history
  <2>2. CASE i = n /\ queue' = queue
    <3>1. UnderWay(i)' = UnderWay(i) + 1 /\ PostsLeft(i)' = PostsLeft(i) + (MaxRetries + 1 - j)
      BY <1>3, <2>2, Taken
    <3>2. copies'[i] = copies[i] + 1
      <4>1. queue' # [queue EXCEPT ![n][j] = @ - 1]
        <5>1. queue[n][j] \in Nat /\ [queue EXCEPT ![n][j] = @ - 1][n][j] = queue[n][j] - 1
          BY DEF TypeOK
        <5> QED
          BY <2>2, <5>1
      <4> QED
        BY <1>3, <1>d, <2>2, <4>1 DEF Receive
    <3>3. Under(i, j) # 0 /\ Under(i, j) \in Nat /\ Under(i, j) <= UnderWay(i)
      <4>1. Cardinality({v \in Workers : Carries(worker[v], i, j)}) \in Nat
        BY WorkersAssumption, FS_Subset, FS_CardinalityType
      <4>2. queue[i][j] \in Nat /\ queue[i][j] > 0
        BY <1>3, <2>2 DEF Receive, TypeOK
      <4>3. j \in Behind
        BY BoundsAssumption DEF Behind, Retries
      <4> QED
        BY <4>1, <4>2, <4>3, SumsNat DEF Under
    <3>4. create[i].at = "done"
      BY <1>0, <1>t, <3>3 DEF CountedFor
    <3>5. MaxRetries + 1 - j <= MaxRetries + 1 /\ MaxRetries + 1 - j \in Nat
      BY BoundsAssumption DEF Retries
    <3>6. /\ (MaxRetries + 1) * (1 + (copies[i] + 1)) = (MaxRetries + 1) * (1 + copies[i]) + (MaxRetries + 1)
          /\ (MaxRetries + 1) * (1 + copies[i]) \in Nat
      BY <1>t, Allowance
    <3> QED
      BY <1>0, <1>t, <2>1, <3>1, <3>2, <3>4, <3>5, <3>6 DEF CountedFor
  <2>3. CASE i # n \/ queue' # queue
    <3>1. UnderWay(i)' = UnderWay(i) /\ PostsLeft(i)' = PostsLeft(i)
      BY <1>3, <2>3, Taken
    <3>2. copies'[i] = copies[i]
      BY <1>3, <1>d, <2>3 DEF Receive
    <3> QED
      BY <1>0, <1>t, <2>1, <3>1, <3>2 DEF CountedFor
  <2> QED
    BY <2>2, <2>3
<1>4. ASSUME NEW w \in Workers, SkipPost(w) \/ GiveUp(w) \/ WorkerDies(w) PROVE CountedFor(i)'
  <2>1. /\ UNCHANGED <<create, queue, attempts, announced, doubts, copies>>
        /\ worker[w] # Free /\ worker' = [worker EXCEPT ![w] = Free]
    BY <1>4 DEF SkipPost, GiveUp, WorkerDies, history, Free
  <2>2. UnderWay(i)' <= UnderWay(i) /\ PostsLeft(i)' <= PostsLeft(i)
    <3>1. MaxRetries + 1 - Posts(worker[w]) \in Nat
      BY <2>1, Carrying, BoundsAssumption DEF Behind
    <3>2. IF i = worker[w].of
          THEN /\ UnderWay(i)' + 1 = UnderWay(i)
               /\ PostsLeft(i)' + (MaxRetries + 1 - Posts(worker[w])) = PostsLeft(i)
          ELSE UnderWay(i)' = UnderWay(i) /\ PostsLeft(i)' = PostsLeft(i)
      BY <2>1, Ends
    <3> QED
      BY <1>t, <3>1, <3>2
  <2> QED
    BY <1>0, <1>t, <2>1, <2>2 DEF CountedFor
<1>5. ASSUME NEW w \in Workers, NEW shown \in BOOLEAN, NEW answered \in BOOLEAN, Post(w, shown, answered)
      PROVE CountedFor(i)'
  <2>1. /\ UNCHANGED <<create, queue, copies>> /\ worker[w] # Free /\ worker[w].at = "running"
        /\ attempts' = [attempts EXCEPT ![worker[w].of] = @ + 1]
        /\ announced' = [announced EXCEPT ![worker[w].of] = IF shown THEN @ + 1 ELSE @]
        /\ doubts' = [doubts EXCEPT ![worker[w].of] = IF shown /\ ~answered THEN @ + 1 ELSE @]
        /\ worker' = [worker EXCEPT ![w] = IF shown /\ answered THEN Free ELSE [@ EXCEPT !.at = "failing"]]
    BY <1>5 DEF Post, Free
  <2>2. worker[w].of \in Incidents /\ worker[w].retries \in Retries
    BY <2>1, Carrying
  <2>3. CASE i # worker[w].of
    <3>1. UnderWay(i)' = UnderWay(i) /\ PostsLeft(i)' = PostsLeft(i)
      <4>1. CASE shown /\ answered
        <5>1. worker' = [worker EXCEPT ![w] = Free]
          BY <2>1, <4>1
        <5> QED
          BY <2>1, <2>3, <5>1, Ends
      <4>2. CASE ~(shown /\ answered)
        <5>1. worker' = [worker EXCEPT ![w].at = "failing"]
          BY <2>1, <4>2
        <5> QED
          BY <2>1, <2>3, <5>1, Fails
      <4> QED
        BY <4>1, <4>2
    <3>2. attempts'[i] = attempts[i] /\ announced'[i] = announced[i] /\ doubts'[i] = doubts[i]
      BY <1>d, <2>1, <2>3
    <3> QED
      BY <1>0, <1>t, <2>1, <3>1, <3>2 DEF CountedFor
  <2>4. CASE i = worker[w].of
    <3>1. /\ attempts'[i] = attempts[i] + 1
          /\ announced'[i] = IF shown THEN announced[i] + 1 ELSE announced[i]
          /\ doubts'[i] = IF shown /\ ~answered THEN doubts[i] + 1 ELSE doubts[i]
      BY <1>d, <2>1, <2>4
    <3>2. create[i].at = "done" /\ UnderWay(i) >= 1
      BY <1>u, <2>1, <2>4
    <3>3. CASE shown /\ answered
      <4>1. Posts(worker[w]) = worker[w].retries
        BY <2>1 DEF Posts
      <4>2. /\ UnderWay(i)' + 1 = UnderWay(i)
            /\ PostsLeft(i)' + (MaxRetries + 1 - worker[w].retries) = PostsLeft(i)
        BY <2>1, <2>4, <3>3, <4>1, Ends
      <4>3. MaxRetries + 1 - worker[w].retries \in Nat /\ MaxRetries + 1 - worker[w].retries >= 1
        BY <2>2, BoundsAssumption DEF Retries
      <4>4. UnderWay(i)' + 1 = UnderWay(i) /\ PostsLeft(i)' + 1 <= PostsLeft(i)
        BY <1>t, <4>2, <4>3
      <4>5. (MaxRetries + 1) * (1 + copies[i]) \in Nat
        BY <1>t, Allowance
      <4> QED
        BY <1>0, <1>t, <2>1, <3>1, <3>2, <3>3, <4>4, <4>5 DEF CountedFor
    <3>4. CASE ~(shown /\ answered)
      <4>1. worker' = [worker EXCEPT ![w].at = "failing"]
        BY <2>1, <3>4
      <4>2. UnderWay(i)' = UnderWay(i) /\ PostsLeft(i)' + 1 = PostsLeft(i)
        BY <2>1, <2>4, <4>1, Fails
      <4>3. (MaxRetries + 1) * (1 + copies[i]) \in Nat
        BY <1>t, Allowance
      <4> QED
        BY <1>0, <1>t, <2>1, <3>1, <3>2, <3>4, <4>2, <4>3 DEF CountedFor
    <3> QED
      BY <3>3, <3>4
  <2> QED
    BY <2>3, <2>4
<1>6. ASSUME NEW w \in Workers, Retry(w) PROVE CountedFor(i)'
  <2>1. UNCHANGED <<create, attempts, announced, doubts, copies>>
    BY <1>6 DEF Retry, history
  <2>2. UnderWay(i)' = UnderWay(i) /\ PostsLeft(i)' = PostsLeft(i)
    BY <1>6, Requeued
  <2> QED
    BY <1>0, <1>t, <2>1, <2>2 DEF CountedFor
<1>7. ASSUME NEW n \in Incidents, (\E s \in Severities : Insert(n, s)) \/ Refresh(n) \/ RequestDies(n)
      PROVE  CountedFor(i)'
  <2>1. UNCHANGED <<queue, worker, attempts, announced, doubts, copies>>
    BY <1>7 DEF Insert, Refresh, RequestDies, history
  <2>2. create'[i].at # "done" => create[i].at # "done"
    BY <1>7, <1>d DEF Insert, Refresh, RequestDies
  <2> QED
    BY <1>1, <2>1, <2>2
<1>8. ASSUME UNCHANGED <<create, queue, worker, attempts, announced, doubts, copies>> PROVE CountedFor(i)'
  BY <1>1, <1>8
<1>9. ASSUME NEW e \in Editors,
             \/ Update(e) \/ Delete(e)
             \/ \E n \in Incidents : LoadToDelete(e, n) \/ (\E s \in Severities : LoadToUpdate(e, n, s))
      PROVE  CountedFor(i)'
  BY <1>8, <1>9 DEF Update, Delete, LoadToDelete, LoadToUpdate, history
<1>10. CASE UNCHANGED vars
  BY <1>8, <1>10 DEF vars
<1> QED
  BY <1>2, <1>3, <1>4, <1>5, <1>6, <1>7, <1>9, <1>10 DEF Next, Creates, Takes, Runs

\* Nothing is queued, taken or announced at the start.
LEMMA AlertInit == Init => IInv
<1> SUFFICES ASSUME Init PROVE IInv
  OBVIOUS
<1>1. TypeOK
  <2>1. configured \in BOOLEAN
    BY Zenon DEF Init
  <2>2. 0 \in 0 .. MaxCopies
    BY BoundsAssumption
  <2> QED
    BY <2>1, <2>2 DEF Init, TypeOK, Severities
<1>2. HighFirst
  BY DEF Init, HighFirst
<1>3. ASSUME NEW i \in Incidents PROVE CountedFor(i)
  <2>1. \A k \in Behind : Under(i, k) = 0
    <3> SUFFICES ASSUME NEW k \in Behind PROVE Under(i, k) = 0
      OBVIOUS
    <3>1. {w \in Workers : Carries(worker[w], i, k)} = {}
      BY DEF Init, Carries
    <3>2. Cardinality({w \in Workers : Carries(worker[w], i, k)}) = 0
      BY <3>1, FS_EmptySet
    <3> QED
      BY <3>2 DEF Under, Init
  <2>2. UnderWay(i) = 0 /\ PostsLeft(i) = 0
    <3> DEFINE z == [k \in Behind |-> 0]
    <3>1. [k \in Behind |-> Under(i, k)] = z
      BY <2>1
    <3>2. [k \in Behind |-> (MaxRetries + 1 - k) * Under(i, k)] = z
      <4>1. \A k \in Behind : (MaxRetries + 1 - k) * Under(i, k) = 0
        <5>1. \A k \in Behind : MaxRetries + 1 - k \in Nat
          BY BoundsAssumption DEF Behind
        <5> QED
          BY <2>1, <5>1
      <4> QED
        BY <4>1
    <3>3. Sum(z) = 0
      BY SumZero
    <3> QED
      BY <3>1, <3>2, <3>3 DEF UnderWay, PostsLeft
  <2>3. (MaxRetries + 1) * (1 + copies[i]) \in Nat /\ copies[i] = 0
    BY Allowance DEF Init
  <2> QED
    BY <2>2, <2>3 DEF Init, CountedFor
<1> QED
  BY <1>1, <1>2, <1>3 DEF IInv, Counted, CountedFor

\* One step keeps it.
LEMMA AlertStep == IInv /\ [Next]_vars => IInv'
<1> SUFFICES ASSUME IInv, [Next]_vars PROVE IInv'
  OBVIOUS
<1>1. TypeOK /\ HighFirst /\ Counted
  BY DEF IInv
<1>2. TypeOK'
  BY <1>1, TypeStep
<1>3. HighFirst' /\ Counted'
  BY <1>1, <1>2, HighFirstStep, CountedStep
<1> QED
  BY <1>2, <1>3 DEF IInv

\* The alert of an incident comes from a row that was High, and no delivery of it makes more
\* posts than its retries.
THEOREM AlertSound == Spec => []IInv
<1>1. Init => IInv
  BY AlertInit
<1> QED
  BY <1>1, AlertStep, PTL DEF Spec

\* However edits, deliveries and retries interleave, Slack is told only of incidents that
\* were High at some time.
THEOREM AlertsOfHighIncidents == Spec => []AlertsWereHigh
<1>1. IInv => AlertsWereHigh
  BY DEF IInv, HighFirst, AlertsWereHigh
<1> QED
  BY <1>1, AlertSound, PTL

\* Slack shows an incident once, and once more only for an answer that was lost or a message
\* that was delivered twice, with at most MaxRetries + 1 posts per delivery.
THEOREM AlertsRepeatedInDoubt == Spec => []RepeatedOnlyInDoubt
<1>1. IInv => RepeatedOnlyInDoubt
  <2> SUFFICES ASSUME IInv, NEW i \in Incidents
               PROVE  /\ announced[i] <= 1 + doubts[i] + copies[i]
                      /\ attempts[i] <= (MaxRetries + 1) * (1 + copies[i])
    BY DEF RepeatedOnlyInDoubt
  <2>1. TypeOK /\ CountedFor(i)
    BY DEF IInv, Counted, CountedFor
  <2>2. /\ UnderWay(i) \in Nat /\ PostsLeft(i) \in Nat /\ attempts[i] \in Nat /\ announced[i] \in Nat
        /\ doubts[i] \in Nat /\ copies[i] \in Nat
    BY <2>1, SumsNat DEF TypeOK
  <2>3. (MaxRetries + 1) * (1 + copies[i]) \in Nat
    BY <2>2, Allowance
  <2> QED
    BY <2>1, <2>2, <2>3 DEF CountedFor
<1> QED
  BY <1>1, AlertSound, PTL

-----------------------------------------------------------------------------
(* NotificationHub.                                                        *)

\* What disconnect leaves of a list: embedding e says where each socket that is left was,
\* and what lies before every socket that goes has kept its place.
Leaves(D, list, n, gone) ==
  /\ \A i \in 1 .. n : list[i] \notin gone => \E j \in 1 .. Len(D) : D[j] = list[i]
  /\ \E e \in [1 .. Len(D) -> 1 .. n] :
       /\ \A j \in 1 .. Len(D) : D[j] = list[e[j]] /\ list[e[j]] \notin gone /\ j <= e[j]
       /\ \A j, k \in 1 .. Len(D) : j < k => e[j] < e[k]
  /\ \A m \in 1 .. n : (\A k \in 1 .. m : list[k] \notin gone) =>
       m <= Len(D) /\ \A k \in 1 .. m : D[k] = list[k]

\* What Append makes of a list.
LEMMA Sequel ==
  ASSUME NEW S, NEW D \in Seq(S), NEW x \in S
  PROVE  /\ Append(D, x) \in Seq(S) /\ Len(Append(D, x)) = Len(D) + 1 /\ Len(D) \in Nat
         /\ Append(D, x)[Len(D) + 1] = x /\ \A j \in 1 .. Len(D) : Append(D, x)[j] = D[j]
OBVIOUS

\* disconnect leaves just that of every list: as many elements as the list has are
\* gone through, one after the other.
LEMMA DroppedLeaves ==
  ASSUME NEW S, NEW list \in Seq(S), NEW gone
  PROVE  Hub!Dropped(list, gone) \in Seq(S) /\ Leaves(Hub!Dropped(list, gone), list, Len(list), gone)
<1> DEFINE b == Len(list)
           Is(u, n) == u = [k \in 0 .. n |-> IF k = 0 THEN <<>>
                                             ELSE IF list[k] \in gone THEN u[k - 1] ELSE Append(u[k - 1], list[k])]
           Good(u, n) == u[n] \in Seq(S) /\ Leaves(u[n], list, n, gone)
           H == {n \in 0 .. b : \E u : Is(u, n) /\ Good(u, n)}
<1>0. b \in Nat
  OBVIOUS
<1>1. 0 \in H
  <2> DEFINE v == [k \in 0 .. 0 |-> <<>>]
  <2>1. Is(v, 0)
    OBVIOUS
  <2>2. Good(v, 0)
    <3>1. v[0] = <<>> /\ Len(<<>>) = 0
      OBVIOUS
    <3> DEFINE none == [j \in {} |-> 1]
    <3>2. 1 .. 0 = {} /\ 1 .. Len(<<>>) = {} /\ none \in [{} -> {}]
      OBVIOUS
    <3> HIDE DEF none
    <3>3. Leaves(<<>>, list, 0, gone)
      BY <3>2, Zenon DEF Leaves
    <3> QED
      BY <3>1, <3>3
  <2> HIDE DEF v, Is, Good
  <2> QED
    BY <1>0, <2>1, <2>2
<1>2. ASSUME NEW n \in 1 .. b, n - 1 \in H PROVE n \in H
  <2>1. PICK u : Is(u, n - 1) /\ Good(u, n - 1)
    BY <1>2
  <2> DEFINE w == u[n - 1]
             x == IF list[n] \in gone THEN w ELSE Append(w, list[n])
             v == [k \in 0 .. n |-> IF k = n THEN x ELSE u[k]]
  <2>0. n - 1 \in 0 .. n - 1 /\ 0 .. n - 1 \subseteq 0 .. n /\ n \in 0 .. n /\ n # 0
    OBVIOUS
  <2>2. \A k \in 0 .. n : v[k] = IF k = 0 THEN <<>> ELSE IF list[k] \in gone THEN v[k - 1] ELSE Append(v[k - 1], list[k])
    <3>1. \A k \in 0 .. n - 1 : u[k] = IF k = 0 THEN <<>> ELSE IF list[k] \in gone THEN u[k - 1] ELSE Append(u[k - 1], list[k])
      BY <2>1
    <3>2. \A k \in 0 .. n - 1 : v[k] = u[k]
      OBVIOUS
    <3>3. v[n] = IF list[n] \in gone THEN v[n - 1] ELSE Append(v[n - 1], list[n])
      BY <2>0, <3>2
    <3>4. ASSUME NEW k \in 0 .. n - 1
          PROVE v[k] = IF k = 0 THEN <<>> ELSE IF list[k] \in gone THEN v[k - 1] ELSE Append(v[k - 1], list[k])
      <4>1. k = 0 \/ k - 1 \in 0 .. n - 1
        OBVIOUS
      <4> QED
        BY <3>1, <3>2, <4>1
    <3>5. \A k \in 0 .. n : k = n \/ k \in 0 .. n - 1
      OBVIOUS
    <3> HIDE DEF v
    <3> QED
      BY <2>0, <3>3, <3>4, <3>5
  <2>3. Is(v, n)
    <3>1. v = [k \in 0 .. n |-> v[k]]
      OBVIOUS
    <3> HIDE DEF v
    <3> QED
      BY <2>2, <3>1
  <2>4. v[n] = x
    BY <2>0
  <2>5. w \in Seq(S) /\ Leaves(w, list, n - 1, gone) /\ list[n] \in S
    BY <2>1
  <2> HIDE DEF w, v, Is
  <2>6. PICK e \in [1 .. Len(w) -> 1 .. n - 1] :
          /\ \A j \in 1 .. Len(w) : w[j] = list[e[j]] /\ list[e[j]] \notin gone /\ j <= e[j]
          /\ \A j, k \in 1 .. Len(w) : j < k => e[j] < e[k]
    BY <2>5 DEF Leaves
  <2>7. Len(w) \in Nat /\ 1 .. n - 1 \subseteq 1 .. n /\ n \in 1 .. n
    BY <2>5
  <2>8. CASE list[n] \in gone
    <3>1. x = w
      BY <2>8
    <3>2. e \in [1 .. Len(w) -> 1 .. n]
      BY <2>7
    <3>3. Leaves(w, list, n, gone)
      <4>1. \A i \in 1 .. n : i \in 1 .. n - 1 \/ i = n
        OBVIOUS
      <4>2. \A i \in 1 .. n : list[i] \notin gone => \E j \in 1 .. Len(w) : w[j] = list[i]
        BY <2>5, <2>8, <4>1 DEF Leaves
      <4>3. \A m \in 1 .. n : (\A k \in 1 .. m : list[k] \notin gone) =>
              m <= Len(w) /\ \A k \in 1 .. m : w[k] = list[k]
        <5> SUFFICES ASSUME NEW m \in 1 .. n, \A k \in 1 .. m : list[k] \notin gone
                     PROVE  m <= Len(w) /\ \A k \in 1 .. m : w[k] = list[k]
          OBVIOUS
        <5>1. m \in 1 .. n - 1
          BY <2>8
        <5> QED
          BY <2>5, <5>1 DEF Leaves
      <4> QED
        BY <2>6, <3>2, <4>2, <4>3 DEF Leaves
    <3>4. Good(v, n)
      BY <2>4, <2>5, <3>1, <3>3
    <3> HIDE DEF Good
    <3> QED
      BY <2>3, <3>4, <1>0
  <2>9. CASE list[n] \notin gone
    <3>1. x = Append(w, list[n])
      BY <2>9
    <3>2. /\ x \in Seq(S) /\ Len(x) = Len(w) + 1 /\ x[Len(w) + 1] = list[n]
          /\ \A j \in 1 .. Len(w) : x[j] = w[j]
      BY <2>5, <3>1, Sequel
    <3> DEFINE f == [j \in 1 .. Len(x) |-> IF j = Len(x) THEN n ELSE e[j]]
    <3> HIDE DEF x
    <3>3. \A j \in 1 .. Len(x) : j = Len(x) \/ j \in 1 .. Len(w)
      BY <2>7, <3>2
    <3>4. f \in [1 .. Len(x) -> 1 .. n]
      BY <2>7, <3>3
    <3>5. Len(w) <= n - 1
      <4>1. CASE Len(w) = 0
        BY <4>1
      <4>2. CASE Len(w) # 0
        <5>1. Len(w) \in 1 .. Len(w)
          BY <2>7, <4>2
        <5>2. e[Len(w)] \in 1 .. n - 1 /\ Len(w) <= e[Len(w)]
          BY <2>6, <5>1
        <5> QED
          BY <2>7, <5>2
      <4> QED
        BY <4>1, <4>2
    <3>6. \A j \in 1 .. Len(w) : f[j] = e[j] /\ j # Len(x) /\ j \in 1 .. Len(x)
      BY <2>7, <3>2
    <3>7. f[Len(x)] = n /\ Len(x) \in 1 .. Len(x)
      BY <2>7, <3>2
    <3>8. \A j \in 1 .. Len(x) : x[j] = list[f[j]] /\ list[f[j]] \notin gone /\ j <= f[j]
      <4>1. \A j \in 1 .. Len(w) : x[j] = list[f[j]] /\ list[f[j]] \notin gone /\ j <= f[j]
        BY <2>6, <3>2, <3>6
      <4>2. x[Len(x)] = list[n] /\ Len(x) <= n
        BY <2>7, <3>2, <3>5
      <4> HIDE DEF f
      <4> QED
        BY <2>9, <3>3, <3>7, <4>1, <4>2
    <3>9. \A j, k \in 1 .. Len(x) : j < k => f[j] < f[k]
      <4> SUFFICES ASSUME NEW j \in 1 .. Len(x), NEW k \in 1 .. Len(x), j < k PROVE f[j] < f[k]
        OBVIOUS
      <4>1. j \in 1 .. Len(w)
        BY <2>7, <3>2
      <4>2. f[j] = e[j] /\ e[j] \in 1 .. n - 1
        BY <3>6, <4>1
      <4>3. CASE k = Len(x)
        BY <3>7, <4>2, <4>3
      <4>4. CASE k # Len(x)
        <5>1. k \in 1 .. Len(w)
          BY <3>3, <4>4
        <5> HIDE DEF f
        <5> QED
          BY <2>6, <3>6, <4>1, <5>1
      <4> QED
        BY <4>3, <4>4
    <3> HIDE DEF f
    <3>10. \A i \in 1 .. n : list[i] \notin gone => \E j \in 1 .. Len(x) : x[j] = list[i]
      <4> SUFFICES ASSUME NEW i \in 1 .. n, list[i] \notin gone PROVE \E j \in 1 .. Len(x) : x[j] = list[i]
        OBVIOUS
      <4>1. CASE i = n
        BY <3>2, <3>7, <4>1
      <4>2. CASE i # n
        <5>1. i \in 1 .. n - 1
          BY <4>2
        <5>2. PICK j \in 1 .. Len(w) : w[j] = list[i]
          BY <2>5, <5>1 DEF Leaves
        <5> QED
          BY <3>2, <3>6, <5>2
      <4> QED
        BY <4>1, <4>2
    <3>11. \A m \in 1 .. n : (\A k \in 1 .. m : list[k] \notin gone) =>
              m <= Len(x) /\ \A k \in 1 .. m : x[k] = list[k]
      <4> SUFFICES ASSUME NEW m \in 1 .. n, \A k \in 1 .. m : list[k] \notin gone
                   PROVE  m <= Len(x) /\ \A k \in 1 .. m : x[k] = list[k]
        OBVIOUS
      <4>1. \A l \in 1 .. n - 1 : (\A k \in 1 .. l : list[k] \notin gone) =>
              l <= Len(w) /\ \A k \in 1 .. l : w[k] = list[k]
        BY <2>5 DEF Leaves
      <4>2. ASSUME NEW l \in 1 .. n - 1, l <= m
            PROVE  l <= Len(w) /\ \A k \in 1 .. l : x[k] = list[k]
        <5>1. \A k \in 1 .. l : list[k] \notin gone
          BY <4>2
        <5>2. l <= Len(w) /\ \A k \in 1 .. l : w[k] = list[k]
          BY <4>1, <5>1
        <5> QED
          BY <2>7, <3>2, <5>2
      <4>3. CASE m # n
        BY <2>7, <3>2, <4>2, <4>3
      <4>4. CASE m = n
        <5>1. CASE n = 1
          <6>1. Len(w) = 0
            BY <2>7, <3>5, <5>1
          <6> QED
            BY <3>2, <4>4, <5>1, <6>1
        <5>2. CASE n # 1
          <6>1. n - 1 \in 1 .. n - 1
            BY <5>2
          <6>2. n - 1 <= Len(w) /\ \A k \in 1 .. n - 1 : x[k] = list[k]
            BY <4>2, <4>4, <6>1
          <6>3. Len(w) = n - 1
            BY <2>7, <3>5, <6>2
          <6>4. \A k \in 1 .. n : k = n \/ k \in 1 .. n - 1
            OBVIOUS
          <6> QED
            BY <3>2, <4>4, <6>2, <6>3, <6>4
        <5> QED
          BY <5>1, <5>2
      <4> QED
        BY <4>3, <4>4
    <3>12. Leaves(x, list, n, gone)
      BY <3>4, <3>8, <3>9, <3>10, <3>11 DEF Leaves
    <3>13. Good(v, n)
      BY <2>4, <3>2, <3>12
    <3> HIDE DEF Good
    <3> QED
      BY <2>3, <3>13, <1>0
  <2> QED
    BY <2>8, <2>9
<1>3. \E u : Is(u, b) /\ Good(u, b)
  <2> HIDE DEF H, Is, Good
  <2>1. b \in Nat
    BY <1>0
  <2> HIDE DEF b
  <2>2. \A n \in 0 .. b : n \in H
    BY <2>1, <1>1, <1>2, UpTo
  <2>3. b \in H
    BY <2>1, <2>2
  <2> QED
    BY <2>3 DEF H
<1>4. \A u, v : Is(u, b) /\ Is(v, b) => u[b] = v[b]
  <2> SUFFICES ASSUME NEW u, NEW v, Is(u, b), Is(v, b) PROVE u[b] = v[b]
    OBVIOUS
  <2> DEFINE K == {n \in 0 .. b : u[n] = v[n]}
  <2>u. \A k \in 0 .. b : u[k] = IF k = 0 THEN <<>> ELSE IF list[k] \in gone THEN u[k - 1] ELSE Append(u[k - 1], list[k])
    OBVIOUS
  <2>v. \A k \in 0 .. b : v[k] = IF k = 0 THEN <<>> ELSE IF list[k] \in gone THEN v[k - 1] ELSE Append(v[k - 1], list[k])
    OBVIOUS
  <2> HIDE DEF Is
  <2>1. 0 \in K
    BY <1>0, <2>u, <2>v
  <2>2. ASSUME NEW n \in 1 .. b, n - 1 \in K PROVE n \in K
    <3>1. u[n - 1] = v[n - 1] /\ n \in 0 .. b /\ n # 0
      BY <2>2
    <3> QED
      BY <2>u, <2>v, <3>1
  <2> HIDE DEF K
  <2>3. b \in Nat
    BY <1>0
  <2> HIDE DEF b
  <2>4. \A n \in 0 .. b : n \in K
    BY <2>1, <2>2, <2>3, UpTo
  <2>5. b \in K
    BY <2>3, <2>4
  <2> QED
    BY <2>5 DEF K
<1> DEFINE c == CHOOSE u : Is(u, b)
<1>5. Is(c, b)
  BY <1>3
<1>6. Hub!Dropped(list, gone) = c[b]
  BY DEF Hub!Dropped
<1> HIDE DEF Is, c
<1> QED
  BY <1>3, <1>4, <1>5, <1>6

-----------------------------------------------------------------------------
\* What the steps make of a call.
LEMMA Calls ==
  ASSUME NEW c \in Hub!Dispatch
  PROVE  /\ \A b \in BOOLEAN : [c EXCEPT !.celery = b] \in Hub!Dispatch
         /\ [c EXCEPT !.over = TRUE] \in Hub!Dispatch
         /\ [c EXCEPT !.pc = "done", !.left = {}] \in Hub!Dispatch
         /\ \A l \in SUBSET Users, u \in Users :
              [c EXCEPT !.pc = "insert", !.left = l, !.user = u] \in Hub!Dispatch
         /\ \A a \in SUBSET Sockets, o \in BOOLEAN :
              [c EXCEPT !.pc = "push", !.next = 1, !.dead = {}, !.audience = a, !.over = o] \in Hub!Dispatch
         /\ [c EXCEPT !.next = @ + 1] \in Hub!Dispatch
         /\ \A s \in Sockets : [c EXCEPT !.next = @ + 1, !.dead = @ \cup {s}] \in Hub!Dispatch
         /\ Hub!NoWalk(c) \in Hub!Dispatch
         /\ [c EXCEPT !.pc = "done"] \in Hub!Dispatch
<1> USE DEF Hub!Dispatch
<1>1. \A b \in BOOLEAN : [c EXCEPT !.celery = b] \in Hub!Dispatch
  OBVIOUS
<1>2. [c EXCEPT !.over = TRUE] \in Hub!Dispatch
  OBVIOUS
<1>3. [c EXCEPT !.pc = "done", !.left = {}] \in Hub!Dispatch
  OBVIOUS
<1>4. \A l \in SUBSET Users, u \in Users : [c EXCEPT !.pc = "insert", !.left = l, !.user = u] \in Hub!Dispatch
  OBVIOUS
<1>5. \A a \in SUBSET Sockets, o \in BOOLEAN :
        [c EXCEPT !.pc = "push", !.next = 1, !.dead = {}, !.audience = a, !.over = o] \in Hub!Dispatch
  OBVIOUS
<1>6. [c EXCEPT !.next = @ + 1] \in Hub!Dispatch
  OBVIOUS
<1>7. \A s \in Sockets : [c EXCEPT !.next = @ + 1, !.dead = @ \cup {s}] \in Hub!Dispatch
  <2>1. \A n \in Nat, x \in SUBSET Sockets : [c EXCEPT !.next = n, !.dead = x] \in Hub!Dispatch
    OBVIOUS
  <2>2. c.next + 1 \in Nat /\ \A s \in Sockets : c.dead \cup {s} \in SUBSET Sockets
    OBVIOUS
  <2> HIDE DEF Hub!Dispatch
  <2> QED
    BY <2>1, <2>2
<1>8. Hub!NoWalk(c) \in Hub!Dispatch
  BY DEF Hub!NoWalk
<1>9. [c EXCEPT !.pc = "done"] \in Hub!Dispatch
  OBVIOUS
<1> QED
  BY <1>1, <1>2, <1>3, <1>4, <1>5, <1>6, <1>7, <1>8, <1>9

\* The dictionary that the calls are when a list of u was emptied.
LEMMA DetachedCalls ==
  ASSUME dispatch \in [Dispatches -> Hub!Dispatch], NEW u, NEW list
  PROVE  /\ Hub!Detached(u, list) \in [Dispatches -> Hub!Dispatch]
         /\ \A d \in Dispatches :
              /\ \/ Hub!Detached(u, list)[d] = dispatch[d]
                 \/ Hub!Detached(u, list)[d] = [dispatch[d] EXCEPT !.over = TRUE]
              /\ Hub!Detached(u, list)[d] # dispatch[d] =>
                   dispatch[d].pc = "push" /\ dispatch[d].user = u /\ list = <<>>
BY Calls DEF Hub!Detached

\* The next recipient of a call.
LEMMA OnwardsCall ==
  ASSUME dispatch \in [Dispatches -> Hub!Dispatch], NEW d \in Dispatches, NEW call \in Hub!Dispatch,
         NEW left \in SUBSET Users, Hub!Onwards(d, call, left)
  PROVE  \E new \in Hub!Dispatch :
           /\ dispatch' = [dispatch EXCEPT ![d] = new]
           /\ new.next = call.next /\ new.over = call.over /\ new.dead = call.dead
           /\ new.audience = call.audience /\ new.celery = call.celery
           /\ \/ new.pc = "done" /\ new.left = {} /\ left = {} /\ new.user = call.user
              \/ new.pc = "insert" /\ new.user \in left /\ new.left = left \ {new.user}
<1>1. CASE left = {} /\ Hub!Goes(d, [call EXCEPT !.pc = "done", !.left = {}])
  <2>1. [call EXCEPT !.pc = "done", !.left = {}] \in Hub!Dispatch
    BY Calls
  <2> QED
    BY <1>1, <2>1 DEF Hub!Goes, Hub!Dispatch
<1>2. ASSUME NEW u \in left, Hub!Goes(d, [call EXCEPT !.pc = "insert", !.left = left \ {u}, !.user = u])
      PROVE  \E new \in Hub!Dispatch :
               /\ dispatch' = [dispatch EXCEPT ![d] = new]
               /\ new.next = call.next /\ new.over = call.over /\ new.dead = call.dead
               /\ new.audience = call.audience /\ new.celery = call.celery
               /\ new.pc = "insert" /\ new.user \in left /\ new.left = left \ {new.user}
  <2>1. [call EXCEPT !.pc = "insert", !.left = left \ {u}, !.user = u] \in Hub!Dispatch
    BY Calls
  <2> QED
    BY <1>2, <2>1 DEF Hub!Goes, Hub!Dispatch
<1> QED
  BY <1>1, <1>2 DEF Hub!Onwards

\* The call after a walk.
LEMMA EndPushCall ==
  ASSUME dispatch \in [Dispatches -> Hub!Dispatch], NEW d \in Dispatches, Hub!EndPush(d)
  PROVE  LET u == dispatch[d].user
             list == Hub!Dropped(connections[u], dispatch[d].dead)
         IN  \E new \in Hub!Dispatch :
           /\ connections' = [connections EXCEPT ![u] = list]
           /\ dispatch' = [Hub!Detached(u, list) EXCEPT ![d] = new]
           /\ new.next = 1 /\ new.over = TRUE /\ new.dead = {} /\ new.audience = {}
           /\ \/ new.pc = "done" /\ new.left = {} /\ dispatch[d].left = {} /\ new.user = u
              \/ new.pc = "insert" /\ new.user \in dispatch[d].left /\ new.left = dispatch[d].left \ {new.user}
<1> DEFINE u == dispatch[d].user
           list == Hub!Dropped(connections[u], dispatch[d].dead)
           call == Hub!NoWalk(dispatch[d])
<1>1. /\ call \in Hub!Dispatch /\ call.next = 1 /\ call.over = TRUE /\ call.dead = {} /\ call.audience = {}
      /\ call.left = dispatch[d].left /\ call.user = u
  <2>1. call \in Hub!Dispatch /\ dispatch[d] \in Hub!Dispatch
    BY Calls
  <2> QED
    BY <2>1 DEF Hub!NoWalk, Hub!Dispatch
<1>2. /\ connections' = [connections EXCEPT ![u] = list]
      /\ \/ /\ call.left = {}
            /\ dispatch' = [Hub!Detached(u, list) EXCEPT ![d] = [call EXCEPT !.pc = "done"]]
         \/ \E v \in call.left :
              dispatch' = [Hub!Detached(u, list) EXCEPT ![d] =
                             [call EXCEPT !.pc = "insert", !.left = @ \ {v}, !.user = v]]
  BY DEF Hub!EndPush
<1> HIDE DEF u, list, call
<1>3. CASE call.left = {} /\ dispatch' = [Hub!Detached(u, list) EXCEPT ![d] = [call EXCEPT !.pc = "done"]]
  <2>1. [call EXCEPT !.pc = "done"] \in Hub!Dispatch
    BY <1>1, Calls
  <2>2. /\ [call EXCEPT !.pc = "done"].pc = "done" /\ [call EXCEPT !.pc = "done"].next = 1
        /\ [call EXCEPT !.pc = "done"].over = TRUE /\ [call EXCEPT !.pc = "done"].dead = {}
        /\ [call EXCEPT !.pc = "done"].audience = {} /\ [call EXCEPT !.pc = "done"].left = dispatch[d].left
        /\ [call EXCEPT !.pc = "done"].user = u
    BY <1>1 DEF Hub!Dispatch
  <2> QED
    BY <1>1, <1>2, <1>3, <2>1, <2>2 DEF u, list
<1>4. ASSUME NEW v \in call.left,
             dispatch' = [Hub!Detached(u, list) EXCEPT ![d] =
                             [call EXCEPT !.pc = "insert", !.left = @ \ {v}, !.user = v]]
      PROVE  \E new \in Hub!Dispatch :
               /\ dispatch' = [Hub!Detached(u, list) EXCEPT ![d] = new]
               /\ new.next = 1 /\ new.over = TRUE /\ new.dead = {} /\ new.audience = {}
               /\ new.pc = "insert" /\ new.user \in dispatch[d].left /\ new.left = dispatch[d].left \ {new.user}
  <2>0. call.left \subseteq Users
    BY <1>1 DEF Hub!Dispatch
  <2> DEFINE new == [call EXCEPT !.pc = "insert", !.left = @ \ {v}, !.user = v]
  <2>1. new = [call EXCEPT !.pc = "insert", !.left = call.left \ {v}, !.user = v]
    OBVIOUS
  <2>2. new \in Hub!Dispatch
    BY <1>1, <2>0, <2>1, Calls
  <2>3. /\ new.next = 1 /\ new.over = TRUE /\ new.dead = {} /\ new.audience = {}
        /\ new.pc = "insert" /\ new.user = v /\ new.left = dispatch[d].left \ {v}
    BY <1>1 DEF Hub!Dispatch
  <2> QED
    BY <1>1, <1>4, <2>2, <2>3
<1> QED
  BY <1>2, <1>3, <1>4 DEF u, list

\* A list after the sockets in gone were disconnected.
LEMMA DroppedSeq ==
  ASSUME Hub!TypeOK, NEW u \in Users, NEW gone
  PROVE  /\ connections[u] \in Seq(Sockets) /\ Hub!Dropped(connections[u], gone) \in Seq(Sockets)
         /\ Leaves(Hub!Dropped(connections[u], gone), connections[u], Len(connections[u]), gone)
BY DroppedLeaves DEF Hub!TypeOK

\* Whose turn it is.
LEMMA Turn ==
  ASSUME Hub!TypeOK, Hub!InTurn, NEW d \in Dispatches, Hub!Walking(d)
  PROVE  /\ dispatch[d].user \in Users /\ dispatch[d].next \in 1 .. Len(connections[dispatch[d].user])
         /\ connections[dispatch[d].user] \in Seq(Sockets)
         /\ connections[dispatch[d].user][dispatch[d].next] \in Sockets
<1>1. dispatch[d].user \in Users /\ dispatch[d].next \in Nat
  BY DEF Hub!TypeOK, Hub!Dispatch
<1>2. dispatch[d].pc = "push" /\ dispatch[d].next <= Len(connections[dispatch[d].user])
  BY DEF Hub!Walking
<1>3. dispatch[d].next >= 1
  BY <1>2 DEF Hub!InTurn
<1>4. connections[dispatch[d].user] \in Seq(Sockets)
  BY <1>1 DEF Hub!TypeOK
<1> QED
  BY <1>1, <1>2, <1>3, <1>4

\* One step per action, each keeping the types.
LEMMA HubTypeStep == Hub!TypeOK /\ Hub!InTurn /\ [Hub!Next]_(Hub!vars) => Hub!TypeOK'
<1> SUFFICES ASSUME Hub!TypeOK, Hub!InTurn, [Hub!Next]_(Hub!vars) PROVE Hub!TypeOK'
  OBVIOUS
<1>t. /\ DOMAIN connections = Users /\ \A u \in Users : connections[u] \in Seq(Sockets)
      /\ socket \in [Sockets -> Hub!SocketStates]
      /\ dispatch \in [Dispatches -> Hub!Dispatch]
      /\ inbox \in [Dispatches \X Users -> Hub!InboxStates]
      /\ pushes \in [Sockets \X Dispatches -> Nat]
  BY DEF Hub!TypeOK
<1>o. UserOf \in [Sockets -> Users]
  BY UserOfAssumption
<1>d. \A d \in Dispatches :
        /\ dispatch[d] \in Hub!Dispatch /\ dispatch[d].user \in Users /\ dispatch[d].left \subseteq Users
        /\ dispatch[d].dead \subseteq Sockets /\ dispatch[d].next \in Nat /\ dispatch[d].audience \subseteq Sockets
        /\ dispatch[d].celery \in BOOLEAN
  BY <1>t DEF Hub!Dispatch
<1>1. ASSUME NEW s \in Sockets, Hub!Connect(s) PROVE Hub!TypeOK'
  <2>1. UserOf[s] \in Users /\ Append(connections[UserOf[s]], s) \in Seq(Sockets)
    BY <1>t, <1>o
  <2>2. /\ DOMAIN connections' = Users /\ \A u \in Users : connections'[u] \in Seq(Sockets)
    BY <1>1, <1>t, <2>1 DEF Hub!Connect, Hub!Added
  <2>3. socket' \in [Sockets -> Hub!SocketStates]
    BY <1>1, <1>t DEF Hub!Connect, Hub!SocketStates
  <2> QED
    BY <1>1, <1>t, <2>2, <2>3 DEF Hub!Connect, Hub!TypeOK
<1>2. ASSUME NEW s \in Sockets, Hub!PeerLeaves(s) \/ Hub!HandlerFails(s) PROVE Hub!TypeOK'
  <2>1. socket' \in [Sockets -> Hub!SocketStates]
    BY <1>2, <1>t DEF Hub!PeerLeaves, Hub!HandlerFails, Hub!SocketStates
  <2> QED
    BY <1>2, <1>t, <2>1 DEF Hub!PeerLeaves, Hub!HandlerFails, Hub!TypeOK
<1>3. ASSUME NEW s \in Sockets, Hub!HandlerDisconnects(s) PROVE Hub!TypeOK'
  <2> DEFINE list == Hub!Dropped(connections[UserOf[s]], {s})
  <2>1. UserOf[s] \in Users /\ list \in Seq(Sockets)
    BY <1>o, DroppedSeq
  <2>2. /\ connections' = [connections EXCEPT ![UserOf[s]] = list] /\ dispatch' = Hub!Detached(UserOf[s], list)
        /\ socket' = [socket EXCEPT ![s] = "ended"] /\ inbox' = inbox /\ pushes' = pushes
    BY <1>3 DEF Hub!HandlerDisconnects
  <2> HIDE DEF list
  <2>3. socket' \in [Sockets -> Hub!SocketStates]
    BY <1>t, <2>2 DEF Hub!SocketStates
  <2>4. dispatch' \in [Dispatches -> Hub!Dispatch]
    BY <1>t, <2>2, DetachedCalls
  <2>5. /\ DOMAIN connections' = Users /\ \A u \in Users : connections'[u] \in Seq(Sockets)
    BY <1>t, <2>1, <2>2
  <2> QED
    BY <1>t, <2>2, <2>3, <2>4, <2>5 DEF Hub!TypeOK
<1>4. ASSUME NEW d \in Dispatches, NEW r \in SUBSET Users, NEW celery \in BOOLEAN, Hub!Start(d, r, celery)
      PROVE  Hub!TypeOK'
  <2>1. PICK c \in Hub!Dispatch : c = [dispatch[d] EXCEPT !.celery = celery]
    BY <1>d, Calls
  <2>2. Hub!Onwards(d, c, r)
    BY <1>4, <2>1 DEF Hub!Start, Hub!Onwards, Hub!Goes
  <2>3. dispatch' \in [Dispatches -> Hub!Dispatch]
    BY <1>t, <2>2, OnwardsCall
  <2> QED
    BY <1>4, <1>t, <2>3 DEF Hub!Start, Hub!TypeOK
<1>5. ASSUME NEW d \in Dispatches, Hub!Insert(d) PROVE Hub!TypeOK'
  <2>1. Hub!Registered(dispatch[d].user) \in SUBSET Sockets
    BY <1>t, <1>d DEF Hub!Registered, Hub!ToSet
  <2>2. PICK o \in BOOLEAN : o = (dispatch[d].celery \/ connections[dispatch[d].user] = <<>>)
    BY Zenon
  <2>3. [dispatch[d] EXCEPT !.pc = "push", !.next = 1, !.dead = {}, !.audience = Hub!Registered(dispatch[d].user),
                            !.over = o] \in Hub!Dispatch
    BY <1>d, <2>1, Calls
  <2>4. dispatch' \in [Dispatches -> Hub!Dispatch]
    BY <1>5, <1>t, <2>2, <2>3 DEF Hub!Insert, Hub!Goes
  <2>5. inbox' \in [Dispatches \X Users -> Hub!InboxStates]
    BY <1>5, <1>t, <1>d DEF Hub!Insert, Hub!InboxStates
  <2> QED
    BY <1>5, <1>t, <2>4, <2>5 DEF Hub!Insert, Hub!TypeOK
<1>6. ASSUME NEW d \in Dispatches, Hub!InsertFails(d) PROVE Hub!TypeOK'
  <2>1. PICK c \in Hub!Dispatch, l \in SUBSET Users : c = dispatch[d] /\ l = dispatch[d].left
    BY <1>d
  <2>4. Hub!Onwards(d, c, l)
    BY <1>6, <2>1 DEF Hub!InsertFails, Hub!Onwards, Hub!Goes
  <2>2. dispatch' \in [Dispatches -> Hub!Dispatch]
    BY <1>t, <2>4, OnwardsCall
  <2>3. inbox' \in [Dispatches \X Users -> Hub!InboxStates]
    BY <1>6, <1>t, <1>d DEF Hub!InsertFails, Hub!InboxStates
  <2> QED
    BY <1>6, <1>t, <2>2, <2>3 DEF Hub!InsertFails, Hub!TypeOK
<1>7. ASSUME NEW d \in Dispatches, Hub!Push(d) PROVE Hub!TypeOK'
  <2>0. PICK s : s = connections[dispatch[d].user][dispatch[d].next]
    OBVIOUS
  <2>1. /\ UNCHANGED <<connections, socket, inbox>>
        /\ \/ /\ pushes' = [pushes EXCEPT ![<<s, d>>] = @ + 1]
              /\ dispatch' = [dispatch EXCEPT ![d] = [dispatch[d] EXCEPT !.next = @ + 1]]
           \/ /\ pushes' = pushes
              /\ dispatch' = [dispatch EXCEPT ![d] = [dispatch[d] EXCEPT !.next = @ + 1, !.dead = @ \cup {s}]]
    BY <1>7, <2>0 DEF Hub!Push, Hub!Goes
  <2>2. s \in Sockets
    BY <1>7, <2>0, Turn DEF Hub!Push
  <2>3. /\ [dispatch[d] EXCEPT !.next = @ + 1] \in Hub!Dispatch
        /\ [dispatch[d] EXCEPT !.next = @ + 1, !.dead = @ \cup {s}] \in Hub!Dispatch
    BY <1>d, <2>2, Calls
  <2>4. dispatch' \in [Dispatches -> Hub!Dispatch]
    BY <1>t, <2>1, <2>3
  <2>5. pushes' \in [Sockets \X Dispatches -> Nat]
    <3>1. [pushes EXCEPT ![<<s, d>>] = @ + 1] \in [Sockets \X Dispatches -> Nat]
      <4>1. <<s, d>> \in Sockets \X Dispatches /\ pushes[<<s, d>>] + 1 \in Nat
        BY <1>t, <2>2
      <4> QED
        BY <1>t, <4>1
    <3> QED
      BY <1>t, <2>1, <3>1
  <2> QED
    BY <1>t, <2>1, <2>4, <2>5 DEF Hub!TypeOK
<1>8. ASSUME NEW d \in Dispatches, Hub!EndPush(d) PROVE Hub!TypeOK'
  <2>0. PICK u \in Users, list \in Seq(Sockets) :
          u = dispatch[d].user /\ list = Hub!Dropped(connections[u], dispatch[d].dead)
    BY <1>d, DroppedSeq
  <2>1. PICK new \in Hub!Dispatch :
          /\ connections' = [connections EXCEPT ![u] = list]
          /\ dispatch' = [Hub!Detached(u, list) EXCEPT ![d] = new]
    BY <1>8, <1>t, <2>0, EndPushCall
  <2>2. dispatch' \in [Dispatches -> Hub!Dispatch]
    BY <1>t, <2>1, DetachedCalls
  <2>3. /\ DOMAIN connections' = Users /\ \A v \in Users : connections'[v] \in Seq(Sockets)
    BY <1>t, <2>1
  <2> QED
    BY <1>8, <1>t, <2>2, <2>3 DEF Hub!EndPush, Hub!TypeOK
<1>9. ASSUME NEW d \in Dispatches, NEW u \in Users, Hub!MarkAsRead(d, u) \/ Hub!DeleteNotification(d, u)
      PROVE  Hub!TypeOK'
  <2>1. inbox' \in [Dispatches \X Users -> Hub!InboxStates]
    BY <1>9, <1>t DEF Hub!MarkAsRead, Hub!DeleteNotification, Hub!InboxStates
  <2> QED
    BY <1>9, <1>t, <2>1 DEF Hub!MarkAsRead, Hub!DeleteNotification, Hub!TypeOK
<1>10. ASSUME NEW u \in Users, Hub!MarkAllAsRead(u) PROVE Hub!TypeOK'
  <2>1. inbox' \in [Dispatches \X Users -> Hub!InboxStates]
    BY <1>10, <1>t DEF Hub!MarkAllAsRead, Hub!InboxStates
  <2> QED
    BY <1>10, <1>t, <2>1 DEF Hub!MarkAllAsRead, Hub!TypeOK
<1>11. CASE UNCHANGED Hub!vars
  BY <1>11, <1>t DEF Hub!vars, Hub!TypeOK
<1> QED
  BY <1>1, <1>2, <1>3, <1>4, <1>5, <1>6, <1>7, <1>8, <1>9, <1>10, <1>11 DEF Hub!Next, Hub!Advance

-----------------------------------------------------------------------------
\* What Leaves says of the two lists.
LEMMA LeavesFacts ==
  ASSUME NEW list \in Seq(Sockets), NEW D \in Seq(Sockets), NEW gone, Leaves(D, list, Len(list), gone)
  PROVE  /\ \A j \in DOMAIN D : \E i \in DOMAIN list : j <= i /\ D[j] = list[i] /\ list[i] \notin gone
         /\ \A j, k \in DOMAIN D : j < k => \E i, l \in DOMAIN list : i < l /\ D[j] = list[i] /\ D[k] = list[l]
         /\ \A i \in DOMAIN list : list[i] \notin gone => \E j \in DOMAIN D : D[j] = list[i]
         /\ \A m \in DOMAIN list : (\A k \in DOMAIN list : k <= m => list[k] \notin gone) =>
              m \in DOMAIN D /\ \A k \in 1 .. m : D[k] = list[k]
<1>1. DOMAIN D = 1 .. Len(D) /\ DOMAIN list = 1 .. Len(list) /\ Len(D) \in Nat /\ Len(list) \in Nat
  OBVIOUS
<1>2. PICK e \in [1 .. Len(D) -> 1 .. Len(list)] :
        /\ \A j \in 1 .. Len(D) : D[j] = list[e[j]] /\ list[e[j]] \notin gone /\ j <= e[j]
        /\ \A j, k \in 1 .. Len(D) : j < k => e[j] < e[k]
  BY DEF Leaves
<1>3. \A j \in 1 .. Len(D) : e[j] \in 1 .. Len(list)
  BY <1>2
<1>4. \A j \in DOMAIN D : \E i \in DOMAIN list : j <= i /\ D[j] = list[i] /\ list[i] \notin gone
  BY <1>1, <1>2, <1>3
<1>5. \A j, k \in DOMAIN D : j < k => \E i, l \in DOMAIN list : i < l /\ D[j] = list[i] /\ D[k] = list[l]
  BY <1>1, <1>2, <1>3
<1>6. \A i \in DOMAIN list : list[i] \notin gone => \E j \in DOMAIN D : D[j] = list[i]
  BY <1>1 DEF Leaves
<1>7. ASSUME NEW m \in DOMAIN list, \A k \in DOMAIN list : k <= m => list[k] \notin gone
      PROVE  m \in DOMAIN D /\ \A k \in 1 .. m : D[k] = list[k]
  <2>1. \A k \in 1 .. m : k \in DOMAIN list /\ k <= m
    BY <1>1
  <2>2. m \in 1 .. Len(list) /\ \A k \in 1 .. m : list[k] \notin gone
    BY <1>1, <1>7, <2>1
  <2>3. m <= Len(D) /\ \A k \in 1 .. m : D[k] = list[k]
    BY <2>2 DEF Leaves
  <2> QED
    BY <1>1, <2>2, <2>3
<1> QED
  BY <1>4, <1>5, <1>6, <1>7

\* The lists of all users after the sockets in gone were disconnected from u.
Shrunk(u, gone) ==
  \A v \in Users :
    /\ connections[v] \in Seq(Sockets) /\ connections'[v] \in Seq(Sockets)
    /\ Leaves(connections'[v], connections[v], Len(connections[v]), IF v = u THEN gone ELSE {})

\* A list that nothing leaves.
LEMMA SameLeaves ==
  ASSUME NEW list \in Seq(Sockets)
  PROVE  Leaves(list, list, Len(list), {})
<1> DEFINE e == [j \in 1 .. Len(list) |-> j]
<1>1. e \in [1 .. Len(list) -> 1 .. Len(list)] /\ \A j \in 1 .. Len(list) : e[j] = j
  OBVIOUS
<1> HIDE DEF e
<1>2. \A j \in 1 .. Len(list) : list[j] = list[e[j]] /\ list[e[j]] \notin {} /\ j <= e[j]
  BY <1>1
<1>3. \A j, k \in 1 .. Len(list) : j < k => e[j] < e[k]
  BY <1>1
<1>4. Len(list) \in Nat
  OBVIOUS
<1> QED
  BY <1>1, <1>2, <1>3, <1>4 DEF Leaves

\* The list of u after a disconnect, next to those of the others.
LEMMA Shrinks ==
  ASSUME Hub!TypeOK, NEW u \in Users, NEW gone,
         connections' = [connections EXCEPT ![u] = Hub!Dropped(connections[u], gone)]
  PROVE  Shrunk(u, gone)
<1> SUFFICES ASSUME NEW v \in Users
             PROVE  /\ connections[v] \in Seq(Sockets) /\ connections'[v] \in Seq(Sockets)
                    /\ Leaves(connections'[v], connections[v], Len(connections[v]), IF v = u THEN gone ELSE {})
  BY DEF Shrunk
<1>1. DOMAIN connections = Users /\ connections[v] \in Seq(Sockets)
  BY DEF Hub!TypeOK
<1>2. CASE v = u
  <2>1. connections'[v] = Hub!Dropped(connections[u], gone)
    BY <1>1, <1>2
  <2> QED
    BY <1>1, <1>2, <2>1, DroppedSeq
<1>3. CASE v # u
  <2>1. connections'[v] = connections[v]
    BY <1>1, <1>3
  <2> QED
    BY <1>1, <1>3, <2>1, SameLeaves
<1> QED
  BY <1>2, <1>3

\* The fields of a call that a list of u, emptied or not, changes.
Walks(d, u, list) ==
  /\ dispatch'[d].pc = dispatch[d].pc /\ dispatch'[d].celery = dispatch[d].celery
  /\ dispatch'[d].left = dispatch[d].left /\ dispatch'[d].user = dispatch[d].user
  /\ dispatch'[d].next = dispatch[d].next /\ dispatch'[d].dead = dispatch[d].dead
  /\ dispatch'[d].audience = dispatch[d].audience
  /\ dispatch[d].over => dispatch'[d].over
  /\ dispatch'[d].over => dispatch[d].over \/ (dispatch[d].user = u /\ list = <<>>)

\* That is what Detached makes of a call.
LEMMA DetachedFields ==
  ASSUME Hub!TypeOK, NEW u, NEW list, NEW d \in Dispatches, dispatch'[d] = Hub!Detached(u, list)[d]
  PROVE  Walks(d, u, list)
<1>1. dispatch[d] \in Hub!Dispatch /\ dispatch \in [Dispatches -> Hub!Dispatch]
  BY DEF Hub!TypeOK
<1>0. /\ \/ Hub!Detached(u, list)[d] = dispatch[d]
         \/ Hub!Detached(u, list)[d] = [dispatch[d] EXCEPT !.over = TRUE]
      /\ Hub!Detached(u, list)[d] # dispatch[d] =>
           dispatch[d].pc = "push" /\ dispatch[d].user = u /\ list = <<>>
  BY <1>1, DetachedCalls
<1>2. CASE dispatch'[d] = dispatch[d]
  BY <1>2 DEF Walks
<1>3. PICK r : r = [dispatch[d] EXCEPT !.over = TRUE]
  OBVIOUS
<1>4. /\ r.pc = dispatch[d].pc /\ r.celery = dispatch[d].celery /\ r.left = dispatch[d].left
      /\ r.user = dispatch[d].user /\ r.next = dispatch[d].next /\ r.dead = dispatch[d].dead
      /\ r.audience = dispatch[d].audience /\ r.over = TRUE
  BY <1>1, <1>3 DEF Hub!Dispatch
<1>5. CASE dispatch'[d] = r /\ dispatch'[d] # dispatch[d]
  <2>1. dispatch[d].user = u /\ list = <<>>
    BY <1>0, <1>5
  <2> QED
    <3>1. /\ dispatch'[d].pc = dispatch[d].pc /\ dispatch'[d].celery = dispatch[d].celery
          /\ dispatch'[d].left = dispatch[d].left /\ dispatch'[d].user = dispatch[d].user
          /\ dispatch'[d].next = dispatch[d].next /\ dispatch'[d].dead = dispatch[d].dead
          /\ dispatch'[d].audience = dispatch[d].audience
      BY <1>4, <1>5
    <3>2. dispatch'[d].over
      BY <1>4, <1>5
    <3> QED
      BY <2>1, <3>1, <3>2 DEF Walks
<1> QED
  BY <1>0, <1>2, <1>3, <1>5

-----------------------------------------------------------------------------
\* The invariant of one call.
AheadFor(d) ==
  \A s \in Sockets :
    \/ dispatch[d].pc = "idle" \/ socket[s] = "new" \/ UserOf[s] \in dispatch[d].left
    \/ dispatch[d].pc = "insert" /\ dispatch[d].user = UserOf[s]
    \/ /\ dispatch[d].pc = "push" /\ dispatch[d].user = UserOf[s] /\ ~dispatch[d].over
       /\ \E i \in DOMAIN connections[UserOf[s]] :
            i >= dispatch[d].next /\ connections[UserOf[s]][i] = s
    => pushes[<<s, d>>] = 0

Stored == {"unread", "read", "deleted"}

TurnFor(d) ==
  /\ dispatch[d].pc \in {"insert", "push"} => dispatch[d].user \notin dispatch[d].left
  /\ dispatch[d].pc = "push" => inbox[<<d, dispatch[d].user>>] \in Stored /\ dispatch[d].next >= 1

DeadFor(d) == dispatch[d].pc = "push" => \A s \in dispatch[d].dead : socket[s] \in {"broken", "ended"}

PushedFor(d) ==
  \A s \in Sockets : /\ pushes[<<s, d>>] <= 1
                     /\ pushes[<<s, d>>] > 0 => inbox[<<d, UserOf[s]>>] \in Stored

AudienceFor(d) ==
  dispatch[d].pc = "push" =>
    /\ \A s \in dispatch[d].audience : socket[s] # "new" /\ UserOf[s] = dispatch[d].user
    /\ ~dispatch[d].celery /\ dispatch[d].audience \subseteq Hub!Registered(dispatch[d].user) =>
         /\ dispatch[d].over => dispatch[d].audience = {}
         /\ \A i, j \in DOMAIN connections[dispatch[d].user] :
              i < j /\ connections[dispatch[d].user][j] \in dispatch[d].audience
                => connections[dispatch[d].user][i] \in dispatch[d].audience
         /\ \A i \in DOMAIN connections[dispatch[d].user] :
              i < dispatch[d].next /\ connections[dispatch[d].user][i] \in dispatch[d].audience =>
                \/ pushes[<<connections[dispatch[d].user][i], d>>] > 0
                \/ connections[dispatch[d].user][i] \in dispatch[d].dead

CallSound(d) == AheadFor(d) /\ TurnFor(d) /\ DeadFor(d) /\ PushedFor(d) /\ AudienceFor(d)

HubSound ==
  /\ Hub!TypeOK /\ Hub!ListsSound /\ Hub!LiveSocketsRegistered
  /\ \A d \in Dispatches : CallSound(d)

\* It is the inductive invariant of the module.
LEMMA HubSoundIs == HubSound <=> Hub!IInv
<1>1. Hub!NothingAhead <=> \A d \in Dispatches : AheadFor(d)
  BY DEF Hub!NothingAhead, AheadFor
<1>2. Hub!InTurn <=> \A d \in Dispatches : TurnFor(d)
  BY DEF Hub!InTurn, TurnFor, Stored
<1>3. Hub!DeadAreGone <=> \A d \in Dispatches : DeadFor(d)
  BY DEF Hub!DeadAreGone, DeadFor
<1>4. Hub!PushedOnceAndStored <=> \A d \in Dispatches : PushedFor(d)
  BY DEF Hub!PushedOnceAndStored, PushedFor, Stored
<1>5. Hub!AudienceFirst <=> \A d \in Dispatches : AudienceFor(d)
  BY DEF Hub!AudienceFirst, AudienceFor
<1> QED
  BY <1>1, <1>2, <1>3, <1>4, <1>5 DEF HubSound, CallSound, Hub!IInv

\* How sockets live.
Lives ==
  \A s \in Sockets : /\ socket'[s] = "new" => socket[s] = "new"
                     /\ socket[s] \in {"broken", "ended"} => socket'[s] \in {"broken", "ended"}

\* A call that a step does not serve, though its list may shrink.
LEMMA Bystander ==
  ASSUME Hub!TypeOK, Hub!TypeOK', Hub!ListsSound, NEW d \in Dispatches, CallSound(d),
         NEW u \in Users, NEW gone, Shrunk(u, gone), \A s \in gone : socket'[s] \in {"broken", "ended"},
         Lives, Walks(d, u, connections'[u]),
         \A s \in Sockets : (pushes'[<<s, d>>] = pushes[<<s, d>>]) /\ (socket[s] = "new" => socket'[s] = "new"),
         \A v \in Users : inbox[<<d, v>>] \in Stored => inbox'[<<d, v>>] \in Stored
  PROVE  CallSound(d)'
<1>t. /\ dispatch[d].user \in Users /\ dispatch[d].audience \subseteq Sockets /\ dispatch[d].dead \subseteq Sockets
      /\ UserOf \in [Sockets -> Users] /\ dispatch[d].next \in Nat
  BY UserOfAssumption DEF Hub!TypeOK, Hub!Dispatch
<1>w. /\ dispatch'[d].pc = dispatch[d].pc /\ dispatch'[d].celery = dispatch[d].celery
      /\ dispatch'[d].left = dispatch[d].left /\ dispatch'[d].user = dispatch[d].user
      /\ dispatch'[d].next = dispatch[d].next /\ dispatch'[d].dead = dispatch[d].dead
      /\ dispatch'[d].audience = dispatch[d].audience
      /\ dispatch[d].over => dispatch'[d].over
      /\ dispatch'[d].over => dispatch[d].over \/ (dispatch[d].user = u /\ connections'[u] = <<>>)
  BY DEF Walks
<1>l. \A v \in Users :
        /\ \A j \in DOMAIN connections'[v] : \E i \in DOMAIN connections[v] :
             j <= i /\ connections'[v][j] = connections[v][i] /\ (v = u => connections[v][i] \notin gone)
        /\ \A j, k \in DOMAIN connections'[v] : j < k =>
             \E i, l \in DOMAIN connections[v] :
               i < l /\ connections'[v][j] = connections[v][i] /\ connections'[v][k] = connections[v][l]
        /\ \A m \in DOMAIN connections[v] :
             (\A k \in DOMAIN connections[v] : k <= m => (v = u => connections[v][k] \notin gone)) =>
               m \in DOMAIN connections'[v] /\ \A k \in 1 .. m : connections'[v][k] = connections[v][k]
  <2> SUFFICES ASSUME NEW v \in Users
               PROVE  /\ \A j \in DOMAIN connections'[v] : \E i \in DOMAIN connections[v] :
                           j <= i /\ connections'[v][j] = connections[v][i] /\ (v = u => connections[v][i] \notin gone)
                      /\ \A j, k \in DOMAIN connections'[v] : j < k =>
                           \E i, l \in DOMAIN connections[v] :
                             i < l /\ connections'[v][j] = connections[v][i] /\ connections'[v][k] = connections[v][l]
                      /\ \A m \in DOMAIN connections[v] :
                           (\A k \in DOMAIN connections[v] : k <= m => (v = u => connections[v][k] \notin gone)) =>
                             m \in DOMAIN connections'[v] /\ \A k \in 1 .. m : connections'[v][k] = connections[v][k]
    OBVIOUS
  <2>1. PICK list, D, g :
          /\ list \in Seq(Sockets) /\ D \in Seq(Sockets)
          /\ list = connections[v] /\ D = connections'[v] /\ g = (IF v = u THEN gone ELSE {})
          /\ Leaves(D, list, Len(list), g)
    BY DEF Shrunk
  <2>2. /\ \A j \in DOMAIN D : \E i \in DOMAIN list : j <= i /\ D[j] = list[i] /\ list[i] \notin g
        /\ \A j, k \in DOMAIN D : j < k => \E i, l \in DOMAIN list : i < l /\ D[j] = list[i] /\ D[k] = list[l]
        /\ \A m \in DOMAIN list : (\A k \in DOMAIN list : k <= m => list[k] \notin g) =>
             m \in DOMAIN D /\ \A k \in 1 .. m : D[k] = list[k]
    <3>1. list \in Seq(Sockets) /\ D \in Seq(Sockets) /\ Leaves(D, list, Len(list), g)
      BY <2>1
    <3> HIDE <2>1
    <3> QED
      BY <3>1, LeavesFacts
  <2>3. \A x : (v = u => x \notin gone) <=> x \notin g
    BY <2>1
  <2> QED
    BY <2>1, <2>2, <2>3
<1>n. \A v \in Users : DOMAIN connections[v] \subseteq Nat /\ DOMAIN connections'[v] \subseteq Nat
  BY DEF Hub!TypeOK
<1>1. AheadFor(d)'
  <2> SUFFICES ASSUME NEW s \in Sockets,
                      \/ dispatch'[d].pc = "idle" \/ socket'[s] = "new" \/ UserOf[s] \in dispatch'[d].left
                      \/ dispatch'[d].pc = "insert" /\ dispatch'[d].user = UserOf[s]
                      \/ /\ dispatch'[d].pc = "push" /\ dispatch'[d].user = UserOf[s] /\ ~dispatch'[d].over
                         /\ \E i \in DOMAIN connections'[UserOf[s]] :
                              i >= dispatch'[d].next /\ connections'[UserOf[s]][i] = s
               PROVE  pushes[<<s, d>>] = 0
    BY DEF AheadFor
  <2>1. CASE \E j \in DOMAIN connections'[UserOf[s]] : j >= dispatch[d].next /\ connections'[UserOf[s]][j] = s
    <3>1. PICK j \in DOMAIN connections'[UserOf[s]] : j >= dispatch[d].next /\ connections'[UserOf[s]][j] = s
      BY <2>1
    <3>2. PICK i \in DOMAIN connections[UserOf[s]] : j <= i /\ connections[UserOf[s]][i] = s
      BY <1>t, <1>l, <3>1
    <3>3. i >= dispatch[d].next
      BY <1>t, <1>n, <3>1, <3>2
    <3> QED
      BY <1>w, <3>2, <3>3 DEF CallSound, AheadFor, Lives
  <2>2. CASE ~ \E j \in DOMAIN connections'[UserOf[s]] : j >= dispatch[d].next /\ connections'[UserOf[s]][j] = s
    BY <1>w, <2>2 DEF CallSound, AheadFor, Lives
  <2> QED
    BY <2>1, <2>2
<1>2. TurnFor(d)'
  BY <1>t, <1>w DEF CallSound, TurnFor
<1>3. DeadFor(d)'
  BY <1>t, <1>w DEF CallSound, DeadFor, Lives
<1>4. PushedFor(d)'
  BY <1>t DEF CallSound, PushedFor
<1>5. AudienceFor(d)'
  <2> SUFFICES ASSUME dispatch[d].pc = "push" PROVE AudienceFor(d)'
    BY <1>w DEF AudienceFor
  <2>1. PICK v \in Users, aud \in SUBSET Sockets : v = dispatch[d].user /\ aud = dispatch[d].audience
    BY <1>t
  <2>2. \A s \in aud : socket[s] # "new" /\ UserOf[s] = v
    BY <2>1 DEF CallSound, AudienceFor
  <2>3. \A s \in aud : socket'[s] # "new"
    BY <2>2 DEF Lives
  <2> SUFFICES ASSUME ~dispatch[d].celery, aud \subseteq Hub!Registered(v)'
               PROVE  /\ dispatch'[d].over => aud = {}
                      /\ \A i, j \in DOMAIN connections'[v] :
                           i < j /\ connections'[v][j] \in aud => connections'[v][i] \in aud
                      /\ \A i \in DOMAIN connections'[v] :
                           i < dispatch[d].next /\ connections'[v][i] \in aud =>
                             pushes[<<connections'[v][i], d>>] > 0 \/ connections'[v][i] \in dispatch[d].dead
    BY <1>w, <2>1, <2>2, <2>3 DEF AudienceFor
  <2>4. \A s \in aud : \E j \in DOMAIN connections'[v] : connections'[v][j] = s
    BY DEF Hub!Registered, Hub!ToSet
  <2>5. \A s \in aud : (\E i \in DOMAIN connections[v] : connections[v][i] = s) /\ (v = u => s \notin gone)
    BY <1>l, <2>4
  <2>6. aud \subseteq Hub!Registered(v)
    BY <2>5 DEF Hub!Registered, Hub!ToSet
  <2>7. /\ dispatch[d].over => aud = {}
        /\ \A i, j \in DOMAIN connections[v] : i < j /\ connections[v][j] \in aud => connections[v][i] \in aud
        /\ \A i \in DOMAIN connections[v] : i < dispatch[d].next /\ connections[v][i] \in aud =>
             pushes[<<connections[v][i], d>>] > 0 \/ connections[v][i] \in dispatch[d].dead
    BY <2>1, <2>6 DEF CallSound, AudienceFor
  <2>8. dispatch'[d].over => aud = {}
    BY <1>w, <2>1, <2>4, <2>7
  <2>9. \A i, j \in DOMAIN connections'[v] : i < j /\ connections'[v][j] \in aud => connections'[v][i] \in aud
    BY <1>l, <2>7
  <2>10. ASSUME NEW i \in DOMAIN connections'[v], i < dispatch[d].next, connections'[v][i] \in aud
         PROVE  connections'[v][i] = connections[v][i] /\ i \in DOMAIN connections[v]
    <3>1. PICK k \in DOMAIN connections[v] : i <= k /\ connections'[v][i] = connections[v][k]
      BY <1>l
    <3>2. \A m \in DOMAIN connections[v] : m <= k => connections[v][m] \in aud
      BY <1>n, <2>7, <2>10, <3>1
    <3>3. k \in DOMAIN connections'[v] /\ \A m \in 1 .. k : connections'[v][m] = connections[v][m]
      BY <1>l, <2>5, <3>2
    <3>4. connections[v] \in Seq(Sockets) /\ connections'[v] \in Seq(Sockets)
      BY DEF Hub!TypeOK
    <3>5. i \in 1 .. k /\ i \in DOMAIN connections[v]
      BY <3>1, <3>4
    <3> QED
      BY <3>3, <3>5
  <2> QED
    BY <2>7, <2>8, <2>9, <2>10
<1> QED
  BY <1>1, <1>2, <1>3, <1>4, <1>5 DEF CallSound

-----------------------------------------------------------------------------
\* A socket is accepted once, and one that is gone stays gone.
LEMMA SocketsLive == Hub!TypeOK /\ [Hub!Next]_(Hub!vars) => Lives
<1> SUFFICES ASSUME Hub!TypeOK, [Hub!Next]_(Hub!vars) PROVE Lives
  OBVIOUS
<1>t. DOMAIN socket = Sockets
  BY DEF Hub!TypeOK
<1>1. ASSUME NEW s \in Sockets,
             Hub!Connect(s) \/ Hub!PeerLeaves(s) \/ Hub!HandlerDisconnects(s) \/ Hub!HandlerFails(s)
      PROVE  Lives
  <2>1. CASE Hub!Connect(s)
    BY <1>t, <2>1 DEF Hub!Connect, Lives
  <2>2. CASE Hub!PeerLeaves(s)
    BY <1>t, <2>2 DEF Hub!PeerLeaves, Lives
  <2>3. CASE Hub!HandlerDisconnects(s)
    <3>1. socket[s] = "broken" /\ socket' = [socket EXCEPT ![s] = "ended"]
      BY <2>3 DEF Hub!HandlerDisconnects
    <3> QED
      BY <1>t, <3>1 DEF Lives
  <2>4. CASE Hub!HandlerFails(s)
    BY <1>t, <2>4 DEF Hub!HandlerFails, Lives
  <2> QED
    BY <1>1, <2>1, <2>2, <2>3, <2>4
<1>2. CASE socket' = socket
  BY <1>2 DEF Lives
<1>3. ASSUME NEW d \in Dispatches, Hub!Advance(d) PROVE socket' = socket
  BY <1>3 DEF Hub!Advance, Hub!Insert, Hub!InsertFails, Hub!Push, Hub!EndPush
<1>4. ASSUME NEW d \in Dispatches, NEW r, NEW celery, Hub!Start(d, r, celery) PROVE socket' = socket
  BY <1>4 DEF Hub!Start
<1>5. ASSUME NEW d, NEW u, Hub!MarkAsRead(d, u) \/ Hub!DeleteNotification(d, u) \/ Hub!MarkAllAsRead(u)
      PROVE  socket' = socket
  BY <1>5 DEF Hub!MarkAsRead, Hub!DeleteNotification, Hub!MarkAllAsRead
<1>6. CASE UNCHANGED Hub!vars
  BY <1>6, <1>2 DEF Hub!vars
<1> QED
  BY <1>1, <1>2, <1>3, <1>4, <1>5, <1>6 DEF Hub!Next

\* The lists after sockets that are gone were taken out.
LEMMA ShrunkLists ==
  ASSUME Hub!TypeOK, Hub!TypeOK', Hub!ListsSound, Hub!LiveSocketsRegistered,
         NEW u \in Users, NEW gone, Shrunk(u, gone), \A s \in gone : socket'[s] \in {"broken", "ended"},
         Lives, \A s \in Sockets : socket'[s] = "open" => socket[s] = "open"
  PROVE  Hub!ListsSound' /\ Hub!LiveSocketsRegistered'
<1>n. \A v \in Users : /\ DOMAIN connections[v] \subseteq Nat /\ DOMAIN connections'[v] \subseteq Nat
                       /\ \A i \in DOMAIN connections[v] : connections[v][i] \in Sockets
  BY DEF Hub!TypeOK
<1>l. \A v \in Users :
        /\ \A j \in DOMAIN connections'[v] : \E i \in DOMAIN connections[v] : connections'[v][j] = connections[v][i]
        /\ \A j, k \in DOMAIN connections'[v] : j < k =>
             \E i, l \in DOMAIN connections[v] :
               i < l /\ connections'[v][j] = connections[v][i] /\ connections'[v][k] = connections[v][l]
        /\ \A i \in DOMAIN connections[v] :
             connections[v][i] \notin gone => \E j \in DOMAIN connections'[v] : connections'[v][j] = connections[v][i]
  <2> SUFFICES ASSUME NEW v \in Users
               PROVE  /\ \A j \in DOMAIN connections'[v] : \E i \in DOMAIN connections[v] :
                           connections'[v][j] = connections[v][i]
                      /\ \A j, k \in DOMAIN connections'[v] : j < k =>
                           \E i, l \in DOMAIN connections[v] :
                             i < l /\ connections'[v][j] = connections[v][i] /\ connections'[v][k] = connections[v][l]
                      /\ \A i \in DOMAIN connections[v] : connections[v][i] \notin gone =>
                           \E j \in DOMAIN connections'[v] : connections'[v][j] = connections[v][i]
    OBVIOUS
  <2>1. PICK list, D, g :
          /\ list \in Seq(Sockets) /\ D \in Seq(Sockets)
          /\ list = connections[v] /\ D = connections'[v] /\ g = (IF v = u THEN gone ELSE {})
          /\ Leaves(D, list, Len(list), g)
    BY DEF Shrunk
  <2>2. /\ \A j \in DOMAIN D : \E i \in DOMAIN list : j <= i /\ D[j] = list[i] /\ list[i] \notin g
        /\ \A j, k \in DOMAIN D : j < k => \E i, l \in DOMAIN list : i < l /\ D[j] = list[i] /\ D[k] = list[l]
        /\ \A i \in DOMAIN list : list[i] \notin g => \E j \in DOMAIN D : D[j] = list[i]
    <3>1. list \in Seq(Sockets) /\ D \in Seq(Sockets) /\ Leaves(D, list, Len(list), g)
      BY <2>1
    <3> HIDE <2>1
    <3> QED
      BY <3>1, LeavesFacts
  <2>3. \A x : x \notin gone => x \notin g
    BY <2>1
  <2> QED
    BY <2>1, <2>2, <2>3
<1>1. ASSUME NEW v \in Users
      PROVE  /\ \A i \in DOMAIN connections'[v] : UserOf[connections'[v][i]] = v /\ socket'[connections'[v][i]] # "new"
             /\ \A i, j \in DOMAIN connections'[v] : connections'[v][i] = connections'[v][j] => i = j
  <2>1. /\ \A i \in DOMAIN connections[v] : UserOf[connections[v][i]] = v /\ socket[connections[v][i]] # "new"
        /\ \A i, j \in DOMAIN connections[v] : connections[v][i] = connections[v][j] => i = j
    BY DEF Hub!ListsSound
  <2>2. \A i \in DOMAIN connections'[v] : UserOf[connections'[v][i]] = v /\ socket'[connections'[v][i]] # "new"
    BY <1>n, <1>l, <2>1 DEF Lives
  <2>3. ASSUME NEW i \in DOMAIN connections'[v], NEW j \in DOMAIN connections'[v], i < j
        PROVE  connections'[v][i] # connections'[v][j]
    <3>1. PICK k, l \in DOMAIN connections[v] :
            k < l /\ connections'[v][i] = connections[v][k] /\ connections'[v][j] = connections[v][l]
      BY <1>l, <2>3
    <3> QED
      BY <1>n, <2>1, <3>1
  <2>4. \A i, j \in DOMAIN connections'[v] : i < j \/ j < i \/ i = j
    BY <1>n
  <2> QED
    BY <2>2, <2>3, <2>4
<1>2. ASSUME NEW s \in Sockets, socket'[s] = "open"
      PROVE  \E j \in DOMAIN connections'[UserOf[s]] : connections'[UserOf[s]][j] = s
  <2>1. UserOf[s] \in Users /\ s \notin gone /\ socket[s] = "open"
    BY <1>2, UserOfAssumption
  <2>2. \E i \in DOMAIN connections[UserOf[s]] : connections[UserOf[s]][i] = s
    BY <2>1 DEF Hub!LiveSocketsRegistered, Hub!Registered, Hub!ToSet
  <2> QED
    BY <1>l, <2>1, <2>2
<1> QED
  BY <1>1, <1>2 DEF Hub!ListsSound, Hub!LiveSocketsRegistered, Hub!Registered, Hub!ToSet

\* Lists that nothing touches.
LEMMA SameShrunk ==
  ASSUME Hub!TypeOK, connections' = connections, NEW u
  PROVE  Shrunk(u, {})
<1> SUFFICES ASSUME NEW v \in Users
             PROVE  /\ connections[v] \in Seq(Sockets) /\ connections'[v] \in Seq(Sockets)
                    /\ Leaves(connections'[v], connections[v], Len(connections[v]), IF v = u THEN {} ELSE {})
  BY DEF Shrunk
<1>1. connections[v] \in Seq(Sockets)
  BY DEF Hub!TypeOK
<1>2. (IF v = u THEN {} ELSE {}) = {}
  OBVIOUS
<1>3. Leaves(connections[v], connections[v], Len(connections[v]), {})
  BY <1>1, SameLeaves
<1> QED
  BY <1>1, <1>2, <1>3

-----------------------------------------------------------------------------
\* A call that nothing touches.
LEMMA Untouched ==
  ASSUME Hub!TypeOK, Hub!TypeOK', Hub!ListsSound, NEW d \in Dispatches, CallSound(d),
         dispatch'[d] = dispatch[d], connections' = connections, Lives,
         \A s \in Sockets : (pushes'[<<s, d>>] = pushes[<<s, d>>]) /\ (socket[s] = "new" => socket'[s] = "new"),
         \A v \in Users : inbox[<<d, v>>] \in Stored => inbox'[<<d, v>>] \in Stored
  PROVE  CallSound(d)'
<1>1. PICK u \in Users : u = dispatch[d].user
  BY DEF Hub!TypeOK, Hub!Dispatch
<1>2. Shrunk(u, {}) /\ \A s \in {} : socket'[s] \in {"broken", "ended"}
  BY SameShrunk
<1>3. Walks(d, u, connections'[u])
  BY DEF Walks
<1> QED
  BY <1>2, <1>3, Bystander

\* The socket of a new tab goes to the end of its user's list.
LEMMA ConnectStep ==
  ASSUME HubSound, Hub!TypeOK', NEW s \in Sockets, Hub!Connect(s)
  PROVE  HubSound'
<1>s. Hub!TypeOK /\ Hub!ListsSound /\ Hub!LiveSocketsRegistered /\ \A d \in Dispatches : CallSound(d)
  BY DEF HubSound
<1>0. PICK w \in Users : w = UserOf[s]
  BY UserOfAssumption
<1>t. /\ \A v \in Users : connections[v] \in Seq(Sockets) /\ connections'[v] \in Seq(Sockets)
      /\ DOMAIN connections = Users /\ DOMAIN socket = Sockets
  BY <1>s DEF Hub!TypeOK
<1>1. /\ socket[s] = "new" /\ connections'[w] = Append(connections[w], s)
      /\ \A v \in Users : v # w => connections'[v] = connections[v]
      /\ dispatch' = dispatch /\ inbox' = inbox /\ pushes' = pushes
      /\ socket'[s] = "open" /\ \A x \in Sockets : x # s => socket'[x] = socket[x]
  BY <1>0, <1>t DEF Hub!Connect, Hub!Added
<1>2. \A v \in Users :
        /\ \A i \in DOMAIN connections'[v] :
             \/ i \in DOMAIN connections[v] /\ connections'[v][i] = connections[v][i]
             \/ v = w /\ connections'[v][i] = s
        /\ \A i \in DOMAIN connections[v] : i \in DOMAIN connections'[v] /\ connections'[v][i] = connections[v][i]
        /\ \A i, j \in DOMAIN connections'[v] : connections'[v][i] = s /\ connections'[v][j] = s => i = j
        /\ \A i \in DOMAIN connections[v] : connections[v][i] # s
        /\ v = w => \E i \in DOMAIN connections'[v] : connections'[v][i] = s
  <2> SUFFICES ASSUME NEW v \in Users
               PROVE  /\ \A i \in DOMAIN connections'[v] :
                           \/ i \in DOMAIN connections[v] /\ connections'[v][i] = connections[v][i]
                           \/ v = w /\ connections'[v][i] = s
                      /\ \A i \in DOMAIN connections[v] :
                           i \in DOMAIN connections'[v] /\ connections'[v][i] = connections[v][i]
                      /\ \A i, j \in DOMAIN connections'[v] : connections'[v][i] = s /\ connections'[v][j] = s => i = j
                      /\ \A i \in DOMAIN connections[v] : connections[v][i] # s
                      /\ v = w => \E i \in DOMAIN connections'[v] : connections'[v][i] = s
    OBVIOUS
  <2>1. \A i \in DOMAIN connections[v] : connections[v][i] # s
    BY <1>s, <1>1 DEF Hub!ListsSound
  <2>2. CASE v # w
    BY <1>1, <2>1, <2>2
  <2>3. CASE v = w
    <3>1. PICK L \in Seq(Sockets), M \in Seq(Sockets) : L = connections[v] /\ M = connections'[v]
      BY <1>t
    <3>2. M = Append(L, s) /\ \A i \in DOMAIN L : L[i] # s
      BY <1>1, <2>1, <2>3, <3>1
    <3>3. /\ Len(M) = Len(L) + 1 /\ Len(L) \in Nat /\ M[Len(L) + 1] = s /\ \A i \in 1 .. Len(L) : M[i] = L[i]
          /\ DOMAIN M = 1 .. Len(M) /\ DOMAIN L = 1 .. Len(L)
      BY <3>2, Sequel
    <3>4. \A i \in DOMAIN M : i \in DOMAIN L \/ i = Len(L) + 1
      BY <3>3
    <3>5. /\ \A i \in DOMAIN M : (i \in DOMAIN L /\ M[i] = L[i]) \/ M[i] = s
          /\ \A i \in DOMAIN L : i \in DOMAIN M /\ M[i] = L[i]
      BY <3>3, <3>4
    <3>6. \A i, j \in DOMAIN M : M[i] = s /\ M[j] = s => i = j
      BY <3>2, <3>3, <3>4
    <3>7. \E i \in DOMAIN M : M[i] = s
      BY <3>3
    <3> QED
      BY <2>1, <2>3, <3>1, <3>5, <3>6, <3>7
  <2> QED
    BY <2>2, <2>3
<1>3. Hub!ListsSound'
  <2>1. ASSUME NEW v \in Users
        PROVE  /\ \A i \in DOMAIN connections'[v] : UserOf[connections'[v][i]] = v /\ socket'[connections'[v][i]] # "new"
               /\ \A i, j \in DOMAIN connections'[v] : connections'[v][i] = connections'[v][j] => i = j
    <3>1. /\ \A i \in DOMAIN connections[v] : UserOf[connections[v][i]] = v /\ socket[connections[v][i]] # "new"
          /\ \A i, j \in DOMAIN connections[v] : connections[v][i] = connections[v][j] => i = j
          /\ \A i \in DOMAIN connections[v] : connections[v][i] \in Sockets
      BY <1>s, <1>t DEF Hub!ListsSound
    <3>2. \A i \in DOMAIN connections'[v] : UserOf[connections'[v][i]] = v /\ socket'[connections'[v][i]] # "new"
      BY <1>0, <1>1, <1>2, <3>1
    <3>3. \A i, j \in DOMAIN connections'[v] : connections'[v][i] = connections'[v][j] => i = j
      BY <1>2, <3>1
    <3> QED
      BY <3>2, <3>3
  <2> QED
    BY <2>1 DEF Hub!ListsSound
<1>4. Hub!LiveSocketsRegistered'
  <2>1. ASSUME NEW x \in Sockets, socket'[x] = "open"
        PROVE  \E i \in DOMAIN connections'[UserOf[x]] : connections'[UserOf[x]][i] = x
    <3>1. CASE x = s
      BY <1>0, <1>2, <3>1
    <3>2. CASE x # s
      <4>1. UserOf[x] \in Users /\ socket[x] = "open"
        BY <1>1, <2>1, <3>2, UserOfAssumption
      <4>2. \E i \in DOMAIN connections[UserOf[x]] : connections[UserOf[x]][i] = x
        BY <1>s, <4>1 DEF Hub!LiveSocketsRegistered, Hub!Registered, Hub!ToSet
      <4> QED
        BY <1>2, <4>1, <4>2
    <3> QED
      BY <3>1, <3>2
  <2> QED
    BY <2>1 DEF Hub!LiveSocketsRegistered, Hub!Registered, Hub!ToSet
<1>5. ASSUME NEW d \in Dispatches PROVE CallSound(d)'
  <2>0. PICK v \in Users, aud \in SUBSET Sockets : v = dispatch[d].user /\ aud = dispatch[d].audience
    BY <1>s DEF Hub!TypeOK, Hub!Dispatch
  <2>p. dispatch'[d] = dispatch[d] /\ \A x \in Sockets : pushes'[<<x, d>>] = pushes[<<x, d>>]
    BY <1>1
  <2>1. AheadFor(d)'
    <3> SUFFICES ASSUME NEW x \in Sockets,
                        \/ dispatch'[d].pc = "idle" \/ socket'[x] = "new" \/ UserOf[x] \in dispatch'[d].left
                        \/ dispatch'[d].pc = "insert" /\ dispatch'[d].user = UserOf[x]
                        \/ /\ dispatch'[d].pc = "push" /\ dispatch'[d].user = UserOf[x] /\ ~dispatch'[d].over
                           /\ \E i \in DOMAIN connections'[UserOf[x]] :
                                i >= dispatch'[d].next /\ connections'[UserOf[x]][i] = x
                 PROVE  pushes[<<x, d>>] = 0
      BY <2>p DEF AheadFor
    <3>0. UserOf[x] \in Users
      BY UserOfAssumption
    <3>1. CASE x = s
      BY <1>s, <1>1, <3>1 DEF CallSound, AheadFor
    <3>2. CASE x # s
      <4>1. \A i \in DOMAIN connections'[UserOf[x]] : connections'[UserOf[x]][i] = x =>
              i \in DOMAIN connections[UserOf[x]] /\ connections[UserOf[x]][i] = x
        BY <1>2, <3>0, <3>2
      <4>2. socket'[x] = socket[x]
        BY <1>1, <3>2
      <4> QED
        BY <1>s, <2>p, <4>1, <4>2 DEF CallSound, AheadFor
    <3> QED
      BY <3>1, <3>2
  <2>2. TurnFor(d)' /\ PushedFor(d)'
    BY <1>s, <1>1 DEF CallSound, TurnFor, PushedFor
  <2>3. DeadFor(d)'
    <3>1. \A x \in dispatch[d].dead : x \in Sockets
      BY <1>s DEF Hub!TypeOK, Hub!Dispatch
    <3> QED
      BY <1>s, <1>1, <3>1 DEF CallSound, DeadFor
  <2>4. AudienceFor(d)'
    <3> SUFFICES ASSUME dispatch[d].pc = "push" PROVE AudienceFor(d)'
      BY <2>p DEF AudienceFor
    <3>1. \A x \in aud : socket[x] # "new" /\ UserOf[x] = v
      BY <1>s, <2>0 DEF CallSound, AudienceFor
    <3>2. \A x \in aud : socket'[x] # "new" /\ x # s
      BY <1>1, <3>1
    <3> SUFFICES ASSUME ~dispatch[d].celery, aud \subseteq Hub!Registered(v)'
                 PROVE  /\ dispatch[d].over => aud = {}
                        /\ \A i, j \in DOMAIN connections'[v] :
                             i < j /\ connections'[v][j] \in aud => connections'[v][i] \in aud
                        /\ \A i \in DOMAIN connections'[v] : i < dispatch[d].next /\ connections'[v][i] \in aud =>
                             pushes[<<connections'[v][i], d>>] > 0 \/ connections'[v][i] \in dispatch[d].dead
      BY <1>1, <2>0, <2>p, <3>1, <3>2 DEF AudienceFor
    <3>3. \A x \in aud : \E i \in DOMAIN connections'[v] : connections'[v][i] = x
      BY DEF Hub!Registered, Hub!ToSet
    <3>4. aud \subseteq Hub!Registered(v)
      BY <1>2, <3>2, <3>3 DEF Hub!Registered, Hub!ToSet
    <3>5. /\ dispatch[d].over => aud = {}
          /\ \A i, j \in DOMAIN connections[v] : i < j /\ connections[v][j] \in aud => connections[v][i] \in aud
          /\ \A i \in DOMAIN connections[v] : i < dispatch[d].next /\ connections[v][i] \in aud =>
               pushes[<<connections[v][i], d>>] > 0 \/ connections[v][i] \in dispatch[d].dead
      BY <1>s, <2>0, <3>4 DEF CallSound, AudienceFor
    <3>6. ASSUME NEW i \in DOMAIN connections'[v], connections'[v][i] \in aud
          PROVE  i \in DOMAIN connections[v] /\ connections'[v][i] = connections[v][i]
      BY <1>2, <3>2, <3>6
    <3>7. ASSUME NEW i \in DOMAIN connections'[v], NEW j \in DOMAIN connections'[v], i < j, connections'[v][j] \in aud
          PROVE  connections'[v][i] \in aud
      <4>1. j \in DOMAIN connections[v] /\ connections[v][j] \in aud
        BY <3>6, <3>7
      <4>2. i \in DOMAIN connections[v]
        BY <1>t, <3>7, <4>1
      <4> QED
        BY <1>2, <3>5, <3>7, <4>1, <4>2
    <3> QED
      BY <3>5, <3>6, <3>7
  <2> QED
    BY <2>1, <2>2, <2>3, <2>4 DEF CallSound
<1> QED
  BY <1>3, <1>4, <1>5 DEF HubSound

-----------------------------------------------------------------------------
\* A call turns to the next recipient, or ends: it has sent nothing to those to come.
LEMMA NextRecipient ==
  ASSUME Hub!TypeOK, Lives, NEW d \in Dispatches, CallSound(d), PushedFor(d)', dispatch[d].pc # "done",
         \A s \in Sockets : pushes'[<<s, d>>] = pushes[<<s, d>>],
         dispatch[d].pc = "idle" \/ dispatch'[d].left \subseteq dispatch[d].left,
         \/ dispatch'[d].pc = "done" /\ dispatch'[d].left = {}
         \/ /\ dispatch'[d].pc = "insert" /\ dispatch'[d].user \notin dispatch'[d].left
            /\ dispatch[d].pc = "idle" \/ dispatch'[d].user \in dispatch[d].left
  PROVE  CallSound(d)'
<1>1. AheadFor(d)'
  <2> SUFFICES ASSUME NEW s \in Sockets,
                      \/ socket'[s] = "new" \/ UserOf[s] \in dispatch'[d].left
                      \/ dispatch'[d].pc = "insert" /\ dispatch'[d].user = UserOf[s]
               PROVE  pushes[<<s, d>>] = 0
    BY DEF AheadFor
  <2> QED
    BY DEF CallSound, AheadFor, Lives
<1>2. TurnFor(d)' /\ DeadFor(d)' /\ AudienceFor(d)'
  BY DEF TurnFor, DeadFor, AudienceFor
<1> QED
  BY <1>1, <1>2 DEF CallSound

\* The document of a recipient, and the start of its walk.
LEMMA InsertSound ==
  ASSUME HubSound, Hub!TypeOK', Lives, NEW d \in Dispatches, Hub!Insert(d)
  PROVE  CallSound(d)'
<1>s. Hub!TypeOK /\ Hub!ListsSound /\ CallSound(d)
  BY DEF HubSound
<1>0. PICK u \in Users : u = dispatch[d].user
  BY <1>s DEF Hub!TypeOK, Hub!Dispatch
<1>r. DOMAIN dispatch = Dispatches /\ dispatch[d] \in Hub!Dispatch /\ DOMAIN inbox = Dispatches \X Users
  BY <1>s DEF Hub!TypeOK
<1>o. PICK o : o = (dispatch[d].celery \/ connections[u] = <<>>)
  BY Zenon
<1>1. /\ dispatch[d].pc = "insert" /\ connections' = connections /\ socket' = socket /\ pushes' = pushes
      /\ inbox' = [inbox EXCEPT ![<<d, u>>] = "unread"]
      /\ dispatch' = [dispatch EXCEPT ![d] =
                        [dispatch[d] EXCEPT !.pc = "push", !.next = 1, !.dead = {},
                                            !.audience = Hub!Registered(u), !.over = o]]
  BY <1>0, <1>o DEF Hub!Insert, Hub!Goes
<1>2. /\ dispatch'[d].pc = "push" /\ dispatch'[d].next = 1 /\ dispatch'[d].dead = {}
      /\ dispatch'[d].audience = Hub!Registered(u) /\ dispatch'[d].user = u
      /\ dispatch'[d].left = dispatch[d].left /\ dispatch'[d].celery = dispatch[d].celery
  BY <1>0, <1>1, <1>r DEF Hub!Dispatch
<1>3. dispatch'[d].over = o
  BY <1>1, <1>r DEF Hub!Dispatch
<1>4. inbox'[<<d, u>>] = "unread" /\ \A v \in Users : v # u => inbox'[<<d, v>>] = inbox[<<d, v>>]
  BY <1>1, <1>r
<1>5. \A i \in DOMAIN connections[u] : connections[u][i] \in Hub!Registered(u)
  BY DEF Hub!Registered, Hub!ToSet
<1>6. \A s \in Hub!Registered(u) : socket[s] # "new" /\ UserOf[s] = u
  BY <1>s DEF Hub!Registered, Hub!ToSet, Hub!ListsSound
<1>7. AheadFor(d)'
  <2> SUFFICES ASSUME NEW s \in Sockets,
                      \/ socket[s] = "new" \/ UserOf[s] \in dispatch[d].left
                      \/ u = UserOf[s]
               PROVE  pushes[<<s, d>>] = 0
    BY <1>1, <1>2 DEF AheadFor
  <2> QED
    BY <1>s, <1>0, <1>1 DEF CallSound, AheadFor
<1>8. TurnFor(d)'
  BY <1>s, <1>0, <1>1, <1>2, <1>4 DEF CallSound, TurnFor, Stored
<1>9. DeadFor(d)'
  BY <1>2 DEF DeadFor
<1>10. PushedFor(d)'
  <2> SUFFICES ASSUME NEW s \in Sockets
               PROVE  pushes[<<s, d>>] <= 1 /\ (pushes[<<s, d>>] > 0 => inbox'[<<d, UserOf[s]>>] \in Stored)
    BY <1>1 DEF PushedFor
  <2>1. UserOf[s] \in Users /\ pushes[<<s, d>>] <= 1 /\ (pushes[<<s, d>>] > 0 => inbox[<<d, UserOf[s]>>] \in Stored)
    BY <1>s, UserOfAssumption DEF CallSound, PushedFor
  <2> QED
    BY <1>4, <2>1 DEF Stored
<1>11. AudienceFor(d)'
  <2> SUFFICES /\ \A s \in Hub!Registered(u) : socket[s] # "new" /\ UserOf[s] = u
               /\ ~dispatch[d].celery => (o => Hub!Registered(u) = {})
               /\ \A i \in DOMAIN connections[u] : connections[u][i] \in Hub!Registered(u) /\ ~(i < 1)
    BY <1>1, <1>2, <1>3 DEF AudienceFor
  <2>1. \A i \in DOMAIN connections[u] : ~(i < 1)
    BY <1>s DEF Hub!TypeOK
  <2>2. connections[u] = <<>> => Hub!Registered(u) = {}
    BY DEF Hub!Registered, Hub!ToSet
  <2> QED
    BY <1>o, <1>5, <1>6, <2>1, <2>2
<1> QED
  BY <1>7, <1>8, <1>9, <1>10, <1>11 DEF CallSound

\* One turn of the walk: the socket at the index was sent nothing yet.
LEMMA PushSound ==
  ASSUME HubSound, Hub!TypeOK', Lives, NEW d \in Dispatches, Hub!Push(d)
  PROVE  CallSound(d)'
<1>s. Hub!TypeOK /\ Hub!ListsSound /\ CallSound(d) /\ Hub!InTurn
  BY HubSoundIs DEF HubSound, Hub!IInv
<1>w. Hub!Walking(d) /\ dispatch[d].pc = "push" /\ ~dispatch[d].over
  BY DEF Hub!Push, Hub!Walking
<1>0. PICK u \in Users, n \in Nat, L \in Seq(Sockets), s \in Sockets :
        /\ u = dispatch[d].user /\ n = dispatch[d].next /\ L = connections[u] /\ s = L[n] /\ n \in DOMAIN L
        /\ s = connections[dispatch[d].user][dispatch[d].next]
  BY <1>s, <1>w, Turn
<1>r. /\ DOMAIN dispatch = Dispatches /\ dispatch[d] \in Hub!Dispatch
      /\ pushes \in [Sockets \X Dispatches -> Nat] /\ DOMAIN L \subseteq Nat
  BY <1>s DEF Hub!TypeOK
<1>1. /\ connections' = connections /\ socket' = socket /\ inbox' = inbox
      /\ \/ /\ socket[s] \in {"open", "broken"}
            /\ pushes' = [pushes EXCEPT ![<<s, d>>] = @ + 1]
            /\ dispatch' = [dispatch EXCEPT ![d] = [dispatch[d] EXCEPT !.next = @ + 1]]
         \/ /\ socket[s] \in {"broken", "ended"}
            /\ pushes' = pushes
            /\ dispatch' = [dispatch EXCEPT ![d] = [dispatch[d] EXCEPT !.next = @ + 1, !.dead = @ \cup {s}]]
  BY <1>0 DEF Hub!Push, Hub!Goes
<1>p. PICK c, e, f :
        /\ c \in Hub!Dispatch /\ c = dispatch[d]
        /\ e = [c EXCEPT !.next = @ + 1] /\ f = [c EXCEPT !.next = @ + 1, !.dead = @ \cup {s}]
  BY <1>r
<1> c \in Hub!Dispatch
  BY <1>p
<1>q. /\ c.next = n /\ c.user = u /\ c.pc = "push" /\ c.next \in Nat
      /\ e.pc = c.pc /\ e.user = c.user /\ e.left = c.left /\ e.over = c.over /\ e.celery = c.celery
      /\ e.audience = c.audience /\ e.next = n + 1 /\ e.dead = c.dead
      /\ f.pc = c.pc /\ f.user = c.user /\ f.left = c.left /\ f.over = c.over /\ f.celery = c.celery
      /\ f.audience = c.audience /\ f.next = n + 1 /\ f.dead = c.dead \cup {s}
  <2>1. c.next = n /\ c.user = u /\ c.pc = "push"
    BY <1>0, <1>p, <1>w
  <2>2. /\ e.pc = c.pc /\ e.user = c.user /\ e.left = c.left /\ e.over = c.over /\ e.celery = c.celery
        /\ e.audience = c.audience /\ e.next = c.next + 1 /\ e.dead = c.dead
    BY <1>p DEF Hub!Dispatch
  <2>3. /\ f.pc = c.pc /\ f.user = c.user /\ f.left = c.left /\ f.over = c.over /\ f.celery = c.celery
        /\ f.audience = c.audience /\ f.next = c.next + 1 /\ f.dead = c.dead \cup {s}
    BY <1>p DEF Hub!Dispatch
  <2> QED
    BY <2>1, <2>2, <2>3
<1>u. \/ dispatch'[d] = e /\ socket[s] \in {"open", "broken"} /\ pushes' = [pushes EXCEPT ![<<s, d>>] = @ + 1]
      \/ dispatch'[d] = f /\ socket[s] \in {"broken", "ended"} /\ pushes' = pushes
  BY <1>1, <1>p, <1>r
<1>2. /\ dispatch'[d].pc = "push" /\ dispatch'[d].user = u /\ dispatch'[d].left = dispatch[d].left
      /\ dispatch'[d].next = n + 1 /\ dispatch'[d].over = dispatch[d].over
      /\ dispatch'[d].celery = dispatch[d].celery /\ dispatch'[d].audience = dispatch[d].audience
      /\ dispatch[d].dead \subseteq dispatch'[d].dead /\ dispatch'[d].dead \subseteq dispatch[d].dead \cup {s}
  BY <1>p, <1>q, <1>u
<1>3. /\ \A x \in Sockets : x # s => pushes'[<<x, d>>] = pushes[<<x, d>>]
      /\ \/ pushes'[<<s, d>>] = pushes[<<s, d>>] + 1
         \/ /\ pushes'[<<s, d>>] = pushes[<<s, d>>] /\ s \in dispatch'[d].dead
            /\ socket[s] \in {"broken", "ended"}
      /\ s \in dispatch'[d].dead => s \in dispatch[d].dead \/ socket[s] \in {"broken", "ended"}
  <2>1. CASE dispatch'[d] = e /\ pushes' = [pushes EXCEPT ![<<s, d>>] = @ + 1]
    <3>1. <<s, d>> \in DOMAIN pushes /\ \A x \in Sockets : x # s => <<x, d>> \in DOMAIN pushes /\ <<x, d>> # <<s, d>>
      BY <1>r
    <3>2. pushes'[<<s, d>>] = pushes[<<s, d>>] + 1 /\ \A x \in Sockets : x # s => pushes'[<<x, d>>] = pushes[<<x, d>>]
      BY <2>1, <3>1
    <3> QED
      BY <1>p, <1>q, <2>1, <3>2
  <2>2. CASE dispatch'[d] = f /\ socket[s] \in {"broken", "ended"} /\ pushes' = pushes
    BY <1>p, <1>q, <2>2
  <2> QED
    BY <1>u, <2>1, <2>2
<1>4. /\ UserOf[s] = u /\ socket[s] # "new" /\ \A i \in DOMAIN L : L[i] = s => i = n
  BY <1>s, <1>0 DEF Hub!ListsSound
<1>5. pushes[<<s, d>>] = 0
  <2>1. \E i \in DOMAIN connections[UserOf[s]] : i >= dispatch[d].next /\ connections[UserOf[s]][i] = s
    BY <1>0, <1>4
  <2> QED
    BY <1>s, <1>w, <1>0, <1>4, <2>1 DEF CallSound, AheadFor
<1>6. AheadFor(d)'
  <2> SUFFICES ASSUME NEW x \in Sockets,
                      \/ socket[x] = "new" \/ UserOf[x] \in dispatch[d].left
                      \/ UserOf[x] = u /\ \E i \in DOMAIN connections[UserOf[x]] :
                                            i >= n + 1 /\ connections[UserOf[x]][i] = x
               PROVE  pushes'[<<x, d>>] = 0
    BY <1>1, <1>2 DEF AheadFor
  <2>1. x # s
    <3>1. u \notin dispatch[d].left
      BY <1>s, <1>0, <1>w DEF CallSound, TurnFor
    <3>2. \A i \in DOMAIN L : i >= n + 1 => i # n
      BY <1>r
    <3> QED
      BY <1>0, <1>4, <3>1, <3>2
  <2>2. \A i \in DOMAIN L : i >= n + 1 => i >= n
    BY <1>r
  <2>3. pushes[<<x, d>>] = 0
    <3>1. CASE socket[x] = "new" \/ UserOf[x] \in dispatch[d].left
      BY <1>s, <3>1 DEF CallSound, AheadFor
    <3>2. CASE UserOf[x] = u /\ \E i \in DOMAIN connections[UserOf[x]] :
                                  i >= n + 1 /\ connections[UserOf[x]][i] = x
      <4>1. \E i \in DOMAIN connections[UserOf[x]] : i >= dispatch[d].next /\ connections[UserOf[x]][i] = x
        BY <1>0, <2>2, <3>2
      <4> QED
        BY <1>s, <1>w, <1>0, <3>2, <4>1 DEF CallSound, AheadFor
    <3> QED
      BY <3>1, <3>2
  <2> QED
    BY <1>3, <2>1, <2>3
<1>7. TurnFor(d)'
  BY <1>s, <1>0, <1>1, <1>2, <1>w DEF CallSound, TurnFor
<1>8. DeadFor(d)'
  BY <1>s, <1>1, <1>2, <1>3, <1>w DEF CallSound, DeadFor
<1>9. PushedFor(d)'
  <2> SUFFICES ASSUME NEW x \in Sockets
               PROVE  pushes'[<<x, d>>] <= 1 /\ (pushes'[<<x, d>>] > 0 => inbox[<<d, UserOf[x]>>] \in Stored)
    BY <1>1 DEF PushedFor
  <2>1. pushes[<<x, d>>] <= 1 /\ (pushes[<<x, d>>] > 0 => inbox[<<d, UserOf[x]>>] \in Stored)
    BY <1>s DEF CallSound, PushedFor
  <2>2. inbox[<<d, u>>] \in Stored
    BY <1>s, <1>w, <1>0 DEF CallSound, TurnFor
  <2>3. CASE x = s
    BY <1>3, <1>4, <1>5, <2>2, <2>3
  <2>4. CASE x # s
    BY <1>3, <2>1, <2>4
  <2> QED
    BY <2>3, <2>4
<1>10. AudienceFor(d)'
  <2>1. PICK aud : aud = dispatch[d].audience
    OBVIOUS
  <2>2. \A x \in aud : socket[x] # "new" /\ UserOf[x] = u
    BY <1>s, <1>w, <1>0, <2>1 DEF CallSound, AudienceFor
  <2>3. Hub!Registered(u)' = Hub!Registered(u)
    BY <1>1 DEF Hub!Registered
  <2> SUFFICES ASSUME ~dispatch[d].celery, aud \subseteq Hub!Registered(u)
               PROVE  /\ dispatch[d].over => aud = {}
                      /\ \A i, j \in DOMAIN L : i < j /\ L[j] \in aud => L[i] \in aud
                      /\ \A i \in DOMAIN L : i < n + 1 /\ L[i] \in aud =>
                           pushes'[<<L[i], d>>] > 0 \/ L[i] \in dispatch'[d].dead
    BY <1>0, <1>1, <1>2, <2>1, <2>2, <2>3 DEF AudienceFor
  <2>4. /\ dispatch[d].over => aud = {}
        /\ \A i, j \in DOMAIN L : i < j /\ L[j] \in aud => L[i] \in aud
        /\ \A i \in DOMAIN L : i < n /\ L[i] \in aud => pushes[<<L[i], d>>] > 0 \/ L[i] \in dispatch[d].dead
    BY <1>s, <1>w, <1>0, <2>1 DEF CallSound, AudienceFor
  <2>5. ASSUME NEW i \in DOMAIN L, i < n + 1, L[i] \in aud
        PROVE  pushes'[<<L[i], d>>] > 0 \/ L[i] \in dispatch'[d].dead
    <3>1. CASE i = n
      BY <1>0, <1>3, <1>5, <3>1
    <3>2. CASE i # n
      <4>1. i < n /\ L[i] \in Sockets /\ L[i] # s
        BY <1>0, <1>4, <1>r, <2>5, <3>2
      <4> QED
        BY <1>2, <1>3, <2>4, <2>5, <4>1
    <3> QED
      BY <3>1, <3>2
  <2> QED
    BY <2>4, <2>5
<1> QED
  BY <1>6, <1>7, <1>8, <1>9, <1>10 DEF CallSound

-----------------------------------------------------------------------------
\* The invariant holds at the start.
LEMMA HubInit == Hub!Init => HubSound
<1> SUFFICES ASSUME Hub!Init PROVE HubSound
  OBVIOUS
<1>1. PICK u \in Users :
        dispatch = [d \in Dispatches |-> [pc |-> "idle", celery |-> FALSE, left |-> {}, user |-> u, next |-> 1,
                                          over |-> TRUE, dead |-> {}, audience |-> {}]]
  BY DEF Hub!Init
<1>2. /\ connections = [v \in Users |-> <<>>] /\ socket = [s \in Sockets |-> "new"]
      /\ inbox = [du \in Dispatches \X Users |-> "none"] /\ pushes = [sd \in Sockets \X Dispatches |-> 0]
  BY DEF Hub!Init
<1>3. Hub!TypeOK
  <2>1. dispatch \in [Dispatches -> Hub!Dispatch]
    BY <1>1 DEF Hub!Dispatch
  <2>2. pushes \in [Sockets \X Dispatches -> Nat] /\ inbox \in [Dispatches \X Users -> Hub!InboxStates]
    BY <1>2 DEF Hub!InboxStates
  <2>3. DOMAIN connections = Users /\ \A v \in Users : connections[v] \in Seq(Sockets)
    BY <1>2
  <2>4. socket \in [Sockets -> Hub!SocketStates]
    BY <1>2 DEF Hub!SocketStates
  <2> QED
    BY <2>1, <2>2, <2>3, <2>4 DEF Hub!TypeOK
<1>4. Hub!ListsSound
  <2>1. \A v \in Users : DOMAIN connections[v] = {}
    BY <1>2
  <2> QED
    BY <2>1 DEF Hub!ListsSound
<1>5. Hub!LiveSocketsRegistered
  BY <1>2 DEF Hub!LiveSocketsRegistered
<1>6. ASSUME NEW d \in Dispatches PROVE CallSound(d)
  <2>1. dispatch[d].pc = "idle" /\ \A s \in Sockets : pushes[<<s, d>>] = 0
    BY <1>1, <1>2
  <2> QED
    BY <2>1 DEF CallSound, AheadFor, TurnFor, DeadFor, PushedFor, AudienceFor
<1> QED
  BY <1>3, <1>4, <1>5, <1>6 DEF HubSound

\* A step of the calls that leaves the manager and the sockets alone.
LEMMA ListsStay ==
  ASSUME Hub!ListsSound, Hub!LiveSocketsRegistered, connections' = connections, socket' = socket
  PROVE  Hub!ListsSound' /\ Hub!LiveSocketsRegistered'
BY DEF Hub!ListsSound, Hub!LiveSocketsRegistered, Hub!Registered

\* One step per action.
LEMMA HubStep == HubSound /\ [Hub!Next]_(Hub!vars) => HubSound'
<1> SUFFICES ASSUME HubSound, [Hub!Next]_(Hub!vars) PROVE HubSound'
  OBVIOUS
<1>s. /\ Hub!TypeOK /\ Hub!ListsSound /\ Hub!LiveSocketsRegistered /\ \A d \in Dispatches : CallSound(d)
      /\ Hub!InTurn
  BY HubSoundIs DEF HubSound, Hub!IInv
<1>p. Hub!TypeOK'
  BY <1>s, HubTypeStep
<1>l. Lives
  BY <1>s, SocketsLive
<1>t. /\ dispatch \in [Dispatches -> Hub!Dispatch] /\ socket \in [Sockets -> Hub!SocketStates]
      /\ DOMAIN inbox = Dispatches \X Users
  BY <1>s DEF Hub!TypeOK
<1>d. \A d \in Dispatches : dispatch[d] \in Hub!Dispatch /\ dispatch[d].user \in Users /\ dispatch[d].left \subseteq Users
  BY <1>t DEF Hub!Dispatch
\* The other calls, when one call makes a step that leaves the manager alone.
<1>o. ASSUME NEW d \in Dispatches, connections' = connections, socket' = socket,
             \A c \in Dispatches : c # d => dispatch'[c] = dispatch[c],
             \A c \in Dispatches, s \in Sockets : c # d => pushes'[<<s, c>>] = pushes[<<s, c>>],
             \A c \in Dispatches, v \in Users : c # d => inbox'[<<c, v>>] = inbox[<<c, v>>],
             CallSound(d)'
      PROVE  HubSound'
  <2>1. ASSUME NEW c \in Dispatches, c # d PROVE CallSound(c)'
    <3>1. /\ \A s \in Sockets : pushes'[<<s, c>>] = pushes[<<s, c>>] /\ (socket[s] = "new" => socket'[s] = "new")
          /\ \A v \in Users : inbox[<<c, v>>] \in Stored => inbox'[<<c, v>>] \in Stored
          /\ dispatch'[c] = dispatch[c] /\ CallSound(c)
      BY <1>s, <1>o, <2>1
    <3> QED
      BY <1>s, <1>p, <1>l, <1>o, <3>1, Untouched
  <2>2. \A c \in Dispatches : CallSound(c)'
    BY <1>o, <2>1
  <2>3. Hub!ListsSound' /\ Hub!LiveSocketsRegistered'
    BY <1>s, <1>o, ListsStay
  <2> QED
    BY <1>p, <2>2, <2>3 DEF HubSound
<1>1. ASSUME NEW s \in Sockets, Hub!Connect(s) PROVE HubSound'
  BY <1>1, <1>p, ConnectStep
<1>2. ASSUME NEW s \in Sockets, Hub!PeerLeaves(s) \/ Hub!HandlerFails(s) PROVE HubSound'
  <2>1. /\ connections' = connections /\ dispatch' = dispatch /\ inbox' = inbox /\ pushes' = pushes
        /\ socket[s] = "open" /\ \E x \in {"broken", "ended"} : socket' = [socket EXCEPT ![s] = x]
    BY <1>2 DEF Hub!PeerLeaves, Hub!HandlerFails
  <2>2. \A x \in Sockets : /\ socket[x] = "new" => socket'[x] = "new"
                           /\ socket'[x] = "open" => socket[x] = "open"
    BY <1>t, <2>1
  <2>3. PICK u \in Users : u = UserOf[s]
    BY UserOfAssumption
  <2>4. Shrunk(u, {}) /\ \A x \in {} : socket'[x] \in {"broken", "ended"}
    BY <1>s, <2>1, SameShrunk
  <2>5. Hub!ListsSound' /\ Hub!LiveSocketsRegistered'
    BY <1>s, <1>p, <1>l, <2>2, <2>4, ShrunkLists
  <2>6. ASSUME NEW c \in Dispatches PROVE CallSound(c)'
    <3>1. /\ \A x \in Sockets : pushes'[<<x, c>>] = pushes[<<x, c>>] /\ (socket[x] = "new" => socket'[x] = "new")
          /\ \A v \in Users : inbox[<<c, v>>] \in Stored => inbox'[<<c, v>>] \in Stored
          /\ dispatch'[c] = dispatch[c] /\ CallSound(c)
      BY <1>s, <2>1, <2>2
    <3> QED
      BY <1>s, <1>p, <1>l, <2>1, <3>1, Untouched
  <2> QED
    BY <1>p, <2>5, <2>6 DEF HubSound
<1>3. ASSUME NEW s \in Sockets, Hub!HandlerDisconnects(s) PROVE HubSound'
  <2>0. PICK u, list : u \in Users /\ u = UserOf[s] /\ list = Hub!Dropped(connections[u], {s})
    BY UserOfAssumption
  <2> u \in Users
    BY <2>0
  <2>1. /\ connections' = [connections EXCEPT ![u] = Hub!Dropped(connections[u], {s})]
        /\ connections' = [connections EXCEPT ![u] = list]
        /\ dispatch' = Hub!Detached(u, list) /\ inbox' = inbox /\ pushes' = pushes
        /\ socket[s] = "broken" /\ socket' = [socket EXCEPT ![s] = "ended"]
    BY <1>3, <2>0 DEF Hub!HandlerDisconnects
  <2>2. \A x \in Sockets : /\ socket[x] = "new" => socket'[x] = "new"
                           /\ socket'[x] = "open" => socket[x] = "open"
    BY <1>t, <2>1
  <2>3. Shrunk(u, {s}) /\ \A x \in {s} : socket'[x] \in {"broken", "ended"}
    BY <1>s, <1>t, <2>1, Shrinks
  <2>4. connections'[u] = list
    BY <1>s, <2>1 DEF Hub!TypeOK
  <2>5. Hub!ListsSound' /\ Hub!LiveSocketsRegistered'
    BY <1>s, <1>p, <1>l, <2>2, <2>3, ShrunkLists
  <2>6. ASSUME NEW c \in Dispatches PROVE CallSound(c)'
    <3>1. /\ \A x \in Sockets : pushes'[<<x, c>>] = pushes[<<x, c>>] /\ (socket[x] = "new" => socket'[x] = "new")
          /\ \A v \in Users : inbox[<<c, v>>] \in Stored => inbox'[<<c, v>>] \in Stored
          /\ CallSound(c)
      BY <1>s, <2>1, <2>2
    <3>2. dispatch'[c] = Hub!Detached(u, list)[c]
      BY <2>1
    <3>3. Walks(c, u, connections'[u])
      BY <1>s, <2>4, <3>2, DetachedFields
    <3> QED
      BY <1>s, <1>p, <1>l, <2>3, <3>1, <3>3, Bystander
  <2> QED
    BY <1>p, <2>5, <2>6 DEF HubSound
<1>4. ASSUME NEW d \in Dispatches, NEW r \in SUBSET Users, NEW celery \in BOOLEAN, Hub!Start(d, r, celery)
      PROVE  HubSound'
  <2>1. PICK c \in Hub!Dispatch : c = [dispatch[d] EXCEPT !.celery = celery]
    BY <1>d, Calls
  <2>2. Hub!Onwards(d, c, r) /\ dispatch[d].pc = "idle" /\ UNCHANGED <<connections, socket, inbox, pushes>>
    BY <1>4, <2>1 DEF Hub!Start, Hub!Onwards, Hub!Goes
  <2>3. PICK new \in Hub!Dispatch :
          /\ dispatch' = [dispatch EXCEPT ![d] = new]
          /\ \/ new.pc = "done" /\ new.left = {}
             \/ new.pc = "insert" /\ new.left = r \ {new.user}
    BY <1>t, <2>2, OnwardsCall
  <2>4. dispatch'[d] = new /\ \A c2 \in Dispatches : c2 # d => dispatch'[c2] = dispatch[c2]
    BY <1>t, <2>3
  <2>5. CallSound(d)'
    <3>1. PushedFor(d)'
      BY <1>s, <2>2 DEF CallSound, PushedFor
    <3>2. CallSound(d) /\ dispatch[d].pc # "done" /\ \A s \in Sockets : pushes'[<<s, d>>] = pushes[<<s, d>>]
      BY <1>s, <2>2
    <3>3. \/ dispatch'[d].pc = "done" /\ dispatch'[d].left = {}
          \/ dispatch'[d].pc = "insert" /\ dispatch'[d].user \notin dispatch'[d].left
      BY <2>3, <2>4
    <3> QED
      BY <1>s, <1>l, <2>2, <3>1, <3>2, <3>3, NextRecipient
  <2> QED
    BY <1>o, <2>2, <2>4, <2>5
<1>5. ASSUME NEW d \in Dispatches, Hub!Insert(d) PROVE HubSound'
  <2>1. CallSound(d)'
    BY <1>5, <1>p, <1>l, InsertSound
  <2>2. /\ connections' = connections /\ socket' = socket /\ pushes' = pushes
        /\ inbox' = [inbox EXCEPT ![<<d, dispatch[d].user>>] = "unread"]
    BY <1>5 DEF Hub!Insert
  <2>3. \A c \in Dispatches : c # d => dispatch'[c] = dispatch[c]
    BY <1>5, <1>t DEF Hub!Insert, Hub!Goes
  <2>4. \A c \in Dispatches, v \in Users : c # d => inbox'[<<c, v>>] = inbox[<<c, v>>]
    BY <1>t, <2>2
  <2> QED
    BY <1>o, <2>1, <2>2, <2>3, <2>4
<1>6. ASSUME NEW d \in Dispatches, Hub!InsertFails(d) PROVE HubSound'
  <2>1. PICK c \in Hub!Dispatch, l \in SUBSET Users : c = dispatch[d] /\ l = dispatch[d].left
    BY <1>d
  <2>2. /\ Hub!Onwards(d, c, l) /\ dispatch[d].pc = "insert" /\ UNCHANGED <<connections, socket, pushes>>
        /\ inbox' = [inbox EXCEPT ![<<d, dispatch[d].user>>] = "lost"]
    BY <1>6, <2>1 DEF Hub!InsertFails, Hub!Onwards, Hub!Goes
  <2>3. PICK new \in Hub!Dispatch :
          /\ dispatch' = [dispatch EXCEPT ![d] = new]
          /\ \/ new.pc = "done" /\ new.left = {}
             \/ new.pc = "insert" /\ new.user \in l /\ new.left = l \ {new.user}
    BY <1>t, <2>2, OnwardsCall
  <2>4. dispatch'[d] = new /\ \A c2 \in Dispatches : c2 # d => dispatch'[c2] = dispatch[c2]
    BY <1>t, <2>3
  <2>5. PushedFor(d)'
    <3> SUFFICES ASSUME NEW s \in Sockets
                 PROVE  pushes[<<s, d>>] <= 1 /\ (pushes[<<s, d>>] > 0 => inbox'[<<d, UserOf[s]>>] \in Stored)
      BY <2>2 DEF PushedFor
    <3>1. /\ pushes[<<s, d>>] <= 1 /\ (pushes[<<s, d>>] > 0 => inbox[<<d, UserOf[s]>>] \in Stored)
          /\ UserOf[s] \in Users
      BY <1>s, UserOfAssumption DEF CallSound, PushedFor
    <3>2. UserOf[s] = dispatch[d].user => pushes[<<s, d>>] = 0
      BY <1>s, <2>2 DEF CallSound, AheadFor
    <3>3. UserOf[s] # dispatch[d].user => inbox'[<<d, UserOf[s]>>] = inbox[<<d, UserOf[s]>>]
      BY <1>t, <2>2, <3>1
    <3> QED
      BY <3>1, <3>2, <3>3
  <2>6. CallSound(d)'
    <3>1. CallSound(d) /\ dispatch[d].pc # "done" /\ \A s \in Sockets : pushes'[<<s, d>>] = pushes[<<s, d>>]
      BY <1>s, <2>2
    <3>2. /\ dispatch'[d].left \subseteq dispatch[d].left
          /\ \/ dispatch'[d].pc = "done" /\ dispatch'[d].left = {}
             \/ /\ dispatch'[d].pc = "insert" /\ dispatch'[d].user \notin dispatch'[d].left
                /\ dispatch'[d].user \in dispatch[d].left
      BY <2>1, <2>3, <2>4
    <3> QED
      BY <1>s, <1>l, <2>5, <3>1, <3>2, NextRecipient
  <2>7. \A c2 \in Dispatches, v \in Users : c2 # d => inbox'[<<c2, v>>] = inbox[<<c2, v>>]
    BY <1>t, <2>2
  <2> QED
    BY <1>o, <2>2, <2>4, <2>6, <2>7
<1>7. ASSUME NEW d \in Dispatches, Hub!Push(d) PROVE HubSound'
  <2>1. CallSound(d)'
    BY <1>7, <1>p, <1>l, PushSound
  <2>2. connections' = connections /\ socket' = socket /\ inbox' = inbox
    BY <1>7 DEF Hub!Push
  <2>3. \A c \in Dispatches : c # d => dispatch'[c] = dispatch[c]
    BY <1>7, <1>t DEF Hub!Push, Hub!Goes
  <2>4. \A c \in Dispatches, s \in Sockets : c # d => pushes'[<<s, c>>] = pushes[<<s, c>>]
    <3>1. PICK x : pushes' = [pushes EXCEPT ![<<x, d>>] = @ + 1] \/ pushes' = pushes
      BY <1>7 DEF Hub!Push
    <3>2. DOMAIN pushes = Sockets \X Dispatches
      BY <1>s DEF Hub!TypeOK
    <3> QED
      BY <3>1, <3>2
  <2> QED
    BY <1>o, <2>1, <2>2, <2>3, <2>4
<1>8. ASSUME NEW d \in Dispatches, Hub!EndPush(d) PROVE HubSound'
  <2>0. PICK u, dead, list :
          /\ u \in Users /\ u = dispatch[d].user /\ dead = dispatch[d].dead
          /\ list = Hub!Dropped(connections[u], dead)
    BY <1>d
  <2> u \in Users
    BY <2>0
  <2>1. PICK new \in Hub!Dispatch :
          /\ connections' = [connections EXCEPT ![u] = list]
          /\ dispatch' = [Hub!Detached(u, list) EXCEPT ![d] = new]
          /\ \/ new.pc = "done" /\ new.left = {}
             \/ new.pc = "insert" /\ new.user \in dispatch[d].left /\ new.left = dispatch[d].left \ {new.user}
    BY <1>8, <1>t, <2>0, EndPushCall
  <2>2. dispatch[d].pc = "push" /\ socket' = socket /\ inbox' = inbox /\ pushes' = pushes
    BY <1>8 DEF Hub!EndPush
  <2>3. Shrunk(u, dead) /\ connections'[u] = list
    <3>1. connections' = [connections EXCEPT ![u] = Hub!Dropped(connections[u], dead)]
      BY <2>0, <2>1
    <3> QED
      BY <1>s, <2>1, <3>1, Shrinks DEF Hub!TypeOK
  <2>4. \A s \in dead : socket'[s] \in {"broken", "ended"}
    BY <1>s, <2>0, <2>2 DEF CallSound, DeadFor
  <2>5. Hub!ListsSound' /\ Hub!LiveSocketsRegistered'
    BY <1>s, <1>p, <1>l, <2>2, <2>3, <2>4, ShrunkLists
  <2>d. DOMAIN Hub!Detached(u, list) = Dispatches
    BY DEF Hub!Detached
  <2>6. CallSound(d)'
    <3>1. CallSound(d) /\ dispatch[d].pc # "done" /\ \A s \in Sockets : pushes'[<<s, d>>] = pushes[<<s, d>>]
      BY <1>s, <2>2
    <3>2. PushedFor(d)'
      BY <1>s, <2>2 DEF CallSound, PushedFor
    <3>3. dispatch'[d] = new
      BY <2>1, <2>d
    <3>4. /\ dispatch'[d].left \subseteq dispatch[d].left
          /\ \/ dispatch'[d].pc = "done" /\ dispatch'[d].left = {}
             \/ /\ dispatch'[d].pc = "insert" /\ dispatch'[d].user \notin dispatch'[d].left
                /\ dispatch'[d].user \in dispatch[d].left
      BY <2>1, <3>3
    <3> QED
      BY <1>s, <1>l, <3>1, <3>2, <3>4, NextRecipient
  <2>7. ASSUME NEW c \in Dispatches, c # d PROVE CallSound(c)'
    <3>1. /\ \A x \in Sockets : pushes'[<<x, c>>] = pushes[<<x, c>>] /\ (socket[x] = "new" => socket'[x] = "new")
          /\ \A v \in Users : inbox[<<c, v>>] \in Stored => inbox'[<<c, v>>] \in Stored
          /\ CallSound(c)
      BY <1>s, <2>2
    <3>2. dispatch'[c] = Hub!Detached(u, list)[c]
      BY <2>1, <2>7, <2>d
    <3>3. Walks(c, u, connections'[u])
      BY <1>s, <2>3, <3>2, DetachedFields
    <3> QED
      BY <1>s, <1>p, <1>l, <2>3, <2>4, <3>1, <3>3, Bystander
  <2> QED
    BY <1>p, <2>5, <2>6, <2>7 DEF HubSound
<1>9. ASSUME connections' = connections, socket' = socket, dispatch' = dispatch, pushes' = pushes,
             \A d \in Dispatches, v \in Users : inbox[<<d, v>>] \in Stored => inbox'[<<d, v>>] \in Stored
      PROVE  HubSound'
  <2>1. Hub!ListsSound' /\ Hub!LiveSocketsRegistered'
    BY <1>s, <1>9, ListsStay
  <2>2. ASSUME NEW c \in Dispatches PROVE CallSound(c)'
    <3>1. /\ \A x \in Sockets : pushes'[<<x, c>>] = pushes[<<x, c>>] /\ (socket[x] = "new" => socket'[x] = "new")
          /\ \A v \in Users : inbox[<<c, v>>] \in Stored => inbox'[<<c, v>>] \in Stored
          /\ dispatch'[c] = dispatch[c] /\ CallSound(c)
      BY <1>s, <1>9
    <3> QED
      BY <1>s, <1>p, <1>l, <1>9, <3>1, Untouched
  <2> QED
    BY <1>p, <2>1, <2>2 DEF HubSound
<1>10. ASSUME NEW d \in Dispatches, NEW u \in Users, Hub!MarkAsRead(d, u) \/ Hub!DeleteNotification(d, u)
       PROVE  HubSound'
  <2>1. /\ connections' = connections /\ socket' = socket /\ dispatch' = dispatch /\ pushes' = pushes
        /\ \E x \in {"read", "deleted"} : inbox' = [inbox EXCEPT ![<<d, u>>] = x]
    BY <1>10 DEF Hub!MarkAsRead, Hub!DeleteNotification
  <2>2. \A c \in Dispatches, v \in Users : inbox[<<c, v>>] \in Stored => inbox'[<<c, v>>] \in Stored
    BY <1>t, <2>1 DEF Stored
  <2> QED
    BY <1>9, <2>1, <2>2
<1>11. ASSUME NEW u \in Users, Hub!MarkAllAsRead(u) PROVE HubSound'
  <2>1. /\ connections' = connections /\ socket' = socket /\ dispatch' = dispatch /\ pushes' = pushes
        /\ \A du \in Dispatches \X Users : inbox'[du] = "read" \/ inbox'[du] = inbox[du]
    BY <1>11 DEF Hub!MarkAllAsRead
  <2>2. \A c \in Dispatches, v \in Users : inbox[<<c, v>>] \in Stored => inbox'[<<c, v>>] \in Stored
    BY <2>1 DEF Stored
  <2> QED
    BY <1>9, <2>1, <2>2
<1>12. CASE UNCHANGED Hub!vars
  BY <1>9, <1>12 DEF Hub!vars
<1> QED
  BY <1>1, <1>2, <1>3, <1>4, <1>5, <1>6, <1>7, <1>8, <1>10, <1>11, <1>12 DEF Hub!Next, Hub!Advance

-----------------------------------------------------------------------------
\* So the invariant of the module holds after a step.
LEMMA HubSoundIsNext == (HubSound <=> Hub!IInv)'
BY HubSoundIs, PTL

\* One step keeps it.
LEMMA HubStepIs == Hub!IInv /\ [Hub!Next]_(Hub!vars) => Hub!IInv'
BY HubStep, HubSoundIs, HubSoundIsNext

\* Every behaviour of the manager keeps its lists, its walks and the documents in step.
THEOREM HubInvariance == Hub!Spec => []Hub!IInv
<1>1. Hub!Init => Hub!IInv
  BY HubInit, HubSoundIs
<1> QED
  BY <1>1, HubStepIs, PTL DEF Hub!Spec

\* Whatever leaves, fails or connects meanwhile, a live socket stays in its user's list.
THEOREM LiveSocketsStayRegistered == Hub!Spec => []LiveSocketsRegistered
<1>1. Hub!IInv => LiveSocketsRegistered
  BY DEF Hub!IInv, LiveSocketsRegistered
<1> QED
  BY <1>1, HubInvariance, PTL

\* Although the list changes under the walk, no socket is sent a notification twice, nor
\* one whose document is not stored.
THEOREM PushesAreOnceAndStored == Hub!Spec => []PushedOnceAndStored
<1>1. Hub!IInv => PushedOnceAndStored
  BY DEF Hub!IInv, PushedOnceAndStored
<1> QED
  BY <1>1, HubInvariance, PTL

\* The end of a walk whose audience is still complete: its sockets come first in the list,
\* so the walk has passed them all, and those that raised are gone.
LEMMA WalkServed ==
  ASSUME Hub!IInv, NEW d \in Dispatches, Hub!EndPush(d), ~dispatch[d].celery,
         dispatch[d].audience \subseteq Hub!Registered(dispatch[d].user),
         NEW s \in dispatch[d].audience, socket[s] = "open"
  PROVE  pushes[<<s, d>>] > 0
<1>s. Hub!TypeOK /\ CallSound(d)
  BY HubSoundIs DEF HubSound
<1>0. PICK u, n, L, aud :
        /\ u \in Users /\ n \in Nat /\ L \in Seq(Sockets)
        /\ u = dispatch[d].user /\ n = dispatch[d].next /\ L = connections[u] /\ aud = dispatch[d].audience
  BY <1>s DEF Hub!TypeOK, Hub!Dispatch
<1> u \in Users /\ n \in Nat /\ L \in Seq(Sockets)
  BY <1>0
<1>1. dispatch[d].pc = "push" /\ (dispatch[d].over \/ ~(n <= Len(L)))
  BY <1>0 DEF Hub!EndPush, Hub!Walking
<1>2. /\ dispatch[d].over => aud = {}
      /\ \A i \in DOMAIN L : i < n /\ L[i] \in aud => pushes[<<L[i], d>>] > 0 \/ L[i] \in dispatch[d].dead
  BY <1>s, <1>0, <1>1 DEF CallSound, AudienceFor
<1>3. PICK i \in DOMAIN L : L[i] = s
  BY <1>0 DEF Hub!Registered, Hub!ToSet
<1>4. i < n
  BY <1>0, <1>1, <1>2
<1>5. s \notin dispatch[d].dead
  BY <1>s, <1>1 DEF CallSound, DeadFor
<1> QED
  BY <1>0, <1>2, <1>3, <1>4, <1>5

\* A step that takes a call out of its walk is the end of that walk.
LEMMA OnlyEndPushEnds ==
  ASSUME Hub!TypeOK, Hub!Next, NEW d \in Dispatches, dispatch[d].pc = "push", dispatch'[d].pc # "push"
  PROVE  Hub!EndPush(d)
<1>t. dispatch \in [Dispatches -> Hub!Dispatch]
  BY DEF Hub!TypeOK
<1>1. ASSUME NEW s \in Sockets, Hub!Connect(s) \/ Hub!PeerLeaves(s) \/ Hub!HandlerFails(s) PROVE FALSE
  BY <1>1 DEF Hub!Connect, Hub!PeerLeaves, Hub!HandlerFails
<1>2. ASSUME NEW s \in Sockets, Hub!HandlerDisconnects(s) PROVE FALSE
  <2>1. PICK list : dispatch' = Hub!Detached(UserOf[s], list)
    BY <1>2 DEF Hub!HandlerDisconnects
  <2>2. dispatch'[d].pc = dispatch[d].pc
    BY <2>1, DetachedFields DEF Walks
  <2> QED
    BY <2>2
<1>3. ASSUME NEW c \in Dispatches, NEW r \in SUBSET Users, NEW celery \in BOOLEAN, Hub!Start(c, r, celery)
      PROVE  FALSE
  <2>1. dispatch[c].pc = "idle" /\ \E new : dispatch' = [dispatch EXCEPT ![c] = new]
    BY <1>3 DEF Hub!Start, Hub!Onwards, Hub!Goes
  <2> QED
    BY <1>t, <2>1
<1>4. ASSUME NEW c \in Dispatches, Hub!Insert(c) \/ Hub!InsertFails(c) PROVE FALSE
  <2>1. dispatch[c].pc = "insert" /\ \E new : dispatch' = [dispatch EXCEPT ![c] = new]
    BY <1>4 DEF Hub!Insert, Hub!InsertFails, Hub!Onwards, Hub!Goes
  <2> QED
    BY <1>t, <2>1
<1>5. ASSUME NEW c \in Dispatches, Hub!Push(c) PROVE FALSE
  <2>0. PICK s : \/ dispatch' = [dispatch EXCEPT ![c] = [dispatch[c] EXCEPT !.next = @ + 1]]
                 \/ dispatch' = [dispatch EXCEPT ![c] = [dispatch[c] EXCEPT !.next = @ + 1, !.dead = @ \cup {s}]]
    BY <1>5 DEF Hub!Push, Hub!Goes
  <2>1. /\ [dispatch[c] EXCEPT !.next = @ + 1].pc = dispatch[c].pc
        /\ [dispatch[c] EXCEPT !.next = @ + 1, !.dead = @ \cup {s}].pc = dispatch[c].pc
    BY <1>t DEF Hub!Dispatch
  <2> QED
    BY <1>t, <2>0, <2>1
<1>6. ASSUME NEW c \in Dispatches, Hub!EndPush(c) PROVE c = d
  <2>1. PICK new, u, list : dispatch' = [Hub!Detached(u, list) EXCEPT ![c] = new]
    BY <1>6 DEF Hub!EndPush
  <2>2. c # d => dispatch'[d] = Hub!Detached(u, list)[d]
    BY <2>1 DEF Hub!Detached
  <2>3. c # d => dispatch'[d].pc = dispatch[d].pc
    BY <2>2, DetachedFields DEF Walks
  <2> QED
    BY <2>3
<1>7. ASSUME NEW c, NEW u, Hub!MarkAsRead(c, u) \/ Hub!DeleteNotification(c, u) \/ Hub!MarkAllAsRead(u)
      PROVE  FALSE
  BY <1>7 DEF Hub!MarkAsRead, Hub!DeleteNotification, Hub!MarkAllAsRead
<1> QED
  BY <1>1, <1>2, <1>3, <1>4, <1>5, <1>6, <1>7 DEF Hub!Next, Hub!Advance

\* A registered socket of the API process is sent the notification, unless its list shrank.
THEOREM OnlyShiftedAreSkipped == Hub!Spec => SkippedOnlyIfShifted
<1> DEFINE Served == \A d \in Dispatches :
             ~dispatch[d].celery /\ dispatch[d].pc = "push" /\ dispatch'[d].pc # "push"
               /\ dispatch[d].audience \subseteq Hub!Registered(dispatch[d].user) =>
               \A s \in dispatch[d].audience : socket[s] = "open" => pushes[<<s, d>>] > 0
<1>1. Hub!IInv /\ [Hub!Next]_(Hub!vars) => [Served]_(Hub!vars)
  <2>1. Hub!IInv => Hub!TypeOK
    BY DEF Hub!IInv
  <2> QED
    BY <2>1, OnlyEndPushEnds, WalkServed
<1>2. SkippedOnlyIfShifted <=> [][Served]_(Hub!vars)
  BY DEF SkippedOnlyIfShifted, Hub!SkippedOnlyIfShifted
<1> HIDE DEF Served
<1> QED
  BY <1>1, <1>2, HubInvariance, PTL DEF Hub!Spec

-----------------------------------------------------------------------------
(* BudgetAlert.                                                            *)

\* What holds of a set if it holds of all smaller ones holds of every subset of S.
LEMMA BySize ==
  ASSUME NEW S, IsFiniteSet(S), NEW H,
         \A T \in SUBSET S : (\A U \in SUBSET S : Cardinality(U) < Cardinality(T) => U \in H) => T \in H
  PROVE  \A T \in SUBSET S : T \in H
<1> DEFINE Sizes == {Cardinality(T) : T \in {U \in SUBSET S : U \notin H}}
<1>1. \A T \in SUBSET S : Cardinality(T) \in Nat
  BY FS_Subset, FS_CardinalityType
<1>2. CASE Sizes = {}
  BY <1>2
<1>3. CASE Sizes # {}
  <2>1. Sizes \subseteq Nat
    BY <1>1
  <2>2. PICK n \in Sizes : \A m \in Sizes : n <= m
    BY <1>3, <2>1, Least
  <2>3. PICK T \in SUBSET S : T \notin H /\ n = Cardinality(T)
    OBVIOUS
  <2>4. ASSUME NEW U \in SUBSET S, Cardinality(U) < Cardinality(T) PROVE U \in H
    <3>1. Cardinality(U) \in Nat /\ n \in Nat /\ ~(n <= Cardinality(U))
      BY <1>1, <2>3, <2>4
    <3>2. Cardinality(U) \notin Sizes
      BY <2>2, <3>1
    <3> QED
      BY <3>2
  <2> QED
    BY <2>3, <2>4
<1> QED
  BY <1>2, <1>3

\* Element of choice of a set, and the sums over the subsets of S, by that choice.
Chosen(T) == CHOOSE x \in T : TRUE
AreSums(I, c, S) == I = [T \in SUBSET S |-> IF T = {} THEN 0 ELSE c[Chosen(T)] + I[T \ {Chosen(T)}]]

\* A set is larger than what is left of it without one element.
LEMMA Smaller ==
  ASSUME NEW S, IsFiniteSet(S), NEW T \in SUBSET S, NEW x \in T
  PROVE  T \ {x} \in SUBSET S /\ Cardinality(T \ {x}) = Cardinality(T) - 1 /\ Cardinality(T) \in Nat \ {0}
         /\ Cardinality(T \ {x}) \in Nat
<1>1. IsFiniteSet(T)
  BY FS_Subset
<1>2. Cardinality(T) \in Nat /\ Cardinality(T \ {x}) = Cardinality(T) - 1 /\ Cardinality(T) # 0
  BY <1>1, FS_CardinalityType, FS_RemoveElement, FS_EmptySet
<1> QED
  BY <1>2

\* There are such sums, of any costs.
LEMMA SumsExist ==
  ASSUME NEW c, NEW S, IsFiniteSet(S)
  PROVE  \E I : AreSums(I, c, S)
<1> DEFINE b == Cardinality(S)
           Upto(n) == {T \in SUBSET S : Cardinality(T) <= n}
           Is(u, n) == u = [T \in Upto(n) |-> IF T = {} THEN 0 ELSE c[Chosen(T)] + u[T \ {Chosen(T)}]]
           H == {n \in 0 .. b : \E u : Is(u, n)}
<1>0. b \in Nat /\ \A T \in SUBSET S : Cardinality(T) \in 0 .. b
  BY FS_CardinalityType, FS_Subset
<1>c. \A T \in SUBSET S : T # {} => Chosen(T) \in T
  BY DEF Chosen
<1>1. 0 \in H
  <2> DEFINE v == [T \in Upto(0) |-> 0]
  <2>1. \A T \in Upto(0) : T = {}
    BY <1>0, FS_Subset, FS_EmptySet
  <2>2. Is(v, 0)
    BY <2>1
  <2> HIDE DEF Is, v
  <2> QED
    BY <1>0, <2>2
<1>2. ASSUME NEW n \in 1 .. b, n - 1 \in H PROVE n \in H
  <2>1. PICK u : Is(u, n - 1)
    BY <1>2
  <2> DEFINE v == [T \in Upto(n) |-> IF T = {} THEN 0 ELSE c[Chosen(T)] + u[T \ {Chosen(T)}]]
  <2>2. \A T \in Upto(n) : T # {} => T \ {Chosen(T)} \in Upto(n - 1) /\ T \ {Chosen(T)} \in Upto(n)
    BY <1>c, Smaller
  <2>3. \A T \in Upto(n - 1) : v[T] = u[T]
    <3> SUFFICES ASSUME NEW T \in Upto(n - 1) PROVE v[T] = u[T]
      OBVIOUS
    <3>1. T \in Upto(n)
      BY <1>0
    <3>2. u[T] = IF T = {} THEN 0 ELSE c[Chosen(T)] + u[T \ {Chosen(T)}]
      BY <2>1
    <3> QED
      BY <3>1, <3>2
  <2>4. \A T \in Upto(n) : v[T] = IF T = {} THEN 0 ELSE c[Chosen(T)] + v[T \ {Chosen(T)}]
    BY <2>2, <2>3
  <2>5. v = [T \in Upto(n) |-> v[T]]
    OBVIOUS
  <2>6. Is(v, n)
    <3> HIDE DEF v, Upto
    <3> QED
      BY <2>4, <2>5
  <2> HIDE DEF Is, v
  <2> QED
    BY <1>0, <2>6
<1>3. b \in H
  <2> HIDE DEF H, b
  <2>1. \A n \in 0 .. b : n \in H
    BY <1>0, <1>1, <1>2, UpTo
  <2> QED
    BY <1>0, <2>1
<1>4. PICK u : Is(u, b)
  BY <1>3
<1>5. Upto(b) = SUBSET S
  BY <1>0
<1> QED
  BY <1>4, <1>5 DEF AreSums

\* Any element of a set can be the one taken out of its sum.
TakeAny(I, c, S) == \A T \in SUBSET S : \A x \in T : I[T] = c[x] + I[T \ {x}]

\* A sum of numbers does not depend on the order it is taken in.
LEMMA SumsAny ==
  ASSUME NEW S, IsFiniteSet(S), NEW c, \A x \in S : c[x] \in Int, NEW I, AreSums(I, c, S)
  PROVE  (\A T \in SUBSET S : I[T] \in Int) /\ TakeAny(I, c, S)
<1> DEFINE H == {T \in SUBSET S : I[T] \in Int /\ \A x \in T : I[T] = c[x] + I[T \ {x}]}
<1>0. \A T \in SUBSET S : T # {} => Chosen(T) \in T
  BY DEF Chosen
<1>1. I[{}] = 0 /\ \A T \in SUBSET S : T # {} => I[T] = c[Chosen(T)] + I[T \ {Chosen(T)}]
  BY DEF AreSums
<1>2. ASSUME NEW T \in SUBSET S, \A U \in SUBSET S : Cardinality(U) < Cardinality(T) => U \in H
      PROVE  T \in H
  <2>1. CASE T = {}
    <3>1. I[T] = 0 /\ \A x \in T : FALSE
      BY <1>1, <2>1
    <3> QED
      BY <3>1
  <2>2. CASE T # {}
    <3>1. PICK y \in T : y = Chosen(T) /\ I[T] = c[y] + I[T \ {y}]
      BY <1>0, <1>1, <2>2
    <3>2. ASSUME NEW x \in T PROVE T \ {x} \in H
      <4>1. Cardinality(T \ {x}) < Cardinality(T) /\ T \ {x} \in SUBSET S
        BY Smaller
      <4> QED
        BY <1>2, <4>1
    <3>3. I[T] \in Int
      <4>1. I[T \ {y}] \in Int
        BY <3>2
      <4>2. c[y] \in Int
        OBVIOUS
      <4> QED
        BY <3>1, <4>1, <4>2
    <3>4. ASSUME NEW x \in T PROVE I[T] = c[x] + I[T \ {x}]
      <4>1. CASE x = y
        BY <3>1, <4>1
      <4>2. CASE x # y
        <5>1. I[T \ {y}] = c[x] + I[(T \ {y}) \ {x}]
          BY <3>2, <4>2
        <5>2. I[T \ {x}] = c[y] + I[(T \ {x}) \ {y}]
          BY <3>2, <4>2
        <5>3. (T \ {y}) \ {x} = (T \ {x}) \ {y}
          OBVIOUS
        <5>4. I[(T \ {x}) \ {y}] \in Int
          <6>1. PICK U \in SUBSET S : U = T \ {x} /\ y \in U
            BY <4>2
          <6>2. Cardinality(U) < Cardinality(T)
            BY <6>1, Smaller
          <6>3. Cardinality(U \ {y}) < Cardinality(U) /\ U \ {y} \in SUBSET S
            BY <6>1, Smaller
          <6>4. Cardinality(U \ {y}) \in Nat /\ Cardinality(U) \in Nat /\ Cardinality(T) \in Nat
            <7>1. Cardinality(U \ {y}) \in Nat /\ Cardinality(U) \in Nat \ {0}
              BY <6>1, Smaller
            <7>2. Cardinality(T) \in Nat \ {0}
              BY Smaller
            <7> QED
              BY <7>1, <7>2
          <6>5. U \ {y} \in H
            <7>1. Cardinality(U \ {y}) < Cardinality(T)
              BY <6>2, <6>3, <6>4
            <7> HIDE DEF H
            <7> QED
              BY <1>2, <6>3, <7>1
          <6> QED
            BY <6>1, <6>5
        <5>5. PICK k \in Int, p \in Int, q \in Int : k = I[(T \ {x}) \ {y}] /\ p = c[x] /\ q = c[y]
          BY <5>4
        <5>6. I[T \ {y}] = p + k /\ I[T \ {x}] = q + k
          BY <5>1, <5>2, <5>3, <5>5
        <5>7. I[T] = q + (p + k)
          BY <3>1, <5>5, <5>6
        <5> QED
          BY <5>5, <5>6, <5>7
      <4> QED
        BY <4>1, <4>2
    <3> QED
      BY <3>3, <3>4
  <2> QED
    BY <2>1, <2>2
<1>3. \A T \in SUBSET S : T \in H
  <2> HIDE DEF H
  <2> QED
    BY <1>2, BySize
<1> QED
  BY <1>3 DEF TakeAny

\* Sums of costs that agree on S agree on its subsets.
LEMMA SumsAgree ==
  ASSUME NEW R, NEW S, NEW c, NEW d, NEW I, NEW J, AreSums(I, c, S), AreSums(J, d, R),
         IsFiniteSet(R), S \subseteq R, \A x \in S : c[x] = d[x]
  PROVE  I[S] = J[S]
<1> DEFINE H == {T \in SUBSET S : I[T] = J[T]}
<1>0. \A T \in SUBSET S : T # {} => Chosen(T) \in T
  BY DEF Chosen
<1>f. IsFiniteSet(S)
  BY FS_Subset
<1>1. /\ I[{}] = 0 /\ \A T \in SUBSET S : T # {} => I[T] = c[Chosen(T)] + I[T \ {Chosen(T)}]
      /\ J[{}] = 0 /\ \A T \in SUBSET S : T # {} => J[T] = d[Chosen(T)] + J[T \ {Chosen(T)}]
  BY DEF AreSums
<1>2. ASSUME NEW T \in SUBSET S, \A U \in SUBSET S : Cardinality(U) < Cardinality(T) => U \in H
      PROVE  T \in H
  <2>1. CASE T = {}
    BY <1>1, <2>1
  <2>2. CASE T # {}
    <3>1. PICK y \in T : y = Chosen(T)
      BY <1>0, <2>2
    <3>2. Cardinality(T \ {y}) < Cardinality(T) /\ T \ {y} \in SUBSET S
      BY <1>f, Smaller
    <3>3. I[T \ {y}] = J[T \ {y}] /\ c[y] = d[y]
      BY <1>2, <3>2
    <3> QED
      BY <1>1, <2>2, <3>1, <3>3
  <2> QED
    BY <2>1, <2>2
<1>3. \A T \in SUBSET S : T \in H
  <2> HIDE DEF H
  <2> QED
    BY <1>f, <1>2, BySize
<1> QED
  BY <1>3

Rows(c, w) == {m \in Materials \ w : c[m] # NoRow}

\* What a project has spent is such a sum.
LEMMA SpentIsSum ==
  ASSUME NEW c, NEW w
  PROVE  \E I : AreSums(I, c, Rows(c, w)) /\ Budget!SpentOf(c, w) = I[Rows(c, w)]
<1> DEFINE J == CHOOSE I : AreSums(I, c, Rows(c, w))
<1>1. IsFiniteSet(Rows(c, w))
  BY MaterialsAssumption, FS_Subset DEF Rows
<1>2. AreSums(J, c, Rows(c, w))
  BY <1>1, SumsExist
<1>3. Budget!SpentOf(c, w) = J[Rows(c, w)]
  BY DEF Budget!SpentOf, Budget!MapThenSumSet, Budget!MapThenFoldSet, AreSums, Chosen, Rows
<1> QED
  BY <1>2, <1>3

\* What is spent is a number.
LEMMA SpentInt ==
  ASSUME NEW c \in [Materials -> Int \cup {NoRow}], NEW w
  PROVE  Budget!SpentOf(c, w) \in Int
<1>1. PICK I : AreSums(I, c, Rows(c, w)) /\ Budget!SpentOf(c, w) = I[Rows(c, w)]
  BY SpentIsSum
<1>2. IsFiniteSet(Rows(c, w)) /\ \A x \in Rows(c, w) : c[x] \in Int
  BY MaterialsAssumption, FS_Subset DEF Rows
<1>3. \A T \in SUBSET Rows(c, w) : I[T] \in Int
  BY <1>1, <1>2, SumsAny
<1> QED
  BY <1>1, <1>3

\* One more row of the project adds its cost to what is spent.
LEMMA SpentMore ==
  ASSUME NEW c \in [Materials -> Int \cup {NoRow}], NEW w, NEW m \in Materials, m \notin w, c[m] = NoRow,
         NEW a \in Int, NEW e \in [Materials -> Int \cup {NoRow}],
         e[m] = a, \A x \in Materials : x # m => e[x] = c[x]
  PROVE  Budget!SpentOf(e, w) = Budget!SpentOf(c, w) + a
<1>2. PICK I : AreSums(I, c, Rows(c, w)) /\ Budget!SpentOf(c, w) = I[Rows(c, w)]
  BY SpentIsSum
<1>3. PICK J : AreSums(J, e, Rows(e, w)) /\ Budget!SpentOf(e, w) = J[Rows(e, w)]
  BY SpentIsSum
<1>4. /\ IsFiniteSet(Rows(e, w)) /\ \A x \in Rows(e, w) : e[x] \in Int
      /\ Rows(c, w) \in SUBSET Rows(e, w) /\ m \in Rows(e, w) /\ Rows(e, w) \ {m} = Rows(c, w)
      /\ \A x \in Rows(c, w) : c[x] = e[x]
  BY MaterialsAssumption, NullAssumption, FS_Subset DEF Rows
<1>5. J[Rows(e, w)] = e[m] + J[Rows(e, w) \ {m}]
  <2>1. TakeAny(J, e, Rows(e, w))
    BY <1>3, <1>4, SumsAny
  <2> QED
    BY <1>4, <2>1 DEF TakeAny
<1>6. I[Rows(c, w)] = J[Rows(c, w)]
  <2>1. PICK R, S : R = Rows(e, w) /\ S = Rows(c, w) /\ S \subseteq R
    BY <1>4
  <2>2. IsFiniteSet(R) /\ (\A x \in S : c[x] = e[x]) /\ AreSums(I, c, S) /\ AreSums(J, e, R)
    BY <1>2, <1>3, <1>4, <2>1
  <2>3. I[S] = J[S]
    BY <2>1, <2>2, SumsAgree
  <2> QED
    BY <2>1, <2>3
<1>7. Budget!SpentOf(c, w) \in Int
  BY SpentInt
<1>8. Budget!SpentOf(e, w) = a + Budget!SpentOf(c, w)
  BY <1>2, <1>3, <1>4, <1>5, <1>6
<1> QED
  BY <1>7, <1>8

-----------------------------------------------------------------------------
\* What a step makes of a request.
LEMMA RequestRecords ==
  ASSUME NEW q \in Budget!RequestRecord
  PROVE  /\ \A b \in Int : [Budget!Free EXCEPT !.pc = "summing", !.budget = b] \in Budget!RequestRecord
         /\ \A n \in Int : [q EXCEPT !.pc = "inserting", !.before = n] \in Budget!RequestRecord
         /\ \A m \in Materials : [q EXCEPT !.pc = "refreshing", !.material = m] \in Budget!RequestRecord
         /\ \A n \in Int : [q EXCEPT !.pc = "checking", !.own = n] \in Budget!RequestRecord
         /\ Budget!Free \in Budget!RequestRecord
<1>1. Budget!Free \in Budget!RequestRecord
  BY DEF Budget!RequestRecord, Budget!Free
<1>2. ASSUME NEW b \in Int PROVE [Budget!Free EXCEPT !.pc = "summing", !.budget = b] \in Budget!RequestRecord
  <2>1. PICK f \in Budget!RequestRecord : f = Budget!Free
    BY <1>1
  <2>2. [f EXCEPT !.pc = "summing", !.budget = b] \in Budget!RequestRecord
    BY DEF Budget!RequestRecord
  <2> QED
    BY <2>1, <2>2
<1>3. ASSUME NEW n \in Int PROVE [q EXCEPT !.pc = "inserting", !.before = n] \in Budget!RequestRecord
  BY DEF Budget!RequestRecord
<1>4. ASSUME NEW m \in Materials PROVE [q EXCEPT !.pc = "refreshing", !.material = m] \in Budget!RequestRecord
  BY DEF Budget!RequestRecord
<1>5. ASSUME NEW n \in Int PROVE [q EXCEPT !.pc = "checking", !.own = n] \in Budget!RequestRecord
  BY DEF Budget!RequestRecord
<1> QED
  BY <1>1, <1>2, <1>3, <1>4, <1>5

\* The empty table satisfies the invariant.
LEMMA BudgetInit == Budget!Init => Budget!IInv
<1> SUFFICES ASSUME Budget!Init PROVE Budget!IInv
  OBVIOUS
<1>1. /\ cost = [m \in Materials |-> NoRow] /\ away = {} /\ drawn = {} /\ budget \in Int
      /\ request = [r \in Requests |-> Budget!Free] /\ crossed = {} /\ overtaken = {}
  BY AmountsAssumption DEF Budget!Init
<1>2. Budget!TypeOK
  BY <1>1 DEF Budget!TypeOK, Budget!Free, Budget!RequestRecord
<1>3. Budget!RowsAreDrawn /\ Budget!CrossedByInserting /\ Budget!ReadsHold
  BY <1>1 DEF Budget!RowsAreDrawn, Budget!CrossedByInserting, Budget!ReadsHold, Budget!At, Budget!Free
<1> QED
  BY <1>2, <1>3 DEF Budget!IInv

\* The invariant of what one request has read.
HoldsFor(r) ==
  r \notin overtaken =>
    /\ request[r].pc \in {"summing", "inserting"} => request[r].budget = budget
    /\ request[r].pc = "inserting" => Budget!SpentOf(cost, away) = request[r].before
    /\ request[r].pc = "refreshing" =>
         /\ cost[request[r].material] # NoRow
         /\ request[r].material \notin away =>
              (r \in crossed <=> Budget!Crosses(request[r].budget, request[r].before, cost[request[r].material]))
    /\ request[r].pc = "checking" /\ request[r].material \notin away =>
         (r \in crossed <=> Budget!Crosses(request[r].budget, request[r].before, request[r].own))

\* Together they are the invariant.
LEMMA HoldsForAll == Budget!ReadsHold <=> \A r \in Requests : HoldsFor(r)
BY DEF Budget!ReadsHold, HoldsFor, Budget!Spent

\* So it is after a step.
LEMMA HoldsForAllNext == (Budget!ReadsHold <=> \A r \in Requests : HoldsFor(r))'
BY HoldsForAll, PTL

\* What the invariant says of each variable.
LEMMA BudgetFacts ==
  ASSUME Budget!IInv
  PROVE  /\ cost \in [Materials -> Int \cup {NoRow}] /\ drawn \subseteq Materials /\ budget \in Int
         /\ away \subseteq drawn /\ crossed \subseteq Requests /\ overtaken \subseteq Requests
         /\ request \in [Requests -> Budget!RequestRecord]
         /\ \A m \in Materials : cost[m] # NoRow => m \in drawn
         /\ \A r \in Requests : request[r].pc = "refreshing" => request[r].material \in drawn
         /\ \A r \in crossed : request[r].pc \in {"refreshing", "checking"}
         /\ \A r \in Requests : HoldsFor(r) /\ request[r] \in Budget!RequestRecord
         /\ Budget!SpentOf(cost, away) \in Int
BY HoldsForAll, SpentInt
   DEF Budget!IInv, Budget!TypeOK, Budget!RowsAreDrawn, Budget!CrossedByInserting, Budget!At

\* The invariant after a step, put together from its parts.
LEMMA BudgetFactsNext ==
  ASSUME cost' \in [Materials -> Int \cup {NoRow}], drawn' \subseteq Materials, budget' \in Int,
         away' \subseteq drawn', crossed' \subseteq Requests, overtaken' \subseteq Requests,
         request' \in [Requests -> Budget!RequestRecord],
         \A m \in Materials : cost'[m] # NoRow => m \in drawn',
         \A r \in Requests : request'[r].pc = "refreshing" => request'[r].material \in drawn',
         \A r \in crossed' : request'[r].pc \in {"refreshing", "checking"},
         \A r \in Requests : HoldsFor(r)'
  PROVE  Budget!IInv'
<1>1. Budget!TypeOK'
  BY DEF Budget!TypeOK
<1>2. Budget!RowsAreDrawn' /\ Budget!CrossedByInserting'
  BY DEF Budget!RowsAreDrawn, Budget!CrossedByInserting, Budget!At
<1>3. Budget!ReadsHold'
  BY HoldsForAllNext
<1> QED
  BY <1>1, <1>2, <1>3 DEF Budget!IInv

\* A step of r that reads.
LEMMA BudgetReads ==
  ASSUME Budget!IInv, NEW r \in Requests, NEW state \in Budget!RequestRecord, Budget!Reads(r, state),
         state.pc # "refreshing", r \in crossed => state.pc = "checking", HoldsFor(r)'
  PROVE  Budget!IInv'
<1>t. /\ cost \in [Materials -> Int \cup {NoRow}] /\ drawn \subseteq Materials /\ budget \in Int
      /\ away \subseteq drawn /\ crossed \subseteq Requests /\ overtaken \subseteq Requests
      /\ request \in [Requests -> Budget!RequestRecord]
      /\ \A m \in Materials : cost[m] # NoRow => m \in drawn
      /\ \A q \in Requests : request[q].pc = "refreshing" => request[q].material \in drawn
      /\ \A q \in crossed : request[q].pc \in {"refreshing", "checking"}
      /\ \A q \in Requests : HoldsFor(q)
  BY BudgetFacts
<1>1. /\ request' = [request EXCEPT ![r] = state] /\ cost' = cost /\ away' = away /\ drawn' = drawn
      /\ budget' = budget /\ crossed' = crossed /\ overtaken' = overtaken
  BY DEF Budget!Reads
<1>2. request' \in [Requests -> Budget!RequestRecord] /\ request'[r] = state
      /\ \A q \in Requests : q # r => request'[q] = request[q]
  BY <1>t, <1>1
<1>3. ASSUME NEW q \in Requests, q # r PROVE HoldsFor(q)'
  <2>1. HoldsFor(q) /\ request'[q] = request[q]
    BY <1>t, <1>2, <1>3
  <2> QED
    BY <1>1, <2>1 DEF HoldsFor
<1>4. \A q \in Requests : HoldsFor(q)'
  BY <1>3
<1>5. \A q \in Requests : request'[q].pc = "refreshing" => request'[q].material \in drawn'
  BY <1>t, <1>1, <1>2
<1>6. \A q \in crossed' : request'[q].pc \in {"refreshing", "checking"}
  BY <1>t, <1>1, <1>2
<1> QED
  BY <1>t, <1>1, <1>2, <1>4, <1>5, <1>6, BudgetFactsNext

\* The end of r.
LEMMA BudgetEnds ==
  ASSUME Budget!IInv, NEW r \in Requests, Budget!Ends(r)
  PROVE  Budget!IInv'
<1>t. /\ cost \in [Materials -> Int \cup {NoRow}] /\ drawn \subseteq Materials /\ budget \in Int
      /\ away \subseteq drawn /\ crossed \subseteq Requests /\ overtaken \subseteq Requests
      /\ request \in [Requests -> Budget!RequestRecord]
      /\ \A m \in Materials : cost[m] # NoRow => m \in drawn
      /\ \A q \in Requests : request[q].pc = "refreshing" => request[q].material \in drawn
      /\ \A q \in crossed : request[q].pc \in {"refreshing", "checking"}
      /\ \A q \in Requests : HoldsFor(q)
  BY BudgetFacts
<1>0. Budget!Free \in Budget!RequestRecord /\ Budget!Free.pc = "free"
  BY DEF Budget!Free, Budget!RequestRecord
<1>1. /\ request' = [request EXCEPT ![r] = Budget!Free] /\ cost' = cost /\ away' = away /\ drawn' = drawn
      /\ budget' = budget /\ crossed' = crossed \ {r} /\ overtaken' = overtaken \ {r}
  BY DEF Budget!Ends
<1>2. /\ request' \in [Requests -> Budget!RequestRecord] /\ request'[r].pc = "free"
      /\ \A q \in Requests : q # r => request'[q] = request[q]
  BY <1>t, <1>0, <1>1
<1>3. ASSUME NEW q \in Requests, q # r PROVE HoldsFor(q)'
  <2>1. /\ HoldsFor(q) /\ request'[q] = request[q]
        /\ (q \in crossed' <=> q \in crossed) /\ (q \in overtaken' <=> q \in overtaken)
    BY <1>t, <1>1, <1>2, <1>3
  <2> QED
    BY <1>1, <2>1 DEF HoldsFor
<1>4. \A q \in Requests : HoldsFor(q)'
  <2>1. HoldsFor(r)'
    BY <1>2 DEF HoldsFor
  <2> QED
    BY <1>3, <2>1
<1>5. /\ \A q \in Requests : request'[q].pc = "refreshing" => request'[q].material \in drawn'
      /\ \A q \in crossed' : request'[q].pc \in {"refreshing", "checking"}
      /\ crossed' \subseteq Requests /\ overtaken' \subseteq Requests
  BY <1>t, <1>1, <1>2
<1> QED
  BY <1>t, <1>1, <1>2, <1>4, <1>5, BudgetFactsNext

\* A step of r that commits: what it made stale for another request is recorded.
LEMMA BudgetWrites ==
  ASSUME Budget!IInv, NEW r \in Requests,
         NEW newCost \in [Materials -> Int \cup {NoRow}], NEW newAway, NEW newBudget \in Int,
         Budget!Commits(r, newCost, newAway, newBudget),
         drawn \subseteq drawn', drawn' \subseteq Materials, away \subseteq newAway, newAway \subseteq drawn',
         \A m \in Materials : newCost[m] # NoRow => m \in drawn',
         request' \in [Requests -> Budget!RequestRecord],
         \A q \in Requests : q # r => request'[q] = request[q] /\ (q \in crossed' <=> q \in crossed),
         crossed' \subseteq Requests,
         request'[r].pc = "refreshing" => request'[r].material \in drawn',
         r \in crossed' => request'[r].pc = "refreshing",
         HoldsFor(r)'
  PROVE  Budget!IInv'
<1>t. /\ overtaken \subseteq Requests
      /\ \A q \in Requests : request[q].pc = "refreshing" => request[q].material \in drawn
      /\ \A q \in crossed : request[q].pc \in {"refreshing", "checking"}
      /\ \A q \in Requests : HoldsFor(q)
  BY BudgetFacts
<1>1. /\ cost' = newCost /\ away' = newAway /\ budget' = newBudget
      /\ overtaken' = overtaken \cup Budget!Stale(r, newCost, newAway, newBudget)
  BY DEF Budget!Commits
<1>2. ASSUME NEW q \in Requests, q # r PROVE HoldsFor(q)'
  <2> SUFFICES ASSUME q \notin overtaken' PROVE HoldsFor(q)'
    BY DEF HoldsFor
  <2>1. /\ HoldsFor(q) /\ q \notin overtaken /\ request'[q] = request[q] /\ (q \in crossed' <=> q \in crossed)
        /\ q \notin Budget!Stale(r, newCost, newAway, newBudget)
    BY <1>t, <1>1, <1>2
  <2>2. /\ request[q].pc \in {"summing", "inserting"} => budget' = budget
        /\ request[q].pc = "inserting" => Budget!SpentOf(cost', away') = Budget!SpentOf(cost, away)
        /\ request[q].pc = "refreshing" => cost'[request[q].material] = cost[request[q].material]
    BY <1>1, <1>2, <2>1 DEF Budget!Stale, Budget!At, Budget!Spent
  <2>3. \A m : m \notin away' => m \notin away
    BY <1>1
  <2> QED
    BY <2>1, <2>2, <2>3 DEF HoldsFor
<1>3. \A q \in Requests : HoldsFor(q)'
  BY <1>2
<1>4. /\ \A q \in Requests : request'[q].pc = "refreshing" => request'[q].material \in drawn'
      /\ \A q \in crossed' : request'[q].pc \in {"refreshing", "checking"}
  BY <1>t
<1>5. overtaken' \subseteq Requests
  BY <1>t, <1>1 DEF Budget!Stale
<1> QED
  BY <1>1, <1>3, <1>4, <1>5, BudgetFactsNext

\* A free request that commits.
LEMMA BudgetSettles ==
  ASSUME Budget!IInv, NEW r \in Requests, request[r].pc = "free",
         NEW newCost \in [Materials -> Int \cup {NoRow}], NEW newBudget \in Int,
         Budget!Commits(r, newCost, away, newBudget),
         drawn \subseteq drawn', drawn' \subseteq Materials, request' = request, crossed' = crossed,
         \A m \in Materials : newCost[m] # NoRow => m \in drawn'
  PROVE  Budget!IInv'
<1>1. /\ request \in [Requests -> Budget!RequestRecord] /\ crossed \subseteq Requests /\ away \subseteq drawn
      /\ r \notin crossed
  BY BudgetFacts
<1>2. HoldsFor(r)'
  BY DEF HoldsFor
<1>3. away \subseteq drawn'
  BY <1>1
<1> QED
  BY <1>1, <1>2, <1>3, BudgetWrites

\* The insert of a row: its request has taken the total over the budget, or not.
LEMMA BudgetInserts ==
  ASSUME Budget!IInv, NEW r \in Requests, NEW m \in Materials, NEW c \in Amounts, NEW elsewhere \in {{}, {m}},
         Budget!CommitMaterial(r, m, c, elsewhere)
  PROVE  Budget!IInv'
<1>t. /\ cost \in [Materials -> Int \cup {NoRow}] /\ drawn \subseteq Materials /\ budget \in Int
      /\ away \subseteq drawn /\ crossed \subseteq Requests
      /\ request \in [Requests -> Budget!RequestRecord] /\ request[r] \in Budget!RequestRecord
      /\ \A x \in Materials : cost[x] # NoRow => x \in drawn
      /\ \A q \in crossed : request[q].pc \in {"refreshing", "checking"}
      /\ HoldsFor(r) /\ Budget!SpentOf(cost, away) \in Int
  BY BudgetFacts
<1>0. c \in Int /\ c # NoRow
  BY AmountsAssumption, NullAssumption
<1>1. PICK state, new, n : /\ state = [request[r] EXCEPT !.pc = "refreshing", !.material = m]
                           /\ new = [cost EXCEPT ![m] = c] /\ n = away \cup elsewhere
  OBVIOUS
<1>2. /\ state \in Budget!RequestRecord /\ state.pc = "refreshing" /\ state.material = m
      /\ state.budget = request[r].budget /\ state.before = request[r].before
  BY <1>t, <1>1, RequestRecords DEF Budget!RequestRecord
<1>3. /\ Budget!Commits(r, new, n, budget) /\ drawn' = drawn \cup {m} /\ m \notin drawn
      /\ request[r].pc = "inserting" /\ request' = [request EXCEPT ![r] = state]
  BY <1>1 DEF Budget!CommitMaterial, Budget!At
<1>4. /\ cost' = new /\ away' = n /\ budget' = budget /\ overtaken' = overtaken \cup Budget!Stale(r, new, n, budget)
  BY <1>3 DEF Budget!Commits
<1>5. crossed' = crossed \cup {q \in {r} : /\ Budget!SpentOf(cost, away) <= budget
                                           /\ budget < Budget!SpentOf(cost', away')}
  BY DEF Budget!CommitMaterial, Budget!Spent
<1>6. /\ new \in [Materials -> Int \cup {NoRow}] /\ new[m] = c /\ cost[m] = NoRow
      /\ \A x \in Materials : new[x] # NoRow => x \in drawn'
  BY <1>t, <1>0, <1>1, <1>3
<1>7. /\ request' \in [Requests -> Budget!RequestRecord] /\ request'[r] = state
      /\ \A q \in Requests : q # r => request'[q] = request[q]
  BY <1>t, <1>2, <1>3
<1>8. /\ r \notin crossed
      /\ r \in crossed' <=> (Budget!SpentOf(cost, away) <= budget /\ budget < Budget!SpentOf(new, n))
      /\ \A q \in Requests : q # r => (q \in crossed' <=> q \in crossed)
      /\ crossed' \subseteq Requests
  <2>1. r \notin crossed
    BY <1>t, <1>3
  <2> QED
    BY <1>t, <1>4, <1>5, <2>1
<1>9. HoldsFor(r)'
  <2> SUFFICES ASSUME r \notin overtaken'
               PROVE  /\ cost'[m] # NoRow
                      /\ m \notin away' =>
                           (r \in crossed' <=> Budget!Crosses(request[r].budget, request[r].before, cost'[m]))
    BY <1>2, <1>7 DEF HoldsFor
  <2>1. r \notin overtaken /\ request[r].budget = budget /\ request[r].before = Budget!SpentOf(cost, away)
    BY <1>t, <1>3, <1>4 DEF HoldsFor
  <2>2. cost'[m] = c
    BY <1>4, <1>6
  <2>3. ASSUME m \notin away'
        PROVE  r \in crossed' <=> Budget!Crosses(request[r].budget, request[r].before, cost'[m])
    <3>1. n = away /\ m \in Materials \ away
      BY <1>1, <1>4, <2>3
    <3>2. Budget!SpentOf(new, n) = Budget!SpentOf(cost, away) + c
      <4>1. /\ cost \in [Materials -> Int \cup {NoRow}] /\ m \notin away
            /\ cost[m] = NoRow /\ c \in Int /\ new \in [Materials -> Int \cup {NoRow}]
            /\ new[m] = c /\ \A x \in Materials : x # m => new[x] = cost[x]
        BY <1>t, <1>0, <1>1, <1>6, <3>1
      <4>2. Budget!SpentOf(new, away) = Budget!SpentOf(cost, away) + c
        BY <4>1, SpentMore
      <4> QED
        BY <3>1, <4>2
    <3>3. PICK s \in Int : s = Budget!SpentOf(cost, away)
      BY <1>t
    <3>4. r \in crossed' <=> (s <= budget /\ budget < s + c)
      BY <1>8, <3>2, <3>3
    <3>5. Budget!Crosses(request[r].budget, request[r].before, cost'[m]) <=> (s <= budget /\ budget < s + c)
      BY <2>1, <2>2, <3>3 DEF Budget!Crosses
    <3> QED
      BY <3>4, <3>5
  <2> QED
    BY <1>0, <2>2, <2>3
<1>10. /\ drawn \subseteq drawn' /\ drawn' \subseteq Materials /\ away \subseteq n /\ n \subseteq drawn'
       /\ state.material \in drawn'
  BY <1>t, <1>1, <1>2, <1>3
<1>11. /\ request'[r].pc = "refreshing" => request'[r].material \in drawn'
       /\ r \in crossed' => request'[r].pc = "refreshing"
  BY <1>2, <1>7, <1>10
<1> QED
  BY <1>t, <1>3, <1>6, <1>7, <1>8, <1>9, <1>10, <1>11, BudgetWrites

\* One step per action.
LEMMA BudgetStep == Budget!IInv /\ [Budget!Next]_(Budget!vars) => Budget!IInv'
<1> SUFFICES ASSUME Budget!IInv, [Budget!Next]_(Budget!vars) PROVE Budget!IInv'
  OBVIOUS
<1>t. /\ cost \in [Materials -> Int \cup {NoRow}] /\ drawn \subseteq Materials /\ budget \in Int
      /\ away \subseteq drawn
      /\ request \in [Requests -> Budget!RequestRecord]
      /\ \A m \in Materials : cost[m] # NoRow => m \in drawn
      /\ \A r \in Requests : request[r].pc = "refreshing" => request[r].material \in drawn
      /\ \A r \in crossed : request[r].pc \in {"refreshing", "checking"}
      /\ \A r \in Requests : HoldsFor(r) /\ request[r] \in Budget!RequestRecord
      /\ Budget!SpentOf(cost, away) \in Int
  BY BudgetFacts
<1>1. ASSUME NEW r \in Requests, Budget!ReadBudget(r) PROVE Budget!IInv'
  <2>1. PICK state : state = [Budget!Free EXCEPT !.pc = "summing", !.budget = budget]
    OBVIOUS
  <2>2. /\ state \in Budget!RequestRecord /\ state.pc = "summing" /\ state.budget = budget
    BY <1>t, <2>1, RequestRecords DEF Budget!Free
  <2>3. Budget!Reads(r, state) /\ budget' = budget /\ request'[r] = state /\ r \notin crossed
    BY <1>1, <1>t, <2>1 DEF Budget!ReadBudget, Budget!Reads, Budget!At
  <2>4. HoldsFor(r)'
    BY <2>2, <2>3 DEF HoldsFor
  <2> QED
    BY <2>2, <2>3, <2>4, BudgetReads
<1>2. ASSUME NEW r \in Requests, Budget!ReadSpent(r) PROVE Budget!IInv'
  <2>1. PICK state : state = [request[r] EXCEPT !.pc = "inserting", !.before = Budget!SpentOf(cost, away)]
    OBVIOUS
  <2>2. /\ state \in Budget!RequestRecord /\ state.pc = "inserting" /\ state.before = Budget!SpentOf(cost, away)
        /\ state.budget = request[r].budget
    BY <1>t, <2>1, RequestRecords DEF Budget!RequestRecord
  <2>3. /\ Budget!Reads(r, state) /\ cost' = cost /\ away' = away /\ budget' = budget /\ overtaken' = overtaken
        /\ request'[r] = state /\ request[r].pc = "summing" /\ r \notin crossed
    BY <1>2, <1>t, <2>1 DEF Budget!ReadSpent, Budget!Reads, Budget!Spent, Budget!At
  <2>4. HoldsFor(r)'
    BY <1>t, <2>2, <2>3 DEF HoldsFor
  <2> QED
    BY <2>2, <2>3, <2>4, BudgetReads
<1>3. ASSUME NEW r \in Requests, Budget!RefreshMaterial(r) PROVE Budget!IInv'
  <2>0. PICK m \in Materials, n \in Int : m = request[r].material /\ n = cost[m]
    <3>1. request[r].material \in Materials /\ cost[request[r].material] # NoRow
      BY <1>3, <1>t DEF Budget!RefreshMaterial, Budget!At
    <3> QED
      BY <1>t, <3>1
  <2>1. PICK state : state = [request[r] EXCEPT !.pc = "checking", !.own = n]
    OBVIOUS
  <2>2. /\ state \in Budget!RequestRecord /\ state.pc = "checking" /\ state.own = n /\ state.material = m
        /\ state.budget = request[r].budget /\ state.before = request[r].before
    BY <1>t, <2>0, <2>1, RequestRecords DEF Budget!RequestRecord
  <2>3. /\ Budget!Reads(r, state) /\ cost' = cost /\ away' = away /\ crossed' = crossed /\ overtaken' = overtaken
        /\ request'[r] = state /\ request[r].pc = "refreshing"
    BY <1>3, <1>t, <2>0, <2>1 DEF Budget!RefreshMaterial, Budget!Reads, Budget!At
  <2>4. HoldsFor(r)'
    BY <1>t, <2>0, <2>2, <2>3 DEF HoldsFor
  <2> QED
    BY <2>2, <2>3, <2>4, BudgetReads
<1>4. ASSUME NEW r \in Requests, Budget!RefreshFails(r) \/ Budget!CheckBudget(r) PROVE Budget!IInv'
  BY <1>4, BudgetEnds DEF Budget!RefreshFails, Budget!CheckBudget
<1>5. ASSUME NEW r \in Requests, NEW m \in Materials, NEW c \in Amounts, Budget!CreateThroughAnother(r, m, c)
      PROVE  Budget!IInv'
  <2>1. PICK new : new = [cost EXCEPT ![m] = c]
    OBVIOUS
  <2>2. /\ Budget!Commits(r, new, away, budget) /\ request[r].pc = "free"
        /\ drawn' = drawn \cup {m} /\ request' = request /\ crossed' = crossed
    BY <1>5, <2>1 DEF Budget!CreateThroughAnother, Budget!At
  <2>3. new \in [Materials -> Int \cup {NoRow}] /\ \A x \in Materials : new[x] # NoRow => x \in drawn'
    BY <1>t, <2>1, <2>2, AmountsAssumption
  <2>4. drawn \subseteq drawn' /\ drawn' \subseteq Materials
    BY <1>t, <2>2
  <2> QED
    BY <1>t, <2>2, <2>3, <2>4, BudgetSettles
<1>6. ASSUME NEW r \in Requests, NEW m \in Materials, NEW c \in Amounts, Budget!UpdateMaterial(r, m, c)
      PROVE  Budget!IInv'
  <2>1. PICK new : new = [cost EXCEPT ![m] = c]
    OBVIOUS
  <2>2. /\ Budget!Commits(r, new, away, budget) /\ request[r].pc = "free" /\ cost[m] # NoRow
        /\ drawn' = drawn /\ request' = request /\ crossed' = crossed
    BY <1>6, <2>1 DEF Budget!UpdateMaterial, Budget!At
  <2>3. new \in [Materials -> Int \cup {NoRow}] /\ \A x \in Materials : new[x] # NoRow => x \in drawn
    BY <1>t, <2>1, <2>2, AmountsAssumption
  <2> QED
    BY <1>t, <2>2, <2>3, BudgetSettles
<1>7. ASSUME NEW r \in Requests, NEW m \in Materials, Budget!DeleteMaterial(r, m) PROVE Budget!IInv'
  <2>1. PICK new : new = [cost EXCEPT ![m] = NoRow]
    OBVIOUS
  <2>2. /\ Budget!Commits(r, new, away, budget) /\ request[r].pc = "free"
        /\ drawn' = drawn /\ request' = request /\ crossed' = crossed
    BY <1>7, <2>1 DEF Budget!DeleteMaterial, Budget!At
  <2>3. new \in [Materials -> Int \cup {NoRow}] /\ \A x \in Materials : new[x] # NoRow => x \in drawn
    BY <1>t, <2>1
  <2> QED
    BY <1>t, <2>2, <2>3, BudgetSettles
<1>8. ASSUME NEW r \in Requests, NEW b \in Budgets, Budget!UpdateProject(r, b) PROVE Budget!IInv'
  <2>1. /\ Budget!Commits(r, cost, away, b) /\ b \in Int /\ request[r].pc = "free"
        /\ drawn' = drawn /\ request' = request /\ crossed' = crossed
    BY <1>8, AmountsAssumption DEF Budget!UpdateProject, Budget!At
  <2> QED
    BY <1>t, <2>1, BudgetSettles
<1>9. CASE UNCHANGED Budget!vars
  <2>1. /\ cost' = cost /\ away' = away /\ drawn' = drawn /\ budget' = budget /\ request' = request
        /\ crossed' = crossed /\ overtaken' = overtaken
    BY <1>9 DEF Budget!vars
  <2>2. \A r \in Requests : HoldsFor(r)'
    BY <1>t, <2>1 DEF HoldsFor
  <2> QED
    BY <1>t, <2>1, <2>2, BudgetFacts, BudgetFactsNext
<1> QED
  BY <1>1, <1>2, <1>3, <1>4, <1>5, <1>6, <1>7, <1>8, <1>9, BudgetInserts DEF Budget!Next

\* What a create has read holds until another request overtakes it.
THEOREM BudgetInvariance == Budget!Spec => []Budget!IInv
<1> QED
  BY BudgetInit, BudgetStep, PTL DEF Budget!Spec

\* An alert is false or missing only if the create had read what was stale when it
\* used it, or put its row on the log of another project.
THEOREM AmissSound == Budget!Spec => AlertAmissHasCause
<1> DEFINE Caused == \A r \in Requests :
             Budget!CheckBudget(r) /\ ~(Budget!Alerts(r) <=> r \in crossed)
               => r \in overtaken \/ request[r].material \in away
<1>1. Budget!IInv => Caused
  <2> SUFFICES ASSUME Budget!IInv, NEW r \in Requests, Budget!CheckBudget(r),
                      r \notin overtaken, request[r].material \notin away
               PROVE  Budget!Alerts(r) <=> r \in crossed
    OBVIOUS
  <2>1. HoldsFor(r)
    BY BudgetFacts
  <2> QED
    BY <2>1 DEF HoldsFor, Budget!CheckBudget, Budget!At, Budget!Alerts
<1>2. AlertAmissHasCause <=> [][Caused]_(Budget!vars)
  BY DEF AlertAmissHasCause, Budget!AlertAmissHasCause
<1> HIDE DEF Caused
<1> QED
  BY <1>1, <1>2, BudgetInvariance, PTL

-----------------------------------------------------------------------------
(* LogEmbedding.                                                           *)
\* The empty log satisfies the invariant.
LEMMA TextInit == Text!Init => Text!IInv
<1> SUFFICES ASSUME Text!Init PROVE Text!IInv
  OBVIOUS
<1>0. Text!Idle.at = 0 /\ Text!Idle \in Text!Tasks
  BY DEF Text!Idle, Text!Begun, Text!Tasks, Text!NoText, Text!Texts
<1>1. Text!TypeOK
  <2>1. /\ parts \in Text!Texts /\ embedded \in Text!Texts /\ textQueue \in Nat
        /\ textRequest \in [Editing -> {"free", "queueing"}]
        /\ textWorker \in [Embedders -> Text!Tasks]
    BY <1>0 DEF Text!Init, Text!NoText, Text!Texts
  <2>2. textLost \in BOOLEAN /\ backdated \in BOOLEAN
    BY Zenon DEF Text!Init
  <2> QED
    BY <2>1, <2>2 DEF Text!TypeOK
<1>2. \A w \in Embedders : textWorker[w].at = 0
  BY <1>0 DEF Text!Init
<1>3. Text!Between
  BY <1>2 DEF Text!Between, Text!Init, Text!NoText, Text!Parts
<1>4. Text!UpToDate
  BY <1>2 DEF Text!UpToDate, Text!Init
<1> QED
  BY <1>1, <1>3, <1>4 DEF Text!IInv

\* What the tasks hold.
LEMMA TextTasks ==
  ASSUME Text!TypeOK, NEW w \in Embedders
  PROVE  /\ textWorker[w].at \in 0 .. 5 /\ textWorker[w].passed \in BOOLEAN
         /\ textWorker[w].seen \in Text!Texts
         /\ \A p \in Text!Parts : textWorker[w].seen[p] \in Nat /\ embedded[p] \in Nat /\ parts[p] \in Nat
BY DEF Text!TypeOK, Text!Tasks, Text!Texts

\* A select fills in one part and leaves the others.
LEMMA TextSelects ==
  ASSUME Text!TypeOK, NEW w \in Embedders, Text!SelectPart(w)
  PROVE  /\ textWorker[w].at \in Text!Parts
         /\ textWorker'[w].at = textWorker[w].at + 1
         /\ textWorker'[w].passed = textWorker[w].passed
         /\ \A p \in Text!Parts : textWorker'[w].seen[p] =
                                  IF p = textWorker[w].at THEN parts[p] ELSE textWorker[w].seen[p]
         /\ \A v \in Embedders \ {w} : textWorker'[v] = textWorker[v]
         /\ textWorker' \in [Embedders -> Text!Tasks]
<1> DEFINE i == textWorker[w].at
<1>1. /\ i \in Text!Parts
      /\ textWorker' = [textWorker EXCEPT ![w].at = i + 1, ![w].seen[i] = parts[i]]
  BY DEF Text!SelectPart
<1>2. textWorker \in [Embedders -> Text!Tasks] /\ textWorker[w].seen \in [Text!Parts -> Nat]
  BY DEF Text!TypeOK, Text!Tasks, Text!Texts
<1>3. i + 1 \in 0 .. 5 /\ parts[i] \in Nat
  BY <1>1 DEF Text!TypeOK, Text!Parts, Text!Texts
<1>4. textWorker'[w] = [textWorker[w] EXCEPT !.at = i + 1, !.seen = [@ EXCEPT ![i] = parts[i]]]
  <2> HIDE DEF i
  <2> QED
    BY <1>1, <1>2 DEF Text!Tasks
<1>5. /\ textWorker'[w] \in Text!Tasks
      /\ textWorker'[w].at = i + 1 /\ textWorker'[w].passed = textWorker[w].passed
      /\ textWorker'[w].seen = [textWorker[w].seen EXCEPT ![i] = parts[i]]
  <2>1. [textWorker[w].seen EXCEPT ![i] = parts[i]] \in Text!Texts
    BY <1>1, <1>2, <1>3 DEF Text!Texts
  <2> HIDE DEF i
  <2> QED
    BY <1>2, <1>3, <1>4, <2>1 DEF Text!Tasks
<1>6. \A v \in Embedders \ {w} : textWorker'[v] = textWorker[v]
  BY <1>1, <1>2
<1>7. textWorker' = [v \in Embedders |-> textWorker'[v]]
  BY <1>1, <1>2
<1> HIDE DEF i
<1>8. textWorker' \in [Embedders -> Text!Tasks]
  BY <1>2, <1>5, <1>6, <1>7
<1>9. \A p \in Text!Parts : textWorker'[w].seen[p] = IF p = i THEN parts[p] ELSE textWorker[w].seen[p]
  BY <1>2, <1>5
<1> QED
  BY <1>1, <1>5, <1>6, <1>8, <1>9 DEF i

\* When a task has stored its text, whoever is still under way was passed.
LEMMA TextEnds ==
  ASSUME Text!TypeOK, NEW w \in Embedders, Text!Ends(w)
  PROVE  /\ textWorker' \in [Embedders -> Text!Tasks]
         /\ textWorker'[w].at = 0
         /\ \A v \in Embedders \ {w} :
              /\ textWorker'[v].at = textWorker[v].at /\ textWorker'[v].seen = textWorker[v].seen
              /\ textWorker[v].at > 0 => textWorker'[v].passed
<1>1. Text!Idle \in Text!Tasks /\ Text!Idle.at = 0
  BY DEF Text!Idle, Text!Begun, Text!Tasks, Text!NoText, Text!Texts
<1>2. ASSUME NEW v \in Embedders \ {w}
      PROVE  /\ textWorker'[v] \in Text!Tasks
             /\ textWorker'[v].at = textWorker[v].at /\ textWorker'[v].seen = textWorker[v].seen
             /\ textWorker[v].at > 0 => textWorker'[v].passed
  <2>1. textWorker'[v] = [textWorker[v] EXCEPT !.passed = textWorker[v].at > 0]
    BY <1>2 DEF Text!Ends
  <2>2. (textWorker[v].at > 0) \in BOOLEAN /\ textWorker[v] \in Text!Tasks
    BY DEF Text!TypeOK
  <2> DEFINE passed == textWorker[v].at > 0
  <2>3. passed \in BOOLEAN /\ textWorker'[v] = [textWorker[v] EXCEPT !.passed = passed]
    BY <2>1, <2>2
  <2> HIDE DEF passed
  <2>4. /\ textWorker'[v] \in Text!Tasks
        /\ textWorker'[v].at = textWorker[v].at /\ textWorker'[v].seen = textWorker[v].seen
        /\ textWorker'[v].passed = passed
    BY <2>2, <2>3, Zenon DEF Text!Tasks
  <2> QED
    BY <2>4 DEF passed
<1>3. textWorker'[w] = Text!Idle /\ textWorker' = [v \in Embedders |-> textWorker'[v]]
  BY DEF Text!Ends
<1> QED
  BY <1>1, <1>2, <1>3

\* A task that begins, fails or dies leaves the others as they are.
LEMMA TextTurns ==
  ASSUME Text!TypeOK, NEW w \in Embedders, Text!Receive(w) \/ Text!TaskFails(w)
  PROVE  /\ textWorker' \in [Embedders -> Text!Tasks]
         /\ textWorker'[w].at = IF Text!Receive(w) THEN 1 ELSE 0
         /\ \A v \in Embedders \ {w} : textWorker'[v] = textWorker[v]
<1>1. /\ Text!Idle \in Text!Tasks /\ Text!Idle.at = 0
      /\ Text!Begun \in Text!Tasks /\ Text!Begun.at = 1
  BY DEF Text!Idle, Text!Begun, Text!Tasks, Text!NoText, Text!Texts
<1>2. Text!Receive(w) => textWorker' = [textWorker EXCEPT ![w] = Text!Begun]
  BY DEF Text!Receive
<1>3. ~Text!Receive(w) => textWorker' = [textWorker EXCEPT ![w] = Text!Idle]
  BY DEF Text!TaskFails
<1>4. textWorker \in [Embedders -> Text!Tasks]
  BY DEF Text!TypeOK
<1> QED
  BY <1>1, <1>2, <1>3, <1>4

-----------------------------------------------------------------------------
\* One step per action, each keeping the types.
LEMMA TextTypeStep == Text!TypeOK /\ [Text!Next]_(Text!vars) => Text!TypeOK'
<1> SUFFICES ASSUME Text!TypeOK, [Text!Next]_(Text!vars) PROVE Text!TypeOK'
  OBVIOUS
<1> DEFINE Data == /\ parts' \in Text!Texts /\ embedded' \in Text!Texts /\ textQueue' \in Nat
                   /\ textRequest' \in [Editing -> {"free", "queueing"}]
                   /\ textWorker' \in [Embedders -> Text!Tasks]
           Past == textLost' \in BOOLEAN /\ backdated' \in BOOLEAN
<1> SUFFICES Data /\ Past
  BY DEF Text!TypeOK
<1>1. ASSUME NEW r \in Editing, NEW p \in Text!Parts, Text!Commit(r, p) PROVE Data /\ Past
  BY <1>1 DEF Text!Commit, Text!history, Text!TypeOK, Text!Texts
<1>2. ASSUME NEW r \in Editing, Text!Enqueue(r) PROVE Data /\ Past
  <2>1. Data
    BY <1>2 DEF Text!Enqueue, Text!TypeOK
  <2>2. Past
    BY <1>2, Zenon DEF Text!Enqueue, Text!TypeOK
  <2> QED
    BY <2>1, <2>2
<1>3. CASE Text!Backfill
  BY <1>3 DEF Text!Backfill, Text!history, Text!TypeOK
<1>4. ASSUME NEW w \in Embedders, Text!Receive(w) PROVE Data /\ Past
  <2>1. textQueue' \in Nat
    BY <1>4 DEF Text!Receive, Text!TypeOK
  <2>2. UNCHANGED <<parts, textRequest, embedded, textLost, backdated>>
    BY <1>4 DEF Text!Receive, Text!history
  <2> QED
    BY <1>4, <2>1, <2>2, TextTurns DEF Text!TypeOK
<1>5. ASSUME NEW w \in Embedders, Text!SelectPart(w) PROVE Data /\ Past
  BY <1>5, TextSelects DEF Text!SelectPart, Text!history, Text!TypeOK
<1>6. ASSUME NEW w \in Embedders, Text!Upsert(w) PROVE Data /\ Past
  <2>1. Text!Ends(w) /\ embedded' = textWorker[w].seen /\ backdated' = textWorker[w].passed
    BY <1>6 DEF Text!Upsert
  <2> QED
    BY <1>6, <2>1, TextEnds, TextTasks DEF Text!Upsert, Text!TypeOK
<1>7. ASSUME NEW w \in Embedders, Text!TaskFails(w) PROVE Data /\ Past
  <2>1. textLost' = TRUE
    BY <1>7, Zenon DEF Text!TaskFails
  <2> QED
    BY <1>7, <2>1, TextTurns DEF Text!TaskFails, Text!TypeOK
<1>8. CASE UNCHANGED Text!vars
  BY <1>8 DEF Text!vars, Text!history, Text!TypeOK
<1> HIDE DEF Data, Past
<1> QED
  BY <1>1, <1>2, <1>3, <1>4, <1>5, <1>6, <1>7, <1>8 DEF Text!Next, Text!Works

\* Versions only grow, and what is selected lies in between.
LEMMA TextBetweenStep ==
  Text!TypeOK /\ Text!Between /\ [Text!Next]_(Text!vars) => Text!Between'
<1> SUFFICES ASSUME Text!TypeOK, Text!Between, [Text!Next]_(Text!vars) PROVE Text!Between'
  OBVIOUS
<1>0. /\ \A p \in Text!Parts : embedded[p] <= parts[p]
      /\ \A w \in Embedders : \A p \in Text!Parts : p < textWorker[w].at =>
           /\ textWorker[w].seen[p] <= parts[p]
           /\ ~textWorker[w].passed => embedded[p] <= textWorker[w].seen[p]
  BY DEF Text!Between
<1>n. ASSUME NEW p \in Text!Parts
      PROVE  /\ embedded[p] \in Nat /\ parts[p] \in Nat
             /\ \A w \in Embedders : textWorker[w].seen[p] \in Nat
  BY DEF Text!TypeOK, Text!Tasks, Text!Texts
<1> DEFINE Task(w) == \A p \in Text!Parts : p < textWorker'[w].at =>
                        /\ textWorker'[w].seen[p] <= parts'[p]
                        /\ ~textWorker'[w].passed => embedded'[p] <= textWorker'[w].seen[p]
           Goal == /\ \A p \in Text!Parts : embedded'[p] <= parts'[p]
                   /\ \A w \in Embedders : Task(w)
<1> SUFFICES Goal
  BY DEF Text!Between
<1>1. ASSUME NEW r \in Editing, NEW p \in Text!Parts, Text!Commit(r, p) PROVE Goal
  <2>1. \A q \in Text!Parts : parts'[q] \in Nat /\ parts[q] <= parts'[q]
    BY <1>1 DEF Text!Commit, Text!TypeOK, Text!Texts
  <2>2. embedded' = embedded /\ textWorker' = textWorker
    BY <1>1 DEF Text!Commit
  <2> QED
    BY <1>0, <1>n, <2>1, <2>2
<1>2. ASSUME UNCHANGED <<parts, textWorker, embedded>> PROVE Goal
  BY <1>0, <1>2
<1>3. ASSUME NEW w \in Embedders, Text!Receive(w) \/ Text!TaskFails(w) PROVE Goal
  <2>1. parts' = parts /\ embedded' = embedded
    BY <1>3 DEF Text!Receive, Text!TaskFails
  <2>2. Task(w)
    BY <1>3, TextTurns DEF Text!Parts
  <2>3. \A v \in Embedders \ {w} : textWorker'[v] = textWorker[v]
    BY <1>3, TextTurns
  <2> QED
    BY <1>0, <2>1, <2>2, <2>3
<1>4. ASSUME NEW w \in Embedders, Text!SelectPart(w) PROVE Goal
  <2>1. parts' = parts /\ embedded' = embedded
    BY <1>4 DEF Text!SelectPart
  <2>2. ASSUME NEW p \in Text!Parts, p < textWorker'[w].at
        PROVE  /\ textWorker'[w].seen[p] <= parts[p]
               /\ ~textWorker'[w].passed => embedded[p] <= textWorker'[w].seen[p]
    <3>1. CASE p = textWorker[w].at
      <4>1. textWorker'[w].seen[p] = parts[p]
        BY <1>4, <3>1, TextSelects
      <4> QED
        BY <4>1, <1>0, <1>n
    <3>2. CASE p # textWorker[w].at
      <4>1. textWorker'[w].seen[p] = textWorker[w].seen[p] /\ p < textWorker[w].at
        BY <1>4, <2>2, <3>2, TextSelects DEF Text!Parts
      <4> QED
        BY <1>0, <1>4, <4>1, TextSelects
    <3> QED
      BY <3>1, <3>2
  <2>3. \A v \in Embedders \ {w} : textWorker'[v] = textWorker[v]
    BY <1>4, TextSelects
  <2> QED
    BY <1>0, <2>1, <2>2, <2>3
<1>5. ASSUME NEW w \in Embedders, Text!Upsert(w) PROVE Goal
  <2>1. /\ parts' = parts /\ embedded' = textWorker[w].seen /\ textWorker[w].at = 5
        /\ Text!Ends(w)
    BY <1>5 DEF Text!Upsert
  <2>2. \A p \in Text!Parts : embedded'[p] <= parts'[p]
    BY <1>0, <2>1 DEF Text!Parts
  <2>3. Task(w)
    BY <2>1, TextEnds DEF Text!Parts
  <2>4. ASSUME NEW v \in Embedders \ {w} PROVE Task(v)
    <3>1. /\ textWorker'[v].at = textWorker[v].at /\ textWorker'[v].seen = textWorker[v].seen
          /\ textWorker[v].at > 0 => textWorker'[v].passed
      BY <2>1, TextEnds
    <3>2. \A p \in Text!Parts : p < textWorker[v].at => textWorker[v].at > 0
      BY TextTasks DEF Text!Parts
    <3> QED
      BY <1>0, <2>1, <3>1, <3>2
  <2> QED
    BY <2>2, <2>3, <2>4
<1>6. ASSUME (\E r \in Editing : Text!Enqueue(r)) \/ Text!Backfill \/ UNCHANGED Text!vars
      PROVE  Goal
  BY <1>2, <1>6 DEF Text!Enqueue, Text!Backfill, Text!vars
<1> QED
  BY <1>1, <1>3, <1>4, <1>5, <1>6 DEF Text!Next, Text!Works

\* Whoever edits leaves a message, whoever takes the last one selects all, and
\* whoever stores its text after that one was passed by it.
LEMMA TextUpToDateStep ==
  Text!TypeOK /\ Text!UpToDate /\ [Text!Next]_(Text!vars) => Text!UpToDate'
<1> DEFINE Settled == ~textLost /\ textQueue = 0 /\ \A r \in Editing : textRequest[r] = "free"
           Settling == /\ backdated \/ embedded = parts
                       /\ \A w \in Embedders : textWorker[w].at > 0 => textWorker[w].passed
           Goal == (\E w \in Embedders : Text!Current(w)') \/ Settling'
<1> SUFFICES ASSUME Text!TypeOK, Text!UpToDate, [Text!Next]_(Text!vars), Settled'
             PROVE  Goal
  BY DEF Text!UpToDate
<1>0. Settled => (\E w \in Embedders : Text!Current(w)) \/ Settling
  BY DEF Text!UpToDate
<1>1. ASSUME NEW r \in Editing, NEW p \in Text!Parts, Text!Commit(r, p) PROVE Goal
  <2>1. textRequest'[r] = "queueing"
    BY <1>1 DEF Text!Commit, Text!TypeOK
  <2> QED
    BY <2>1
<1>2. ASSUME (\E r \in Editing : Text!Enqueue(r)) \/ Text!Backfill PROVE Goal
  <2>1. textQueue' = textQueue + 1 \/ textLost' = TRUE
    BY <1>2 DEF Text!Enqueue, Text!Backfill
  <2>2. textQueue \in Nat
    BY DEF Text!TypeOK
  <2> QED
    BY <2>1, <2>2
<1>3. ASSUME NEW w \in Embedders, Text!Receive(w) PROVE Goal
  <2>1. textWorker'[w].at = 1
    BY <1>3, TextTurns
  <2>2. Text!Current(w)'
    BY <2>1 DEF Text!Current, Text!Parts
  <2> QED
    BY <2>2
<1>4. ASSUME NEW w \in Embedders, Text!SelectPart(w) PROVE Goal
  <2>1. parts' = parts /\ embedded' = embedded /\ backdated' = backdated /\ Settled
    BY <1>4 DEF Text!SelectPart, Text!history
  <2>2. \A v \in Embedders \ {w} : textWorker'[v] = textWorker[v]
    BY <1>4, TextSelects
  <2>3. ASSUME NEW v \in Embedders, Text!Current(v) PROVE Text!Current(v)'
    <3>1. CASE v = w
      <4>1. textWorker'[w].at > 0
        BY <1>4, TextSelects DEF Text!Parts
      <4>2. ASSUME NEW p \in Text!Parts, p < textWorker'[w].at
            PROVE  textWorker'[w].seen[p] = parts[p]
        BY <1>4, <2>3, <3>1, <4>2, TextSelects DEF Text!Parts, Text!Current
      <4> QED
        BY <2>1, <3>1, <4>1, <4>2 DEF Text!Current
    <3>2. CASE v # w
      BY <2>1, <2>2, <2>3, <3>2 DEF Text!Current
    <3> QED
      BY <3>1, <3>2
  <2>4. CASE Settling
    <3>1. textWorker[w].at > 0 /\ textWorker'[w].passed = textWorker[w].passed
      BY <1>4, TextSelects DEF Text!Parts
    <3> QED
      BY <2>1, <2>2, <2>4, <3>1
  <2> QED
    BY <1>0, <2>1, <2>3, <2>4
<1>5. ASSUME NEW w \in Embedders, Text!Upsert(w) PROVE Goal
  <2>1. /\ parts' = parts /\ Settled /\ embedded' = textWorker[w].seen /\ textWorker[w].at = 5
        /\ backdated' = textWorker[w].passed /\ Text!Ends(w)
    BY <1>5 DEF Text!Upsert
  <2>2. \A v \in Embedders : textWorker'[v].at > 0 => textWorker'[v].passed
    BY <2>1, TextEnds
  <2>3. CASE Text!Current(w)
    <3>1. \A p \in Text!Parts : textWorker[w].seen[p] = parts[p]
      BY <2>1, <2>3 DEF Text!Current, Text!Parts
    <3>2. textWorker[w].seen \in Text!Texts /\ parts \in Text!Texts
      BY TextTasks DEF Text!TypeOK
    <3>3. textWorker[w].seen = parts
      BY <3>1, <3>2 DEF Text!Texts
    <3> QED
      BY <2>1, <2>2, <3>3
  <2>4. ASSUME NEW v \in Embedders, v # w, Text!Current(v) PROVE Goal
    <3>1. textWorker'[v].at = textWorker[v].at /\ textWorker'[v].seen = textWorker[v].seen
      BY <2>1, <2>4, TextEnds
    <3>2. Text!Current(v)'
      BY <2>1, <2>4, <3>1 DEF Text!Current
    <3> QED
      BY <3>2
  <2>5. CASE Settling
    BY <2>1, <2>2, <2>5
  <2> QED
    BY <1>0, <2>1, <2>3, <2>4, <2>5
<1>6. ASSUME NEW w \in Embedders, Text!TaskFails(w) PROVE Goal
  BY <1>6 DEF Text!TaskFails
<1>7. CASE UNCHANGED Text!vars
  BY <1>0, <1>7 DEF Text!vars, Text!history, Text!Current
<1> HIDE DEF Goal
<1> QED
  BY <1>1, <1>2, <1>3, <1>4, <1>5, <1>6, <1>7 DEF Text!Next, Text!Works

-----------------------------------------------------------------------------
\* The inductive invariant holds in every reachable state.
THEOREM TextInvariance == Text!Spec => []TextInv
<1>1. Text!IInv /\ [Text!Next]_(Text!vars) => Text!IInv'
  BY TextTypeStep, TextBetweenStep, TextUpToDateStep DEF Text!IInv
<1> QED
  BY TextInit, <1>1, PTL DEF Text!Spec, TextInv

\* Every variable keeps its type.
THEOREM TextTypes == Text!Spec => []Text!TypeOK
<1>1. Text!IInv => Text!TypeOK
  BY DEF Text!IInv
<1> QED
  BY TextInvariance, <1>1, PTL DEF TextInv

\* When no request, message or task is under way, the stored text is that of the
\* tables, unless a task was lost or the one that stored it had been passed.
THEOREM CurrentSound == Text!Spec => []Text!CurrentWhenQuiet
<1>1. Text!IInv => Text!CurrentWhenQuiet
  BY DEF Text!IInv, Text!UpToDate, Text!CurrentWhenQuiet, Text!Quiet, Text!Current
<1> QED
  BY TextInvariance, <1>1, PTL DEF TextInv

\* No part of the text goes back to an earlier version but by a task that was
\* passed by another, losses included.
THEOREM OrderSound == Text!Spec => TextNeverOlder
<1>1. Text!IInv /\ [Text!Next]_(Text!vars) =>
        [backdated' \/ \A p \in Text!Parts : embedded'[p] >= embedded[p]]_(Text!vars)
  <2> SUFFICES ASSUME Text!IInv, Text!Next, ~backdated', NEW p \in Text!Parts
               PROVE  embedded'[p] >= embedded[p]
    OBVIOUS
  <2>0. embedded[p] \in Nat /\ \A w \in Embedders : textWorker[w].seen[p] \in Nat
    BY DEF Text!IInv, Text!TypeOK, Text!Tasks, Text!Texts
  <2>1. CASE embedded' = embedded
    BY <2>0, <2>1
  <2>2. CASE embedded' # embedded
    <3>1. PICK w \in Embedders : Text!Upsert(w)
      BY <2>2 DEF Text!Next, Text!Works, Text!Commit, Text!Enqueue, Text!Backfill, Text!Receive,
                  Text!SelectPart, Text!TaskFails
    <3>2. embedded' = textWorker[w].seen /\ p < textWorker[w].at /\ ~textWorker[w].passed
      BY <3>1 DEF Text!Upsert, Text!Parts
    <3>3. embedded[p] <= textWorker[w].seen[p]
      BY <3>2 DEF Text!IInv, Text!Between
    <3> QED
      BY <2>0, <3>2, <3>3
  <2> QED
    BY <2>1, <2>2
<1> QED
  BY TextInvariance, <1>1, PTL DEF Text!Spec, Text!NeverOlder, TextInv, TextNeverOlder

-----------------------------------------------------------------------------
(* The three scenes.                                                       *)

\* The three invariants hold whichever scene is played.
THEOREM AlertsInvariance == AlertsSpec => []AlertsInv
<1>1. AlertsInit => AlertsInv
  <2>1. Hub!Init => Hub!IInv
    BY HubInit, HubSoundIs
  <2> QED
    BY <2>1, AlertInit, BudgetInit DEF AlertsInit, AlertsInv
<1>2. AlertsInv /\ [AlertsNext]_<<vars, budgetVars, hubVars, scene>> => AlertsInv'
  <2> SUFFICES ASSUME AlertsInv, [AlertsNext]_<<vars, budgetVars, hubVars, scene>> PROVE AlertsInv'
    OBVIOUS
  <2>1. [Next]_vars
    BY DEF AlertsNext
  <2>2. [Budget!Next]_(Budget!vars)
    BY DEF AlertsNext, budgetVars, Budget!vars
  <2>3. [Hub!Next]_(Hub!vars)
    BY DEF AlertsNext, hubVars, Hub!vars
  <2>4. IInv /\ Budget!IInv /\ Hub!IInv
    BY DEF AlertsInv
  <2>5. IInv'
    BY <2>1, <2>4, AlertStep
  <2>6. Budget!IInv'
    BY <2>2, <2>4, BudgetStep
  <2>7. Hub!IInv'
    BY <2>3, <2>4, HubStepIs
  <2> QED
    BY <2>5, <2>6, <2>7 DEF AlertsInv
<1> QED
  BY <1>1, <1>2, PTL DEF AlertsSpec
=============================================================================
