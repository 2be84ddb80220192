------------------------ MODULE ResponseCaches_proofs ------------------------
(***************************************************************************)
(* Proofs about ResponseCaches, for any projects, users, requests and all  *)
(* kinds of key.  Every write is a commit followed by deletions that cover *)
(* what it makes stale of Kept, unless it is made under the address of     *)
(* another project (WriteCommits); the rest is about what a request still  *)
(* has to delete.                                                          *)
(***************************************************************************)
EXTENDS ResponseCaches, SequenceTheorems, TLAPS

Lists == Seq(SUBSET Keys) \ {<< >>}
Covers(drops, k) == \E i \in DOMAIN drops : k \in drops[i]

\* What a request still has to delete, as a list.
LEMMA PendingCovers ==
  ASSUME NEW r \in Requests, NEW k
  PROVE  k \in Pending(r) <=> At(r, "dropping") /\ Covers(request[r].drops, k)
BY DEF Pending, Covers

\* A list of one deletion covers what it deletes.
LEMMA ListOf1 ==
  ASSUME NEW A \in SUBSET Keys
  PROVE  <<A>> \in Lists /\ \A k : k \in A => Covers(<<A>>, k)
BY DEF Lists, Covers

\* Two deletions.
LEMMA ListOf2 ==
  ASSUME NEW A \in SUBSET Keys, NEW B \in SUBSET Keys
  PROVE  <<A, B>> \in Lists /\ \A k : k \in A \/ k \in B => Covers(<<A, B>>, k)
BY DEF Lists, Covers

\* Three deletions.
LEMMA ListOf3 ==
  ASSUME NEW A \in SUBSET Keys, NEW B \in SUBSET Keys, NEW C \in SUBSET Keys
  PROVE  <<A, B, C>> \in Lists /\ \A k : k \in A \/ k \in B \/ k \in C => Covers(<<A, B, C>>, k)
BY DEF Lists, Covers

\* Four deletions.
LEMMA ListOf4 ==
  ASSUME NEW A \in SUBSET Keys, NEW B \in SUBSET Keys, NEW C \in SUBSET Keys,
         NEW D \in SUBSET Keys
  PROVE  /\ <<A, B, C, D>> \in Lists
         /\ \A k : k \in A \/ k \in B \/ k \in C \/ k \in D => Covers(<<A, B, C, D>>, k)
<1>1. <<A, B, C, D>> \in Seq(SUBSET Keys) /\ <<A, B, C, D>> # << >>
  OBVIOUS
<1>2. ASSUME NEW k, k \in A \/ k \in B \/ k \in C \/ k \in D PROVE Covers(<<A, B, C, D>>, k)
  <2>1. DOMAIN <<A, B, C, D>> = 1 .. 4
    OBVIOUS
  <2> QED
    BY <1>2, <2>1 DEF Covers
<1> QED
  BY <1>1, <1>2 DEF Lists

\* What a deletion names are keys.
LEMMA KeySets ==
  ASSUME NEW kinds, NEW owners
  PROVE  KeysOf(kinds, owners) \subseteq Keys /\ All(kinds) \subseteq Keys
BY DEF KeysOf, All

\* After the first deletion of a list the others remain.
LEMMA TailCovers ==
  ASSUME NEW drops \in Lists, NEW k, Covers(drops, k), k \notin Head(drops)
  PROVE  Len(drops) # 1 /\ Covers(Tail(drops), k)
<1>1. drops \in Seq(SUBSET Keys) /\ drops # << >>
  BY DEF Lists
<1>2. PICK i \in 1 .. Len(drops) : k \in drops[i]
  BY <1>1 DEF Covers
<1>3. /\ Tail(drops) \in Seq(SUBSET Keys) /\ Len(Tail(drops)) = Len(drops) - 1
      /\ \A j \in 1 .. Len(Tail(drops)) : Tail(drops)[j] = drops[j + 1]
      /\ Head(drops) = drops[1] /\ Len(drops) \in Nat
  BY <1>1, HeadTailProperties, LenProperties
<1>4. i - 1 \in 1 .. Len(Tail(drops)) /\ Tail(drops)[i - 1] = drops[i] /\ Len(drops) # 1
  <2>1. i # 1
    BY <1>2, <1>3
  <2>2. i - 1 \in 1 .. Len(Tail(drops)) /\ Len(drops) # 1
    BY <2>1, <1>3
  <2>3. Tail(drops)[i - 1] = drops[(i - 1) + 1]
    BY <2>2, <1>3
  <2> QED
    BY <2>2, <2>3
<1>5. DOMAIN Tail(drops) = 1 .. Len(Tail(drops))
  BY <1>3, LenProperties
<1> QED
  BY <1>2, <1>4, <1>5 DEF Covers

\* What is left of a list of deletions is a list.
LEMMA TailLists ==
  ASSUME NEW drops \in Lists, Len(drops) # 1
  PROVE  Tail(drops) \in Lists
<1>1. drops \in Seq(SUBSET Keys) /\ drops # << >>
  BY DEF Lists
<1>2. /\ Tail(drops) \in Seq(SUBSET Keys) /\ Len(Tail(drops)) = Len(drops) - 1
      /\ Len(drops) \in Nat
  BY <1>1, HeadTailProperties, LenProperties
<1>3. Tail(drops) # << >>
  <2>1. Len(<< >>) = 0
    OBVIOUS
  <2>2. Len(Tail(drops)) # 0
    BY <1>2
  <2> QED
    BY <2>1, <2>2
<1> QED
  BY <1>2, <1>3 DEF Lists

\* A deletion more at the end of a list.
LEMMA Appended ==
  ASSUME NEW L \in Lists, NEW D \in SUBSET Keys
  PROVE  /\ Append(L, D) \in Lists
         /\ \A k : Covers(L, k) \/ k \in D => Covers(Append(L, D), k)
<1>1. L \in Seq(SUBSET Keys)
  BY DEF Lists
<1>2. /\ Append(L, D) \in Seq(SUBSET Keys) /\ Append(L, D) # << >>
      /\ Len(Append(L, D)) = Len(L) + 1 /\ Append(L, D)[Len(L) + 1] = D
      /\ \A i \in 1 .. Len(L) : Append(L, D)[i] = L[i]
  BY <1>1, AppendProperties
<1>3. /\ DOMAIN L = 1 .. Len(L) /\ Len(L) \in Nat
      /\ DOMAIN Append(L, D) = 1 .. Len(L) + 1
  BY <1>1, <1>2, LenProperties
<1>4. ASSUME NEW k, Covers(L, k) PROVE Covers(Append(L, D), k)
  <2>1. PICK i \in 1 .. Len(L) : k \in L[i]
    BY <1>3, <1>4 DEF Covers
  <2>2. i \in DOMAIN Append(L, D) /\ Append(L, D)[i] = L[i]
    BY <1>2, <1>3
  <2> QED
    BY <2>1, <2>2 DEF Covers
<1>5. ASSUME NEW k, k \in D PROVE Covers(Append(L, D), k)
  <2>1. Len(L) + 1 \in DOMAIN Append(L, D)
    BY <1>3
  <2> QED
    BY <1>2, <1>5, <2>1 DEF Covers
<1> QED
  BY <1>2, <1>4, <1>5 DEF Lists

\* A deletion more before a list.
LEMMA Preceded ==
  ASSUME NEW A \in SUBSET Keys, NEW L \in Lists
  PROVE  /\ <<A>> \o L \in Lists
         /\ \A k : k \in A \/ Covers(L, k) => Covers(<<A>> \o L, k)
<1>1. <<A>> \in Seq(SUBSET Keys) /\ Len(<<A>>) = 1 /\ <<A>>[1] = A
  OBVIOUS
<1>2. L \in Seq(SUBSET Keys) /\ Len(L) \in Nat /\ DOMAIN L = 1 .. Len(L)
  BY LenProperties DEF Lists
<1>3. /\ <<A>> \o L \in Seq(SUBSET Keys)
      /\ Len(<<A>> \o L) = 1 + Len(L)
      /\ \A i \in 1 .. 1 + Len(L) :
           (<<A>> \o L)[i] = IF i <= 1 THEN <<A>>[i] ELSE L[i - 1]
  BY <1>1, <1>2, ConcatProperties
<1>4. DOMAIN (<<A>> \o L) = 1 .. 1 + Len(L)
  BY <1>3, LenProperties
<1>5. ASSUME NEW k, k \in A PROVE Covers(<<A>> \o L, k)
  <2>1. 1 \in DOMAIN (<<A>> \o L) /\ (<<A>> \o L)[1] = A
    BY <1>1, <1>2, <1>3, <1>4
  <2> QED
    BY <1>5, <2>1 DEF Covers
<1>6. ASSUME NEW k, Covers(L, k) PROVE Covers(<<A>> \o L, k)
  <2>1. PICK i \in 1 .. Len(L) : k \in L[i]
    BY <1>2, <1>6 DEF Covers
  <2>2. i + 1 \in DOMAIN (<<A>> \o L) /\ (<<A>> \o L)[i + 1] = L[(i + 1) - 1]
    BY <1>2, <1>3, <1>4
  <2>3. L[(i + 1) - 1] = L[i]
    OBVIOUS
  <2> QED
    BY <2>1, <2>2, <2>3 DEF Covers
<1>7. <<A>> \o L # << >>
  <2>1. Len(<< >>) = 0
    OBVIOUS
  <2>2. Len(<<A>> \o L) # 0
    BY <1>2, <1>3
  <2> QED
    BY <2>1, <2>2
<1> QED
  BY <1>3, <1>5, <1>6, <1>7 DEF Lists

-----------------------------------------------------------------------------
(* One step of one request.                                                *)

\* What the records of requests hold.
LEMMA States ==
  ASSUME TypeOK, NEW r \in Requests
  PROVE  /\ Idle \in RequestState
         /\ At(r, "filling") => request[r].key \in Keys /\ request[r].fresh \in BOOLEAN
         /\ At(r, "dropping") => request[r].drops \in Lists
         /\ At(r, "admitted") => /\ request[r].by \in Office /\ request[r].project \in Projects
                                 /\ request[r].member \in BOOLEAN
<1>1. request[r] \in RequestState
  BY DEF TypeOK
<1>2. At(r, "filling") => request[r] \in [pc : {"filling"}, key : Keys, fresh : BOOLEAN]
  BY <1>1 DEF RequestState, At
<1>3. At(r, "dropping") => request[r] \in [pc : {"dropping"}, drops : Seq(SUBSET Keys)]
  BY <1>1 DEF RequestState, At
<1>4. At(r, "admitted") =>
        request[r] \in [pc : {"admitted"}, by : Office, project : Projects, member : BOOLEAN]
  BY <1>1 DEF RequestState, At
<1>5. Idle \in RequestState
  BY DEF Idle, RequestState
<1>6. At(r, "dropping") => request[r].drops # << >>
  BY DEF TypeOK, At
<1> QED
  BY <1>2, <1>3, <1>4, <1>5, <1>6 DEF Lists

\* What r does leaves what other requests still have to do.
Others(r) ==
  \A o \in Requests \ {r} :
    /\ request'[o].pc = request[o].pc
    /\ At(o, "dropping") => request'[o].drops = request[o].drops
    /\ At(o, "filling") => request'[o].key = request[o].key

\* Types of the requests alone.
RequestsTyped ==
  /\ request \in [Requests -> RequestState]
  /\ \A r \in Requests : request[r].pc = "dropping" => request[r].drops # << >>

\* A request that moves to a state of its own keeps types and the others' work.
LEMMA GoesOn ==
  ASSUME TypeOK, NEW r \in Requests, NEW state \in RequestState, Goes(r, state),
         state.pc = "dropping" => state.drops # << >>
  PROVE  RequestsTyped' /\ request'[r] = state /\ Others(r)
BY DEF TypeOK, RequestsTyped, Goes, Others

\* A commit keeps types, makes stale what it touches, and leaves its list.
LEMMA CommitStep ==
  ASSUME TypeOK, NEW r \in Requests, NEW touched, NEW drops \in Lists,
         Commit(r, touched, drops)
  PROVE  /\ copy' \in [Keys -> Ages] /\ RequestsTyped' /\ Others(r)
         /\ request'[r] = [pc |-> "dropping", drops |-> drops]
         /\ \A k \in Keys : copy'[k] = "stale" => copy[k] = "stale" \/ k \in touched
<1>1. copy' \in [Keys -> Ages]
  BY DEF Commit, TypeOK, Ages
<1>2. \A k \in Keys : copy'[k] = "stale" => copy[k] = "stale" \/ k \in touched
  BY DEF Commit
<1>3. request'[r] = [pc |-> "dropping", drops |-> drops]
  BY DEF Commit
<1>4. [pc |-> "dropping", drops |-> drops] \in RequestState /\ drops # << >>
  BY DEF RequestState, Lists
<1>5. ASSUME NEW o \in Requests \ {r}
      PROVE  /\ request'[o] \in RequestState /\ request'[o].pc = request[o].pc
             /\ At(o, "dropping") => request'[o] = request[o]
             /\ At(o, "filling") => request'[o].key = request[o].key
  <2>1. CASE At(o, "filling") /\ request[o].key \in touched
    <3>1. request[o] \in RequestState
      BY DEF TypeOK
    <3>2. request[o] \in [pc : {"filling"}, key : Keys, fresh : BOOLEAN]
      BY <2>1, <3>1 DEF RequestState, At
    <3>3. request'[o] = [request[o] EXCEPT !.fresh = FALSE]
      BY <1>5, <2>1 DEF Commit
    <3>4. /\ request'[o] \in [pc : {"filling"}, key : Keys, fresh : BOOLEAN]
          /\ request'[o].pc = "filling" /\ request'[o].key = request[o].key
      BY <3>2, <3>3
    <3> QED
      BY <2>1, <3>4 DEF RequestState, At
  <2>2. CASE ~(At(o, "filling") /\ request[o].key \in touched)
    <3>1. request'[o] = request[o]
      BY <1>5, <2>2 DEF Commit
    <3> QED
      BY <3>1 DEF TypeOK
  <2> QED
    BY <2>1, <2>2
<1>6. Others(r)
  BY <1>5 DEF Others
<1>7. RequestsTyped'
  <2>1. request' \in [Requests -> RequestState]
    <3>1. \A o \in Requests : request'[o] \in RequestState
      BY <1>3, <1>4, <1>5
    <3>2. request' = [o \in Requests |-> request'[o]]
      BY DEF Commit
    <3> QED
      BY <3>1, <3>2
  <2>2. ASSUME NEW o \in Requests, request'[o].pc = "dropping" PROVE request'[o].drops # << >>
    <3>1. CASE o = r
      BY <1>3, <1>4, <3>1
    <3>2. CASE o # r
      BY <1>5, <2>2, <3>2 DEF TypeOK, At
    <3> QED
      BY <3>1, <3>2
  <2> QED
    BY <2>1, <2>2 DEF RequestsTyped
<1> QED
  BY <1>1, <1>2, <1>3, <1>6, <1>7

-----------------------------------------------------------------------------
(* One write.                                                              *)

Listed == {"projects", "attendance"}
Paired == {"incidents", "equipment"}

\* The keys of Kept after a step.
LEMMA KeptNext ==
  ASSUME NEW k \in Kept'
  PROVE  /\ k \in Keys
         /\ \/ k[1] \in Listed
            \/ k[1] = "manager" /\ project'[k[2]] = "live"
            \/ k[1] \in Paired /\ k[2][1] = k[2][2]
BY DEF Kept, Listed, Paired

\* A commit whose deletions cover what it makes stale of Kept, but for what
\* is written under the address of another project.
Drops(r) ==
  \E touched : \E drops \in Lists :
    /\ Commit(r, touched, drops)
    /\ \A k \in Kept' : k \in touched => Covers(drops, k) \/ WrittenAbroad(r, k)

\* The writes of services.project.
LEMMA ProjectWrites ==
  ASSUME TypeOK, NEW r \in Requests,
         \/ CreateProject(r) \/ UpdateProject(r) \/ DeleteProject(r)
         \/ \E u \in Managers : AssignManager(r, u) \/ UnassignManager(r, u)
         \/ \E w \in Workers : AssignWorker(r, w) \/ UnassignWorker(r, w)
         \/ CreatePhase(r) \/ UpdatePhase(r)
  PROVE  Drops(r)
<1> DEFINE P == All({"projects"})
           D == KeysOf({"manager"}, {Here(r)})
           M == All({"ml"})
           W(w) == KeysOf({"worker projects"}, {w})
<1>0. P \in SUBSET Keys /\ D \in SUBSET Keys /\ M \in SUBSET Keys /\ \A w : W(w) \in SUBSET Keys
  BY KeySets
<1>a. \A k \in Keys : /\ k \in P <=> k[1] = "projects"
                      /\ k \in D <=> k[1] = "manager" /\ k[2] = Here(r)
  BY DEF KeysOf, All
<1> HIDE DEF P, D, M, W
<1>1. CASE CreateProject(r)
  <2>1. Commit(r, KeysOf({"projects"}, Owners) \cup All({"owner", "ml"}), <<P, M>>)
    BY <1>1 DEF CreateProject, P, M
  <2>2. ASSUME NEW k \in Kept', k \in KeysOf({"projects"}, Owners) \cup All({"owner", "ml"})
        PROVE  k \in P
    BY <1>a, <2>2, KeptNext DEF KeysOf, All, Listed, Paired
  <2> QED
    BY <1>0, <2>1, <2>2, ListOf2 DEF Drops
<1>2. CASE UpdateProject(r)
  <2>1. Commit(r, ReadProject(Here(r)), <<P, D, {}, M>>)
    BY <1>2 DEF UpdateProject, P, D, M
  <2>2. ASSUME NEW k \in Kept', k \in ReadProject(Here(r)) PROVE k \in P \/ k \in D
    BY <1>a, <2>2, KeptNext DEF ReadProject, KeysOf, All, Listed, Paired
  <2> QED
    BY <1>0, <2>1, <2>2, ListOf4 DEF Drops
<1>3. CASE DeleteProject(r)
  <2>1. Commit(r, ReadProject(Here(r)), <<P, {}, M>>)
    BY <1>3 DEF DeleteProject, P, M
  <2>2. project'[Here(r)] = "gone"
    BY <1>3, States DEF DeleteProject, ByOwner, OnLive, Here, TypeOK
  <2>3. ASSUME NEW k \in Kept', k \in ReadProject(Here(r)) PROVE k \in P
    BY <1>a, <2>2, <2>3, KeptNext DEF ReadProject, KeysOf, All, Listed, Paired
  <2> QED
    BY <1>0, <2>1, <2>3, ListOf3 DEF Drops
<1>4. CASE \E u \in Managers : AssignManager(r, u) \/ UnassignManager(r, u)
  <2>1. PICK u \in Managers : Commit(r, ReadManager(u), <<P>>)
    BY <1>4 DEF AssignManager, UnassignManager, P
  <2>2. ASSUME NEW k \in Kept', k \in ReadManager(u) PROVE k \in P
    BY <1>a, <2>2, KeptNext DEF ReadManager, KeysOf, All, Listed, Paired
  <2> QED
    BY <1>0, <2>1, <2>2, ListOf1 DEF Drops
<1>5. CASE \E w \in Workers : AssignWorker(r, w) \/ UnassignWorker(r, w)
  <2>1. PICK w \in Workers : Commit(r, ReadWorker(w), <<P, W(w)>>)
    BY <1>5 DEF AssignWorker, UnassignWorker, P, W
  <2>2. ASSUME NEW k \in Kept', k \in ReadWorker(w) PROVE k \in P
    BY <1>a, <2>2, KeptNext DEF ReadWorker, KeysOf, All, Listed, Paired
  <2> QED
    BY <1>0, <2>1, <2>2, ListOf2 DEF Drops
<1>6. CASE CreatePhase(r) \/ UpdatePhase(r)
  <2>1. Commit(r, ReadPhase(Here(r)), <<D>>)
    BY <1>6 DEF CreatePhase, UpdatePhase, D
  <2>2. ASSUME NEW k \in Kept', k \in ReadPhase(Here(r)) PROVE k \in D
    BY <1>a, <2>2, KeptNext DEF ReadPhase, KeysOf, All, Listed, Paired
  <2> QED
    BY <1>0, <2>1, <2>2, ListOf1 DEF Drops
<1> QED
  BY <1>1, <1>2, <1>3, <1>4, <1>5, <1>6

\* The deletions that every write of a daily log makes.
LEMMA DashboardList ==
  ASSUME NEW p, NEW u
  PROVE  /\ Dashboards(p, u) \in Lists
         /\ \A k \in Keys : k[1] = "manager" /\ k[2] = p => Covers(Dashboards(p, u), k)
<1>1. Dashboards(p, u) \in Lists /\ \A k \in KeysOf({"manager"}, {p}) : Covers(Dashboards(p, u), k)
  BY KeySets, ListOf3 DEF Dashboards
<1> QED
  BY <1>1 DEF KeysOf

\* The writes of the other services that look at the project of the log.
LEMMA LogWrites ==
  ASSUME TypeOK, NEW r \in Requests,
         \/ CreateLog(r) \/ UpdateLog(r) \/ (\E w \in Workers : CreateAttendance(r, w))
         \/ WriteUser(r) \/ Retrain(r)
  PROVE  Drops(r)
<1> DEFINE L == Dashboards(Here(r), By(r))
           Own(kind) == KeysOf({kind}, {Here(r)})
           M == All({"ml"})
<1>1. L \in Lists /\ \A k \in Keys : k[1] = "manager" /\ k[2] = Here(r) => Covers(L, k)
  BY DashboardList
<1>2. \A kind : Own(kind) \in SUBSET Keys
  BY KeySets
<1>3. M \in SUBSET Keys
  BY KeySets
<1>4. \A kind : \A k \in Keys : k \in Own(kind) <=> k[1] = kind /\ k[2] = Here(r)
  BY DEF KeysOf
<1> HIDE DEF L, Own, M
<1>5. CASE CreateLog(r) \/ UpdateLog(r)
  <2>1. PICK touched : /\ Commit(r, touched, Append(L, Own("logs")))
                       /\ touched \subseteq ReadLog(Here(r)) \cup All({"history"})
    BY <1>5 DEF CreateLog, UpdateLog, L, Own
  <2>2. ASSUME NEW k \in Kept', k \in touched PROVE Covers(L, k)
    BY <1>1, <2>1, <2>2, KeptNext DEF ReadLog, ReadRows, KeysOf, All, Listed, Paired
  <2> QED
    BY <1>1, <1>2, <2>1, <2>2, Appended DEF Drops
<1>6. CASE \E w \in Workers : CreateAttendance(r, w)
  <2> DEFINE touched(w) ==
        ReadRows(Here(r)) \cup KeysOf({"attendance"}, {Here(r)}) \cup KeysOf({"history"}, {w})
  <2>1. PICK w \in Workers : Commit(r, touched(w), <<Own("attendance")>> \o L)
    BY <1>6 DEF CreateAttendance, L, Own
  <2>2. ASSUME NEW k \in Kept', k \in touched(w)
        PROVE  k \in Own("attendance") \/ Covers(L, k)
    BY <1>1, <1>4, <2>2, KeptNext DEF ReadRows, KeysOf, All, Listed, Paired
  <2>3. /\ <<Own("attendance")>> \o L \in Lists
        /\ \A k : k \in Own("attendance") \/ Covers(L, k) => Covers(<<Own("attendance")>> \o L, k)
    BY <1>1, <1>2, Preceded
  <2> HIDE DEF touched
  <2> QED
    BY <2>1, <2>2, <2>3 DEF Drops
<1>7. CASE WriteUser(r)
  <2>1. Commit(r, ReadUsers, <<KeysOf({"users"}, {By(r)})>>)
    BY <1>7 DEF WriteUser
  <2>2. \A k \in Kept' : k \notin ReadUsers
    BY KeptNext DEF ReadUsers, All, Listed, Paired
  <2> QED
    BY <2>1, <2>2, KeySets, ListOf1 DEF Drops
<1>8. CASE Retrain(r)
  <2>1. Commit(r, M, <<M>>)
    BY <1>8 DEF Retrain, M
  <2> QED
    BY <1>3, <2>1, ListOf1 DEF Drops
<1> QED
  BY <1>5, <1>6, <1>7, <1>8

\* What the rows of a log of q and the list of one kind make stale of Kept.
LEMMA RowsRead ==
  ASSUME NEW k \in Kept', NEW q, NEW kind \in EntryKinds,
         k \in ReadRows(q) \cup ReadList(kind, q)
  PROVE  \/ k[1] = "manager" /\ k[2] = q
         \/ k[1] = kind /\ k[2] = <<q, q>>
<1>1. /\ k \in Keys
      /\ \/ k[1] \in Listed \/ k[1] = "manager"
         \/ k[1] \in Paired /\ k[2][1] = k[2][2]
  BY KeptNext
<1>2. CASE k \in ReadRows(q)
  BY <1>1, <1>2 DEF ReadRows, KeysOf, All, Listed, Paired
<1>3. CASE k \in ReadList(kind, q)
  <2>1. k[1] = kind /\ k[2] \in Projects \X {q}
    BY <1>3 DEF ReadList, KeysOf
  <2>2. k[1] \notin Listed /\ k[1] # "manager"
    BY <2>1 DEF EntryKinds, Listed
  <2>3. k[2] = <<k[2][1], k[2][2]>> /\ k[2][2] = q /\ k[2][1] = k[2][2]
    BY <1>1, <2>1, <2>2
  <2> QED
    BY <2>1, <2>3
<1> QED
  BY <1>2, <1>3

\* The writes that look for the log alone.
LEMMA EntryWrites ==
  ASSUME TypeOK, NEW r \in Requests, NEW q \in Projects,
         WriteMaterial(r, q) \/ WriteIncident(r, q) \/ WriteEquipment(r, q)
  PROVE  Drops(r)
<1> DEFINE L == Dashboards(Here(r), By(r))
           Own(kind) == KeysOf({kind}, {<<Here(r), q>>})
           M == All({"ml"})
<1>1. L \in Lists /\ \A k \in Keys : k[1] = "manager" /\ k[2] = Here(r) => Covers(L, k)
  BY DashboardList
<1>2. \A kind : Own(kind) \in SUBSET Keys
  BY KeySets
<1>3. M \in SUBSET Keys
  BY KeySets
<1>4. \A kind : \A k \in Keys : k[1] = kind /\ k[2] = <<Here(r), q>> => k \in Own(kind)
  BY DEF KeysOf
<1> HIDE DEF L, Own, M
<1>5. ASSUME NEW k, Here(r) # q, k[2] \in {q, <<q, q>>} PROVE WrittenAbroad(r, k)
  BY <1>5 DEF WrittenAbroad
<1>6. CASE WriteMaterial(r, q)
  <2>1. Commit(r, ReadRows(q) \cup ReadList("materials", q), Append(L, M))
    BY <1>6 DEF WriteMaterial, L, M
  <2>2. ASSUME NEW k \in Kept', k \in ReadRows(q) \cup ReadList("materials", q)
        PROVE  Covers(L, k) \/ WrittenAbroad(r, k)
    <3>1. k \in Keys /\ k[1] = "manager" /\ k[2] = q
      <4>1. k \in Keys /\ k[1] # "materials"
        BY KeptNext DEF Listed, Paired
      <4> QED
        BY <2>2, <4>1, RowsRead DEF EntryKinds
    <3> QED
      BY <1>1, <1>5, <3>1
  <2> QED
    BY <1>1, <1>3, <2>1, <2>2, Appended DEF Drops
<1>7. CASE WriteIncident(r, q)
  <2>1. Commit(r, ReadRows(q) \cup ReadList("incidents", q), <<Own("incidents")>> \o L)
    BY <1>7 DEF WriteIncident, L, Own
  <2>2. ASSUME NEW k \in Kept', k \in ReadRows(q) \cup ReadList("incidents", q)
        PROVE  k \in Own("incidents") \/ Covers(L, k) \/ WrittenAbroad(r, k)
    <3>1. /\ k \in Keys
          /\ (k[1] = "manager" /\ k[2] = q) \/ (k[1] = "incidents" /\ k[2] = <<q, q>>)
      BY <2>2, RowsRead, KeptNext DEF EntryKinds
    <3> QED
      BY <1>1, <1>4, <1>5, <3>1
  <2> QED
    BY <1>1, <1>2, <2>1, <2>2, Preceded DEF Drops
<1>8. CASE WriteEquipment(r, q)
  <2>1. Commit(r, ReadList("equipment", q), <<Own("equipment")>>)
    BY <1>8 DEF WriteEquipment, Own
  <2>2. ASSUME NEW k \in Kept', k \in ReadList("equipment", q)
        PROVE  k \in Own("equipment") \/ WrittenAbroad(r, k)
    <3>1. k \in Keys /\ k[1] = "equipment" /\ k[2] = <<q, q>>
      <4>1. k \in Keys /\ k[1] = "equipment"
        BY <2>2, KeptNext DEF ReadList, KeysOf
      <4> QED
        BY <2>2, <4>1, RowsRead DEF EntryKinds
    <3> QED
      BY <1>4, <1>5, <3>1
  <2>3. /\ <<Own("equipment")>> \in Lists
        /\ \A k : k \in Own("equipment") => Covers(<<Own("equipment")>>, k)
    BY <1>2, ListOf1
  <2> QED
    BY <2>1, <2>2, <2>3 DEF Drops
<1> QED
  BY <1>6, <1>7, <1>8

\* What a write does to the site, and where the request stands before it.
LEMMA SiteWrites ==
  ASSUME TypeOK, NEW r \in Requests, Write(r)
  PROVE  /\ project' \in [Projects -> {"none", "live", "gone"}]
         /\ manages' \in [Projects -> SUBSET Managers] /\ works' \in [Projects -> SUBSET Workers]
         /\ logged' \in SUBSET Projects /\ phased' \in SUBSET Projects
         /\ ~At(r, "dropping")
<1> USE DEF ByOwner, ByMember, OnLive, InLog, InAnyLog, At
<1>0. At(r, "admitted") => Here(r) \in Projects
  BY States DEF Here
<1> HIDE DEF At
<1>1. CASE CreateProject(r)
  BY <1>0, <1>1 DEF CreateProject, TypeOK, At
<1>2. CASE DeleteProject(r)
  BY <1>0, <1>2 DEF DeleteProject, TypeOK, At
<1>3. CASE \E u \in Managers : AssignManager(r, u) \/ UnassignManager(r, u)
  BY <1>0, <1>3 DEF AssignManager, UnassignManager, TypeOK, At
<1>4. CASE \E w \in Workers : AssignWorker(r, w) \/ UnassignWorker(r, w)
  <2>1. PICK w \in Workers : AssignWorker(r, w) \/ UnassignWorker(r, w)
    BY <1>4
  <2>2. works' \in [Projects -> SUBSET Workers]
    <3> DEFINE p == Here(r)
    <3>1. p \in Projects
      BY <1>0, <2>1 DEF AssignWorker, UnassignWorker
    <3>2. PICK W \in SUBSET Workers : works' = [works EXCEPT ![p] = W]
      <4>1. works[p] \in SUBSET Workers
        BY <3>1 DEF TypeOK
      <4>2. works' = [works EXCEPT ![p] = works[p] \cup {w}]
              \/ works' = [works EXCEPT ![p] = works[p] \ {w}]
        BY <2>1, Zenon DEF AssignWorker, UnassignWorker
      <4> HIDE DEF p
      <4> QED
        BY <4>1, <4>2
    <3> HIDE DEF p
    <3> QED
      BY <3>1, <3>2 DEF TypeOK
  <2>3. UNCHANGED <<project, manages, logged, phased>> /\ ~At(r, "dropping")
    BY <2>1 DEF AssignWorker, UnassignWorker, At
  <2> QED
    BY <2>2, <2>3 DEF TypeOK
<1>5. CASE CreatePhase(r)
  BY <1>0, <1>5 DEF CreatePhase, TypeOK, At
<1>6. CASE CreateLog(r)
  BY <1>0, <1>6 DEF CreateLog, TypeOK, At
<1>7. CASE UNCHANGED site /\ ~At(r, "dropping")
  BY <1>7 DEF site, TypeOK
<1>8. UpdateProject(r) \/ UpdatePhase(r) \/ UpdateLog(r) \/ WriteUser(r) \/ Retrain(r)
        \/ (\E q \in Projects : WriteMaterial(r, q) \/ WriteIncident(r, q) \/ WriteEquipment(r, q))
        \/ (\E w \in Workers : CreateAttendance(r, w))
      => UNCHANGED site /\ ~At(r, "dropping")
  BY DEF UpdateProject, UpdatePhase, UpdateLog, WriteMaterial, WriteIncident, WriteEquipment,
         WriteUser, Retrain, CreateAttendance, At
<1> QED
  BY <1>1, <1>2, <1>3, <1>4, <1>5, <1>6, <1>7, <1>8 DEF Write

\* Every write is a commit that its deletions make good, or a foreign one.
LEMMA WriteCommits ==
  ASSUME TypeOK, NEW r \in Requests, Write(r)
  PROVE  Drops(r)
BY ProjectWrites, LogWrites, EntryWrites DEF Write

-----------------------------------------------------------------------------
(* Types, and what a step leaves without anybody to drop it.               *)

\* What the requests other than r are to delete stays.
LEMMA PendingOthers ==
  ASSUME NEW r \in Requests, Others(r), NEW o \in Requests \ {r}, NEW k, k \in Pending(o)
  PROVE  k \in Pending(o)'
<1>1. At(o, "dropping") /\ k \in UNION {request[o].drops[i] : i \in DOMAIN request[o].drops}
  BY DEF Pending
<1>2. request'[o].pc = "dropping" /\ request'[o].drops = request[o].drops
  BY <1>1 DEF Others, At
<1>3. At(o, "dropping")' /\ k \in UNION {request'[o].drops[i] : i \in DOMAIN request'[o].drops}
  BY <1>1, <1>2 DEF At
<1> QED
  BY <1>3 DEF Pending

\* What r leaves undropped was stale and on the list of r, or is new.
LEMMA NeglectNext ==
  ASSUME NEW r \in Requests, Others(r), NEW k, ~Neglected(k), Neglected(k)'
  PROVE  copy[k] = "stale" => k \in Pending(r) /\ k \notin Pending(r)'
<1> SUFFICES ASSUME copy[k] = "stale" PROVE k \in Pending(r) /\ k \notin Pending(r)'
  OBVIOUS
<1>1. \A o \in Requests : k \notin Pending(o)'
  BY DEF Neglected
<1>2. PICK o \in Requests : k \in Pending(o)
  BY DEF Neglected
<1> QED
  BY <1>1, <1>2, PendingOthers

\* What one step of one request must show.
Caused(r) ==
  \A k \in Kept' : ~Neglected(k) /\ Neglected(k)' =>
    StoresLate(r, k) \/ GivesUp(r, k) \/ WrittenAbroad(r, k)

\* Reads, admissions and refusals.
LEMMA ReadStep ==
  ASSUME TypeOK, NEW r \in Requests,
         \/ \E k \in Keys : Miss(r, k)
         \/ \E u \in Office, p \in Projects : Admit(r, u, p)
         \/ Refuse(r) \/ Fill(r) \/ FillFails(r)
  PROVE  TypeOK' /\ Caused(r)
<1>0. Idle \in RequestState /\ Idle.pc = "idle" /\ copy \in [Keys -> Ages]
  BY States DEF Idle, TypeOK
<1>1. \A k \in Kept' : k \in Keys
  BY DEF Kept
<1>2. ASSUME NEW state \in RequestState, Goes(r, state), state.pc # "dropping",
             copy' \in [Keys -> Ages], UNCHANGED site, ~At(r, "dropping"),
             \A k \in Keys : copy'[k] = "stale" => copy[k] = "stale" \/ StoresLate(r, k)
      PROVE  TypeOK' /\ Caused(r)
  <2>1. RequestsTyped' /\ Others(r)
    BY <1>2, GoesOn
  <2>2. TypeOK'
    BY <1>2, <2>1 DEF TypeOK, RequestsTyped, site
  <2>3. ASSUME NEW k \in Kept', ~Neglected(k), Neglected(k)' PROVE StoresLate(r, k)
    <3>1. k \notin Pending(r)
      BY <1>2 DEF Pending
    <3>2. copy[k] # "stale"
      BY <2>1, <2>3, <3>1, NeglectNext
    <3>3. copy'[k] = "stale"
      BY <2>3 DEF Neglected
    <3> QED
      BY <1>1, <1>2, <2>3, <3>2, <3>3
  <2> QED
    BY <2>2, <2>3 DEF Caused
<1>3. CASE \E k \in Keys : Miss(r, k)
  <2>1. PICK k \in Keys : Miss(r, k)
    BY <1>3
  <2> DEFINE state == [pc |-> "filling", key |-> k, fresh |-> TRUE]
  <2>2. state \in RequestState /\ state.pc = "filling"
    BY DEF RequestState
  <2>3. Goes(r, state) /\ UNCHANGED <<copy, site>> /\ ~At(r, "dropping")
    BY <2>1 DEF Miss, At
  <2> HIDE DEF state
  <2> QED
    BY <1>0, <1>2, <2>2, <2>3
<1>4. CASE \E u \in Office, p \in Projects : Admit(r, u, p)
  <2>1. PICK u \in Office, p \in Projects : Admit(r, u, p)
    BY <1>4
  <2> DEFINE state == [pc |-> "admitted", by |-> u, project |-> p,
                       member |-> u \in Owners \/ (project[p] = "live" /\ u \in manages[p])]
  <2>2. state \in RequestState /\ state.pc = "admitted"
    BY DEF RequestState
  <2>3. Goes(r, state) /\ UNCHANGED <<copy, site>> /\ ~At(r, "dropping")
    BY <2>1 DEF Admit, At
  <2> HIDE DEF state
  <2> QED
    BY <1>0, <1>2, <2>2, <2>3
<1>5. CASE Refuse(r) \/ FillFails(r)
  <2>1. Goes(r, Idle) /\ UNCHANGED <<copy, site>> /\ ~At(r, "dropping")
    BY <1>5 DEF Refuse, FillFails, At
  <2> QED
    BY <1>0, <1>2, <2>1
<1>6. CASE Fill(r)
  <2>1. Goes(r, Idle) /\ UNCHANGED site /\ ~At(r, "dropping") /\ At(r, "filling")
    BY <1>6 DEF Fill, At
  <2>2. copy' \in [Keys -> Ages]
    BY <1>0, <1>6 DEF Fill, Ages
  <2>3. \A k \in Keys : copy'[k] = "stale" => copy[k] = "stale" \/ StoresLate(r, k)
    BY <1>0, <1>6 DEF Fill, StoresLate
  <2> QED
    BY <1>0, <1>2, <2>1, <2>2, <2>3
<1> QED
  BY <1>3, <1>4, <1>5, <1>6

\* The deletions, and a request that ends without them.
LEMMA DropStep ==
  ASSUME TypeOK, NEW r \in Requests, Drop(r) \/ DropFails(r) \/ Dies(r)
  PROVE  TypeOK' /\ Caused(r)
<1> DEFINE drops == request[r].drops
           rest == IF Len(drops) = 1 THEN Idle ELSE [request[r] EXCEPT !.drops = Tail(@)]
<1>0. /\ Idle \in RequestState /\ Idle.pc = "idle" /\ At(r, "dropping")
      /\ UNCHANGED site /\ drops \in Lists
  BY States DEF Idle, Drop, DropFails, Dies
<1>1. copy' \in [Keys -> Ages]
  BY DEF Drop, DropFails, Dies, TypeOK, Ages
<1>2. PICK state \in {Idle, rest} : Goes(r, state)
  BY DEF Drop, DropFails, Dies
<1>3. /\ rest \in RequestState
      /\ rest.pc = "dropping" => rest.drops # << >>
      /\ Len(drops) # 1 => rest.pc = "dropping" /\ rest.drops = Tail(drops)
  <2>1. CASE Len(drops) = 1
    BY <1>0, <2>1
  <2>2. CASE Len(drops) # 1
    <3>1. request[r] \in [pc : {"dropping"}, drops : Seq(SUBSET Keys)]
      BY <1>0 DEF TypeOK, RequestState, At
    <3>2. Tail(drops) \in Lists
      BY <1>0, <2>2, TailLists
    <3>3. rest.pc = "dropping" /\ rest.drops = Tail(drops)
      BY <2>2, <3>1
    <3>4. rest \in [pc : {"dropping"}, drops : Seq(SUBSET Keys)]
      BY <2>2, <3>1, <3>2 DEF Lists
    <3> QED
      BY <2>2, <3>2, <3>3, <3>4 DEF RequestState, Lists
  <2> QED
    BY <2>1, <2>2
<1> HIDE DEF drops, rest
<1>4. RequestsTyped' /\ Others(r) /\ request'[r] = state
  BY <1>0, <1>2, <1>3, GoesOn
<1>5. TypeOK'
  BY <1>0, <1>1, <1>4 DEF TypeOK, RequestsTyped, site
<1>6. ASSUME NEW k \in Kept', ~Neglected(k), Neglected(k)' PROVE GivesUp(r, k)
  <2>1. k \in Keys /\ copy'[k] = "stale"
    BY <1>6 DEF Kept, Neglected
  <2>2. copy[k] = "stale"
    BY <2>1 DEF Drop, DropFails, Dies
  <2>3. k \in Pending(r) /\ k \notin Pending(r)'
    BY <1>4, <1>6, <2>2, NeglectNext
  <2>4. CASE Drop(r)
    <3>1. k \notin Head(drops) /\ Covers(drops, k)
      BY <2>1, <2>3, <2>4, PendingCovers DEF Drop, drops
    <3>2. Len(drops) # 1 /\ Covers(Tail(drops), k)
      BY <1>0, <3>1, TailCovers
    <3>3. request'[r].pc = "dropping" /\ request'[r].drops = Tail(drops)
      <4>1. Goes(r, rest)
        BY <2>4 DEF Drop, drops, rest
      <4>2. request'[r] = rest
        BY <4>1 DEF Goes, TypeOK
      <4> QED
        BY <1>3, <3>2, <4>2
    <3>4. k \in Pending(r)'
      BY <3>2, <3>3 DEF Pending, At, Covers
    <3> QED
      BY <2>3, <3>4
  <2>5. CASE DropFails(r) \/ Dies(r)
    BY <2>3, <2>5 DEF GivesUp
  <2> QED
    BY <2>4, <2>5
<1> QED
  BY <1>5, <1>6 DEF Caused

\* A commit is about to delete what it makes stale of Kept, or is foreign.
LEMMA WriteStep ==
  ASSUME TypeOK, NEW r \in Requests, Write(r)
  PROVE  TypeOK' /\ Caused(r)
<1>1. PICK touched : \E drops \in Lists :
        /\ Commit(r, touched, drops)
        /\ \A k \in Kept' : k \in touched => Covers(drops, k) \/ WrittenAbroad(r, k)
  BY WriteCommits DEF Drops
<1>2. PICK drops \in Lists :
        /\ Commit(r, touched, drops)
        /\ \A k \in Kept' : k \in touched => Covers(drops, k) \/ WrittenAbroad(r, k)
  BY <1>1
<1>3. /\ copy' \in [Keys -> Ages] /\ RequestsTyped' /\ Others(r)
      /\ request'[r] = [pc |-> "dropping", drops |-> drops]
      /\ \A k \in Keys : copy'[k] = "stale" => copy[k] = "stale" \/ k \in touched
  BY <1>2, CommitStep
<1>4. /\ project' \in [Projects -> {"none", "live", "gone"}]
      /\ manages' \in [Projects -> SUBSET Managers] /\ works' \in [Projects -> SUBSET Workers]
      /\ logged' \in SUBSET Projects /\ phased' \in SUBSET Projects
      /\ ~At(r, "dropping")
  BY SiteWrites
<1>5. TypeOK'
  BY <1>3, <1>4 DEF TypeOK, RequestsTyped
<1>6. ASSUME NEW k \in Kept', ~Neglected(k), Neglected(k)' PROVE WrittenAbroad(r, k)
  <2>1. k \in Keys /\ copy'[k] = "stale" /\ k \notin Pending(r)'
    BY <1>6 DEF Kept, Neglected
  <2>2. k \notin Pending(r)
    BY <1>4 DEF Pending
  <2>3. copy[k] # "stale"
    BY <1>3, <1>6, <2>2, NeglectNext
  <2>4. k \in touched
    BY <1>3, <2>1, <2>3
  <2>5. ~Covers(drops, k)
    BY <1>3, <2>1 DEF Pending, At, Covers
  <2> QED
    BY <1>2, <1>6, <2>4, <2>5
<1> QED
  BY <1>5, <1>6 DEF Caused

\* Steps of no request leave nothing stale that was not.
LEMMA RestStep ==
  ASSUME TypeOK, (\E k \in Keys : Expire(k)) \/ UNCHANGED vars
  PROVE  TypeOK' /\ \A k \in Keys : Neglected(k)' => Neglected(k)
<1>1. UNCHANGED <<request, site>> /\ copy' \in [Keys -> Ages]
  BY DEF Expire, vars, TypeOK, Ages
<1>2. \A k \in Keys : copy'[k] = "stale" => copy[k] = "stale"
  BY DEF Expire, vars, TypeOK
<1>3. TypeOK'
  BY <1>1 DEF TypeOK, site
<1>4. \A o \in Requests : Pending(o)' = Pending(o)
  BY <1>1 DEF Pending, At
<1> QED
  BY <1>2, <1>3, <1>4 DEF Neglected

\* Every step keeps the types, and leaves a copy to nobody only so.
LEMMA Steps ==
  ASSUME TypeOK, [Next]_vars
  PROVE  /\ TypeOK'
         /\ \A k \in Kept' : ~Neglected(k) /\ Neglected(k)' =>
              \E r \in Requests : StoresLate(r, k) \/ GivesUp(r, k) \/ WrittenAbroad(r, k)
<1>1. ASSUME NEW r \in Requests,
             \/ \E k \in Keys : Miss(r, k)
             \/ \E u \in Office, p \in Projects : Admit(r, u, p)
             \/ Refuse(r) \/ Fill(r) \/ FillFails(r)
             \/ Write(r) \/ Drop(r) \/ DropFails(r) \/ Dies(r)
      PROVE  TypeOK' /\ Caused(r)
  BY <1>1, ReadStep, WriteStep, DropStep
<1>2. CASE \E r \in Requests : TypeOK' /\ Caused(r)
  BY <1>2 DEF Caused
<1>3. CASE (\E k \in Keys : Expire(k)) \/ UNCHANGED vars
  BY <1>3, RestStep DEF Kept
<1> QED
  BY <1>1, <1>2, <1>3 DEF Next

-----------------------------------------------------------------------------
\* The values of the caches' state, whatever the requests do.
THEOREM TypeCorrect == Spec => []TypeOK
<1>1. Init => TypeOK
  BY DEF Init, TypeOK, Ages, RequestState, Idle
<1>2. TypeOK /\ [Next]_vars => TypeOK'
  BY Steps
<1> QED
  BY <1>1, <1>2, PTL DEF Spec

\* However many requests overlap, and whatever expires, fails or dies, a copy
\* of Kept is left stale, with nobody about to drop it, by a late store, by a
\* deletion given up, or by a write under another project's address.
THEOREM NeglectSound == Spec => NeglectHasCause
<1>1. TypeOK /\ [Next]_vars =>
        [\A k \in Kept' : ~Neglected(k) /\ Neglected(k)' =>
           \E r \in Requests : StoresLate(r, k) \/ GivesUp(r, k) \/ WrittenAbroad(r, k)]_vars
  BY Steps
<1> QED
  BY <1>1, TypeCorrect, PTL DEF Spec, NeglectHasCause
=============================================================================
