-------------------------- MODULE SitePhotos_proofs --------------------------
(***************************************************************************)
(* What holds of SitePhotos for any logs, photos, limit and requests.      *)
(***************************************************************************)
EXTENDS SitePhotos, FiniteSetTheorems, TLAPS

\* The empty tables and bucket satisfy the invariant.
LEMMA InitIInv == Init => IInv
<1> SUFFICES ASSUME Init PROVE IInv
  OBVIOUS
<1> USE DEF Init, Free
<1>1. TypeOK
  BY DEF TypeOK, RequestRecord
<1>2. NamesOK
  BY FS_EmptySet DEF NamesOK, At
<1>3. ObjectsOK /\ BucketMatchesRows
  BY DEF ObjectsOK, BucketMatchesRows, At
<1>4. OvershootBounded
  <2> SUFFICES ASSUME NEW l \in Logs
               PROVE  Cardinality(rows[l]) + Cardinality(Uploading(l))
                        <= MaxPerLog + Cardinality(Requests) - 1
    BY DEF OvershootBounded
  <2>1. Cardinality(rows[l]) = 0 /\ Cardinality(Uploading(l)) = 0
    BY FS_EmptySet DEF Uploading
  <2>2. Cardinality(Requests) \in Nat /\ Cardinality(Requests) # 0
    BY RequestsAssumption, FS_EmptySet, FS_CardinalityType
  <2> QED
    BY <2>1, <2>2, MaxAssumption
<1> QED
  BY <1>1, <1>2, <1>3, <1>4 DEF IInv

-----------------------------------------------------------------------------
(* Types: one step per action, each of which puts a record in its place.   *)

\* A step of one request leaves the others where they are.
LEMMA Moves ==
  ASSUME NEW r \in Requests, NEW state \in RequestRecord,
         request \in [Requests -> RequestRecord], Goes(r, state)
  PROVE  /\ request' \in [Requests -> RequestRecord]
         /\ request'[r] = state
         /\ \A o \in Requests \ {r} : request'[o] = request[o]
  BY DEF Goes

\* The record of a request that is over is one of a request.
LEMMA FreeType == Free \in RequestRecord
  BY DEF Free, RequestRecord

\* A request that only goes on keeps what it works on.
LEMMA Advances ==
  ASSUME NEW r \in Requests, NEW pc \in {"removing", "dropping"},
         request \in [Requests -> RequestRecord], Goes(r, [request[r] EXCEPT !.pc = pc])
  PROVE  /\ request' \in [Requests -> RequestRecord]
         /\ request'[r].pc = pc
         /\ request'[r].photo = request[r].photo /\ request'[r].log = request[r].log
         /\ \A o \in Requests \ {r} : request'[o] = request[o]
<1> DEFINE state == [request[r] EXCEPT !.pc = pc]
<1>1. state \in RequestRecord /\ state.pc = pc
      /\ state.photo = request[r].photo /\ state.log = request[r].log
  BY DEF RequestRecord
<1> HIDE DEF state
<1> QED
  BY <1>1, Moves DEF state

\* The record of an upload after its object is stored.
LEMMA Stores ==
  ASSUME TypeOK, NEW r \in Requests, NEW p \in Photos, StoreFile(r, p)
  PROVE  /\ request' \in [Requests -> RequestRecord]
         /\ request'[r].pc = "inserting"
         /\ request'[r].photo = p /\ request'[r].log = request[r].log
         /\ \A o \in Requests \ {r} : request'[o] = request[o]
<1> DEFINE state == [request[r] EXCEPT !.pc = "inserting", !.photo = p]
<1>1. state \in RequestRecord /\ state.pc = "inserting"
      /\ state.photo = p /\ state.log = request[r].log
  BY DEF TypeOK, RequestRecord
<1> HIDE DEF state
<1>2. Goes(r, state)
  BY DEF StoreFile, state
<1> QED
  BY <1>1, <1>2, Moves DEF TypeOK

\* One step per action, each keeping the types.
LEMMA TypeStep == TypeOK /\ NamesOK /\ [Next]_vars => TypeOK'
<1> SUFFICES ASSUME TypeOK, NamesOK, [Next]_vars PROVE TypeOK'
  OBVIOUS
<1> USE DEF TypeOK
<1>1. ASSUME NEW r \in Requests, NEW l \in Logs, CountAttachments(r, l) PROVE TypeOK'
  <2>1. [Free EXCEPT !.pc = "reading", !.log = l] \in RequestRecord
    BY DEF Free, RequestRecord
  <2> QED
    BY <1>1, <2>1, Moves DEF CountAttachments
<1>2. ASSUME NEW r \in Requests, NEW l \in Logs, ReadRows(r, l) PROVE TypeOK'
  <2>1. [Free EXCEPT !.pc = "filling", !.log = l, !.seen = rows[l]] \in RequestRecord
    BY DEF Free, RequestRecord
  <2> QED
    BY <1>2, <2>1, Moves DEF ReadRows
<1>3. ASSUME NEW r \in Requests, NEW l \in Logs, NEW p \in Photos, SelectForDelete(r, l, p)
      PROVE  TypeOK'
  <2>1. [Free EXCEPT !.pc = "deleting", !.log = l, !.photo = p] \in RequestRecord
    BY DEF Free, RequestRecord
  <2> QED
    BY <1>3, <2>1, Moves DEF SelectForDelete
<1>4. ASSUME NEW r \in Requests, NEW p \in Photos, StoreFile(r, p) PROVE TypeOK'
  BY <1>4, Stores DEF StoreFile
<1>5. ASSUME NEW r \in Requests, RefuseFile(r) PROVE TypeOK'
  BY <1>5, Moves, FreeType DEF RefuseFile, Ends
<1>6. ASSUME NEW r \in Requests, CommitInsert(r) PROVE TypeOK'
  <2>1. request[r].photo \in Photos
    BY <1>6 DEF CommitInsert, At, NamesOK
  <2> QED
    BY <1>6, <2>1, Advances DEF CommitInsert
<1>7. ASSUME NEW r \in Requests, RemoveObject(r) PROVE TypeOK'
  BY <1>7, Advances DEF RemoveObject
<1>8. ASSUME NEW r \in Requests, CommitDelete(r) PROVE TypeOK'
  BY <1>8, Advances DEF CommitDelete
<1>9. ASSUME NEW r \in Requests, DropList(r) PROVE TypeOK'
  BY <1>9, Moves, FreeType DEF DropList, Ends
<1>10. ASSUME NEW r \in Requests, FillList(r) PROVE TypeOK'
  <2>1. request[r].seen \in SUBSET Photos
    BY DEF RequestRecord
  <2> QED
    BY <1>10, <2>1, Moves, FreeType DEF FillList, Ends
<1>11. ASSUME NEW r \in Requests, RequestFails(r) PROVE TypeOK'
  <2>1. request[r].photo \in Photos \cup {NoPhoto}
    BY DEF RequestRecord
  <2> QED
    BY <1>11, <2>1, Moves, FreeType DEF RequestFails, Ends
<1>12. ASSUME NEW l \in Logs, ExpireList(l) PROVE TypeOK'
  BY <1>12 DEF ExpireList
<1>13. CASE UNCHANGED vars
  BY <1>13 DEF vars
<1> QED
  BY <1>1, <1>2, <1>3, <1>4, <1>5, <1>6, <1>7, <1>8, <1>9, <1>10, <1>11, <1>12, <1>13 DEF Next

-----------------------------------------------------------------------------
(* Names, objects and rows.  Only four actions touch the table or bucket;  *)
(* the others let one request start or end.                                *)

Matching == NamesOK /\ ObjectsOK /\ BucketMatchesRows

\* A request that starts, or ends with its row committed, or has no object yet,
\* leaves the match alone.
LEMMA StartOrEnd ==
  ASSUME TypeOK, Matching, NEW r \in Requests, NEW state \in RequestRecord, Goes(r, state),
         UNCHANGED <<rows, bucket, drawn>>, abandoned \subseteq abandoned',
         request[r].pc \in {"inserting", "removing"} => request[r].photo \in abandoned',
         state.pc \in {"free", "reading", "deleting", "filling"},
         state.pc # "free" => state.log \in Logs,
         state.pc = "deleting" => state.photo \in rows[state.log]
  PROVE  Matching'
<1> USE DEF At
<1>1. request' \in [Requests -> RequestRecord] /\ request'[r] = state
      /\ \A o \in Requests \ {r} : request'[o] = request[o]
  BY Moves DEF TypeOK
<1>2. NamesOK'
  <2>1. ASSUME state.pc = "deleting"
        PROVE  /\ state.photo \in drawn
               /\ \A l \in Logs : state.photo \in rows[l] => l = state.log
               /\ \A o \in Requests : At(o, "inserting") => request[o].photo # state.photo
    BY <2>1 DEF Matching, NamesOK
  <2> QED
    BY <1>1, <2>1 DEF Matching, NamesOK
<1>3. ObjectsOK'
  BY <1>1 DEF Matching, ObjectsOK
<1>4. BucketMatchesRows'
  BY <1>1 DEF Matching, BucketMatchesRows
<1> QED
  BY <1>2, <1>3, <1>4 DEF Matching

\* A stored object has its upload behind it.
LEMMA MatchStore ==
  ASSUME TypeOK, Matching, NEW r \in Requests, NEW p \in Photos, StoreFile(r, p)
  PROVE  Matching'
<1> USE DEF At
<1>1. request' \in [Requests -> RequestRecord]
      /\ \A o \in Requests \ {r} : request'[o] = request[o]
  BY Stores
<1>2. request'[r].pc = "inserting" /\ request'[r].photo = p /\ request'[r].log = request[r].log
  BY Stores
<1>3. /\ rows' = rows /\ bucket' = bucket \cup {p} /\ drawn' = drawn \cup {p} /\ p \notin drawn
      /\ abandoned' = abandoned
  BY DEF StoreFile
<1>4. request[r].pc = "reading"
  BY DEF StoreFile
<1>5. NamesOK'
  BY <1>1, <1>2, <1>3, <1>4 DEF Matching, NamesOK
<1>6. ObjectsOK'
  BY <1>1, <1>2, <1>3 DEF Matching, NamesOK, ObjectsOK
<1>7. BucketMatchesRows'
  BY <1>1, <1>2, <1>3, <1>4 DEF Matching, BucketMatchesRows
<1> QED
  BY <1>5, <1>6, <1>7 DEF Matching

\* A committed row has its object.
LEMMA MatchInsert ==
  ASSUME TypeOK, Matching, NEW r \in Requests, CommitInsert(r)
  PROVE  Matching'
<1> USE DEF At
<1> DEFINE p == request[r].photo
           k == request[r].log
<1>1. request' \in [Requests -> RequestRecord]
      /\ \A o \in Requests \ {r} : request'[o] = request[o]
  BY Advances DEF TypeOK, CommitInsert
<1>2. request'[r].pc = "dropping" /\ request'[r].photo = p /\ request'[r].log = k
  BY Advances DEF TypeOK, CommitInsert
<1>3. /\ bucket' = bucket /\ drawn' = drawn /\ abandoned' = abandoned
      /\ request[r].pc = "inserting"
  BY DEF CommitInsert
<1>4. k \in Logs /\ p \in drawn /\ \A l \in Logs : p \notin rows[l]
  BY <1>3 DEF Matching, NamesOK
<1>5. /\ rows'[k] = rows[k] \cup {p}
      /\ \A l \in Logs \ {k} : rows'[l] = rows[l]
  BY <1>4 DEF TypeOK, CommitInsert
<1>6. NamesOK'
  <2>1. \A l \in Logs : rows'[l] \subseteq drawn' /\ IsFiniteSet(rows'[l])
    <3>1. \A l \in Logs : rows[l] \subseteq drawn /\ IsFiniteSet(rows[l])
      BY DEF Matching, NamesOK
    <3>2. IsFiniteSet(rows[k] \cup {p})
      BY <3>1, <1>4, FS_AddElement
    <3> HIDE DEF p, k
    <3> QED
      BY <3>1, <3>2, <1>3, <1>4, <1>5
  <2>2. \A l, m \in Logs : l # m => rows'[l] \cap rows'[m] = {}
    BY <1>4, <1>5 DEF Matching, NamesOK
  <2>3. ASSUME NEW o \in Requests, request'[o].pc \in {"inserting", "deleting", "removing"}
        PROVE  o # r /\ request'[o] = request[o] /\ request[o].photo # p
    BY <1>1, <1>2, <1>3, <2>3 DEF Matching, NamesOK
  <2>4. ASSUME NEW o \in Requests
        PROVE  /\ ~At(o, "free")' => request'[o].log \in Logs
               /\ request'[o].pc \in {"inserting", "deleting", "removing"} => request'[o].photo \in drawn'
               /\ At(o, "inserting")' => \A l \in Logs : request'[o].photo \notin rows'[l]
               /\ request'[o].pc \in {"deleting", "removing"} =>
                    \A l \in Logs : request'[o].photo \in rows'[l] => l = request'[o].log
    BY <1>1, <1>2, <1>3, <1>4, <1>5, <2>3 DEF Matching, NamesOK
  <2>5. ASSUME NEW o \in Requests, NEW x \in Requests,
               At(o, "inserting")', request'[x].pc \in {"inserting", "deleting", "removing"}, x # o
        PROVE  request'[x].photo # request'[o].photo
    BY <2>3, <2>5 DEF Matching, NamesOK
  <2>6. bucket' \subseteq drawn'
    BY <1>3 DEF Matching, NamesOK
  <2> QED
    BY <2>1, <2>2, <2>4, <2>5, <2>6 DEF NamesOK
<1>7. ObjectsOK'
  BY <1>1, <1>2, <1>3 DEF Matching, ObjectsOK
<1>8. BucketMatchesRows'
  <2> SUFFICES ASSUME NEW x \in Photos \ abandoned
               PROVE  LET hasRow == \E l \in Logs : x \in rows'[l] IN
                      /\ x \in bucket /\ ~hasRow
                           => \E o \in Requests : request'[o].pc = "inserting" /\ request'[o].photo = x
                      /\ hasRow /\ x \notin bucket
                           => \E o \in Requests : request'[o].pc = "removing" /\ request'[o].photo = x
    BY <1>3 DEF BucketMatchesRows
  <2>1. CASE x = p
    BY <2>1, <1>3, <1>4, <1>5 DEF Matching, ObjectsOK
  <2>2. CASE x # p
    <3>1. (\E l \in Logs : x \in rows'[l]) <=> (\E l \in Logs : x \in rows[l])
      BY <2>2, <1>4, <1>5
    <3> QED
      BY <3>1, <2>2, <1>1, <1>3 DEF Matching, BucketMatchesRows
  <2> QED
    BY <2>1, <2>2
<1> QED
  BY <1>6, <1>7, <1>8 DEF Matching

\* A removed object has its delete behind it.
LEMMA MatchRemove ==
  ASSUME TypeOK, Matching, NEW r \in Requests, RemoveObject(r)
  PROVE  Matching'
<1> USE DEF At
<1> DEFINE p == request[r].photo
<1>1. request' \in [Requests -> RequestRecord]
      /\ \A o \in Requests \ {r} : request'[o] = request[o]
  BY Advances DEF TypeOK, RemoveObject
<1>2. request'[r].pc = "removing" /\ request'[r].photo = p /\ request'[r].log = request[r].log
  BY Advances DEF TypeOK, RemoveObject
<1>3. /\ rows' = rows /\ bucket' = bucket \ {p} /\ drawn' = drawn /\ abandoned' = abandoned
      /\ request[r].pc = "deleting"
  BY DEF RemoveObject
<1>4. NamesOK'
  BY <1>1, <1>2, <1>3 DEF Matching, NamesOK
<1>5. ObjectsOK'
  BY <1>1, <1>2, <1>3 DEF Matching, NamesOK, ObjectsOK
<1>6. BucketMatchesRows'
  BY <1>1, <1>2, <1>3 DEF Matching, BucketMatchesRows
<1> QED
  BY <1>4, <1>5, <1>6 DEF Matching

\* A deleted row leaves no object.
LEMMA MatchDelete ==
  ASSUME TypeOK, Matching, NEW r \in Requests, CommitDelete(r)
  PROVE  Matching'
<1> USE DEF At
<1> DEFINE p == request[r].photo
           k == request[r].log
<1>1. request' \in [Requests -> RequestRecord]
      /\ \A o \in Requests \ {r} : request'[o] = request[o]
  BY Advances DEF TypeOK, CommitDelete
<1>2. request'[r].pc = "dropping" /\ request'[r].photo = p /\ request'[r].log = k
  BY Advances DEF TypeOK, CommitDelete
<1>3. /\ bucket' = bucket /\ drawn' = drawn /\ abandoned' = abandoned
      /\ request[r].pc = "removing"
  BY DEF CommitDelete
<1>4. k \in Logs /\ p \in drawn /\ \A l \in Logs : p \in rows[l] => l = k
  BY <1>3 DEF Matching, NamesOK
<1>5. /\ rows'[k] = rows[k] \ {p}
      /\ \A l \in Logs \ {k} : rows'[l] = rows[l]
      /\ \A l \in Logs : rows'[l] = rows[l] \ {p}
  BY <1>4 DEF TypeOK, CommitDelete
<1>6. NamesOK'
  <2>1. \A l \in Logs : rows'[l] \subseteq drawn' /\ IsFiniteSet(rows'[l])
    BY <1>3, <1>5, FS_Subset DEF Matching, NamesOK
  <2> QED
    BY <1>1, <1>2, <1>3, <1>4, <1>5, <2>1 DEF Matching, NamesOK
<1>7. ObjectsOK'
  BY <1>1, <1>2, <1>3 DEF Matching, ObjectsOK
<1>8. BucketMatchesRows'
  <2> SUFFICES ASSUME NEW x \in Photos \ abandoned
               PROVE  LET hasRow == \E l \in Logs : x \in rows'[l] IN
                      /\ x \in bucket /\ ~hasRow
                           => \E o \in Requests : request'[o].pc = "inserting" /\ request'[o].photo = x
                      /\ hasRow /\ x \notin bucket
                           => \E o \in Requests : request'[o].pc = "removing" /\ request'[o].photo = x
    BY <1>3 DEF BucketMatchesRows
  <2>1. CASE x = p
    <3>1. p \notin bucket /\ ~\E l \in Logs : p \in rows'[l]
      BY <2>1, <1>3, <1>5 DEF Matching, ObjectsOK
    <3> QED
      BY <3>1, <2>1
  <2>2. CASE x # p
    <3>1. (\E l \in Logs : x \in rows'[l]) <=> (\E l \in Logs : x \in rows[l])
      BY <2>2, <1>5
    <3> QED
      BY <3>1, <2>2, <1>1, <1>3 DEF Matching, BucketMatchesRows
  <2> QED
    BY <2>1, <2>2
<1> QED
  BY <1>6, <1>7, <1>8 DEF Matching

\* Every step keeps bucket and table in line.
LEMMA MatchStep == TypeOK /\ Matching /\ [Next]_vars => Matching'
<1> SUFFICES ASSUME TypeOK, Matching, [Next]_vars PROVE Matching'
  OBVIOUS
<1>1. ASSUME NEW r \in Requests, NEW l \in Logs, CountAttachments(r, l) PROVE Matching'
  <2> DEFINE state == [Free EXCEPT !.pc = "reading", !.log = l]
  <2>1. state \in RequestRecord /\ state.pc = "reading" /\ state.log = l
    BY DEF Free, RequestRecord
  <2>2. Goes(r, state) /\ UNCHANGED <<rows, bucket, drawn, abandoned>> /\ request[r].pc = "free"
    BY <1>1 DEF CountAttachments, At
  <2> HIDE DEF state
  <2> QED
    BY <2>1, <2>2, StartOrEnd
<1>2. ASSUME NEW r \in Requests, NEW l \in Logs, ReadRows(r, l) PROVE Matching'
  <2> DEFINE state == [Free EXCEPT !.pc = "filling", !.log = l, !.seen = rows[l]]
  <2>1. state \in RequestRecord /\ state.pc = "filling" /\ state.log = l
    BY DEF Free, RequestRecord, TypeOK
  <2>2. Goes(r, state) /\ UNCHANGED <<rows, bucket, drawn, abandoned>> /\ request[r].pc = "free"
    BY <1>2 DEF ReadRows, At
  <2> HIDE DEF state
  <2> QED
    BY <2>1, <2>2, StartOrEnd
<1>3. ASSUME NEW r \in Requests, NEW l \in Logs, NEW p \in Photos, SelectForDelete(r, l, p)
      PROVE  Matching'
  <2> DEFINE state == [Free EXCEPT !.pc = "deleting", !.log = l, !.photo = p]
  <2>1. state \in RequestRecord /\ state.pc = "deleting" /\ state.log = l /\ state.photo = p
    BY DEF Free, RequestRecord
  <2>2. /\ Goes(r, state) /\ UNCHANGED <<rows, bucket, drawn, abandoned>>
        /\ request[r].pc = "free" /\ p \in rows[l]
    BY <1>3 DEF SelectForDelete, At
  <2> HIDE DEF state
  <2> QED
    BY <2>1, <2>2, StartOrEnd
<1>4. ASSUME NEW r \in Requests, RefuseFile(r) \/ DropList(r) \/ FillList(r) \/ RequestFails(r)
      PROVE  Matching'
  <2>1. /\ Goes(r, Free) /\ UNCHANGED <<rows, bucket, drawn>> /\ abandoned \subseteq abandoned'
        /\ request[r].pc \in {"inserting", "removing"} => request[r].photo \in abandoned'
    BY <1>4 DEF RefuseFile, DropList, FillList, RequestFails, Ends, At
  <2>2. Free.pc = "free"
    BY DEF Free
  <2> QED
    BY <2>1, <2>2, FreeType, StartOrEnd
<1>5. ASSUME UNCHANGED <<rows, bucket, drawn, request, abandoned>> PROVE Matching'
  BY <1>5 DEF Matching, NamesOK, ObjectsOK, BucketMatchesRows, At
<1>6. ASSUME NEW l \in Logs, ExpireList(l) PROVE Matching'
  BY <1>5, <1>6 DEF ExpireList
<1>7. CASE UNCHANGED vars
  BY <1>5, <1>7 DEF vars
<1> QED
  BY <1>1, <1>2, <1>3, <1>4, <1>6, <1>7, MatchStore, MatchInsert, MatchRemove, MatchDelete DEF Next

-----------------------------------------------------------------------------
(* The limit.                                                              *)

Within(l) ==
  Cardinality(rows[l]) + Cardinality(Uploading(l)) <= MaxPerLog + Cardinality(Requests) - 1

\* What is counted is finite.
LEMMA Counts ==
  ASSUME TypeOK, NamesOK, NEW l \in Logs
  PROVE  /\ IsFiniteSet(rows[l]) /\ Cardinality(rows[l]) \in Nat
         /\ IsFiniteSet(Uploading(l)) /\ Cardinality(Uploading(l)) \in Nat
         /\ Uploading(l) \subseteq Requests /\ Cardinality(Requests) \in Nat
<1>1. Uploading(l) \subseteq Requests
  BY DEF Uploading
<1>2. IsFiniteSet(rows[l])
  BY DEF NamesOK
<1> QED
  BY <1>1, <1>2, RequestsAssumption, FS_Subset, FS_CardinalityType

\* Fewer rows and fewer uploads stay within the bound.
LEMMA Shrinks ==
  ASSUME TypeOK, NamesOK, TypeOK', NamesOK', NEW l \in Logs, Within(l),
         rows'[l] \subseteq rows[l], Uploading(l)' \subseteq Uploading(l)
  PROVE  Within(l)'
<1>1. Cardinality(rows'[l]) <= Cardinality(rows[l])
  BY Counts, FS_Subset
<1>2. Cardinality(Uploading(l)') <= Cardinality(Uploading(l))
  BY Counts, FS_Subset
<1>3. /\ Cardinality(rows[l]) \in Nat /\ Cardinality(Uploading(l)) \in Nat
      /\ Cardinality(Requests) \in Nat
  BY Counts
<1>4. Cardinality(rows'[l]) \in Nat /\ Cardinality(Uploading(l)') \in Nat
  <2>1. IsFiniteSet(rows'[l]) /\ IsFiniteSet(Uploading(l)')
    BY Counts, FS_Subset
  <2> QED
    BY <2>1, FS_CardinalityType
<1> QED
  BY <1>1, <1>2, <1>3, <1>4, MaxAssumption DEF Within

\* A request admitted below the limit leaves room for all the others.
LEMMA Admits ==
  ASSUME TypeOK, NamesOK, NEW r \in Requests, NEW l \in Logs, CountAttachments(r, l)
  PROVE  Within(l)'
<1>1. rows' = rows /\ Cardinality(rows[l]) < MaxPerLog
  BY DEF CountAttachments
<1>2. Uploading(l)' \subseteq Requests
  BY DEF Uploading
<1>3. /\ IsFiniteSet(Uploading(l)')
      /\ Cardinality(Uploading(l)') \in Nat
      /\ Cardinality(Uploading(l)') <= Cardinality(Requests)
  BY <1>2, RequestsAssumption, FS_Subset, FS_CardinalityType
<1>4. Cardinality(rows[l]) \in Nat /\ Cardinality(Requests) \in Nat
  BY Counts
<1> QED
  BY <1>1, <1>3, <1>4, MaxAssumption DEF Within

\* An insert turns one upload into one row.
LEMMA Inserts ==
  ASSUME TypeOK, NamesOK, NEW r \in Requests, CommitInsert(r),
         NEW l \in Logs, l = request[r].log, Within(l)
  PROVE  Within(l)'
<1>1. request[r].pc = "inserting"
  BY DEF CommitInsert, At
<1>2. /\ request' \in [Requests -> RequestRecord]
      /\ request'[r].pc = "dropping"
      /\ \A o \in Requests \ {r} : request'[o] = request[o]
  BY Advances DEF TypeOK, CommitInsert
<1>3. Uploading(l)' = Uploading(l) \ {r} /\ r \in Uploading(l)
  BY <1>1, <1>2 DEF Uploading
<1>4. Cardinality(Uploading(l)') = Cardinality(Uploading(l)) - 1
  BY <1>3, Counts, FS_RemoveElement
<1>5. rows'[l] = rows[l] \cup {request[r].photo}
  BY DEF TypeOK, CommitInsert
<1>6. Cardinality(rows'[l]) \in {Cardinality(rows[l]), Cardinality(rows[l]) + 1}
  <2> DEFINE p == request[r].photo
  <2>1. IsFiniteSet(rows[l])
    BY Counts
  <2>2. Cardinality(rows[l] \cup {p}) = IF p \in rows[l] THEN Cardinality(rows[l])
                                                       ELSE Cardinality(rows[l]) + 1
    <3> HIDE DEF p
    <3> QED
      BY <2>1, FS_AddElement
  <2> QED
    BY <1>5, <2>2
<1>7. /\ Cardinality(rows[l]) \in Nat /\ Cardinality(Uploading(l)) \in Nat
      /\ Cardinality(Requests) \in Nat
  BY Counts
<1> QED
  BY <1>4, <1>6, <1>7, MaxAssumption DEF Within

\* Every step keeps each log within its bound.
LEMMA WithinStep ==
  TypeOK /\ NamesOK /\ TypeOK' /\ NamesOK' /\ OvershootBounded /\ [Next]_vars => OvershootBounded'
<1> SUFFICES ASSUME TypeOK, NamesOK, TypeOK', NamesOK', OvershootBounded, [Next]_vars,
                    NEW l \in Logs
             PROVE  Within(l)'
  BY DEF OvershootBounded, Within
<1>1. Within(l)
  BY DEF OvershootBounded, Within
<1>2. ASSUME rows'[l] \subseteq rows[l],
             \A o \in Requests : \/ request'[o] = request[o]
                                 \/ request'[o].pc \notin {"reading", "inserting"}
                                 \/ request'[o].log # l
                                 \/ request[o].pc = "reading" /\ request[o].log = l
      PROVE  Within(l)'
  <2>1. Uploading(l)' \subseteq Uploading(l)
    BY <1>2 DEF Uploading
  <2> QED
    BY <1>1, <1>2, <2>1, Shrinks
<1>3. ASSUME NEW r \in Requests, NEW k \in Logs, CountAttachments(r, k) PROVE Within(l)'
  <2>1. CASE k = l
    BY <1>3, <2>1, Admits
  <2>2. CASE k # l
    <3> DEFINE state == [Free EXCEPT !.pc = "reading", !.log = k]
    <3>1. state \in RequestRecord /\ state.log = k
      BY DEF Free, RequestRecord
    <3>2. request'[r].log = k /\ \A o \in Requests \ {r} : request'[o] = request[o]
      <4>1. Goes(r, state)
        BY <1>3 DEF CountAttachments
      <4> HIDE DEF state
      <4> QED
        BY <3>1, <4>1, Moves DEF TypeOK
    <3>3. rows' = rows
      BY <1>3 DEF CountAttachments
    <3> QED
      BY <2>2, <3>2, <3>3, <1>2
  <2> QED
    BY <2>1, <2>2
<1>4. ASSUME NEW r \in Requests, CommitInsert(r) PROVE Within(l)'
  <2>1. /\ request'[r].pc = "dropping"
        /\ \A o \in Requests \ {r} : request'[o] = request[o]
    BY <1>4, Advances DEF CommitInsert, TypeOK
  <2>2. CASE request[r].log = l
    BY <1>1, <1>4, <2>2, Inserts
  <2>3. CASE request[r].log # l
    <3>1. rows'[l] = rows[l]
      BY <1>4, <2>3 DEF CommitInsert, TypeOK
    <3> QED
      BY <1>2, <2>1, <3>1
  <2> QED
    BY <2>2, <2>3
<1>5. ASSUME NEW r \in Requests, NEW p \in Photos, StoreFile(r, p) PROVE Within(l)'
  <2>1. /\ request'[r].log = request[r].log
        /\ \A o \in Requests \ {r} : request'[o] = request[o]
    BY <1>5, Stores
  <2>2. request[r].pc = "reading" /\ rows' = rows
    BY <1>5 DEF StoreFile, At
  <2> QED
    BY <1>2, <2>1, <2>2
<1>6. ASSUME NEW r \in Requests, RemoveObject(r) \/ CommitDelete(r) PROVE Within(l)'
  <2>1. /\ request'[r].pc \notin {"reading", "inserting"}
        /\ \A o \in Requests \ {r} : request'[o] = request[o]
    BY <1>6, Advances DEF RemoveObject, CommitDelete, TypeOK
  <2>2. rows'[l] \subseteq rows[l]
    BY <1>6 DEF RemoveObject, CommitDelete, TypeOK
  <2> QED
    BY <1>2, <2>1, <2>2
<1>7. ASSUME NEW r \in Requests, NEW state \in RequestRecord, Goes(r, state),
             state.pc \notin {"reading", "inserting"}, rows' = rows
      PROVE  Within(l)'
  <2>1. request'[r] = state /\ \A o \in Requests \ {r} : request'[o] = request[o]
    BY <1>7, Moves DEF TypeOK
  <2> QED
    BY <1>2, <1>7, <2>1
<1>8. ASSUME NEW r \in Requests, RefuseFile(r) \/ DropList(r) \/ FillList(r) \/ RequestFails(r)
      PROVE  Within(l)'
  <2>1. Free \in RequestRecord /\ Free.pc \notin {"reading", "inserting"}
    BY FreeType DEF Free
  <2>2. Goes(r, Free) /\ rows' = rows
    BY <1>8 DEF RefuseFile, DropList, FillList, RequestFails, Ends
  <2> QED
    BY <1>7, <2>1, <2>2
<1>9. ASSUME NEW r \in Requests, NEW k \in Logs, ReadRows(r, k) PROVE Within(l)'
  <2> DEFINE state == [Free EXCEPT !.pc = "filling", !.log = k, !.seen = rows[k]]
  <2>1. state \in RequestRecord /\ state.pc = "filling"
    BY DEF Free, RequestRecord, TypeOK
  <2>2. Goes(r, state) /\ rows' = rows
    BY <1>9 DEF ReadRows
  <2> HIDE DEF state
  <2> QED
    BY <1>7, <2>1, <2>2
<1>10. ASSUME NEW r \in Requests, NEW k \in Logs, NEW p \in Photos, SelectForDelete(r, k, p)
       PROVE  Within(l)'
  <2> DEFINE state == [Free EXCEPT !.pc = "deleting", !.log = k, !.photo = p]
  <2>1. state \in RequestRecord /\ state.pc = "deleting"
    BY DEF Free, RequestRecord
  <2>2. Goes(r, state) /\ rows' = rows
    BY <1>10 DEF SelectForDelete
  <2> HIDE DEF state
  <2> QED
    BY <1>7, <2>1, <2>2
<1>11. CASE UNCHANGED <<rows, request>>
  BY <1>2, <1>11
<1>12. ASSUME NEW k \in Logs, ExpireList(k) PROVE Within(l)'
  BY <1>11, <1>12 DEF ExpireList
<1>13. CASE UNCHANGED vars
  BY <1>11, <1>13 DEF vars
<1> QED
  BY <1>3, <1>4, <1>5, <1>6, <1>8, <1>9, <1>10, <1>12, <1>13 DEF Next

-----------------------------------------------------------------------------
\* The inductive invariant holds in every reachable state.
THEOREM Invariance == Spec => []IInv
<1>1. IInv /\ [Next]_vars => IInv'
  BY TypeStep, MatchStep, WithinStep DEF IInv, Matching
<1> QED
  BY InitIInv, <1>1, PTL DEF Spec

\* Every variable keeps its type.
THEOREM TypeCorrect == Spec => []TypeOK
<1>1. IInv => TypeOK
  BY DEF IInv
<1> QED
  BY Invariance, <1>1, PTL

\* However uploads, deletes and failures overlap, rows and uploads under way
\* exceed the limit by fewer than the requests served at once (upload_site_photo
\* counts before it waits for the body and for the insert).
THEOREM OvershootSound == Spec => []OvershootBounded
<1>1. IInv => OvershootBounded
  BY DEF IInv
<1> QED
  BY Invariance, <1>1, PTL

\* The bucket holds what the table names, up to the requests between delete_file
\* or upload_file and their commit, and to the photos of those that failed there.
THEOREM BucketSound == Spec => []BucketMatchesRows
<1>1. IInv => BucketMatchesRows
  BY DEF IInv
<1> QED
  BY Invariance, <1>1, PTL

-----------------------------------------------------------------------------
\* A list that was right and is no longer was overtaken by a commit, or stored late.
LEMMA ListStep ==
  ASSUME TypeOK, Next, NEW l \in Logs, listed[l] \in {NoList, rows[l]},
         listed'[l] \notin {NoList, rows'[l]}
  PROVE  \E r \in Requests : /\ request[r].log = l
                             /\ At(r, "filling") \/ request'[r].pc = "dropping"
<1> USE DEF TypeOK
<1>1. listed'[l] # listed[l] \/ rows'[l] # rows[l]
  OBVIOUS
<1>2. ASSUME NEW r \in Requests, FillList(r)
      PROVE  request[r].log = l /\ At(r, "filling")
  BY <1>1, <1>2 DEF FillList
<1>3. ASSUME NEW r \in Requests, CommitInsert(r) \/ CommitDelete(r)
      PROVE  request[r].log = l /\ request'[r].pc = "dropping"
  <2>1. request[r].log = l
    BY <1>1, <1>3 DEF CommitInsert, CommitDelete
  <2>2. request'[r] = [request[r] EXCEPT !.pc = "dropping"]
    BY <1>3 DEF CommitInsert, CommitDelete, Goes
  <2>3. request'[r].pc = "dropping"
    BY <2>2 DEF RequestRecord
  <2> QED
    BY <2>1, <2>3
<1>4. ASSUME NEW r \in Requests, DropList(r) PROVE FALSE
  <2>1. rows' = rows /\ (listed' = [listed EXCEPT ![request[r].log] = NoList] \/ listed' = listed)
    BY <1>4 DEF DropList
  <2> QED
    BY <1>1, <2>1
<1>5. ASSUME NEW k \in Logs, ExpireList(k) PROVE FALSE
  BY <1>1, <1>5 DEF ExpireList
<1>6. ASSUME UNCHANGED <<rows, listed>> PROVE FALSE
  BY <1>1, <1>6
<1>7. ASSUME NEW r \in Requests,
             \/ \E k \in Logs : \/ CountAttachments(r, k) \/ ReadRows(r, k)
                                \/ \E p \in Photos : SelectForDelete(r, k, p)
             \/ \E p \in Photos : StoreFile(r, p)
             \/ RefuseFile(r) \/ RemoveObject(r) \/ RequestFails(r)
      PROVE  FALSE
  <2>1. UNCHANGED <<rows, listed>>
    BY <1>7 DEF CountAttachments, ReadRows, SelectForDelete, StoreFile, RefuseFile, RemoveObject,
                RequestFails
  <2> QED
    BY <1>6, <2>1
<1> QED
  BY <1>2, <1>3, <1>4, <1>5, <1>7 DEF Next

\* list_site_photos: the cached list is wrong only between a commit and the drop that
\* follows it, or after a list that was read before such a drop is stored.
THEOREM ListSound == Spec => ListGoesWrongInFlight
<1>1. IInv /\ [Next]_vars =>
        [\A l \in Logs :
           listed[l] \in {NoList, rows[l]} /\ listed'[l] \notin {NoList, rows'[l]} =>
             \E r \in Requests : /\ request[r].log = l
                                 /\ At(r, "filling") \/ request'[r].pc = "dropping"]_vars
  BY ListStep DEF IInv
<1> QED
  BY Invariance, <1>1, PTL DEF Spec, ListGoesWrongInFlight
=============================================================================
