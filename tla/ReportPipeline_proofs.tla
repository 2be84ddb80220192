------------------------ MODULE ReportPipeline_proofs ------------------------
(***************************************************************************)
(* What holds of ReportPipeline for any users, projects, reports, workers, *)
(* day and retention, with failing deletes, redelivered jobs and crashes.  *)
(***************************************************************************)
EXTENDS ReportPipeline, TLAPS

\* The values at rest have the types of the values in use.
LEMMA RestingTypes ==
  /\ Waiting \in [pc : {"idle", "marking", "sending"}, project : Projects, day : Days]
  /\ NotListing \in [pc : {"idle", "filling"}, project : Projects, seen : SUBSET Ids]
  /\ Idle \in [pc : {"idle", "upload", "insert", "drop"}, project : Projects,
               by : Authors, day : Days, started : Nat]
  /\ {Off, Died} \subseteq
       [pc : {"off", "died", "file", "row"}, batch : SUBSET Ids, report : Ids \cup {NoReport}]
<1>1. AnyProject \in Projects
  BY ProjectsAssumption DEF AnyProject
<1> QED
  BY <1>1 DEF Waiting, NotListing, Idle, Off, Died, Authors, Days

\* The empty tables satisfy the invariant.
LEMMA InitIInv == Init => IInv
<1> SUFFICES ASSUME Init PROVE IInv
  OBVIOUS
<1> USE DEF Init
<1>1. TypeOK
  BY RestingTypes DEF TypeOK
<1>2. InDay
  BY DayAssumption DEF InDay
<1>3. MadeOnTime /\ JobsOnTime /\ BatchIsOld
  BY NullsAssumption DEF MadeOnTime, Exists, JobsOnTime, Idle, BatchIsOld, Cleaning, Off
<1>4. GeneratedIsTrue
  BY DEF GeneratedIsTrue, RefusedOnlyIfGenerated, Waiting
<1> QED
  BY <1>1, <1>2, <1>3, <1>4 DEF IInv

-----------------------------------------------------------------------------
(* Types: one step per action.                                             *)

\* One step per action, each keeping the types.
LEMMA TypeStep == TypeOK /\ [Next]_vars => TypeOK'
<1> SUFFICES ASSUME TypeOK, [Next]_vars PROVE TypeOK'
  OBVIOUS
<1> USE DEF TypeOK, time, tables, caches, requests
<1>1. ASSUME NEW u \in Users, NEW p \in Projects, CheckToday(u, p) PROVE TypeOK'
  <2>1. PICK pc \in {"sending", "marking"} :
          trigger' = [trigger EXCEPT ![u] = [pc |-> pc, project |-> p, day |-> today]]
    BY <1>1 DEF CheckToday
  <2>2. trigger' \in [Users -> [pc : {"idle", "marking", "sending"}, project : Projects, day : Days]]
    BY <2>1 DEF Days
  <2> QED
    BY <1>1, <2>2 DEF CheckToday
<1>2. ASSUME NEW u \in Users, NEW p \in Projects, ReadList(u, p) PROVE TypeOK'
  <2>1. Visible(u, p) \in SUBSET Ids
    BY DEF Visible
  <2> QED
    BY <1>2, <2>1 DEF ReadList
<1>3. ASSUME NEW u \in Users, NEW p \in Projects, ExpireList(u, p) PROVE TypeOK'
  BY <1>3 DEF ExpireList
<1>4. ASSUME NEW u \in Users, MarkGenerated(u) PROVE TypeOK'
  BY <1>4, RestingTypes DEF MarkGenerated
<1>5. ASSUME NEW u \in Users, Send(u) PROVE TypeOK'
  <2>1. trigger' \in [Users -> [pc : {"idle", "marking", "sending"}, project : Projects, day : Days]]
    BY <1>5, RestingTypes DEF Send
  <2>2. queue' \in [Projects \X Authors -> Nat]
    <3> DEFINE m == <<trigger[u].project, u>>
    <3>1. m \in Projects \X Authors
      BY DEF Authors
    <3>2. PICK n \in {0, 1} : queue' = [queue EXCEPT ![m] = @ + n]
      BY <1>5 DEF Send
    <3> HIDE DEF m
    <3>3. queue[m] + n \in Nat
      BY <3>1, <3>2
    <3> QED
      BY <3>2, <3>3
  <2> QED
    BY <1>5, <2>1, <2>2 DEF Send
<1>6. ASSUME NEW u \in Users, FillList(u) PROVE TypeOK'
  BY <1>6, RestingTypes DEF FillList
<1>7. ASSUME NEW sent \in SUBSET Projects, ScheduleAll(sent) PROVE TypeOK'
  BY <1>7 DEF ScheduleAll
<1>8. ASSUME NEW w \in Workers, NEW p \in Projects, NEW by \in Authors, Receive(w, p, by)
      PROVE  TypeOK'
  <2>1. worker' \in [Workers -> [pc : {"idle", "upload", "insert", "drop"}, project : Projects,
                                 by : Authors, day : Days, started : Nat]]
    BY <1>8 DEF Receive, Days
  <2>2. queue' \in [Projects \X Authors -> Nat]
    <3> DEFINE m == <<p, by>>
    <3>1. m \in Projects \X Authors /\ queue[m] > 0
      BY <1>8 DEF Receive
    <3>2. PICK n \in {0, 1} : queue' = [queue EXCEPT ![m] = @ - n]
      BY <1>8 DEF Receive
    <3> HIDE DEF m
    <3>3. queue[m] - n \in Nat
      BY <3>1, <3>2
    <3> QED
      BY <3>2, <3>3
  <2>3. UNCHANGED <<now, today, reports, files, generated, listed, trigger, listing, cleanup>>
    BY <1>8 DEF Receive
  <2> QED
    BY <2>1, <2>2, <2>3
<1>9. ASSUME NEW w \in Workers, Upload(w) PROVE TypeOK'
  <2>1. files' \in SUBSET Files
    BY <1>9 DEF Upload, Files
  <2>2. worker' \in [Workers -> [pc : {"idle", "upload", "insert", "drop"}, project : Projects,
                                 by : Authors, day : Days, started : Nat]]
    BY <1>9 DEF Upload
  <2> QED
    BY <1>9, <2>1, <2>2 DEF Upload
<1>10. ASSUME NEW w \in Workers, NEW i \in Ids, Insert(w, i) PROVE TypeOK'
  BY <1>10 DEF Insert, Report
<1>11. ASSUME NEW w \in Workers, DropCaches(w) PROVE TypeOK'
  BY <1>11, RestingTypes DEF DropCaches
<1>12. ASSUME NEW w \in Workers, JobFails(w) PROVE TypeOK'
  BY <1>12, RestingTypes DEF JobFails
<1>13. ASSUME NEW g \in generated, ExpireGenerated(g) PROVE TypeOK'
  BY <1>13 DEF ExpireGenerated
<1>14. ASSUME NEW batch \in SUBSET Ids, TakeNext(batch)
       PROVE  cleanup' \in [pc : {"off", "died", "file", "row"}, batch : SUBSET Ids,
                            report : Ids \cup {NoReport}]
  BY <1>14, RestingTypes DEF TakeNext
<1>15. ASSUME StartCleanup PROVE TypeOK'
  <2>1. TakeNext({i \in Ids : IsOld(i)})
    BY <1>15 DEF StartCleanup
  <2> QED
    BY <1>14, <1>15, <2>1 DEF StartCleanup
<1>16. ASSUME NEW i \in Ids, DeleteFile(i) PROVE TypeOK'
  BY <1>16 DEF DeleteFile
<1>17. ASSUME NEW i \in Ids, DeleteRow(i) PROVE TypeOK'
  BY <1>14, <1>17 DEF DeleteRow
<1>18. ASSUME SkipReport PROVE TypeOK'
  BY <1>14, <1>18 DEF SkipReport
<1>19. ASSUME CleanupCrash PROVE TypeOK'
  BY <1>19, RestingTypes DEF CleanupCrash
<1>20. ASSUME Tick PROVE TypeOK'
  BY <1>20 DEF Tick
<1>21. CASE UNCHANGED vars
  BY <1>21 DEF vars
<1> QED
  BY <1>1, <1>2, <1>3, <1>4, <1>5, <1>6, <1>7, <1>8, <1>9, <1>10, <1>11, <1>12, <1>13,
     <1>15, <1>16, <1>17, <1>18, <1>19, <1>20, <1>21 DEF Next, Clean

-----------------------------------------------------------------------------
(* The day of a report and its file.                                       *)

FilesInv == InDay /\ MadeOnTime /\ JobsOnTime /\ BatchIsOld

\* What no job, cleanup or tick is doing leaves the files and rows alone.
LEMMA QuietFiles ==
  ASSUME FilesInv, UNCHANGED <<time, tables, worker, cleanup>> PROVE FilesInv'
BY DEF FilesInv, time, tables, InDay, MadeOnTime, JobsOnTime, BatchIsOld, Cleaning, Exists, FileOf,
       IsOld, Age

\* The cleanup goes on with old reports it has not yet taken.
LEMMA NextBatch ==
  ASSUME TypeOK, NEW batch \in SUBSET Ids, TakeNext(batch), UNCHANGED time,
         \A i \in batch : reports'[i] = reports[i] /\ IsOld(i)
  PROVE  BatchIsOld'
<1>1. \A i \in batch : IsOld(i)'
  BY DEF IsOld, Exists, Age, time
<1>2. CASE batch = {} /\ cleanup' = Off
  BY <1>2, NullsAssumption DEF BatchIsOld, Cleaning, Off
<1>3. ASSUME NEW i \in batch,
             cleanup' = [pc |-> "file", batch |-> batch \ {i}, report |-> i]
      PROVE  BatchIsOld'
  BY <1>1, <1>3 DEF BatchIsOld, Cleaning
<1> QED
  BY <1>2, <1>3 DEF TakeNext

\* An old report was not made on the day of a job under way.
LEMMA OldIsNotOfAJob ==
  ASSUME TypeOK, FilesInv, NEW i \in Ids, IsOld(i),
         NEW w \in Workers, worker[w].pc # "idle"
  PROVE  FileOf(i) # <<worker[w].project, worker[w].day>>
<1>1. /\ reports[i].day <= reports[i].created
      /\ now - reports[i].created > Retention
  BY DEF FilesInv, MadeOnTime, IsOld, Age
<1>2. now <= worker[w].started + 1 /\ worker[w].started < worker[w].day + DayLength
  BY DEF FilesInv, JobsOnTime
<1>3. /\ reports[i].day \in Nat /\ reports[i].created \in Nat
      /\ worker[w].started \in Nat /\ worker[w].day \in Nat /\ now \in Nat
  BY DEF TypeOK, Report, Days, IsOld, Exists
<1>4. reports[i].day # worker[w].day
  BY <1>1, <1>2, <1>3, DayAssumption
<1> QED
  BY <1>4 DEF FileOf

\* Time passes and leaves jobs within their tick and files where they are.
LEMMA TickFiles == ASSUME TypeOK, FilesInv, Tick PROVE FilesInv'
<1>1. /\ now \in Nat /\ today \in Nat
      /\ now' = now + 1
      /\ today' = IF now + 1 = today + DayLength THEN now + 1 ELSE today
      /\ reports' = reports /\ files' = files /\ worker' = worker /\ cleanup' = cleanup
  BY DEF Tick, TypeOK, tables
<1>2. InDay'
  BY <1>1, DayAssumption DEF FilesInv, InDay
<1>3. MadeOnTime'
  <2>1. ASSUME NEW i \in Ids, Exists(i)
        PROVE  /\ reports[i].day <= reports[i].created
               /\ reports[i].created <= reports[i].day + DayLength
               /\ reports[i].created <= now'
               /\ FileOf(i) \notin files => now' - reports[i].day > Retention
    <3>1. reports[i].day \in Nat /\ reports[i].created \in Nat
      BY <2>1 DEF TypeOK, Report, Days, Exists
    <3> QED
      BY <1>1, <2>1, <3>1, DayAssumption DEF FilesInv, MadeOnTime
  <2> QED
    BY <1>1, <2>1 DEF MadeOnTime, Exists, FileOf
<1>4. JobsOnTime'
  <2> SUFFICES ASSUME NEW w \in Workers, worker[w].pc # "idle"
               PROVE  /\ worker[w].started <= now + 1 /\ now + 1 <= worker[w].started + 1
                      /\ worker[w].day <= worker[w].started
                      /\ worker[w].started < worker[w].day + DayLength
                      /\ worker[w].pc = "insert"
                           => <<worker[w].project, worker[w].day>> \in files
    BY <1>1 DEF JobsOnTime
  <2>1. worker[w].started = now
    BY DEF Tick
  <2> QED
    BY <1>1, <2>1 DEF FilesInv, JobsOnTime
<1>5. BatchIsOld'
  <2>1. ASSUME NEW i \in Ids, IsOld(i) PROVE IsOld(i)'
    <3>1. reports[i].created \in Nat
      BY <2>1 DEF TypeOK, Report, IsOld, Exists
    <3> QED
      BY <1>1, <2>1, <3>1, DayAssumption DEF IsOld, Age, Exists
  <2>2. cleanup.batch \subseteq Ids
    BY DEF TypeOK
  <2> QED
    BY <1>1, <2>1, <2>2 DEF FilesInv, BatchIsOld, Cleaning, FileOf
<1> QED
  BY <1>2, <1>3, <1>4, <1>5 DEF FilesInv

\* What a job does to the files and rows.
LEMMA JobFiles ==
  ASSUME TypeOK, FilesInv, NEW w \in Workers,
         \/ \E p \in Projects, by \in Authors : Receive(w, p, by)
         \/ Upload(w)
         \/ \E i \in Ids : Insert(w, i)
         \/ DropCaches(w)
         \/ JobFails(w)
  PROVE  FilesInv'
<1>t. /\ now \in Nat /\ today \in Nat
      /\ worker \in [Workers -> [pc : {"idle", "upload", "insert", "drop"}, project : Projects,
                                 by : Authors, day : Days, started : Nat]]
      /\ reports \in [Ids -> Report \cup {NoReport}]
  BY DEF TypeOK
<1>0. now' = now /\ today' = today /\ cleanup' = cleanup
  BY DEF Receive, Upload, Insert, DropCaches, JobFails, time
<1>1. InDay'
  BY <1>0 DEF FilesInv, InDay
<1>2. ASSUME NEW p \in Projects, NEW by \in Authors, Receive(w, p, by) PROVE FilesInv'
  <2>1. reports' = reports /\ files' = files
    BY <1>2 DEF Receive, tables
  <2>2. worker' = [worker EXCEPT ![w] = [pc |-> "upload", project |-> p, by |-> by,
                                         day |-> today, started |-> now]]
    BY <1>2 DEF Receive
  <2>3. JobsOnTime'
    BY <1>t, <1>0, <2>1, <2>2 DEF FilesInv, JobsOnTime, InDay
  <2> QED
    BY <1>0, <1>1, <2>1, <2>3 DEF FilesInv, MadeOnTime, BatchIsOld, Cleaning, Exists, FileOf, IsOld, Age
<1>3. CASE Upload(w)
  <2>0. worker[w].pc = "upload"
    BY <1>3 DEF Upload
  <2> DEFINE file == <<worker[w].project, worker[w].day>>
  <2>1. reports' = reports /\ files' = files \cup {file}
    BY <1>3 DEF Upload
  <2>2. worker' = [worker EXCEPT ![w].pc = "insert"]
    BY <1>3 DEF Upload
  <2>3. JobsOnTime'
    BY <1>t, <1>0, <2>0, <2>1, <2>2 DEF FilesInv, JobsOnTime
  <2>4. MadeOnTime'
    BY <1>0, <2>1 DEF FilesInv, MadeOnTime, Exists, FileOf
  <2>5. ASSUME cleanup.pc = "row" PROVE FileOf(cleanup.report) # file
    BY <2>0, <2>5, OldIsNotOfAJob DEF FilesInv, BatchIsOld, Cleaning
  <2> HIDE DEF file
  <2>6. BatchIsOld'
    BY <1>0, <2>1, <2>5 DEF FilesInv, BatchIsOld, Cleaning, Exists, FileOf, IsOld, Age
  <2> QED
    BY <1>1, <2>3, <2>4, <2>6 DEF FilesInv
<1>4. ASSUME NEW i \in Ids, Insert(w, i) PROVE FilesInv'
  <2> DEFINE row == [project |-> worker[w].project, by |-> worker[w].by,
                     day |-> worker[w].day, created |-> now]
  <2>0. worker[w].pc = "insert" /\ ~Exists(i)
    BY <1>4 DEF Insert
  <2>1. files' = files /\ reports' = [reports EXCEPT ![i] = row]
    BY <1>4 DEF Insert
  <2>2. worker' = [worker EXCEPT ![w].pc = "drop"]
    BY <1>4 DEF Insert
  <2>3. JobsOnTime'
    BY <1>t, <1>0, <2>0, <2>1, <2>2 DEF FilesInv, JobsOnTime
  <2>4. /\ row.day <= row.created /\ row.created <= row.day + DayLength
        /\ row.created <= now /\ <<row.project, row.day>> \in files
    <3>1. /\ worker[w].day \in Nat /\ worker[w].started \in Nat
      BY <1>t DEF Days
    <3> QED
      BY <1>t, <2>0, <3>1, DayAssumption DEF FilesInv, JobsOnTime
  <2> HIDE DEF row
  <2>5. MadeOnTime'
    BY <1>t, <1>0, <2>1, <2>4 DEF FilesInv, MadeOnTime, Exists, FileOf
  <2>6. ASSUME NEW j \in Ids, IsOld(j) PROVE j # i /\ reports'[j] = reports[j] /\ IsOld(j)'
    BY <1>t, <1>0, <2>0, <2>1, <2>6 DEF IsOld, Exists, Age
  <2>7. BatchIsOld'
    <3>1. cleanup.batch \subseteq Ids
      BY DEF TypeOK
    <3> QED
      BY <1>0, <2>1, <2>6, <3>1 DEF FilesInv, BatchIsOld, Cleaning, FileOf
  <2> QED
    BY <1>1, <2>3, <2>5, <2>7 DEF FilesInv
<1>5. CASE DropCaches(w) \/ JobFails(w)
  <2>1. reports' = reports /\ files' = files /\ worker' = [worker EXCEPT ![w] = Idle]
    BY <1>5 DEF DropCaches, JobFails, tables
  <2>2. JobsOnTime'
    BY <1>t, <1>0, <2>1 DEF FilesInv, JobsOnTime, Idle
  <2> QED
    BY <1>0, <1>1, <2>1, <2>2 DEF FilesInv, MadeOnTime, BatchIsOld, Cleaning, Exists, FileOf, IsOld, Age
<1> QED
  BY <1>2, <1>3, <1>4, <1>5

\* What the cleanup does: it takes the file of an old report, then its row.
LEMMA CleanupFiles ==
  ASSUME TypeOK, FilesInv,
         StartCleanup \/ SkipReport \/ CleanupCrash
           \/ \E i \in Ids : DeleteFile(i) \/ DeleteRow(i)
  PROVE  FilesInv'
<1>t. /\ now \in Nat /\ reports \in [Ids -> Report \cup {NoReport}]
      /\ cleanup.batch \subseteq Ids
  BY DEF TypeOK
<1>c. cleanup = [pc |-> cleanup.pc, batch |-> cleanup.batch, report |-> cleanup.report]
  BY DEF TypeOK
<1>0. now' = now /\ today' = today /\ worker' = worker
  BY DEF StartCleanup, SkipReport, CleanupCrash, DeleteFile, DeleteRow, time
<1>1. InDay'
  BY <1>0 DEF FilesInv, InDay
<1>2. ASSUME reports' = reports, files' = files PROVE MadeOnTime' /\ JobsOnTime'
  BY <1>0, <1>2 DEF FilesInv, MadeOnTime, JobsOnTime, Exists, FileOf
<1>3. ASSUME NEW batch \in SUBSET Ids, \A i \in batch : IsOld(i), TakeNext(batch),
             reports' = reports, files' = files
      PROVE  FilesInv'
  <2>1. BatchIsOld'
    BY <1>0, <1>3, NextBatch DEF time
  <2> QED
    BY <1>1, <1>2, <1>3, <2>1 DEF FilesInv
<1>4. CASE StartCleanup
  BY <1>3, <1>4 DEF StartCleanup, tables
<1>5. CASE SkipReport
  BY <1>3, <1>5, <1>t DEF SkipReport, tables, FilesInv, BatchIsOld, Cleaning
<1>6. CASE CleanupCrash
  <2>1. cleanup' = Died /\ reports' = reports /\ files' = files
    BY <1>6 DEF CleanupCrash, tables
  <2>2. BatchIsOld'
    BY <2>1, NullsAssumption DEF BatchIsOld, Cleaning, Died
  <2> QED
    BY <1>1, <1>2, <2>1, <2>2 DEF FilesInv
<1>7. ASSUME NEW i \in Ids, DeleteFile(i) PROVE FilesInv'
  <2>1. /\ cleanup.pc = "file" /\ cleanup.report = i
        /\ reports' = reports /\ files' = files \ {FileOf(i)}
        /\ cleanup' = [cleanup EXCEPT !.pc = "row"]
    BY <1>7 DEF DeleteFile
  <2>2. IsOld(i)
    BY <2>1 DEF FilesInv, BatchIsOld, Cleaning
  <2>3. BatchIsOld'
    <3>1. cleanup' = [pc |-> "row", batch |-> cleanup.batch, report |-> i]
      BY <1>c, <2>1
    <3> QED
      BY <1>0, <2>1, <2>2, <3>1 DEF FilesInv, BatchIsOld, Cleaning, IsOld, Exists, Age, FileOf
  <2>4. JobsOnTime'
    <3>1. ASSUME NEW w \in Workers, worker[w].pc = "insert"
          PROVE  FileOf(i) # <<worker[w].project, worker[w].day>>
      BY <2>2, <3>1, OldIsNotOfAJob
    <3> HIDE DEF FileOf
    <3> QED
      BY <1>0, <2>1, <3>1 DEF FilesInv, JobsOnTime
  <2>5. MadeOnTime'
    <3>1. ASSUME NEW j \in Ids, Exists(j)
          PROVE  /\ reports[j].day <= reports[j].created
                 /\ reports[j].created <= reports[j].day + DayLength
                 /\ reports[j].created <= now
                 /\ FileOf(j) \notin files' => now - reports[j].day > Retention
      <4>1. /\ reports[j].day \in Nat /\ reports[j].created \in Nat
            /\ reports[i].day \in Nat /\ reports[i].created \in Nat
        BY <3>1, <2>2 DEF TypeOK, Report, Days, Exists, IsOld
      <4>2. reports[i].day <= reports[i].created /\ now - reports[i].created > Retention
        BY <2>2 DEF IsOld, Age, FilesInv, MadeOnTime
      <4>3. now - reports[i].day > Retention
        BY <1>t, <4>1, <4>2, DayAssumption
      <4>4. ASSUME FileOf(j) = FileOf(i) PROVE reports[j].day = reports[i].day
        BY <4>4 DEF FileOf
      <4>5. /\ reports[j].day <= reports[j].created
            /\ reports[j].created <= reports[j].day + DayLength
            /\ reports[j].created <= now
            /\ FileOf(j) \notin files => now - reports[j].day > Retention
        BY <3>1 DEF FilesInv, MadeOnTime
      <4>6. FileOf(j) \notin files' => FileOf(j) \notin files \/ FileOf(j) = FileOf(i)
        BY <2>1
      <4> QED
        BY <4>3, <4>4, <4>5, <4>6
    <3> QED
      BY <1>0, <2>1, <3>1 DEF MadeOnTime, Exists, FileOf
  <2> QED
    BY <1>1, <2>3, <2>4, <2>5 DEF FilesInv
<1>8. ASSUME NEW i \in Ids, DeleteRow(i) PROVE FilesInv'
  <2>1. /\ cleanup.report = i /\ TakeNext(cleanup.batch)
        /\ reports' = [reports EXCEPT ![i] = NoReport] /\ files' = files
    BY <1>8 DEF DeleteRow
  <2>2. \A j \in cleanup.batch : reports'[j] = reports[j] /\ IsOld(j)
    BY <1>t, <2>1 DEF FilesInv, BatchIsOld, Cleaning
  <2>3. BatchIsOld'
    BY <1>t, <1>0, <2>1, <2>2, NextBatch DEF time
  <2>4. MadeOnTime'
    BY <1>t, <1>0, <2>1 DEF FilesInv, MadeOnTime, Exists, FileOf
  <2>5. JobsOnTime'
    BY <1>0, <2>1 DEF FilesInv, JobsOnTime
  <2> QED
    BY <1>1, <2>3, <2>4, <2>5 DEF FilesInv
<1> QED
  BY <1>4, <1>5, <1>6, <1>7, <1>8

\* Jobs, the cleanup and time keep what is known of days and files.
LEMMA FilesStep == TypeOK /\ FilesInv /\ [Next]_vars => FilesInv'
<1> SUFFICES ASSUME TypeOK, FilesInv, [Next]_vars PROVE FilesInv'
  OBVIOUS
<1>1. ASSUME NEW u \in Users, NEW p \in Projects,
             CheckToday(u, p) \/ ReadList(u, p) \/ ExpireList(u, p)
      PROVE  FilesInv'
  BY <1>1, QuietFiles DEF CheckToday, ReadList, ExpireList, tables
<1>2. ASSUME NEW u \in Users, MarkGenerated(u) \/ Send(u) \/ FillList(u) PROVE FilesInv'
  BY <1>2, QuietFiles DEF MarkGenerated, Send, FillList
<1>3. ASSUME NEW sent \in SUBSET Projects, ScheduleAll(sent) PROVE FilesInv'
  BY <1>3, QuietFiles DEF ScheduleAll
<1>4. ASSUME NEW g \in generated, ExpireGenerated(g) PROVE FilesInv'
  BY <1>4, QuietFiles DEF ExpireGenerated
<1>5. CASE UNCHANGED vars
  BY <1>5, QuietFiles DEF vars, time, tables
<1> QED
  BY <1>1, <1>2, <1>3, <1>4, <1>5, JobFiles, CleanupFiles, TickFiles DEF Next, Clean

-----------------------------------------------------------------------------
(* What report:exists says.                                                *)

\* A report of today is nobody's old report, nor is one gone of today.
LEMMA OldIsNotOfToday ==
  ASSUME TypeOK, FilesInv, NEW i \in Ids, IsOld(i) PROVE reports[i].created < today
<1>1. /\ now \in Nat /\ today \in Nat /\ reports[i].created \in Nat
      /\ now - reports[i].created > Retention
  BY DEF TypeOK, Report, IsOld, Exists, Age
<1>2. now < today + DayLength
  BY DEF FilesInv, InDay
<1> QED
  BY <1>1, <1>2, DayAssumption

\* While the day lasts, the reports of today stay.
LEMMA MadeTodayGrows ==
  ASSUME TypeOK, FilesInv, [Next]_vars, today' = today,
         NEW u \in Users, NEW p \in Projects, MadeToday(u, p) # {}
  PROVE  MadeToday(u, p)' # {}
<1>1. PICK i \in Ids : /\ Exists(i) /\ reports[i].project = p
                       /\ reports[i].by = u /\ reports[i].created >= today
  BY DEF MadeToday
<1>2. reports'[i] = reports[i]
  <2>0. /\ now \in Nat /\ today \in Nat /\ reports[i].created \in Nat
        /\ reports \in [Ids -> Report \cup {NoReport}]
    BY <1>1 DEF TypeOK, Report, Exists
  <2>1. ASSUME NEW j \in Ids, DeleteRow(j) PROVE j # i
    <3>1. IsOld(j)
      BY <2>1 DEF DeleteRow, FilesInv, BatchIsOld, Cleaning
    <3>2. reports[j].created < today
      BY <3>1, OldIsNotOfToday
    <3> QED
      BY <1>1, <2>0, <3>2
  <2>2. ASSUME NEW j \in Ids, DeleteRow(j) PROVE reports'[i] = reports[i]
    BY <2>0, <2>1, <2>2 DEF DeleteRow
  <2>3. ASSUME NEW w \in Workers, NEW j \in Ids, Insert(w, j) PROVE reports'[i] = reports[i]
    BY <1>1, <2>0, <2>3 DEF Insert
  <2>4. \/ reports' = reports
        \/ \E j \in Ids : DeleteRow(j)
        \/ \E w \in Workers, j \in Ids : Insert(w, j)
    BY DEF Next, vars, tables, CheckToday, ReadList, ExpireList, MarkGenerated, Send, FillList,
           ScheduleAll, Receive, Upload, DropCaches, JobFails, ExpireGenerated, Clean,
           StartCleanup, SkipReport, DeleteFile, CleanupCrash, Tick
  <2> QED
    BY <2>2, <2>3, <2>4
<1>3. i \in MadeToday(u, p)'
  BY <1>1, <1>2 DEF MadeToday, Exists
<1> QED
  BY <1>3

\* The keys and the requests that leave them alone.
LEMMA QuietKeys ==
  ASSUME TypeOK, FilesInv, GeneratedIsTrue, [Next]_vars, today' = today,
         generated' \subseteq generated,
         \A u \in Users : \/ trigger'[u] = trigger[u]
                          \/ trigger'[u].pc # "marking" /\ trigger'[u].day <= today
  PROVE  GeneratedIsTrue'
<1>1. \A g \in generated' : g[3] <= today'
  BY DEF GeneratedIsTrue
<1>2. \A u \in Users : trigger'[u].day <= today'
  BY DEF GeneratedIsTrue
<1>3. ASSUME NEW u \in Users, trigger'[u].pc = "marking", trigger'[u].day = today
      PROVE  MadeToday(u, trigger[u].project)' # {}
  <2>1. trigger'[u] = trigger[u]
    BY <1>3
  <2>2. MadeToday(u, trigger[u].project) # {} /\ trigger[u].project \in Projects
    BY <1>3, <2>1 DEF GeneratedIsTrue, TypeOK
  <2>3. ASSUME NEW p \in Projects, p = trigger[u].project PROVE MadeToday(u, p)' # {}
    BY <2>2, <2>3, MadeTodayGrows
  <2> QED
    BY <2>1, <2>2, <2>3
<1>4. RefusedOnlyIfGenerated'
  BY MadeTodayGrows DEF GeneratedIsTrue, RefusedOnlyIfGenerated
<1> QED
  BY <1>1, <1>2, <1>3, <1>4 DEF GeneratedIsTrue

\* The keys of today, and those about to be written, stay true.
LEMMA KeysStep == TypeOK /\ FilesInv /\ GeneratedIsTrue /\ [Next]_vars => GeneratedIsTrue'
<1> SUFFICES ASSUME TypeOK, FilesInv, GeneratedIsTrue, [Next]_vars PROVE GeneratedIsTrue'
  OBVIOUS
<1>t. /\ now \in Nat /\ today \in Nat
      /\ trigger \in [Users -> [pc : {"idle", "marking", "sending"}, project : Projects, day : Days]]
      /\ generated \subseteq Users \X Projects \X Nat
  BY DEF TypeOK, Days
<1>w. Waiting.pc = "idle" /\ Waiting.day <= today
  BY <1>t DEF Waiting
<1>1. ASSUME NEW u \in Users, NEW p \in Projects, CheckToday(u, p) PROVE GeneratedIsTrue'
  <2>0. today' = today /\ generated' = generated /\ reports' = reports
    BY <1>1 DEF CheckToday, time, tables, caches
  <2>1. CASE trigger' = [trigger EXCEPT ![u] = [pc |-> "sending", project |-> p, day |-> today]]
    BY <1>t, <2>0, <2>1, QuietKeys
  <2>2. CASE /\ MadeToday(u, p) # {}
             /\ trigger' = [trigger EXCEPT ![u] = [pc |-> "marking", project |-> p, day |-> today]]
    <3>1. \A v \in Users, q \in Projects : MadeToday(v, q)' = MadeToday(v, q)
      BY <2>0 DEF MadeToday, Exists
    <3>2. \A v \in Users : trigger'[v].day <= today
      BY <1>t, <2>2 DEF GeneratedIsTrue
    <3>3. ASSUME NEW v \in Users, trigger'[v].pc = "marking", trigger'[v].day = today
          PROVE  MadeToday(v, trigger'[v].project) # {} /\ trigger'[v].project \in Projects
      BY <1>t, <2>2, <3>3 DEF GeneratedIsTrue
    <3>4. ASSUME NEW v \in Users, trigger'[v].pc = "marking", trigger'[v].day = today
          PROVE  MadeToday(v, trigger[v].project)' # {}
      <4>1. ASSUME NEW q \in Projects, q = trigger'[v].project PROVE MadeToday(v, q)' # {}
        BY <3>1, <3>3, <3>4, <4>1
      <4> QED
        BY <3>3, <3>4, <2>0 DEF MadeToday, Exists
    <3> QED
      BY <2>0, <3>1, <3>2, <3>4 DEF GeneratedIsTrue, RefusedOnlyIfGenerated
  <2> QED
    BY <1>1, <2>1, <2>2 DEF CheckToday
<1>2. ASSUME NEW u \in Users, MarkGenerated(u) PROVE GeneratedIsTrue'
  <2> DEFINE key == <<u, trigger[u].project, trigger[u].day>>
  <2>0. today' = today /\ reports' = reports /\ trigger' = [trigger EXCEPT ![u] = Waiting]
    BY <1>2 DEF MarkGenerated, time, tables
  <2>1. generated' \subseteq generated \cup {key}
    BY <1>2 DEF MarkGenerated
  <2>2. key[3] <= today /\ (key[3] = today => MadeToday(u, trigger[u].project) # {})
    BY <1>2 DEF MarkGenerated, GeneratedIsTrue
  <2>3. \A v \in Users, q \in Projects : MadeToday(v, q)' = MadeToday(v, q)
    BY <2>0 DEF MadeToday, Exists
  <2>4. RefusedOnlyIfGenerated'
    BY <2>0, <2>1, <2>2, <2>3 DEF GeneratedIsTrue, RefusedOnlyIfGenerated
  <2>5. \A g \in generated' : g[3] <= today
    BY <2>1, <2>2 DEF GeneratedIsTrue
  <2>6. \A v \in Users : \/ trigger'[v] = trigger[v]
                         \/ trigger'[v].pc = "idle" /\ trigger'[v].day <= today
    BY <1>t, <1>w, <2>0
  <2>7. ASSUME NEW v \in Users, trigger'[v].pc = "marking", trigger'[v].day = today
        PROVE  MadeToday(v, trigger[v].project)' # {}
    <3>1. MadeToday(v, trigger'[v].project) # {}
      BY <2>6, <2>7 DEF GeneratedIsTrue
    <3> QED
      BY <2>0, <3>1 DEF MadeToday, Exists
  <2> QED
    BY <2>0, <2>4, <2>5, <2>6, <2>7 DEF GeneratedIsTrue
<1>3. CASE Tick
  <2>1. /\ today' = (IF now + 1 = today + DayLength THEN now + 1 ELSE today)
        /\ trigger' = trigger /\ generated' = generated /\ reports' = reports
    BY <1>3 DEF Tick, tables, caches, requests
  <2>2. CASE today' = today
    BY <2>1, <2>2, QuietKeys
  <2>3. CASE today' > today
    <3>1. \A g \in generated : g[3] \in Nat /\ g[3] <= today /\ g[3] # today'
      BY <1>t, <2>3 DEF GeneratedIsTrue
    <3>2. \A u \in Users : trigger[u].day \in Nat /\ trigger[u].day <= today
                             /\ trigger[u].day # today'
      BY <1>t, <2>3 DEF GeneratedIsTrue, Days
    <3>3. today' \in Nat
      BY <1>t, <2>1
    <3>4. RefusedOnlyIfGenerated'
      BY <2>1, <3>1 DEF RefusedOnlyIfGenerated
    <3> QED
      BY <1>t, <2>1, <2>3, <3>1, <3>2, <3>3, <3>4 DEF GeneratedIsTrue
  <2> QED
    BY <1>t, <2>1, <2>2, <2>3, DayAssumption DEF FilesInv, InDay
<1>4. ASSUME NEW u \in Users, Send(u) PROVE GeneratedIsTrue'
  BY <1>t, <1>w, <1>4, QuietKeys DEF Send, time, caches
<1>5. ASSUME NEW w \in Workers, DropCaches(w) PROVE GeneratedIsTrue'
  BY <1>5, QuietKeys DEF DropCaches, time, requests
<1>6. ASSUME NEW g \in generated, ExpireGenerated(g) PROVE GeneratedIsTrue'
  BY <1>6, QuietKeys DEF ExpireGenerated, time, requests
<1>7. CASE UNCHANGED <<today, generated, trigger>>
  BY <1>7, QuietKeys
<1>8. ASSUME NEW u \in Users, NEW p \in Projects, ReadList(u, p) \/ ExpireList(u, p)
      PROVE  UNCHANGED <<today, generated, trigger>>
  BY <1>8 DEF ReadList, ExpireList, time, caches, requests
<1>9. ASSUME NEW u \in Users, FillList(u) PROVE UNCHANGED <<today, generated, trigger>>
  BY <1>9 DEF FillList, time
<1>10. ASSUME NEW sent \in SUBSET Projects, ScheduleAll(sent)
       PROVE  UNCHANGED <<today, generated, trigger>>
  BY <1>10 DEF ScheduleAll, time, caches, requests
<1>11. ASSUME NEW w \in Workers,
              \/ \E p \in Projects, by \in Authors : Receive(w, p, by)
              \/ \E i \in Ids : Insert(w, i)
              \/ Upload(w) \/ JobFails(w)
       PROVE  UNCHANGED <<today, generated, trigger>>
  BY <1>11 DEF Receive, Insert, Upload, JobFails, time, caches, requests
<1>12. ASSUME Clean \/ CleanupCrash PROVE UNCHANGED <<today, generated, trigger>>
  BY <1>12 DEF Clean, StartCleanup, SkipReport, DeleteFile, DeleteRow, CleanupCrash, time, caches,
               requests
<1>13. CASE UNCHANGED vars
  BY <1>7, <1>13 DEF vars
<1> QED
  BY <1>1, <1>2, <1>3, <1>4, <1>5, <1>6, <1>7, <1>8, <1>9, <1>10, <1>11, <1>12, <1>13 DEF Next

-----------------------------------------------------------------------------
\* The strengthened invariant holds in every reachable state.
THEOREM Invariance == Spec => []IInv
<1>1. IInv /\ [Next]_vars => IInv'
  BY TypeStep, FilesStep, KeysStep DEF IInv, FilesInv
<1> QED
  BY <1>1, InitIInv, PTL DEF Spec

\* Every variable of ReportPipeline keeps its type.
THEOREM TypeCorrect == Spec => []TypeOK
<1>1. IInv => TypeOK
  BY DEF IInv
<1> QED
  BY <1>1, Invariance, PTL

\* generate_report_sync and cleanup_old_reports_sync between them never leave a
\* report without its file before its last day.
THEOREM FileSound == Spec => []FileWhileYoung
<1>1. IInv => FileWhileYoung
  <2> SUFFICES ASSUME IInv, NEW i \in Ids, Exists(i), Age(i) <= Retention - DayLength,
                      FileOf(i) \notin files
               PROVE  FALSE
    BY DEF FileWhileYoung
  <2>1. /\ now \in Nat /\ reports[i].day \in Nat /\ reports[i].created \in Nat
    BY DEF IInv, TypeOK, Report, Days, Exists
  <2>2. /\ reports[i].created <= reports[i].day + DayLength
        /\ now - reports[i].day > Retention
    BY DEF IInv, MadeOnTime
  <2>3. now - reports[i].created <= Retention - DayLength
    BY DEF Age
  <2> QED
    BY <2>1, <2>2, <2>3, DayAssumption
<1> QED
  BY <1>1, Invariance, PTL

\* A row that cleanup_old_reports_sync deletes leaves no file behind.
THEOREM DeleteSound == Spec => DeletedWithItsFile
<1>1. IInv /\ [Next]_vars =>
        [\A i \in Ids : Exists(i) /\ ~Exists(i)' => FileOf(i) \notin files']_vars
  <2> SUFFICES ASSUME IInv, [Next]_vars, NEW i \in Ids, Exists(i), ~Exists(i)'
               PROVE  FileOf(i) \notin files'
    OBVIOUS
  <2>0. reports \in [Ids -> Report \cup {NoReport}]
    BY DEF IInv, TypeOK
  <2>1. ASSUME NEW w \in Workers, NEW j \in Ids, Insert(w, j) PROVE FALSE
    <3> DEFINE row == [project |-> worker[w].project, by |-> worker[w].by,
                       day |-> worker[w].day, created |-> now]
    <3>1. reports' = [reports EXCEPT ![j] = row] /\ ~Exists(j)
      BY <2>1 DEF Insert
    <3> QED
      BY <2>0, <3>1 DEF Exists
  <2>2. PICK j \in Ids : DeleteRow(j)
    <3>1. reports' # reports
      BY DEF Exists
    <3> QED
      BY <2>1, <3>1 DEF Next, vars, tables, CheckToday, ReadList, ExpireList, MarkGenerated, Send,
             FillList, ScheduleAll, Receive, Upload, DropCaches, JobFails, ExpireGenerated, Clean,
             StartCleanup, SkipReport, DeleteFile, CleanupCrash, Tick
  <2>3. /\ cleanup.pc = "row" /\ cleanup.report = j /\ files' = files
        /\ reports' = [reports EXCEPT ![j] = NoReport]
    BY <2>2 DEF DeleteRow
  <2>4. j = i
    BY <2>0, <2>3 DEF Exists
  <2> QED
    BY <2>3, <2>4 DEF IInv, BatchIsOld, Cleaning
<1> QED
  BY <1>1, Invariance, PTL DEF Spec, DeletedWithItsFile

\* report_exists_today answers from Redis only what the table said today.
THEOREM RefusalSound == Spec => []RefusedOnlyIfGenerated
<1>1. IInv => RefusedOnlyIfGenerated
  BY DEF IInv, GeneratedIsTrue
<1> QED
  BY <1>1, Invariance, PTL
=============================================================================
