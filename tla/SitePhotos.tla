----------------------------- MODULE SitePhotos -----------------------------
(***************************************************************************)
(* Attachments of daily logs: upload, delete and list (services.site_photo)*)
(* over the table site_photos, the S3 bucket and the cached lists.  A      *)
(* request is cut where it awaits: the database, the uploaded body, Redis. *)
(* The S3 client blocks, so its calls belong to the step before an await.  *)
(***************************************************************************)
EXTENDS Naturals, FiniteSets

CONSTANTS
  Logs,        \* daily logs
  Photos,      \* file names: uuid4().hex, never drawn twice
  Requests,    \* HTTP requests being served at once
  MaxPerLog,   \* 10
  NoLog, NoPhoto, NoList

ASSUME MaxAssumption == MaxPerLog \in Nat \ {0}
ASSUME RequestsAssumption == IsFiniteSet(Requests) /\ Requests # {}
ASSUME NullsAssumption ==
  NoLog \notin Logs /\ NoPhoto \notin Photos /\ \A s \in SUBSET Photos : s # NoList

VARIABLES
  rows,     \* committed rows of site_photos, per daily log
  bucket,   \* objects site_photos/{log}/{photo}
  drawn,    \* names drawn so far
  listed,   \* site_photos:{log} in Redis
  request,
  abandoned \* history: photos whose upload or delete failed between bucket and table

vars == <<rows, bucket, drawn, listed, request, abandoned>>

Free == [pc |-> "free", log |-> NoLog, photo |-> NoPhoto, seen |-> {}]

RequestRecord ==
  [pc : {"free", "reading", "inserting", "deleting", "removing", "dropping", "filling"},
   log : Logs \cup {NoLog}, photo : Photos \cup {NoPhoto}, seen : SUBSET Photos]

\* The values each variable may have; every row and object has a name.
TypeOK ==
  /\ rows \in [Logs -> SUBSET Photos]
  /\ bucket \in SUBSET Photos /\ drawn \in SUBSET Photos
  /\ abandoned \in SUBSET (Photos \cup {NoPhoto})
  /\ listed \in [Logs -> {NoList} \cup SUBSET Photos]
  /\ request \in [Requests -> RequestRecord]

Init ==
  /\ rows = [l \in Logs |-> {}]
  /\ bucket = {} /\ drawn = {} /\ abandoned = {}
  /\ listed = [l \in Logs |-> NoList]
  /\ request = [r \in Requests |-> Free]

-----------------------------------------------------------------------------
At(r, pc) == request[r].pc = pc
Goes(r, state) == request' = [request EXCEPT ![r] = state]
Ends(r) == Goes(r, Free)

(* Upload.                                                                 *)

\* Access and log are checked, and the rows counted; a full log is refused.
CountAttachments(r, l) ==
  /\ At(r, "free") /\ Cardinality(rows[l]) < MaxPerLog
  /\ Goes(r, [Free EXCEPT !.pc = "reading", !.log = l])
  /\ UNCHANGED <<rows, bucket, drawn, listed, abandoned>>

\* The type or the size is refused after the body was read.
RefuseFile(r) ==
  /\ At(r, "reading")
  /\ Ends(r)
  /\ UNCHANGED <<rows, bucket, drawn, listed, abandoned>>

\* The body is here: put_object, then the INSERT is on its way.
StoreFile(r, p) ==
  /\ At(r, "reading") /\ p \notin drawn
  /\ drawn' = drawn \cup {p}
  /\ bucket' = bucket \cup {p}
  /\ Goes(r, [request[r] EXCEPT !.pc = "inserting", !.photo = p])
  /\ UNCHANGED <<rows, listed, abandoned>>

CommitInsert(r) ==
  /\ At(r, "inserting")
  /\ rows' = [rows EXCEPT ![request[r].log] = @ \cup {request[r].photo}]
  /\ Goes(r, [request[r] EXCEPT !.pc = "dropping"])
  /\ UNCHANGED <<bucket, drawn, listed, abandoned>>

-----------------------------------------------------------------------------
(* Delete.                                                                 *)

SelectForDelete(r, l, p) ==
  /\ At(r, "free") /\ p \in rows[l]
  /\ Goes(r, [Free EXCEPT !.pc = "deleting", !.log = l, !.photo = p])
  /\ UNCHANGED <<rows, bucket, drawn, listed, abandoned>>

\* Mutant of RemoveObject: the object stays.
KeepObject(r) ==
  /\ At(r, "deleting")
  /\ Goes(r, [request[r] EXCEPT !.pc = "removing"])
  /\ UNCHANGED <<rows, bucket, drawn, listed, abandoned>>

\* delete_file, then the DELETE is on its way.
RemoveObject(r) ==
  /\ At(r, "deleting")
  /\ bucket' = bucket \ {request[r].photo}
  /\ Goes(r, [request[r] EXCEPT !.pc = "removing"])
  /\ UNCHANGED <<rows, drawn, listed, abandoned>>

\* Mutant of CommitDelete: the response is sent without dropping the list.
DeleteAndAnswer(r) ==
  /\ At(r, "removing")
  /\ rows' = [rows EXCEPT ![request[r].log] = @ \ {request[r].photo}]
  /\ Ends(r)
  /\ UNCHANGED <<bucket, drawn, listed, abandoned>>

\* The row may be gone already: a DELETE that matches no row only warns.
CommitDelete(r) ==
  /\ At(r, "removing")
  /\ rows' = [rows EXCEPT ![request[r].log] = @ \ {request[r].photo}]
  /\ Goes(r, [request[r] EXCEPT !.pc = "dropping"])
  /\ UNCHANGED <<bucket, drawn, listed, abandoned>>

\* Both end with delete_cache of the list, or its swallowed error.
DropList(r) ==
  /\ At(r, "dropping")
  /\ \/ listed' = [listed EXCEPT ![request[r].log] = NoList]
     \/ listed' = listed
  /\ Ends(r)
  /\ UNCHANGED <<rows, bucket, drawn, abandoned>>

-----------------------------------------------------------------------------
(* List.  A hit changes nothing.                                           *)

\* A miss, or a Redis error, to which get_cache answers None as well.
ReadRows(r, l) ==
  /\ At(r, "free")
  /\ Goes(r, [Free EXCEPT !.pc = "filling", !.log = l, !.seen = rows[l]])
  /\ UNCHANGED <<rows, bucket, drawn, listed, abandoned>>

FillList(r) ==
  /\ At(r, "filling")
  /\ \/ listed' = [listed EXCEPT ![request[r].log] = request[r].seen]
     \/ listed' = listed
  /\ Ends(r)
  /\ UNCHANGED <<rows, bucket, drawn, abandoned>>

\* DEFAULT_CACHE_TTL has run out.
ExpireList(l) ==
  /\ listed[l] # NoList
  /\ listed' = [listed EXCEPT ![l] = NoList]
  /\ UNCHANGED <<rows, bucket, drawn, request, abandoned>>

\* An exception of S3 or the database, or the end of the process.
RequestFails(r) ==
  /\ ~At(r, "free")
  /\ Ends(r)
  /\ abandoned' = IF request[r].pc \in {"inserting", "removing"}
                  THEN abandoned \cup {request[r].photo} ELSE abandoned
  /\ UNCHANGED <<rows, bucket, drawn, listed>>

-----------------------------------------------------------------------------
Next ==
  \/ \E r \in Requests :
       \/ \E l \in Logs : \/ CountAttachments(r, l) \/ ReadRows(r, l)
                          \/ \E p \in Photos : SelectForDelete(r, l, p)
       \/ \E p \in Photos : StoreFile(r, p)
       \/ RefuseFile(r) \/ CommitInsert(r) \/ RemoveObject(r) \/ CommitDelete(r)
       \/ DropList(r) \/ FillList(r) \/ RequestFails(r)
  \/ \E l \in Logs : ExpireList(l)

Spec == Init /\ [][Next]_vars

-----------------------------------------------------------------------------
(* Properties.                                                             *)

\* Requests past the count whose row is not there yet.
Uploading(l) == {r \in Requests : request[r].pc \in {"reading", "inserting"} /\ request[r].log = l}

\* "Enforce max 10 attachments per daily log" (site_photo.py:91) is a count made
\* before two awaits.  What it does guarantee: the rows and the uploads under way
\* exceed the maximum by fewer than the requests served at once, whatever was
\* deleted or failed in between; so a log ends up that far over at worst.
OvershootBounded ==
  \A l \in Logs : Cardinality(rows[l]) + Cardinality(Uploading(l))
                    <= MaxPerLog + Cardinality(Requests) - 1

\* No object is lost and none is left behind: bucket and table differ in what an
\* upload or a delete is still working on, although two requests may delete one
\* photo at once, and in the photos whose own upload or delete failed halfway.
BucketMatchesRows ==
  \A p \in Photos \ abandoned :
    LET hasRow == \E l \in Logs : p \in rows[l] IN
    /\ p \in bucket /\ ~hasRow
         => \E r \in Requests : At(r, "inserting") /\ request[r].photo = p
    /\ hasRow /\ p \notin bucket
         => \E r \in Requests : At(r, "removing") /\ request[r].photo = p

\* A cached list goes wrong in two ways only: a request commits that will drop
\* it next, or a list read earlier is stored after such a drop.
ListGoesWrongInFlight ==
  [][\A l \in Logs :
       listed[l] \in {NoList, rows[l]} /\ listed'[l] \notin {NoList, rows'[l]} =>
         \E r \in Requests : /\ request[r].log = l
                             /\ At(r, "filling") \/ request'[r].pc = "dropping"]_vars

\* The inductive invariant behind the theorems of SitePhotos_proofs.

\* A name belongs to one row of one log, or to one upload that is not there yet.
NamesOK ==
  /\ bucket \subseteq drawn
  /\ \A l \in Logs : rows[l] \subseteq drawn /\ IsFiniteSet(rows[l])
  /\ \A l, m \in Logs : l # m => rows[l] \cap rows[m] = {}
  /\ \A r \in Requests :
       /\ ~At(r, "free") => request[r].log \in Logs
       /\ request[r].pc \in {"inserting", "deleting", "removing"} => request[r].photo \in drawn
       /\ At(r, "inserting") => \A l \in Logs : request[r].photo \notin rows[l]
       /\ request[r].pc \in {"deleting", "removing"} =>
            \A l \in Logs : request[r].photo \in rows[l] => l = request[r].log
       /\ \A o \in Requests :
            At(r, "inserting") /\ request[o].pc \in {"inserting", "deleting", "removing"} /\ o # r
              => request[o].photo # request[r].photo

\* An upload has its object, a delete that went on has not.
ObjectsOK ==
  \A r \in Requests : request[r].photo \notin abandoned =>
    /\ At(r, "inserting") => request[r].photo \in bucket
    /\ At(r, "removing") => request[r].photo \notin bucket

\* Names, objects and counts, together inductive.
IInv == TypeOK /\ NamesOK /\ ObjectsOK /\ BucketMatchesRows /\ OvershootBounded
=============================================================================
