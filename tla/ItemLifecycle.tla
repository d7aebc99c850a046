---------------------------- MODULE ItemLifecycle ----------------------------
(***************************************************************************)
(* The items of one organisation: the documents in Mongo, their objects in  *)
(* S3, and everyone who changes them.                                       *)
(*                                                                          *)
(*  - requests that create, update, reprocess and delete items              *)
(*    (src/items/services/item_service.py), one step per awaited call;      *)
(*  - executions of process_item_task (src/items/tasks.py) in the workers,  *)
(*    one step per awaited call, started by messages of the queue;          *)
(*  - the org-deleted webhook (src/internal/router.py).                     *)
(*                                                                          *)
(* A single update, query or delete of Mongo is atomic, and an update of a  *)
(* document that is gone changes nothing (base_repository.py 129-166).      *)
(* An uploaded item names an object that the client PUT into S3 before.     *)
(* presign_uploads hands out a fresh key per file, but the key that the      *)
(* client then reports is stored unchecked: items may share one, and may     *)
(* name one that is gone.  Items created from JSON name none.                *)
(***************************************************************************)
EXTENDS Integers, FiniteSets

CONSTANTS
    Items,           \* documents that may be created, by id
    Uploaded,        \* those created from an upload
    Sized,           \* those whose file_size is known (and within 1 KB)
    Content,         \* [Items -> md5 of the file]
    Keys,            \* of the objects that clients PUT
    None,            \* no document, no key
    Workers,         \* slots in which executions run
    Deletes,         \* delete and bulk-delete requests
    Reprocesses,     \* reprocess requests
    StatusUpdates,   \* statuses that update requests set
    MaxRedeliveries, \* bound: messages delivered again
    MaxFaults        \* bound: calls that raise plus processes that stop

ASSUME ItemAssumption ==
    /\ IsFiniteSet(Items)
    /\ Uploaded \subseteq Items
    /\ Sized \subseteq Uploaded
    /\ None \notin Items \cup Keys
    /\ DOMAIN Content = Items
ASSUME LimitAssumption == MaxRedeliveries \in Nat /\ MaxFaults \in Nat

ItemStatus == {"pending", "processing", "active", "failed", "archived"}
ASSUME UpdateAssumption == StatusUpdates \subseteq ItemStatus

VARIABLES
    place,       \* of each document; "deleted" by a request, "purged" with its org
    status,      \* its status
    error,       \* the documents whose error field is set
    hashed,      \* the documents whose hashed_content is set
    original,    \* duplicate_of; None where is_duplicate is false
    object,      \* aws_object_name
    s3,          \* the objects that exist
    queue,       \* messages waiting, per item
    unpublished, \* documents inserted whose task is not yet published
    exec,        \* what each worker slot is executing
    del,         \* delete requests
    rep,         \* reprocess requests
    leaked,      \* a download that raised left its temp file behind
    overlaps,    \* items whose look-up and record ran at the same time (history)
    unremoved,   \* objects that delete_object failed to remove (history)
    redelivered, \* messages delivered again so far
    faults       \* faults so far

documents == <<place, status, error, hashed, original, object>>
requests == <<unpublished, del, rep>>
history == <<leaked, overlaps, unremoved>>
vars == <<documents, s3, queue, requests, exec, history, redelivered, faults>>

Stored == {i \in Items : place[i] = "stored"}
IsDuplicate(i) == original[i] # None

IdleSlot == [at |-> "idle", item |-> None, found |-> None]
NewDelete == [at |-> "new", todo |-> {}, dups |-> {}, deletable |-> {}]
NewReprocess == [at |-> "new", todo |-> {}, current |-> None]

SlotPlaces == {"idle", "start", "activate", "processing", "download",
               "candidates", "lookup", "record", "extract", "summarize",
               "finish", "report", "failed"}

SlotType ==
    [at : SlotPlaces, item : Items \cup {None}, found : Items \cup {None}]

DeleteType == [at : {"new", "check", "s3", "db", "done", "stopped"},
               todo : SUBSET Items, dups : SUBSET Items,
               deletable : SUBSET Items]

ReprocessType == [at : {"new", "update", "publish", "done"},
                  todo : SUBSET Items, current : Items \cup {None}]

TypeOK ==
    /\ place \in [Items -> {"new", "stored", "deleted", "purged"}]
    /\ status \in [Items -> ItemStatus]
    /\ error \subseteq Items
    /\ hashed \subseteq Uploaded
    /\ original \in [Items -> Items \cup {None}]
    /\ object \in [Items -> Keys \cup {None}]
    /\ s3 \subseteq Keys
    /\ queue \in [Items -> Nat]
    /\ unpublished \subseteq Uploaded
    /\ exec \in [Workers -> SlotType]
    /\ del \in [Deletes -> DeleteType]
    /\ rep \in [Reprocesses -> ReprocessType]
    /\ leaked \in BOOLEAN
    /\ overlaps \subseteq SUBSET Items
    /\ unremoved \subseteq Keys
    /\ redelivered \in 0..MaxRedeliveries
    /\ faults \in 0..MaxFaults

Init ==
    /\ place = [i \in Items |-> "new"]
    /\ status = [i \in Items |-> "pending"]
    /\ error = {}
    /\ hashed = {}
    /\ original = [i \in Items |-> None]
    /\ object = [i \in Items |-> None]
    /\ s3 = Keys
    /\ queue = [i \in Items |-> 0]
    /\ unpublished = {}
    /\ exec = [w \in Workers |-> IdleSlot]
    /\ del = [d \in Deletes |-> NewDelete]
    /\ rep = [r \in Reprocesses |-> NewReprocess]
    /\ leaked = FALSE
    /\ overlaps = {}
    /\ unremoved = {}
    /\ redelivered = 0
    /\ faults = 0

Fault == faults < MaxFaults /\ faults' = faults + 1

\* repo.update: $set on a document that is gone matches nothing.
SetStatus(i, new) ==
    status' = IF place[i] = "stored" THEN [status EXCEPT ![i] = new] ELSE status

----------------------------------------------------------------------------
(***************************************************************************)
(* Requests that create and update documents.                               *)
(***************************************************************************)
Create(i) ==
    /\ i \notin Uploaded
    /\ place[i] = "new"
    /\ place' = [place EXCEPT ![i] = "stored"]
    /\ status' = [status EXCEPT ![i] = "active"]
    /\ UNCHANGED <<error, hashed, original, object, s3, queue, requests, exec,
                   history, redelivered, faults>>

CreateFromUpload(i) ==
    /\ i \in Uploaded
    /\ place[i] = "new"
    /\ place' = [place EXCEPT ![i] = "stored"]
    /\ \E key \in Keys : object' = [object EXCEPT ![i] = key]
    /\ unpublished' = unpublished \cup {i}
    /\ UNCHANGED <<status, error, hashed, original, s3, queue, del, rep, exec,
                   history, redelivered, faults>>

\* Publishing may raise: the batch counts a failure, the document stays pending.
Publish(i) ==
    /\ i \in unpublished
    /\ unpublished' = unpublished \ {i}
    /\ \/ queue' = [queue EXCEPT ![i] = @ + 1] /\ UNCHANGED faults
       \/ Fault /\ UNCHANGED queue
    /\ UNCHANGED <<documents, s3, del, rep, exec, history, redelivered>>

Update(i) ==
    /\ place[i] = "stored"
    /\ \E new \in StatusUpdates : SetStatus(i, new)
    /\ UNCHANGED <<place, error, hashed, original, object, s3, queue, requests,
                   exec, history, redelivered, faults>>

----------------------------------------------------------------------------
(***************************************************************************)
(* ItemService.reprocess: one query for the items, then for each of them an *)
(* update and a publish.  Nothing handles an exception in between.          *)
(***************************************************************************)
ReprocessRead(r) ==
    /\ rep[r].at = "new"
    /\ \E ids \in SUBSET Stored \ {{}} :
          rep' = [rep EXCEPT ![r].at = "update", ![r].todo = ids]
    /\ UNCHANGED <<documents, s3, queue, unpublished, del, exec, history,
                   redelivered, faults>>

\* Mutant of ReprocessUpdate: publishes once, after all the updates.
ReprocessUpdateBatched(r, i) ==
    /\ rep[r].at = "update"
    /\ i \in rep[r].todo
    /\ SetStatus(i, "processing")
    /\ error' = IF place[i] = "stored" THEN error \ {i} ELSE error
    /\ rep' = [rep EXCEPT ![r].todo = @ \ {i}, ![r].current = i,
                  ![r].at = IF rep[r].todo = {i} THEN "publish" ELSE "update"]
    /\ UNCHANGED <<place, hashed, original, object, s3, queue, unpublished,
                   del, exec, history, redelivered, faults>>

ReprocessUpdate(r, i) ==
    /\ rep[r].at = "update"
    /\ i \in rep[r].todo
    /\ SetStatus(i, "processing")
    /\ error' = IF place[i] = "stored" THEN error \ {i} ELSE error
    /\ rep' = [rep EXCEPT ![r].at = "publish", ![r].todo = @ \ {i},
                          ![r].current = i]
    /\ UNCHANGED <<place, hashed, original, object, s3, queue, unpublished,
                   del, exec, history, redelivered, faults>>

ReprocessPublish(r) ==
    /\ rep[r].at = "publish"
    /\ queue' = [queue EXCEPT ![rep[r].current] = @ + 1]
    /\ rep' = [rep EXCEPT ![r].current = None,
                  ![r].at = IF rep[r].todo = {} THEN "done" ELSE "update"]
    /\ UNCHANGED <<documents, s3, unpublished, del, exec, history, redelivered,
                   faults>>

ReprocessStops(r) ==
    /\ rep[r].at \in {"update", "publish"}
    /\ Fault
    /\ rep' = [rep EXCEPT ![r] = [NewReprocess EXCEPT !.at = "done"]]
    /\ UNCHANGED <<documents, s3, queue, unpublished, del, exec, history,
                   redelivered>>

----------------------------------------------------------------------------
(***************************************************************************)
(* ItemService.delete and bulk_delete: read the documents, ask for each     *)
(* original whether it has duplicates, delete the objects of those that may *)
(* go, delete their documents.  delete is bulk_delete of one id.            *)
(***************************************************************************)
HasDuplicates(i) == \E k \in Stored : original[k] = i

DeleteRead(d) ==
    /\ del[d].at = "new"
    /\ \E ids \in SUBSET Stored \ {{}} :
          del' = [del EXCEPT ![d] =
                    [at |-> "check", todo |-> ids,
                     dups |-> {i \in ids : IsDuplicate(i)}, deletable |-> {}]]
    /\ UNCHANGED <<documents, s3, queue, unpublished, rep, exec, history,
                   redelivered, faults>>

DeleteCheck(d, i) ==
    LET blocked == i \notin del[d].dups /\ HasDuplicates(i)
        deletable == del[d].deletable \cup (IF blocked THEN {} ELSE {i})
        todo == del[d].todo \ {i}
    IN
    /\ del[d].at = "check"
    /\ i \in del[d].todo
    /\ del' = [del EXCEPT ![d].deletable = deletable,
                  ![d].todo = IF todo = {} THEN deletable ELSE todo,
                  ![d].at = CASE todo # {} -> "check"
                              [] todo = {} /\ deletable # {} -> "s3"
                              [] OTHER -> "done"]
    /\ UNCHANGED <<documents, s3, queue, unpublished, rep, exec, history,
                   redelivered, faults>>

\* Mutant of DeleteObject: leaves the loop after the first object.
DeleteObjectOnce(d, i) ==
    /\ del[d].at = "s3"
    /\ i \in del[d].todo
    /\ s3' = s3 \ {object[i]}
    /\ del' = [del EXCEPT ![d].at = "db"]
    /\ UNCHANGED <<documents, queue, unpublished, rep, exec, history,
                   redelivered, faults>>

\* Nothing to remove for an item without aws_object_name.  delete_object
\* reports a failure but nobody looks at it.
DeleteObject(d, i) ==
    /\ del[d].at = "s3"
    /\ i \in del[d].todo
    /\ \/ s3' = s3 \ {object[i]} /\ UNCHANGED <<unremoved, faults>>
       \/ /\ i \in Uploaded
          /\ Fault
          /\ unremoved' = unremoved \cup {object[i]}
          /\ UNCHANGED s3
    /\ del' = [del EXCEPT ![d].todo = @ \ {i},
                  ![d].at = IF del[d].todo = {i} THEN "db" ELSE "s3"]
    /\ UNCHANGED <<documents, queue, unpublished, rep, exec, leaked, overlaps,
                   redelivered>>

DeleteDocuments(d) ==
    /\ del[d].at = "db"
    /\ place' = [i \in Items |->
                    IF i \in del[d].deletable /\ place[i] = "stored"
                    THEN "deleted" ELSE place[i]]
    /\ del' = [del EXCEPT ![d] = [NewDelete EXCEPT !.at = "done"]]
    /\ UNCHANGED <<status, error, hashed, original, object, s3, queue,
                   unpublished, rep, exec, history, redelivered, faults>>

\* The objects that it went through are gone, their documents stay.
DeleteStops(d) ==
    /\ del[d].at \in {"check", "s3", "db"}
    /\ Fault
    /\ del' = [del EXCEPT ![d] =
                 [NewDelete EXCEPT !.at = "stopped",
                    !.deletable = IF del[d].at = "check" THEN {}
                                  ELSE del[d].deletable \ del[d].todo]]
    /\ UNCHANGED <<documents, s3, queue, unpublished, rep, exec, history,
                   redelivered>>

\* The org-deleted webhook: every document of the organisation goes, whoever
\* works on it; nothing is asked about duplicates and nothing is done to S3.
OrgDeleted ==
    /\ Stored # {}
    /\ place' = [i \in Items |-> IF place[i] = "stored" THEN "purged" ELSE place[i]]
    /\ UNCHANGED <<status, error, hashed, original, object, s3, queue,
                   requests, exec, history, redelivered, faults>>

----------------------------------------------------------------------------
(***************************************************************************)
(* process_item_task: one slot per execution.                               *)
(***************************************************************************)
Goto(w, at) == exec' = [exec EXCEPT ![w].at = at]

\* The message is acknowledged on receipt; it may come again.
Receive(w, i) ==
    /\ exec[w].at = "idle"
    /\ queue[i] > 0
    /\ exec' = [exec EXCEPT ![w] = [at |-> "start", item |-> i, found |-> None]]
    /\ \/ queue' = [queue EXCEPT ![i] = @ - 1] /\ UNCHANGED redelivered
       \/ /\ redelivered < MaxRedeliveries
          /\ redelivered' = redelivered + 1
          /\ UNCHANGED queue
    /\ UNCHANGED <<documents, s3, requests, history, faults>>

\* JobTracker.run marks the task "processing"; then the document is read.
GetById(w) ==
    LET i == exec[w].item IN
    /\ exec[w].at = "start"
    /\ Goto(w, CASE place[i] # "stored" -> "failed"
                 [] place[i] = "stored" /\ i \notin Uploaded -> "activate"
                 [] OTHER -> "processing")
    /\ UNCHANGED <<documents, s3, queue, requests, history, redelivered,
                   faults>>

\* Nothing to process for JSON-created items.
Activate(w) ==
    /\ exec[w].at = "activate"
    /\ SetStatus(exec[w].item, "active")
    /\ Goto(w, "report")
    /\ UNCHANGED <<place, error, hashed, original, object, s3, queue, requests,
                   history, redelivered, faults>>

SetProcessing(w) ==
    /\ exec[w].at = "processing"
    /\ SetStatus(exec[w].item, "processing")
    /\ Goto(w, "download")
    /\ UNCHANGED <<place, error, hashed, original, object, s3, queue, requests,
                   history, redelivered, faults>>

\* The temp file is created first; a ClientError leaves it behind.
Download(w) ==
    /\ exec[w].at = "download"
    /\ \/ object[exec[w].item] \in s3 /\ Goto(w, "candidates") /\ UNCHANGED <<leaked, faults>>
       \/ /\ \/ object[exec[w].item] \notin s3 /\ UNCHANGED faults
             \/ Fault
          /\ Goto(w, "failed")
          /\ leaked' = TRUE
    /\ UNCHANGED <<documents, s3, queue, requests, overlaps, unremoved,
                   redelivered>>

\* History: w has seen the documents and will record what it found; so will
\* those that are about to record.
NoteOverlaps(w) ==
    overlaps' = overlaps \cup {{exec[w].item, exec[v].item} :
                                 v \in {v \in Workers : exec[v].at = "record"}}

\* Documents of about the same size; without any the hash is not looked up.
Candidates(w) ==
    /\ exec[w].at = "candidates"
    /\ IF Sized \cap Stored # {}
       THEN Goto(w, "lookup") /\ UNCHANGED overlaps
       ELSE Goto(w, "record") /\ NoteOverlaps(w)
    /\ UNCHANGED <<documents, s3, queue, requests, leaked, unremoved,
                   redelivered, faults>>

\* Mutant of Matches: only items that finished count as originals.
MatchesActive(i) ==
    {k \in Stored \cap hashed :
        Content[k] = Content[i] /\ ~ IsDuplicate(k) /\ status[k] = "active"}

Matches(i) ==
    {k \in Stored \cap hashed : Content[k] = Content[i] /\ ~ IsDuplicate(k)}

\* find_one returns any match; the item itself does not count as its original.
Lookup(w) ==
    LET i == exec[w].item IN
    /\ exec[w].at = "lookup"
    /\ \/ \E k \in Matches(i) :
             exec' = [exec EXCEPT ![w].at = "record",
                                  ![w].found = IF k = i THEN None ELSE k]
       \/ Matches(i) = {} /\ Goto(w, "record")
    /\ NoteOverlaps(w)
    /\ UNCHANGED <<documents, s3, queue, requests, leaked, unremoved,
                   redelivered, faults>>

Record(w) ==
    LET i == exec[w].item IN
    /\ exec[w].at = "record"
    /\ IF place[i] = "stored"
       THEN /\ hashed' = hashed \cup {i}
            /\ original' = [original EXCEPT ![i] = exec[w].found]
       ELSE UNCHANGED <<hashed, original>>
    /\ exec' = [exec EXCEPT ![w].at = "extract", ![w].found = None]
    /\ UNCHANGED <<place, status, error, object, s3, queue, requests, history,
                   redelivered, faults>>

\* Extraction yields text, no text, or raises; the temp file is removed anyway.
Extract(w) ==
    /\ exec[w].at = "extract"
    /\ \E at \in {"summarize", "finish", "failed"} : Goto(w, at)
    /\ UNCHANGED <<documents, s3, queue, requests, history, redelivered,
                   faults>>

Summarize(w) ==
    /\ exec[w].at = "summarize"
    /\ \E at \in {"finish", "failed"} : Goto(w, at)
    /\ UNCHANGED <<documents, s3, queue, requests, history, redelivered,
                   faults>>

\* Mutant of Finish: writes the tracker's word for done.
FinishCompleted(w) ==
    /\ exec[w].at = "finish"
    /\ SetStatus(exec[w].item, "completed")
    /\ error' = error \ {exec[w].item}
    /\ Goto(w, "report")
    /\ UNCHANGED <<place, hashed, original, object, s3, queue, requests,
                   history, redelivered, faults>>

\* Mutant of Finish: leaves the error of an earlier attempt.
FinishKeepsError(w) ==
    /\ exec[w].at = "finish"
    /\ SetStatus(exec[w].item, "active")
    /\ Goto(w, "report")
    /\ UNCHANGED <<place, error, hashed, original, object, s3, queue, requests,
                   history, redelivered, faults>>

Finish(w) ==
    LET i == exec[w].item IN
    /\ exec[w].at = "finish"
    /\ SetStatus(i, "active")
    /\ error' = IF place[i] = "stored" THEN error \ {i} ELSE error
    /\ Goto(w, "report")
    /\ UNCHANGED <<place, hashed, original, object, s3, queue, requests,
                   history, redelivered, faults>>

\* JobTracker.run marks the task "completed".
Report(w) ==
    /\ exec[w].at = "report"
    /\ exec' = [exec EXCEPT ![w] = IdleSlot]
    /\ UNCHANGED <<documents, s3, queue, requests, history, redelivered,
                   faults>>

\* An awaited call raises; the finally clause removes the temp file.
Raises(w) ==
    /\ exec[w].at \in {"start", "activate", "processing", "candidates",
                       "lookup", "record", "finish", "report"}
    /\ Fault
    /\ exec' = [exec EXCEPT ![w].at = "failed", ![w].found = None]
    /\ UNCHANGED <<documents, s3, queue, requests, history, redelivered>>

\* Mutant of Failed: swallows the exception.
FailedSilently(w) ==
    /\ exec[w].at = "failed"
    /\ exec' = [exec EXCEPT ![w] = IdleSlot]
    /\ UNCHANGED <<documents, s3, queue, requests, history, redelivered,
                   faults>>

\* process_item_task's handler, which may itself raise.
Failed(w) ==
    LET i == exec[w].item IN
    /\ exec[w].at = "failed"
    /\ \/ /\ SetStatus(i, "failed")
          /\ error' = IF place[i] = "stored" THEN error \cup {i} ELSE error
          /\ UNCHANGED faults
       \/ Fault /\ UNCHANGED <<status, error>>
    /\ exec' = [exec EXCEPT ![w] = IdleSlot]
    /\ UNCHANGED <<place, hashed, original, object, s3, queue, requests,
                   history, redelivered>>

\* A temp file the execution holds is lost too; leaked does not count it.
Crash(w) ==
    /\ exec[w].at # "idle"
    /\ Fault
    /\ exec' = [exec EXCEPT ![w] = IdleSlot]
    /\ UNCHANGED <<documents, s3, queue, requests, history, redelivered>>

----------------------------------------------------------------------------
\* A request that was started goes on.
Serve ==
    \/ \E i \in Items : Publish(i)
    \/ \E d \in Deletes :
          \/ \E i \in Items : DeleteCheck(d, i) \/ DeleteObject(d, i)
          \/ DeleteDocuments(d)
    \/ \E r \in Reprocesses :
          \/ \E i \in Items : ReprocessUpdate(r, i)
          \/ ReprocessPublish(r)

Work(w) ==
    \/ \E i \in Items : Receive(w, i)
    \/ GetById(w)
    \/ Activate(w)
    \/ SetProcessing(w)
    \/ Download(w)
    \/ Candidates(w)
    \/ Lookup(w)
    \/ Record(w)
    \/ Extract(w)
    \/ Summarize(w)
    \/ Finish(w)
    \/ Report(w)
    \/ Failed(w)

Clients ==
    \/ \E i \in Items : Create(i) \/ CreateFromUpload(i) \/ Update(i)
    \/ \E d \in Deletes : DeleteRead(d)
    \/ \E r \in Reprocesses : ReprocessRead(r)
    \/ OrgDeleted

Failures ==
    \/ \E w \in Workers : Raises(w) \/ Crash(w)
    \/ \E d \in Deletes : DeleteStops(d)
    \/ \E r \in Reprocesses : ReprocessStops(r)

Next ==
    \/ Serve
    \/ \E w \in Workers : Work(w)
    \/ Clients
    \/ Failures

Spec == Init /\ [][Next]_vars

\* The API's event loop resumes requests; a worker resumes its executions and
\* pulls the messages of its durable consumer into free slots.
Fairness == WF_vars(Serve) /\ WF_vars(\E w \in Workers : Work(w))

FairSpec == Spec /\ Fairness

----------------------------------------------------------------------------
(***************************************************************************)
(* What users rely on.                                                      *)
(***************************************************************************)
Awaited(i) ==
    \/ \E w \in Workers : exec[w].item = i
    \/ queue[i] > 0
    \/ \E r \in Reprocesses : rep[r].current = i

\* An item that reads "processing" is being processed, or will be: a message
\* waits for it, or the reprocess request is about to publish one.  Several
\* executions and requests may work on the same item (item_service.py 193-207,
\* tasks.py 32-105).  Without faults: a crash leaves it "processing" for good.
ProcessingIsAwaited ==
    faults = 0 =>
        \A i \in Stored : status[i] = "processing" => Awaited(i)

\* An uploaded item that reads "active" went through duplicate detection, and
\* no error of an earlier attempt is left on it, however executions of the same
\* item interleave and fail (tasks.py 39-41, 53-104).
ActiveIsClean ==
    \A i \in Stored \cap Uploaded :
        status[i] = "active" => i \in hashed /\ i \notin error

\* Items and their objects go together.  A document that a request deleted
\* leaves its object behind only if delete_object raised and nobody looked; and
\* an object goes only with an item that names it, which is deleted or purged,
\* or whose delete is between S3 and Mongo or stopped there - even when items
\* share an object.  Purging an organisation leaves all its objects
\* (item_service.py 209-240, internal/router.py 83-84).
ObjectsFollowDocuments ==
    /\ \A i \in Uploaded :
          place[i] = "deleted" => object[i] \notin s3 \/ object[i] \in unremoved
    /\ \A key \in Keys \ s3 : \E i \in Uploaded :
          /\ object[i] = key
          /\ \/ place[i] \in {"deleted", "purged"}
             \/ \E d \in Deletes : /\ del[d].at \in {"s3", "db", "stopped"}
                                   /\ i \in del[d].deletable \ del[d].todo

\* The items of one content form a cluster around one original: no two stored
\* ones are both originals, and a duplicate does not point at another duplicate,
\* through concurrent executions, reprocessing, deletes and crashes - but for
\* items of which an execution looked for an original while another one was
\* about to record what it had found, and items of unknown size (tasks.py 59-77,
\* item_repository.py 27-40).
OneOriginalPerContent ==
    \A i, k \in Stored \cap hashed :
        /\ i # k /\ Content[i] = Content[k] /\ {i, k} \cap Sized # {} =>
              IsDuplicate(i) \/ IsDuplicate(k) \/ {i, k} \in overlaps
        /\ original[i] = k /\ k \in Sized /\ IsDuplicate(k) =>
              \E j \in Items : {j, k} \in overlaps

\* Without faults every uploaded item leaves "pending" and "processing" in the
\* end and stays out of them, or is deleted (tasks.py 32-105).
EventuallySettled ==
    \/ <>(faults > 0)
    \/ <>[](\A i \in Stored \cap Uploaded : status[i] \notin {"pending", "processing"})

----------------------------------------------------------------------------
(***************************************************************************)
(* What the documents say, and the code does not do.                        *)
(***************************************************************************)
\* "guards originals with duplicates" (README.md, DELETE /items/delete/{id}):
\* no stored duplicate points at a document that was deleted.
OriginalsAreGuarded ==
    \A i \in Stored : IsDuplicate(i) => place[original[i]] # "deleted"
=============================================================================
