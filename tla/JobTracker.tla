----------------------------- MODULE JobTracker -----------------------------
(***************************************************************************)
(* The Redis-backed progress record of one batch of background tasks        *)
(* (src/common/utils/job_tracker.py) and everyone who writes or reads it:   *)
(*                                                                          *)
(*  - the HTTP request that creates the batch and queues one task per       *)
(*    upload (ItemService.create_from_uploads, ItemService.reprocess);      *)
(*  - the executions of process_item_task in the worker processes, one for  *)
(*    each delivery of a task's message;                                    *)
(*  - a client polling the status endpoint (JobTracker.get).                *)
(*                                                                          *)
(* Every Redis command is a step: the code awaits each one, so any other    *)
(* actor may run between two of them.  A command may also raise, applied or *)
(* not, and a process may stop between any two commands.                    *)
(*                                                                          *)
(* An actor is a pair <<u, d>>: <<u, 0>> is the request's loop iteration    *)
(* for upload u, <<u, d>> with d > 0 is the execution of u's task that the  *)
(* d-th delivery of its message starts.                                     *)
(***************************************************************************)
EXTENDS Integers, FiniteSets

CONSTANTS
    Uploads,           \* the members of the batch; also their task keys
    FileNames,         \* the keys "failed_<file_name>"
    FileName,          \* [Uploads -> FileNames]: names may coincide
    Users,             \* who may poll the status endpoint
    Owner,             \* the user that created the batch
    NoUser,            \* a job hash without a user_id field
    MaxRedeliveries,   \* bound: repeated deliveries, of all task messages
    MaxFaults,         \* bound: commands that raise plus processes that stop
    AmbiguousPublish,  \* kiq may raise although the stream took the message
    Expiry             \* the retention time may elapse

ASSUME BatchAssumption ==
    /\ IsFiniteSet(Uploads)
    /\ Uploads # {}
    /\ FileName \in [Uploads -> FileNames]
    /\ Uploads \cap FileNames = {}
ASSUME BoundsAssumption ==
    /\ MaxRedeliveries \in Nat
    /\ MaxFaults \in Nat
    /\ AmbiguousPublish \in BOOLEAN
    /\ Expiry \in BOOLEAN
ASSUME UserAssumption == Owner # NoUser

MaxDeliveries == MaxRedeliveries + 1
Executions == Uploads \X (1..MaxDeliveries)
Actors == Uploads \X (0..MaxDeliveries)
Keys == Uploads \cup FileNames
Statuses == {"queued", "processing", "completed", "failed"}
Terminal == {"completed", "failed"}

VARIABLES
    request,  \* which endpoint created the batch
    api,      \* the request outside its loop iterations
    job,      \* hash job:<id>; a missing field holds the default readers use
    tasks,    \* hash job:<id>:tasks
    errors,   \* keys of the hash job:<id>:errors
    ttl,      \* the hashes that have a time to live
    pc,       \* the command each actor is about to send
    mk,       \* the status each actor is marking
    faults,   \* faults so far
    counted,  \* history: uploads an outcome of which was added to a counter
    reader    \* the poll in progress and what it has read so far

hashes == <<job, tasks, errors, ttl, counted>>
control == <<request, api, pc, mk, faults>>
vars == <<hashes, control, reader>>

----------------------------------------------------------------------------
NoJob == [exists |-> FALSE, status |-> "queued", total |-> 0,
          completed |-> 0, failed |-> 0, owner |-> NoUser]

IdleReader == [at |-> "idle", user |-> NoUser, status |-> "queued",
               tasks |-> [k \in Keys |-> "absent"], errors |-> {}]

JobType == [exists : BOOLEAN, status : {"queued", "completed"}, total : Nat,
            completed : Nat, failed : Nat, owner : {Owner, NoUser}]

ReaderType == [at : {"idle", "tasks", "errors", "answered"},
               user : Users \cup {NoUser},
               status : {"queued", "completed"},
               tasks : [Keys -> Statuses \cup {"absent"}],
               errors : SUBSET Keys]

Places == {"none", "insert", "kiq", "sent", "body", "persist", "done", "dead",
           "hset_task", "hset_error", "hincrby", "hgetall", "finalize"}

\* The places inside mark(): each is one Redis command.
Marking == {"hset_task", "hset_error", "hincrby", "hgetall", "finalize"}

TypeOK ==
    /\ request \in {"uploads", "reprocess"}
    /\ api \in {"create", "expire_job", "expire_tasks", "expire_errors",
                "expire_meta", "loop", "aborted"}
    /\ job \in JobType
    /\ tasks \in [Keys -> Statuses \cup {"absent"}]
    /\ errors \in SUBSET Keys
    /\ ttl \in SUBSET {"job", "tasks", "errors", "meta"}
    /\ pc \in [Actors -> Places]
    /\ mk \in [Actors -> Statuses]
    /\ faults \in 0..MaxFaults
    /\ counted \in SUBSET Uploads
    /\ reader \in ReaderType

Init ==
    /\ request \in {"uploads", "reprocess"}
    /\ api = "create"
    /\ job = NoJob
    /\ tasks = [k \in Keys |-> "absent"]
    /\ errors = {}
    /\ ttl = {}
    /\ pc = [a \in Actors |-> "none"]
    /\ mk = [a \in Actors |-> IF a[2] = 0 THEN "queued" ELSE "processing"]
    /\ faults = 0
    /\ counted = {}
    /\ reader = IdleReader

----------------------------------------------------------------------------
(***************************************************************************)
(* Awaiting a call: it returns, or it raises and control goes to the        *)
(* handler around it.                                                       *)
(***************************************************************************)
Fault == faults < MaxFaults /\ faults' = faults + 1

\* The upload loop catches whatever inserting, marking queued and publishing
\* raise and marks the file failed; that mark has no handler, and neither has
\* anything reprocess awaits: the request ends there.
\* Around an execution there is process_item_task's handler, which every
\* exception of one of JobTracker.run's marks reaches directly: none of them
\* is raised inside run's own try block.
CaughtByLoop(a) == request = "uploads" /\ mk[a] = "queued"

\* Mutant of HandlerPlace: a mark that raised while completing is retried.
HandlerPlaceRetries(a) ==
    IF a[2] > 0 THEN IF mk[a] = "completed" THEN "hset_task" ELSE "persist"
    ELSE IF CaughtByLoop(a) THEN "hset_task" ELSE "dead"

HandlerPlace(a) ==
    IF a[2] > 0 THEN "persist"
    ELSE IF CaughtByLoop(a) THEN "hset_task" ELSE "dead"

HandlerMark(a) ==
    IF a[2] = 0 /\ CaughtByLoop(a) THEN "failed" ELSE mk[a]

Raise(a) ==
    /\ Fault
    /\ pc' = [pc EXCEPT ![a] = HandlerPlace(a)]
    /\ mk' = [mk EXCEPT ![a] = HandlerMark(a)]

Return(a, next) ==
    /\ pc' = [pc EXCEPT ![a] = next]
    /\ UNCHANGED <<mk, faults>>

Await(a, next) ==
    /\ Return(a, next) \/ Raise(a)
    /\ UNCHANGED <<request, api, reader>>

----------------------------------------------------------------------------
(***************************************************************************)
(* JobTracker.create: one HSET of the whole hash, then EXPIRE on each of    *)
(* the four keys.  EXPIRE on a key that does not exist changes nothing, and *)
(* a hash written later starts without a time to live.                      *)
(***************************************************************************)
Exists(hash) ==
    CASE hash = "job" -> job.exists
      [] hash = "tasks" -> \E k \in Keys : tasks[k] # "absent"
      [] hash = "errors" -> errors # {}
      [] OTHER -> FALSE  \* set_meta has no caller

AwaitInCreate(next) ==
    /\ \/ api' = next /\ UNCHANGED faults
       \/ api' = "aborted" /\ Fault
    /\ UNCHANGED <<request, pc, mk, tasks, errors, counted, reader>>

\* Mutant of CreateHset: the total leaves one upload out.
CreateHsetShort ==
    /\ api = "create"
    /\ job' = [exists |-> TRUE, status |-> "queued",
               total |-> Cardinality(Uploads) - 1, completed |-> 0, failed |-> 0,
               owner |-> Owner]
    /\ AwaitInCreate("expire_job")
    /\ UNCHANGED ttl

CreateHset ==
    /\ api = "create"
    /\ job' = [exists |-> TRUE, status |-> "queued",
               total |-> Cardinality(Uploads), completed |-> 0, failed |-> 0,
               owner |-> Owner]
    /\ AwaitInCreate("expire_job")
    /\ UNCHANGED ttl

CreateExpire(here, hash, next) ==
    /\ api = here
    /\ ttl' = IF Exists(hash) THEN ttl \cup {hash} ELSE ttl
    /\ AwaitInCreate(next)
    /\ UNCHANGED job

----------------------------------------------------------------------------
(***************************************************************************)
(* JobTracker.mark and _maybe_finalize, command by command.                 *)
(***************************************************************************)
MarkKey(a) ==
    IF a[2] = 0 /\ mk[a] = "failed" THEN FileName[a[1]] ELSE a[1]

AfterMark(a) ==
    CASE mk[a] = "queued" -> "kiq"
      [] mk[a] = "processing" -> "body"
      [] mk[a] = "failed" /\ a[2] > 0 -> "persist"
      [] OTHER -> "done"

HsetTask(a) ==
    /\ pc[a] = "hset_task"
    /\ tasks' = [tasks EXCEPT ![MarkKey(a)] = mk[a]]
    /\ Await(a, CASE mk[a] = "failed" -> "hset_error"
                  [] mk[a] = "completed" -> "hincrby"
                  [] OTHER -> "hgetall")
    /\ UNCHANGED <<job, errors, ttl, counted>>

\* Mutant of HsetError: a failure is not counted.
HsetErrorUncounted(a) ==
    /\ pc[a] = "hset_error"
    /\ errors' = errors \cup {MarkKey(a)}
    /\ Await(a, "hgetall")
    /\ UNCHANGED <<job, tasks, ttl, counted>>

HsetError(a) ==
    /\ pc[a] = "hset_error"
    /\ errors' = errors \cup {MarkKey(a)}
    /\ Await(a, "hincrby")
    /\ UNCHANGED <<job, tasks, ttl, counted>>

\* HINCRBY creates the hash, without its other fields, when it has expired.
Hincrby(a) ==
    /\ pc[a] = "hincrby"
    /\ job' = IF mk[a] = "failed"
              THEN [job EXCEPT !.exists = TRUE, !.failed = @ + 1]
              ELSE [job EXCEPT !.exists = TRUE, !.completed = @ + 1]
    /\ counted' = counted \cup {a[1]}
    /\ Await(a, "hgetall")
    /\ UNCHANGED <<tasks, errors, ttl>>

\* Mutant of AllDone: one outcome too few suffices.
AllDoneButOne == job.total # 0 /\ job.completed + job.failed + 1 >= job.total

AllDone == job.total # 0 /\ job.completed + job.failed >= job.total

\* Mutant of Hgetall: failures do not count as done.
HgetallCompletedOnly(a) ==
    /\ pc[a] = "hgetall"
    /\ Await(a, IF job.total # 0 /\ job.completed >= job.total
                THEN "finalize" ELSE AfterMark(a))
    /\ UNCHANGED hashes

Hgetall(a) ==
    /\ pc[a] = "hgetall"
    /\ Await(a, IF AllDone THEN "finalize" ELSE AfterMark(a))
    /\ UNCHANGED hashes

\* Mutant of HsetStatus: the batch takes the status of its last task.
HsetStatusOfTask(a) ==
    /\ pc[a] = "finalize"
    /\ job' = [job EXCEPT !.exists = TRUE, !.status = mk[a]]
    /\ Await(a, AfterMark(a))
    /\ UNCHANGED <<tasks, errors, ttl, counted>>

HsetStatus(a) ==
    /\ pc[a] = "finalize"
    /\ job' = [job EXCEPT !.exists = TRUE, !.status = "completed"]
    /\ Await(a, AfterMark(a))
    /\ UNCHANGED <<tasks, errors, ttl, counted>>

\* The command raises without having reached Redis, or the publish the stream.
Unreachable(a) ==
    /\ pc[a] \in Marking \cup {"kiq"}
    /\ Raise(a)
    /\ UNCHANGED <<request, api, reader, hashes>>

----------------------------------------------------------------------------
(***************************************************************************)
(* The request: for each upload insert the item (or set it to processing,   *)
(* for reprocess), mark it queued, publish its task.                        *)
(***************************************************************************)
NextUpload(u) ==
    /\ api = "loop"
    /\ \A v \in Uploads : pc[<<v, 0>>] \in {"none", "done"}
    /\ pc[<<u, 0>>] = "none"
    /\ pc' = [pc EXCEPT ![<<u, 0>>] = "insert"]
    /\ UNCHANGED <<request, api, mk, faults, reader, hashes>>

\* Mutant of Insert: the task is published before it is marked queued.
InsertPublishes(u) ==
    /\ pc[<<u, 0>>] = "insert"
    /\ pc' = [pc EXCEPT ![<<u, 0>>] = "hset_task", ![<<u, 1>>] = "sent"]
    /\ UNCHANGED <<request, api, mk, faults, reader, hashes>>

Insert(u) ==
    /\ pc[<<u, 0>>] = "insert"
    /\ Await(<<u, 0>>, "hset_task")
    /\ UNCHANGED hashes

Kiq(u) ==
    /\ pc[<<u, 0>>] = "kiq"
    /\ pc' = [pc EXCEPT ![<<u, 0>>] = "done", ![<<u, 1>>] = "sent"]
    /\ UNCHANGED <<request, api, mk, faults, reader, hashes>>

\* The stream took the message but the acknowledgement did not come back.
KiqUnacknowledged(u) ==
    LET a == <<u, 0>> IN
    /\ AmbiguousPublish
    /\ pc[a] = "kiq"
    /\ pc' = [pc EXCEPT ![a] = HandlerPlace(a), ![<<u, 1>>] = "sent"]
    /\ mk' = [mk EXCEPT ![a] = HandlerMark(a)]
    /\ UNCHANGED <<request, api, faults, reader, hashes>>

Answered == api = "loop" /\ \A u \in Uploads : pc[<<u, 0>>] = "done"

----------------------------------------------------------------------------
(***************************************************************************)
(* The workers.  A message is acknowledged when it is received, before the  *)
(* task runs; if that acknowledgement is lost, the stream delivers again.   *)
(***************************************************************************)
Redeliver(u, d) ==
    /\ Cardinality({e \in Executions : e[2] > 1 /\ pc[e] # "none"}) < MaxRedeliveries
    /\ pc[<<u, d>>] \notin {"none", "sent"}
    /\ pc[<<u, d + 1>>] = "none"
    /\ pc' = [pc EXCEPT ![<<u, d + 1>>] = "sent"]
    /\ UNCHANGED <<request, api, mk, faults, reader, hashes>>

Receive(e) ==
    /\ pc[e] = "sent"
    /\ pc' = [pc EXCEPT ![e] = "hset_task"]
    /\ UNCHANGED <<request, api, mk, faults, reader, hashes>>

\* The body of the task returns or raises.
Body(e) ==
    /\ pc[e] = "body"
    /\ \E outcome \in Terminal : mk' = [mk EXCEPT ![e] = outcome]
    /\ pc' = [pc EXCEPT ![e] = "hset_task"]
    /\ UNCHANGED <<request, api, faults, reader, hashes>>

\* process_item_task's handler sets the document to failed.
Persist(e) ==
    /\ pc[e] = "persist"
    /\ pc' = [pc EXCEPT ![e] = "done"]
    /\ UNCHANGED <<request, api, mk, faults, reader, hashes>>

----------------------------------------------------------------------------
\* The process running an actor stops, or the actor's coroutine is cancelled.
\* A message that is lost after it was acknowledged is a crash at "sent".
Crash(a) ==
    /\ pc[a] \notin {"none", "done", "dead"}
    /\ Fault
    /\ pc' = [pc EXCEPT ![a] = "dead"]
    /\ UNCHANGED <<request, api, mk, reader, hashes>>

CrashApi ==
    /\ api # "aborted"
    /\ \A u \in Uploads : pc[<<u, 0>>] \in {"none", "done"}
    /\ ~ Answered
    /\ Fault
    /\ api' = "aborted"
    /\ UNCHANGED <<request, pc, mk, reader, hashes>>

\* JOB_TTL_SECONDS elapse: the whole hash goes, and with it its time to live.
ExpireJob ==
    /\ Expiry
    /\ "job" \in ttl
    /\ job' = NoJob
    /\ ttl' = ttl \ {"job"}
    /\ UNCHANGED <<tasks, errors, counted, control, reader>>

----------------------------------------------------------------------------
(***************************************************************************)
(* JobTracker.get: the job hash first, then the other hashes.               *)
(***************************************************************************)
Poll(user) ==
    /\ reader.at = "idle"
    /\ job.exists
    /\ job.owner \in {NoUser, user}
    /\ reader' = [reader EXCEPT !.at = "tasks", !.user = user,
                                !.status = job.status]
    /\ UNCHANGED <<hashes, control>>

PollTasks ==
    /\ reader.at = "tasks"
    /\ reader' = [reader EXCEPT !.at = "errors", !.tasks = tasks]
    /\ UNCHANGED <<hashes, control>>

\* Mutant of PollErrors: the job hash is read last.
PollErrorsJobLast ==
    /\ reader.at = "errors"
    /\ reader' = [reader EXCEPT !.at = "answered", !.errors = errors,
                                !.status = job.status]
    /\ UNCHANGED <<hashes, control>>

PollErrors ==
    /\ reader.at = "errors"
    /\ reader' = [reader EXCEPT !.at = "answered", !.errors = errors]
    /\ UNCHANGED <<hashes, control>>

PollAgain ==
    /\ reader.at = "answered"
    /\ reader' = IdleReader
    /\ UNCHANGED <<hashes, control>>

----------------------------------------------------------------------------
Create ==
    \/ CreateHset
    \/ CreateExpire("expire_job", "job", "expire_tasks")
    \/ CreateExpire("expire_tasks", "tasks", "expire_errors")
    \/ CreateExpire("expire_errors", "errors", "expire_meta")
    \/ CreateExpire("expire_meta", "meta", "loop")

Mark(a) ==
    \/ HsetTask(a)
    \/ HsetError(a)
    \/ Hincrby(a)
    \/ Hgetall(a)
    \/ HsetStatus(a)

Iterate(u) ==
    \/ NextUpload(u)
    \/ Insert(u)
    \/ Mark(<<u, 0>>)
    \/ Kiq(u)
    \/ KiqUnacknowledged(u)

Execute(e) ==
    \/ Receive(e)
    \/ Mark(e)
    \/ Body(e)
    \/ Persist(e)

Environment ==
    \/ \E a \in Actors : Unreachable(a) \/ Crash(a)
    \/ CrashApi
    \/ ExpireJob
    \/ \E u \in Uploads, d \in 1..MaxRedeliveries : Redeliver(u, d)

Read ==
    \/ \E user \in Users : Poll(user)
    \/ PollTasks
    \/ PollErrors
    \/ PollAgain

System ==
    \/ Create
    \/ \E u \in Uploads : Iterate(u)
    \/ \E e \in Executions : Execute(e)

Next ==
    \/ System
    \/ Environment
    \/ Read

Spec == Init /\ [][Next]_vars

\* Some process that can go on does: the API's event loop resumes the request,
\* or a worker pulls a message, resumes a coroutine, or a task body ends.
Fairness == WF_vars(System)

FairSpec == Spec /\ Fairness

----------------------------------------------------------------------------
(***************************************************************************)
(* What the record of a batch promises to whoever polls it.                 *)
(***************************************************************************)
AtMostOnce == MaxRedeliveries = 0 /\ ~ AmbiguousPublish

\* The tasks hash holds an outcome for u: its task ended, or it was never queued.
Settled(entries, u) ==
    entries[u] \in Terminal \/ entries[FileName[u]] = "failed"

\* A batch whose status reads "completed" has an outcome on record for every
\* upload, whatever commands raised and whatever processes stopped on the way:
\* mark() writes the task's entry before it counts it, and finalizes on the
\* counters alone (job_tracker.py 61-82).  Needs at-most-once delivery.
NoEarlyCompletion ==
    job.status = "completed" => \A u \in Uploads : Settled(tasks, u)

\* No upload is counted twice: the loop's handler marks an upload failed only
\* if its task was not published, and run() never marks a task both completed
\* and failed, not even when the command that counts it raises after it was
\* applied (item_service.py 108-129, job_tracker.py 84-102).
NoOvercount == job.completed + job.failed <= Cardinality(Uploads)

\* Of several tasks that end at the same time, each one counting itself before
\* it reads the counters, one sees all of them done and finalizes: once nobody
\* is between counting and finalizing, a batch with all outcomes counted reads
\* "completed" (job_tracker.py 66-82).  Fault-free runs only: see the README.
LastMarkFinalizes ==
    faults = 0 /\ AllDone =>
        \/ job.status = "completed"
        \/ \E a \in Actors : pc[a] \in {"hgetall", "finalize"}

\* An answer of the status endpoint that says "completed" lists an outcome for
\* every upload, and an error for each entry that failed, although the hashes
\* are read one after the other while tasks go on (job_tracker.py 106-126).
CompleteSnapshot ==
    reader.at = "answered" /\ reader.status = "completed" =>
        /\ \A u \in Uploads : Settled(reader.tasks, u)
        /\ \A k \in Keys : reader.tasks[k] = "failed" => k \in reader.errors

Stage(status) ==
    CASE status = "absent" -> 0
      [] status = "queued" -> 1
      [] status = "processing" -> 2
      [] OTHER -> 3

\* A task's entry only moves queued -> processing -> completed or failed, and
\* an outcome is final: it is marked queued before its message exists, and its
\* execution writes one outcome (job_tracker.py 19, 84-102; item_service.py
\* 124-125).  Needs at-most-once delivery.
EntriesMoveForward ==
    [][\A k \in Keys : \/ Stage(tasks[k]) < Stage(tasks'[k])
                       \/ tasks[k] = tasks'[k]]_vars

\* JobTracker's commands implement the promise of BatchProgress.
Progress == INSTANCE BatchProgress
    WITH Batch <- Uploads, settled <- counted,
         announced <- (job.status = "completed")

\* The record implements the abstract batch: it reads "completed" only after
\* the last outcome was counted, and each upload settles once (job_tracker.py
\* 61-82).  Needs at-most-once delivery.
ImplementsBatchProgress == Progress!Spec

\* Without faults the request is answered and the batch reads "completed" in
\* the end, even if messages are delivered more than once or were published
\* although publishing raised; only reprocess, which has no handler, can be cut
\* short by a publish that raises, and its batch then never completes
\* (job_tracker.py 61-82, item_service.py 92-136 and 193-207).
EventuallyCompleted ==
    <>(\/ request = "reprocess" /\ \E u \in Uploads : pc[<<u, 0>>] = "dead"
       \/ Answered /\ job.status = "completed")
=============================================================================
