# TLA+ verification of the backend boilerplate

The repository is a FastAPI service template: an API process, worker processes,
MongoDB, Redis, NATS JetStream and S3. Its own logic is small but almost all of
it runs concurrently: requests, task executions and polls change the same
documents and hashes, one awaited call at a time. This project models that logic
in TLA+, checks it with TLC on small instances and proves the main properties
with TLAPS for all of them. Paths below are relative to the repository.

## 1. The system

| Component | State | Operations | Interacts with |
|---|---|---|---|
| Job tracker `src/common/utils/job_tracker.py` | Redis hashes `job:<id>`, `:tasks`, `:errors`, `:meta` | `create`, `mark`, `_maybe_finalize`, `run`, `get` | called by the item service and the item task |
| Item service `src/items/services/item_service.py` | none of its own | create, process uploads, update, reprocess, delete, bulk delete, reads | Mongo, S3, tracker, queue |
| Item task `src/items/tasks.py` | local variables and a temp file | `process_item_task` | Mongo, S3, tracker, LLM; started by the queue |
| Item documents `src/items/models`, `src/items/repositories`, `src/common/repositories/base_repository.py` | Mongo collection `items` | one-document update, deletes, queries | service, task, webhooks |
| Task queue `src/taskiq_brokers.py` | a JetStream stream and a durable consumer | publish, deliver, acknowledge on receipt | API publishes, workers consume |
| S3 access `src/common/utils/aws_utils.py` | the bucket | presign, upload, download, delete | item service, item task, file service |
| File service `src/common/services/file_service.py`, `src/common/utils/file_utils.py` | Mongo collection `files`, a temp file per upload | upload with duplicate detection, get, delete, delete many | S3 |
| LLM fallback `src/common/utils/llm_util.py`, `gemini_util.py`, `vertex_gemini_util.py`, `claude_util.py` | a semaphore per client and process, the daily counter in Redis | structured and grounded call, citations | called by the item task |
| Temp files `src/common/utils/temp_file_utils.py` | pairs of files in the temp directory | save, load, two cleanups | shared by threads and processes of a host |
| Webhooks `src/internal/router.py` | - | user deleted, org deleted | documents of items and files, not their objects |
| Callers and roles `src/common/utils/get_current_user.py`, `role_access_decorator.py` | - | read the caller from a header, ask for a role | every item route |
| Listing `src/common/schemas/*/pagination.py`, `src/items/schemas/requests/list_items.py` | - | count and page, filters, sort, search | items |
| Start and stop `main.py`, `src/core/db.py`, `src/core/class_object.py` | connections | lifespan | everything |

Stateless parts (schemas, conversions, e-mail, configuration, logging) are listed in `PROJECT.json` with the reason they are
not modelled.

What is hard here, and what each component has to get right:

- **Tracker.** `mark` is up to four Redis commands, sent by several processes
  about the same batch. The batch must not read `completed` before every upload
  has an outcome on record, must read `completed` in the end, must count nothing
  twice when a command raises after it was applied, and `get`, which reads three
  hashes one after the other, must not contradict itself.
- **Items.** A document is changed by the request that creates it, by
  executions of its task (several when it is reprocessed or redelivered), by
  deletes and by users. Statuses must not be stranded, an `active` item must be
  the result of a complete run, duplicates must have one original, documents and
  S3 objects must go together, although the client names the object and two items
  may name the same.
- **Queue.** Messages are acknowledged when received (`--ack-type when_received`),
  so a crash loses a task; an acknowledgement may be lost, so a message may come
  twice; publishing may raise although the stream took the message.
- **LLM.** Three providers, each tried twice, each behind a semaphore; a daily
  cap that all processes count in Redis, with errors of Redis on the way. The cap
  must hold, permits must come back, a call must hand over only when it should
  and end at all. What is read out of an answer (citations, JSON) must not
  depend on the order in which redirects resolve or fail.
- **Files.** Detection of a duplicate, the put and the insert are three calls,
  a delete is two; the S3 key is the user's file name. Repeated content must be
  detected, documents must keep their objects, and only an organisation's end may
  orphan the objects of documents that were complete.
- **Validation files.** A sweep deletes pairs of files while others save, load
  and clean them up, one file operation at a time.
- **Webhooks and requests.** A request checks an item in one query and writes it
  by its id in another; a webhook goes through the collections one after the
  other. Nobody may change another organisation's documents or bring a deleted
  one back, and a webhook must reach everything that was there.
- **Lists.** The total and the page are two queries, and the collection
  changes between pages: items come, go, and are edited in the fields that the list
  is filtered and sorted by.

`PROJECT.json` lists these hazards at their lines.

## 2. Modules

| Module | Models |
|---|---|
| `BatchProgress` | what the tracker promises about a batch, without Redis: outcomes settle one by one, completion is announced after the last |
| `JobTracker` | the tracker's Redis commands, the request that fills the batch, the executions that report, a polling client |
| `JobTrackerProofs` | theorems about `JobTracker` |
| `ItemLifecycle` | documents, S3 objects, queue, executions, the requests that create, update, reprocess and delete, and the org-deleted webhook |
| `ItemLifecycleProofs` | theorems about `ItemLifecycle` |
| `LLMFallback` | a call of the language models: attempts, hand-over, semaphores, the daily counter |
| `DailyQuota` | what the cap promises, without Redis: so many grants a day, denials only beyond them |
| `LLMFallbackProofs` | theorems about `LLMFallback` and its refinement of `DailyQuota` |
| `LLMAnswers` | citations of each client and the JSON of Claude's answers |
| `LLMAnswersProofs` | its types, that sources are cited once, that the JSON is found; induction on recursive functions |
| `FileStore` | uploads and deletes of files, one call to Mongo or S3 at a time, and the org-deleted webhook |
| `FileStoreProofs` | theorems about `FileStore` |
| `ValidationFiles` | save, load and both cleanups, one file operation at a time |
| `ValidationFilesProofs` | theorems about `ValidationFiles` |
| `Tenancy` | requests of several organisations' users and the webhooks, one query at a time |
| `TenancyProofs` | theorems about `Tenancy` |
| `Listing` | a client that walks through the pages of a list while items change |
| `ListingProofs` | theorems about `Listing` |
| `MC...` | instances for TLC, one per module that is run |

### JobTracker

One batch. `job`, `tasks`, `errors` and `ttl` are the hashes and which of them
have a time to live; `pc[a]` is the command actor `a` is about to send and
`mk[a]` the status it is marking. An actor is a loop iteration of the request
(`<<u, 0>>`) or an execution (`<<u, d>>`, the `d`-th delivery of the message for
upload `u`). Every Redis command is one action: `HsetTask`, `HsetError`,
`Hincrby`, `Hgetall`, `HsetStatus` are the lines of `mark` and
`_maybe_finalize`, `CreateHset` and `CreateExpire` those of `create`, `Poll`,
`PollTasks`, `PollErrors` those of `get`. `Await` gives each command three
outcomes: it returns, it raises after it was applied, or (`Unreachable`) it
raises without effect; `HandlerPlace` is the handler the exception reaches.
`Crash` and `CrashApi` stop an actor between commands, `ExpireJob` removes the
job hash when its retention time elapses, `Redeliver` and `KiqUnacknowledged`
are the queue's. Which of the two endpoints made the batch (`request`) matters
only for exceptions: `create_from_uploads` catches them per upload, `reprocess`
does not. Two uploads may have the same file name, hence the same key
`failed_<file name>`. `set_meta` has no caller and is left out. `counted` is a
history variable.

### ItemLifecycle

Documents of one organisation: `place` says whether a document was inserted,
`deleted` by a request or `purged` with its organisation; `status`, `error`, `hashed`,
`original` and `object` are the fields the code decides on (`original[i] = None` is
`is_duplicate = False`, `object` is `aws_object_name`). Each awaited call
of `process_item_task` is one action of a worker slot (`GetById` ...
`Report`), `Raises` and `Failed` are the exception and the handler. A reprocess
request is `ReprocessRead`, then `ReprocessUpdate` and `ReprocessPublish` per
item; a (bulk) delete is `DeleteRead`, `DeleteCheck` per item, `DeleteObject` per
object, `DeleteDocuments`; where it stops half-way it stays `stopped`, and what it
had removed from S3 stays on record. `OrgDeleted` is the webhook: all documents go in
one query, their objects stay, and no duplicates are asked for. Updates of documents
that are gone change nothing, as in Mongo. The marks of the tracker, which touch only Redis, are part of
`Publish`, `ReprocessPublish`, `GetById` and `Report`; that one raises is a fault there. Text
extraction and the LLM may raise without being counted as faults: that is the
ordinary way an item fails. File sizes are abstracted to whether an upload's
size is known (`Sized`), with all files within the size window of each other:
an item whose size is unknown is no candidate for others. `presign_uploads` hands out
a key of its own for each file, but `create_from_uploads` stores the key that the
client reports (`item_service.py:118`) without a look: an upload may name any of
`Keys`, also one that another item names or whose object is gone. `overlaps` (items of
which one was looked up while the other was about to record what it had found) and
`unremoved` (objects that `delete_object` failed to remove, which nobody notices) are
history.

`JobTracker` and `ItemLifecycle` share the request and the task but no state: the tracker's
hashes are never read by code that decides about documents, and the other way
round. So they are checked apart, each with the other's calls as steps that
return or raise.

### LLMFallback, DailyQuota, LLMAnswers

A caller is one call of `LLMUtil`: `call[c]` says where it waits, on which
client, at which attempt, and for Vertex the day and the number its `INCR`
returned (`ticket`). `Enter` is the start of a client method (Vertex takes the
date first), `Count` and `Expire` are `INCR` and `EXPIRE`, `Judge` the comparison
with the limit, `Acquire` the semaphore and the request, `Answered` and
`Responded` its end. What each method makes of a response is a table per method
(`GeminiResponse` ... `ClaudeGrounded`); `Raised` is tenacity and then the `except`
of `LLMUtil`, which decide between another attempt, the next client and failure.
`CountRaises` and `ExpireRaises` are errors of Redis, with the command applied or not:
no handler on the way knows them. `Crash` stops a process, and its semaphores with
it. `KeyExpires` is Redis' expiry; a key lives 25 hours and a call counts within
seconds of taking the date, so no count is under way for a day whose key
expires. The client library sends a command once (redis-py retries none by
default). `issued`, `sent` and `failed` are history. The counter is compared with
the day of its key, so the quota is per day in which the call took the date. That day
is `date.today()`, the local date of the process; the model takes the processes' time
zones and dates to agree, as containers of one image do.

`LLMAnswers` takes a grounded answer apart. Its steps are the concurrent HEAD
requests (`Resolve`), each of which may fail; `Cite` dispatches on the provider's
tag; `FinalText`, `ExtractJson` and `Embedded` are Claude's JSON, over texts made of the
tokens the extraction tells apart.

### FileStore

An upload is a request with a fixed organisation, content and file name, and so
is its document. `Candidates` and `Lookup` are the two phases of `detect_duplicate`,
`Put` is the upload to S3 under the file name followed by the preview (which may
raise: `Readable`), `Create` the insert, `End` the `finally`. A delete reads the documents,
removes their objects one after the other (`DeleteObject`, through the key that
the url leads back to, `KeyOfUrl`), then the documents. `overlaps` and `leaked` are
history: which uploads ran at the same time, and which keys may hold an object
without document because a call raised, a process stopped, a url was cut or the
document went with its organisation (`OrgDeleted`, which never asks for the objects).

### ValidationFiles

`file` and `meta` are the two files of an id, `save[f]` is how far its save got. The two
cleanups share `FileExists` ... `UnlinkMeta`, as `cleanup_old_validation_files` calls
`cleanup_validation_file`; where that raises, a sweep goes to its `except`
(`DiscardMeta`, `DiscardFile`) and a request fails. A file that is open while it is unlinked
stays gone. Time is the set of files that are `old`. Saves run in the thread
pool and requests in several processes, so all of them interleave.

### Tenancy

Documents of two collections with organisation and owner; what an update writes
is reduced to the organisation that wrote last. A request starts with
`Unidentified` or `Call` (`get_current_user` and `access_roles`: an empty string is no id
and no organisation, but a role, and one that is refused) and takes one step per query:
`GetOwned`, `Update`, `GetAgain`, `Delete`, `GetMany`, `Reprocess`, `BulkDelete`. `Event` is a signed webhook,
`Pass` its query on one of `OWNED_MODELS`. Duplicates, S3 and jobs are `ItemLifecycle`'s:
where they decide (409, documents left out of a bulk delete) the model takes
either way.

### Listing

`doc[i]` is what lists look at: name, status, tags, `is_duplicate`, whether a search
hits the text, and the two times. `Matching` is the filter, `SortField` the map of
`sort_by` to a field, with the default for a key that is not given, and a search's own
order. `Count` and `GetPage` are the two queries of `list_paginated`; `Page` gives every
page that sort, skip and limit may return, as Mongo orders equal keys as it likes.
`Insert`, `Update`, `Delete` are other requests and the worker; an update sets any of
the fields (`Edits`, `None` for those it leaves) and `updated_at` by the clock of its
process, which may be behind that of another. The client asks for pages until the last
envelope's `total_pages`; a search's envelope has only the total, which he divides
by the page size. The counters are history: items that left or entered the result,
entered it between a count and its page (`raced`), or were moved `forward` or
`backward` in it.

## 3. Runs

| Run | Bounds | What it shows |
|---|---|---|
| `tracker_faults` | two uploads of one file name, 2 faults, expiry at any time, 2 polling users, at-most-once delivery; 540 000 states | `NoEarlyCompletion`, `NoOvercount`, `LastMarkFinalizes`, `CompleteSnapshot`, `EntriesMoveForward`, and the refinement `ImplementsBatchProgress` |
| `tracker_redelivery` | 1 redelivery, ambiguous publishes, no other fault; 518 000 states | `EventuallyCompleted`: the batch completes; only `reprocess` can be cut short |
| `items_concurrent` | 2 slots, one object that both uploads name, 1 reprocess, 1 bulk delete, users archiving, the organisation deleted; uploads and slots symmetric; 5.9 million states | `ProcessingIsAwaited`, `ActiveIsClean`, `OneOriginalPerContent` under every interleaving |
| `items_faults` | 1 slot, 2 uploads that name either of 2 objects, 1 reprocess, 1 bulk delete, 2 faults anywhere, the organisation deleted; 3.0 million states | `ObjectsFollowDocuments` |
| `items_settled` | an upload of unknown size and a JSON item, 2 slots, 1 redelivery; 1.3 million states | `EventuallySettled` |
| `items_originals_guarded` | violation | a delete that found no duplicates races an execution that records one |
| `llm_fallback` | 2 callers (one grounded) of one process, 1 permit, 2 Vertex calls a day, 2 days, 2 Redis errors, 1 crash; 54 000 states | `QuotaHolds`, `PermitsReturn`, `HandsOverAfterAttempts`, `EveryCallEnds`, and the refinement `ImplementsDailyQuota` |
| `llm_answers` | up to 3 chunks or blocks, 3 redirects to 2 pages, each resolved or not; 9 000 states | `CitesEverySourceOnce`, `JsonIsFound` |
| `files` | 4 uploads (one file under two names and in two organisations, another file under the first name, a name whose url is cut), 2 deletes, 1 fault; 4.0 million states | `RepeatsAreDetected`, `DocumentsHaveTheirObject`, `NoOtherOrphans`, `TempFilesAreDeleted` |
| `validation_files` | 2 files, 2 sweeps, a cleanup, a load, 1 save that stops; 1.6 million states | `YoungFilesSurvive`, `PairsStayTogether`, `SweptFilesAreGone` |
| `listing` | 5 items and one to create, pages of 2, 2 changes (7 edits, an insert, deletes) at 2 times in any order, 15 requests over filters, all sort keys and search; 611 000 states | `WalkMissesNoItem`, `RepeatsArePushed` |
| `tenancy` | 2 ids in 2 collections, 2 requests of 3 users of 2 organisations (or of nobody), 1 webhook, 1 stop; ids and requests symmetric; 2.5 million states | `OwnOrgOnly`, `DeletedStaysDeleted`, `PurgeIsComplete`, `TransferIsComplete` |

Each run also checks its module's type invariant where it has one to add.

The first six use two uploads, the fewest for which one outcome can be missing
while another is in, or two items can be duplicates.
Two faults let a command raise in a handler that another raise started, and a
process stop after a command raised; two slots are two executions of the same
item or of two items. One reprocess request of both items, next to
the tasks of their creation, is enough for an execution to overlap another of
the same item, which is also what a second request or a redelivery would add.
The worker runs two processes with up to 50 executions each (`tasks.py:5`), so what
concerns executions is checked with two slots, and proved for any number.
Two overlapping executions do make two originals: both look for an original
before either has recorded its hash. No document of the repository promises
otherwise, so it is a hazard (`PROJECT.json`) and not a finding;
`OneOriginalPerContent` names exactly those pairs (`overlaps`) and allows no other two
originals of a content, and no duplicate of a duplicate where no pair overlapped.
`items_faults` asks about deletes, where executions only read objects, and has one slot.
`ObjectsFollowDocuments` excuses no fault: it says which items and objects may be apart
after one. What it leaves to the code as it is: objects that `delete_object`
failed to remove, and all objects of an organisation that was deleted.

Two callers with two attempts each are four requests of Vertex against a limit
of two, and compete for one permit; that the quota also holds for callers of
several processes is proved. A third sweep or request only repeats what two do
to each other. In `listing` three pages exist, so changes fall before,
between and behind the pages that were read; the edits rename, change the status,
tag and flag, so that items move both ways in every order and leave and enter every
filter.

`CHECK_DEADLOCK FALSE` in all runs: finished batches, calls, requests and sweeps
are the end of a bounded instance.

`NoEarlyCompletion`, `NoOvercount`, `CompleteSnapshot`, `EntriesMoveForward` and the refinement
need at-most-once delivery: a message delivered twice counts its upload twice,
and the batch can then read `completed` early. `LastMarkFinalizes` excuses
faults: a process that stops between its count and the finalizing `HSET` leaves
the batch `queued` although all outcomes are counted. `ProcessingIsAwaited`
and `EventuallySettled` excuse faults as well: nothing in the code repairs an item
whose execution stopped.
Users may set any status by PATCH; in the runs they archive, since setting
`active` or `processing` by hand is a claim of theirs and not of the code.

**Fairness.** `JobTracker` assumes `WF_vars(System)`: as long as some process can
go on, one does. `ItemLifecycle` assumes weak fairness of started requests
(`Serve`) and of the workers together. The event loops resume every coroutine
whose call came back, and the durable consumer hands waiting messages to free
slots; no fairness is assumed for clients, expiry, redelivery or faults. A bounded batch and bounded
requests make these weak assumptions enough. `LLMFallback` assumes `SF_vars(Proceed(c))` for
each caller: requests to the models end at the latest with their clients' timeouts, and
`asyncio.Semaphore` hands permits out in the order they were asked for. Of Redis it is
an assumption: the client sets no `socket_timeout` (`redis_client.py:23`), so that a command
returns or raises is up to the server and the connection. With both, a caller that waits
for a permit which is free again and again gets it. Errors of Redis, crashes and
midnight are not fair. The other modules state safety only.

## 4. Where code and documents disagree

Found by a run:

1. `item_service.py:212` and `:226` ask for duplicates once and delete later;
   `README.md` says delete guards originals with duplicates. (`items_originals_guarded`)

Met while modelling, visible in one or two lines and therefore part of the models
but not runs of their own:

2. `job_tracker.py:58` calls `EXPIRE` on hashes that do not exist yet; line 4
   says all keys expire.
3. `tasks.py:39` catches exceptions of the tracker's own marks; the comment in
   line 40 says the tracker already recorded the failure.
4. `aws_utils.py:96` creates the temp file outside the `try` whose `finally`
   deletes it; `docs/ARCHITECTURE.md:47` says it is deleted in `finally`.
5. `vertex_gemini_util.py:153` counts outside the `try`: an error of Redis ends the
   call after one attempt and before Claude; `docs/LLM.md:14` says each provider
   retries twice before handing over. `HandsOverAfterAttempts` bounds such calls by
   the number of Redis errors.
6. `vertex_gemini_util.py:104` sends `EXPIRE` only when `INCR` returned 1, as a second
   command; stopped in between, the key stays for ever, against line 99.
7. `claude_util.py:274` takes embedded JSON from the first bracket to the last, so
   prose with brackets of its own hides it; line 262 promises JSON in prose.
8. `aws_utils.py:110` takes the key from a url that was built without quoting: a
   name with `?` or `#` leads to another key; line 107 says the url deletes the
   object. `FileStore` has it as `KeyOfUrl`.
9. `temp_file_utils.py:171` takes a `.meta` that is being written for a broken one and
   deletes a young file, against line 151 (`hasty` in `ValidationFiles`); a cleanup between
   the tests and the `open` in line 133 makes load raise, against line 124.
10. `rate_limiting.py:30` keys by `user_id` only if it is a string that is not blank;
    other users that `get_current_user` takes share their address' bucket;
    `docs/ARCHITECTURE.md:62` says per user.

## 5. Proofs

`JobTrackerProofs` proves, for every batch, file naming, set of users and number of
faults, with `AtMostOnce` (no redelivery, no ambiguous publish) as the assumption
where it says so:

- `TypeCorrect`: types (no assumption);
- `Inductive`: the invariant `IInv`;
- `NeverCompletesEarly`, `NeverOvercounts`: the safety properties;
- `Refinement`: `Spec => ImplementsBatchProgress`;
- `LastMarkAlwaysFinalizes`: `LastMarkFinalizes` (no assumption);
- `EntriesNeverGoBack`: `EntriesMoveForward`;
- `SnapshotsAreComplete`: `CompleteSnapshot`.

`NoEarlyCompletion` is not inductive: that the hash reads `completed` says nothing
about how it came to. `IInv` adds `Control` (which actor marks what; the task of an upload
exists only if its iteration published it), `CountedOnce` (at most one actor
per upload is past its count), `OnRecord` (an actor that is about to count has
its entry written; what was counted is on record), and `Counters` (the counters
never exceed the number of counted uploads, and an actor that finalizes, or a
hash that reads `completed`, implies that all are counted). Finalizing needs
`completed + failed >= total`, the counters bound `counted`, `counted` is
on record: that is the argument.

`LastMarkFinalizes` does not need the counters to be right, only that nobody
leaves a mark half done: without a fault an actor at its `HGETALL` or its
finalizing `HSET` stays there until it sends it, and whoever counts comes to its
`HGETALL`. Messages that are delivered again could only disturb that if a
delivery restarted an execution that is under way; the invariant `Handed` says
that an upload's first execution starts from nothing.

`EntriesMoveForward` needs the order in which an upload is handed from the
request to its task (`MarksInTurn`) and how far its entry can be, given what is
still to be marked (`EntriesInOrder`). `CompleteSnapshot` needs the order of the commands:
an error is written before the entry is counted (`ErrorsListed`), and whoever
read `completed` from the first hash reads final entries from the second and
their errors from the third (`ReadInOrder`).

`ItemLifecycleProofs` proves, for any number of items, slots, requests,
redeliveries and faults:

- `TypeCorrect` and `Inductive`;
- `ActiveStaysClean`: `ActiveIsClean`, if users do not set `active`;
- `ObjectsGoWithDocuments`: `ObjectsFollowDocuments`;
- `ProcessingStaysAwaited`: `ProcessingIsAwaited`, if users do not set `processing`;
- `OneOriginalRemains`: `OneOriginalPerContent`.

The invariant is `TypeOK`, `Slots` (an execution works on an inserted document,
and past `Record` a stored document has its hash) and `Fresh` (nothing refers
to a document before it is inserted, and exactly the inserted uploads name an object).
`ProcessingIsAwaited` itself is not inductive, because an execution that has only to
report does not change the status any more; `StillAwaited` excludes those.

`ObjectsFollowDocuments`, under faults and for items that share objects, needs
`Deleting`: of the items a delete will take out of Mongo, those it has been through
have no object, or one that S3 failed to remove. A delete goes through all of them
before `DeleteDocuments`, and no step puts an object back.

`OneOriginalPerContent` has no assumption about slots, faults or sizes.
`Clusters` carries it back to the look-up. `FoundHolds` says what an execution about to
record knows: if it found nothing, every stored original of its content
overlaps with it; if it found one, that one is hashed, and is a duplicate by now only if
an overlap made it one. `Together` says that executions which are about to record at
once do overlap, so when one of them records it is excused towards the others.
`NoChains` is the second part of the property for documents that are gone as well,
since a duplicate may point at one, and `HashedInserted` keeps hashes to
inserted documents. An item of unknown size is no candidate: the property says so by
`Sized`, as such an item and the next of its content are both originals.

`LLMFallbackProofs` proves, for any number of processes, callers, days, Redis errors and
crashes, any limits and both kinds of answers:

- `TypeCorrect` and `Inductive`;
- `PermitsAlwaysReturn`: `PermitsReturn`;
- `AlwaysHandsOver`: `HandsOverAfterAttempts`;
- `QuotaAlwaysHolds`: `QuotaHolds`;
- `QuotaRefinement`: `Spec => ImplementsDailyQuota`.

`QuotaHolds` counts requests and says nothing about where their permission came
from. The invariant adds `Tickets`: the numbers `INCR` returned are drawn once per
day, a caller that holds one has not used it, and a request carries one within the
limit; so the requests of a day map one to one into `1..DailyLimit`. That numbers are not drawn
twice needs `Counted`: as long as a day may still be counted, its key holds all
`INCR`s of the day, also where a key has expired or has no time to live.
`Attempted` is how far each caller got and `Charged` that a call that was cut
short cost a Redis error; `PermitsReturn` is inductive with them.

`FileStoreProofs` proves, for any uploads, deletes, organisations, file names, urls
and number of faults:

- `TypeCorrect` and `Inductive`;
- `NoTempFileStays`: `TempFilesAreDeleted`;
- `DuplicatesOverlap`: `RepeatsAreDetected`;
- `ObjectsStay`: `DocumentsHaveTheirObject`;
- `OrphansHaveACause`: `NoOtherOrphans`.

The invariant carries each promise back to the steps before the document
exists. `Together` (uploads that run at once overlap) and `Unmatched` (an
upload past its lookup overlaps every document that has its content by now) give
`RepeatsAreDetected` at `Create`; `PutObjects` (an upload about to be recorded has its object)
gives `DocumentsHaveTheirObject`. `Owned` is `NoOtherOrphans` with an owner that
no delete has been through: a delete takes a document out of `left` when its
object goes, and its document only when `left` is empty, so whoever still owns
an object is not among those deleted by a request; a purge adds the names of its
documents to `leaked`. `Recorded` and `Asked` say that documents, and what deletes
go through, are uploads that ended in success.

`TenancyProofs` proves, for any organisations, users, collections, documents,
requests, webhooks and stops, assuming that every tenant-scoped collection is in
`OWNED_MODELS` and that no organisation is called "none":

- `TypeCorrect`;
- `OnlyOwnOrganisation`: `OwnOrgOnly`, and `NothingComesBack`: `DeletedStaysDeleted`;
- `PurgesAreComplete`: `PurgeIsComplete`, and `TransfersAreComplete`: `TransferIsComplete`.

A write goes by the id alone, so `Checked` carries the organisation from the query
that looked at a document to the one that writes it: organisations do not change and ids
are not given twice. `Purged` and `Transferred` say of every webhook at work that the
collections it is through with hold nothing of what was there when it came.

`ValidationFilesProofs` proves, for any files, sweeps, cleanups, loads and stops, where an
id is not "none":

- `TypeCorrect`, by which a sweep never raises;
- `YoungFilesAreKept`: `YoungFilesSurvive`;
- `NoHalfIsLeft`: `PairsStayTogether`;
- `OldFilesAreSwept`: `SweptFilesAreGone`.

The invariant says what a save has made so far and that only known files are
taken away (`Stages`), where each cleanup can be (`Workers`), that a saved pair
with one half gone has a cleanup at work on it (`Halves`), that nobody handles a young
file but a request for it or a hasty sweep (`Young`), and that what a sweep has
been through is gone or in another's hands (`Swept`).

`ListingProofs` proves, for any finite set of items, any documents, edits and times,
any page size, any request (filters, search, whatever `sort_by`) and number of changes:

- `TypeCorrect` and `Inductive`;
- `RepeatsNeedAPush`: `RepeatsArePushed`;
- `AWalkMissesNoItem`: `WalkMissesNoItem`.

An item that nobody touched has a sort key of its own, so its rank, the
number of matching items in front of it, is the same in every order that Mongo
may return, and a page shows it just when its rank falls on the page. A change of
another item moves that rank only if the other one enters or leaves the result or
passes it, forward or backward (`MovedPast`), which is what the counters count
(`ChangeCounts`). One change moves the rank of such an item by at most one, and does so for all
repeats or gaps at once that would need it: the items at a given distance from
the page boundary have different ranks, so one change pushes at most one of
them across. The invariant therefore bounds the items that are behind the walk
although they were seen, and before it although they were not, by the changes so
far; after the last page those that are still behind it have different ranks within
what came in after the last count.

`LLMAnswersProofs` proves, for any links, any number of chunks or blocks, and the
texts described below:

- `TypeCorrect`;
- `SourcesAreCitedOnce`: `CitesEverySourceOnce`;
- `TheObjectIsFound`: `JsonIsFound`.

What the loops over links and blocks compute (`AddAll`, `CiteClaude`) are recursive functions
over `0..Len`, so that they can be reasoned about. `Least` derives from the library's `WFMin`
that a nonempty set of numbers has a least element; `Induction` follows, with the set of
the numbers a claim holds for in place of a predicate, and `Recursion`, that such a function
exists. `AddAllAdds` and `CiteClaudeCites` then say that the lists hold the links, each once.
The invariant adds that a chunk without a link has no answer, and that
nothing is cited before every link has one (`Looked`).

`TheObjectIsFound` is for any object that starts and ends with
brackets of a kind and holds no fence, any prose without brackets and fences, and
any blocks of which the last one with text is the final answer, be it raw, in a
code block or within prose. The proof locates the object in the text: the leftmost
opening bracket and the last closing one are its own, or the first two fences
are those around it.

Every invariant of the passing runs, every action property and both refinements
are proved. Only model-checked: liveness (`EventuallyCompleted`, `EventuallySettled`,
`EveryCallEnds`), which is out of the prover's reach, as it needs fairness and ENABLED.

## 6. Not modelled

- The insides of libraries (slowapi, taskiq, JetStream, Beanie, the LLM SDKs); in
  particular the stream's limit of 10^4 messages, whose drops nothing in the
  repository notices, and the counting of requests by slowapi, of which the
  repository only chooses the key.
- Start and stop of the application: one sequence of awaited calls, of which one
  that raises ends the process.
- `set_meta` and repository methods without a caller, `stats` and other aggregations,
  which only read, and `create_temp_file`, whose callers each have a fresh name.
- Formatting, logging, configuration, prompts, stateless conversions, e-mail,
  error records and the client of the auth service.
