# ImmoApp: a TLA+ verification project

ImmoApp is a real-estate CRM: a Qt desktop client (`app/`), a Django/Postgres API
server (`server/`) with Celery workers, and a shared core (`core/`). Agents work with
clients, demandes (what a client looks for), listings and offers; the desktop client
keeps working while the network is down and replays what was queued when it comes back.
The server recomputes matches in the background, stores photos in an object store and
imports spreadsheets in chunks.

The part of such a system that is hard to get right is not the forms. It is the path of
one write from the user's click to the database row, through a journal on disk, a
circuit breaker, retries and an idempotency table; and it is the background work that is
delivered at least once, holds leases that lapse and is repaired by sweeps. These two are
what the modules describe.

```
 user's click
     |                                 (client process)
 offline_entity_mutations --------> offline_op_log         OfflineJournal.tla
     |                                 ^     |                  => Outbox.tla
     |                            offline_reconciler  <-- 15 s timer
     v                                       |
 api_client._send_request <------------------+             CircuitBreaker.tla
     |     circuit_check / record_api_*
 ----+------------- HTTP, Idempotency-Key = op id ---------------
     v                                 (server threads)
 check_idempotency -> view's handler -> store_idempotency
                          |            IdempotencyEngine.tla => OnceOnly.tla
                          |  on_commit
   +----------------+-----+-----------+----------------+
   v                v                 v                v   (Celery workers, beat)
 match pairs     match counts     files, photos      imports
 MatchRebuild    MatchAll         ObjectStorage      ImportWorkflow
                                  OfferPhotos        ReviewSubmit
```

Paths below are relative to `src/`. `PROJECT.json` has, for every definition, the
source lines it stands for. The repository also has seven small specifications of its
own under `tools/tla/specs` (match cache, match counts, pipeline and visibility, row
versions, row-level security, storage quota); the modules here are written from the code
and do not build on them.

## 1. Inventory

| Component | State it keeps | Operations | Hard behaviour | Status |
|---|---|---|---|---|
| Idempotency engine (`server/api/idempotency_engine.py`) | table `api_idempotency_records` | check, store, purge | concurrent retries, 3-second leases, worker death, purge racing a takeover | modelled |
| Write endpoints (`server/api/views_*.py`) | business rows | check, handler, store | the business commit and the stored outcome are two transactions | partly: one generic handler |
| Circuit breaker and request loop (`app/services/api_client*.py`) | `_cb_*` module variables, token | check, success, failure, reset; send with retries | several threads, late reports, a probe nobody reports | modelled |
| Client authentication (`api_client_auth.py`) | token cache | get, refresh, login | only as the request loop sees it | partly |
| Offline journal (`offline_op_log.py`, `offline_entity_mutations.py`, `offline_ids.py`, `offline_conflicts.py`) | `pending_snapshot.json`, `op_log.jsonl`, `temp_id_map.json`, `conflicts.json` | create, update, delete, merge, cancel, retry, discard | read-modify-write without a lock, crashes between two files, dependent temporary ids | partly: entities |
| Offline replay (`offline_reconciler.py`, `network_sync.py`) | the batch in hand | flush | lost answers, a stale batch, an interrupted flush | partly: entities |
| Match rebuild queue (`server/services/match_jobs.py`, `core/data/match_rebuild_state.py`, `server/api/tasks_match_pairs.py`, `tasks_integrity.py`) | `match_rebuild_state`, two cache keys | request, flush, claim, recompute, complete, sweep | changes that arrive during a recompute, lost wake-ups, killed tasks | partly |
| Match count scans (`match_all_scheduler.py`, `tenant_work_lease.py`, `task_scan_checkpoint.py`, `tasks_match_cache.py`) | slot and checkpoint rows | schedule, reserve, scan, resume, release | lapsed leases, overlapping runs, a Celery id nobody knows | partly |
| Object storage (`storage_ops_*.py`, `core/data/storage_objects.py`) | `storage_objects`, `storage_usage`, the bucket | reserve, upload, complete, delete, sweep | quota at its limit, abandoned uploads, crashes between row and bucket | partly |
| Offer photos (`offer_photo_lifecycle.py`, `offer_photos_repository.py`) | `offer_photos` | attach, remove, cascade, restore, purge | a cascade working from a list that has become old | modelled |
| Import workflow (`import_workflow_*.py`, `import_chunk_workflow.py`, `tasks_import*.py`) | the job, `imports_importchunkphase` | plan, load, finalize, cancel, sweep | redelivery, lapsed leases, errors after the commit, cancellation | partly |
| Import review (`import_review_submit_*.py`, `import_review_finalize_service.py`, `task_attempt_lifecycle.py`, `tasks_maintenance.py`) | the stored attempt, review items | submit, apply, finish, repair | two submissions, a watchdog that overtakes a worker | partly: the submission |
| Projections (`offline_projection.py`) | what screens show of queued rows | overlay | agreement with the journal | not modelled |
| Media upload queue (`upload_queue.py`), generic write queue (`api_write_queue.py`) | queue files | enqueue, flush, drop | same file pattern, capped lists | not modelled |
| Match cache invalidation (`cache_layers.py`, `cache_control.py`, `rebuild_leases.py`) | generation counters | invalidate, read, fill | a fill that finishes after an invalidation | not modelled |
| Sessions and lockout (`session_*.py`, `auth_lockout.py`) | sessions, counters | refresh, revoke, fail, lock | refresh rotation racing itself | not modelled |
| Row versions (`core/data/*_repo_write.py`) | `row_version` columns | update, delete | lost updates | not modelled |
| Registration and permission workflows | request rows | submit, approve, reject | two approvers | not modelled |
| Unit of work, tenancy | transactions | begin, commit | assumed: a transaction is atomic and sees its own tenant | assumed |
| Matcher, importer normalisation | none | scoring, parsing | SQL, floating point and text heuristics | not modelled |
| Notifications, desktop views, hub runtime and deployment | rows, widgets, scripts | - | presentation and I/O | not modelled |

What makes the modelled components correct:

* **Engine.** Of all deliveries of one Idempotency-Key at most one runs at a time; a
  replayed response is the final answer some delivery of the same key and body really
  got; a late store never lands in somebody else's row; a result stays the result of the
  key until the key is forgotten.
* **Breaker.** Its four variables agree whatever the order of reports; after an outage
  it closes again.
* **Journal.** A write the client accepted is not lost unless its call met a flush; an
  entity is created once however often its create is sent; nothing is sent before its
  parent has an id; nothing waits for a parent that will not come; what is ready is
  settled; what needs the user is shown to the user.
* **Match rebuild.** A change that the stored pairs do not reflect is recorded as pending
  somewhere; in the end the pairs reflect every change.
* **Match counts.** The checkpoint never passes a row that was not counted; a scan is
  reset only when all rows were; scans go on completing.
* **Storage and photos.** Live files fit the quota; the usage counter is the sum of their
  sizes; a reservation does not stay pending; an active photo has its bytes and a removed
  one gives them back; a cascade reaches every photo; every transaction ends, though
  attachments and cascades lock in opposite orders.
* **Imports.** An import is reported done only when all of it is committed; no chunk is
  committed twice; children follow their roots; a review loses no row, writes none twice
  and never reports completion with rows open; both end.

## 2. Modules

### OnceOnly and IdempotencyEngine

`OnceOnly` is what a key promises, with neither rows nor leases: a key is unused, being
carried out, or stands for one result, which every later delivery of the same content is
told until the key is forgotten. `IdempotencyEngine` is the code. It instantiates
`OnceOnly` with `running` the deliveries in their handler, `result` the completed row's
response, and `told` what each delivery was answered; `KeepsPromise` is the refinement.

One member of `Requests` is one HTTP delivery on one server thread. `KeyOf` gives its
scope (agency, route, method, key), `FpOf` the hash of what it asks. `rec[k]` is the row
of scope `k`. The SQL statements of `check_idempotency` are separate steps because the
code runs them at READ COMMITTED, where the row may vanish in between:

| Code | Action |
|---|---|
| `INSERT ... ON CONFLICT DO NOTHING` | `TryInsert` |
| `SELECT ... FOR UPDATE` and the decision on the locked row | `SelectFindsNothing`, `AnswerMismatch`, `Replay`, `AnswerIntegrityError`, `AnswerInProgress`, `TakeOver` |
| second `INSERT` after a vanished row | `RetryInsert` |
| `lock_timeout`, any psycopg error | `CheckFails` |
| the view between check and store | `Handle`, `ReturnUnstored`, `Crash` |
| `store_idempotency` | `StoreAuth` (401/403 delete the row), `StoreOutcome` |
| time | `LeaseLapses`, `RecordExpires` |
| `purge_expired_idempotency_records` | `PurgeSelect`, `PurgeDelete` |

Time is reduced to the two comparisons the code makes. `now` is read before the row
lock is waited for, so a delivery may judge a lapsed lease live: that is `stale`.
The three request hashes are one fingerprint; the response columns are represented by
the delivery that produced them; the HMAC is reduced to whether it can be checked.

Two constants name the assumptions under which the stronger properties hold.
`SlowHandlers`: may a handler outlive its 3-second lease
(`core/contracts/idempotency_contract.py:19`)? `PurgeRaces`: may a record be taken over
while a purge that has already selected it is still running? Both are possible in the
code; `FALSE` is the case the code is written for.

### CircuitBreaker

`cb`, `failures`, `cooled`, `probe` are `_cb_state`, `_cb_failures`,
`_cb_open_until <= now` and `_cb_probe_inflight`. Each critical section under `_cb_lock`
is one operator (`RecordSuccess`, `RecordFailure`, `Rejects`/`Admits`); a thread of the
client walks through `_send_request` as `Prepare`, `CircuitCheck`, `Send`, `Reauth`,
`Resend`. The result of an exchange is one of the classes the loop tells apart:
`ok`, `refused` (any other status of 400 or more), `unauth`, `down` (exception), `busy`
(429/502/503/504) and `soft` (a 503 that `should_trip_circuit` excuses). The history
variable `orphaned` says that a probe was answered in a way nobody reports (section 5).

### Outbox and OfflineJournal

`Outbox` is what the journal promises its user, with neither files, threads nor answers:
writes are kept until they are delivered, what the user was told is taken is not let go
before it is delivered or given up, only what was kept when it was picked, or is just being
asked for, is delivered, and a thing is made once. `OfflineJournal` is the code. It
instantiates `Outbox` with `held` the bodies in the snapshot, `out` what the flush has
listed and not yet finished, `relied` the writes whose calls have returned, `waived` what
the user deleted or discarded, `done` and `made` the server's data; `KeepsPromise` is the
refinement.

Two threads, `ui` and `sync`. A journal call is a *job*: `Load` reads the snapshot,
`Store` replaces it, `LogEvents` appends to the log. `Edited` says what the call makes of
the list, `Touched` which ids it logs. Calls on `conflicts.json` are read and written in
two steps as well. The log itself is represented by what `_rebuild_pending_from_log`
would read out of it (`journal`). The body of an operation is the set of the user's
writes it carries, so merging two edits is a union and a lost write is an element that
is nowhere. The server is external: it applies what it is sent, answers a repeated key
the way the engine does, and may answer 202.

The threads interleave at every step, as in the client, where the flush runs in the
background (`main_window_status.py:301`) and no lock is taken. Two history variables,
kept by `Recorded` at the end of every action, say what that costs. `overlaps` counts how
often a call of the user was open during a flush. `raced` has the writes of such calls: a
write races from the moment its call and a flush are open together, and it stops racing
only if the snapshot has it when both are over. A write in `raced` may be lost (section
5); `NoLostWrite` and `KeepsPromise` are about all others. In `KeepsPromise` such a write
counts as taken when it has stopped racing. `Undisturbed`, neither a crash nor an overlap,
is the condition of what is said about the agreement of two files.

### MatchRebuild

The pairs of a demande are abstracted to `behind`, the scopes whose last change they do
not reflect. `row` is `match_rebuild_state`; `owed` counts the commits whose `on_commit`
callback has yet to run; `task` and `flush` are Celery messages; `lockKey`, `wanted`,
`adding`, `setting` are the two cache keys of the debounced wake-up and the processes
between their calls on them. Generations are only ever compared with the value a task read
when it started, so each task keeps the scopes that have moved since.

Timing enters as five assumptions, each where the code's intervals are far apart: the
janitor sweeps only when no task or flush is about; a flush's countdown is not shorter
than the debounce; a row ages only then and with no live claim; computations of one
demande are serialised by the locks of its `DELETE`; the sweep's read and its requests
are one step.

### MatchAll

`slot` is the `tenant_work_lease` row of a stream and `ckpt` its `task_scan_checkpoints`
row. A caller walks through `schedule_tenant_fair_task` (count, reserve, look the owner
up, launch, assign), a run through the scan (total, batches, end, release or unwind).
Rows are named by their rank in id order; `size` is how many a stream has. `counted` is
the history of rows counted since the last reset. The row budget `MaxRowsPerRun` is
compared with the rows of the whole scan, as the checkpoint carries them over (section 5);
`Spent` says that it has stopped a scan for good. `LaunchUnnamed` is a launch that returns
no task id, after which the provisional owner gives the slot back.

### ObjectStorage and OfferPhotos

An upload or a deletion reads the row in one transaction, works on the bucket with none
open, and writes the row by id in a last one, whatever its status has become: each is a
step. `row`, `usage`, `bucket`, `link` are the tables, the bytes and the presigned POSTs
still accepted; `op` a request; `sweep` the two beat tasks. `odd` is the history of
objects a step met in a status it is not meant for.

`OfferPhotos` EXTENDS `ObjectStorage` and composes with it: its next-state relation is
that of the storage plus the photo transactions, over the same rows and the same row
locks. A transaction takes the advisory lock of a storage id and the row lock of the
object and works on fresh reads from then on; what it did before (listing the objects of
a cascade, writing the offer) is a step of its own. Every deletion and restoration bumps
the agency's generation row (`core/data/surface_cache_generation.py:203`) and holds it
until it commits, so that they follow one another (`GenerationFree`); purges and
attachments do not. Attachments and cascades lock objects and offers in opposite orders,
and can wait for each other. `RollsBack` ends any open transaction: that is PostgreSQL
breaking such a circle, a failed statement, or a dying worker. `Blockers` are the open
transactions that hold what one needs next, and `OnCircle` finds the circles: one
transaction at a time has the generation row and a purge holds nothing before its end, so
a circle is always a writer and an attachment.

### ImportWorkflow

One job from its staged chunks on. `phase` is `imports_importchunkphase`; `queue` the
messages; `worker` the processes of the imports queue, which may crash, be killed by the
hard time limit (its message is then acknowledged), be delivered again, stall past a lease,
raise between any two transactions or return early because the job or its user is not
found (`TurnsBack`). A finalisation whose notification cannot be stored is retried; when
the retries are used up nothing ends the job (`GivesUp`). `sweep` is
`requeue_expired_import_phases` between its read and its writes. The behaviour is chosen
at the start to be a single-entity import or a bundle of root and child chunks. `rows`
counts commits of a chunk; `exposed` and `lost` name the loads and the jobs that a fault
hit where the code has no fence (section 5).

### ReviewSubmit

One job whose review is submitted several times. A request stores the choices
(`Submit`, kickoff) and dispatches a task; a worker starts the attempt, applies rows one
by one inside the terminal section, and finishes; the watchdog reads, cancels, and puts
the job back into review. `workflow` is the stored attempt with its status and choices,
`items` the open review items, `lock` the worker whose transaction holds the job's row,
`written` how often a row was committed (rows go through the unit of work on a connection
of their own, so they are committed whatever becomes of the job's transaction).
Polls and page views of the review (`import_status_summary.py:124`,
`views_import_review.py:55`) make the same `ensure_review_state` step as an answer does.
The `FAILED` branch of the finalisation is unreachable: a row with an error stays under
review.

### Instances, proofs and mutants

`MC*` are the instances for TLC. `IdempotencyProofs`, `CircuitProofs`, `MatchAllProofs`,
`MatchRebuildProofs`, `ImportProofs`, `ReviewProofs`, `StorageProofs` (storage and photos)
and `JournalProofs` hold the theorems. Operators marked *Mutant* are plausible mistakes in
the definition that follows them: with one of them in place of the definition the
corresponding property fails, which is how each property is known to bite.

## 3. Runs

| Run | Instance | Checks |
|---|---|---|
| `idem_prompt` | one key, three equal deliveries and one with another body; handlers end within the lease; 510 485 states | `OneHandlerPerScope`, `OneSuccessPerRecord`, `KeepsPromise` (the refinement of `OnceOnly`) |
| `idem_slow` | the same, handlers may be late and purges may race | `ReplayFaithful` and `StoredByHolder` hold all the same |
| `circuit` | the sync timer and two other threads, every outcome, threshold 3, 3 attempts; 150 212 states | `BreakerConsistent`, `RecoversUnlessOrphaned` |
| `journal` | a client and a demande of it, 3 calls, batch of 1, one crash or one call that meets a flush; 726 475 states | `NoLostWrite`, `ParentsFirst`, `LogAgrees`, `NoOrphans`, `ReviewListed`, `CreateOnce`, `Settles`, `KeepsPromise` (the refinement of `Outbox`) |
| `match_rebuild` | one demande, one offer, 2 task and 2 flush messages, 2 writes, 1 fault; 436 098 states | `NoForgottenChange`, `Settles` |
| `match_all` | one stream of up to 3 rows under a budget of 2, one caller, batches of 1, one slot, 1 fault; 425 304 states | `CheckpointCovers`, `ScansComplete`, `ScansFinish` |
| `storage` | two objects, quota of 2 units, concurrent requests, sweeps and crashes; 344 561 states | `TypeOK`, `QuotaHolds`, `UsageExact`, `ReservationsEnd` |
| `photos` | one object, two offers of one listing, two clerks, three transactions, one storage request, one crash; 555 108 states | `PhotosBacked`, `PhotosReleased`, `CascadesReach`, `TransactionsEnd` |
| `import` | two chunks of one entity, or two root chunks and a child chunk; two workers, 1 retry, 1 fault, 1 cancellation; 476 705 states | `FinalizedWhole`, `LoadedOnce`, `RootsReady`, `ImportsEnd` |
| `review` | two submissions, two workers, a row that creates and one that updates, 1 fault; 677 383 states | `NoRowLost`, `WrittenOnce`, `ChoicesKept`, `CompletedIsClear`, `OnlyCurrentWrites`, `TerminalStays`, `SubmissionsEnd` |
| `photos_purged` | as `photos` | violated: `PurgedIsFinal` (section 4) |
| `import_cancel` | as `import` | violated: `CancelEnds` (section 4) |

The type invariants are theorems (section 6) and are not repeated as invariants of the
runs, except that of the storage.

**Bounds.** *Engine*: records of different scopes never touch the same row, so one scope is
enough for TLC (the theorems are about any number). Three equal deliveries allow a holder, a
taker and a third that sees what they left; the fourth has another body; equal deliveries
are symmetric. *Breaker*: threshold and attempts are the code's own values; three threads
give a probe, a late report from before the circuit opened and a rejected request at once.
*Journal*: three operations admit a create, a dependent create and an edit or a delete of
either, or a write and two retries; a batch of one makes a flush leave work behind, which
the code's batch of 10 would not do with three. One crash can fall between any two steps, or
one call run in any interleaving with one flush (`MaxDisturbances`); the theorems are about
any number of both. *MatchRebuild*: two messages of each kind are what an overlap needs, two
writes let one fall into the recompute of the other. With a client as well the safety
property was checked on 1.08 million states, and clients alone with liveness; the theorem
covers any mixture. *MatchAll*: two runs overlap after a lapsed lease; with batches of one
and a budget of two, a stream of two rows is scanned in several runs and one of three runs
into the budget. *Storage*: sizes 1 and 2 under a quota of 2, so that two small uploads fit
and no other pair does. *Photos*: the run starts in two states that the storage module
reaches (a posted object that no offer has; a completed one on both offers), because the
uploads before them are the `storage` run's subject. *Import*: two roots make one of them
wait for the other and two workers let one be late. *Review*: the first submission resolves
the create, the second both rows, so that the second overlaps what the first wrote; all
combinations of choices were checked on 2.53 million states for safety.

`CHECK_DEADLOCK FALSE` is set where a behaviour really ends: deliveries are handled once,
an import or a review is over, the bounded number of writes is used up. The breaker, the
journal and the scans never stop and are checked for deadlock.

**Fairness.**

* *Breaker*: a request that has started ends, because `requests` is given a timeout; the
  sync timer (`app/main_window_status.py:117`) starts one every 15 seconds; the clock
  advances. None on login or on the network: recovery may not rely on the user.
* *Journal*: the same timer starts flushes, and a call that has begun goes on (weak);
  an exchange that is tried again and again is answered at some time (strong: the
  network may fail infinitely often, but not always).
* *MatchRebuild*: workers take messages and go on, keys with a time to live expire, beat
  starts the janitor (weak). Callbacks and the janitor's single requests are strongly
  fair because the model bounds the messages and the broker does not.
* *MatchAll*: a call that began ends, tasks run, leases lapse (weak); users ask for each
  stream again and again (strong, since asking needs a free caller).
* *Photos*: a transaction whose locks are free goes on, and PostgreSQL's detector rolls
  back one transaction of a circle of waits (weak). No other rollback is fair: a wait that
  is not a circle has to end by itself.
* *Storage*: beat runs the sweep of pending rows daily and it goes on. Only this sweep
  is fair: neither uploads nor the other sweep have to make progress. Its row writes are
  strongly fair, since they wait in PostgreSQL's lock queue.
* *Import*: a message is delivered to a worker in the end and a worker goes on (weak).
  None on the sweep: with late acknowledgement it is redelivery that ends an import.
* *Review*: a worker takes messages and goes on, and beat starts the watchdog every minute
  (weak).
  None on the requests: what one of them leaves behind the watchdog has to make good.

## 4. What the violated runs show

1. `photos_purged`. `purge_deleted_objects` (`server/services/storage_ops_maintenance.py`)
   lists deleted objects, deletes their bytes and marks them by id without looking at
   their status again. An object that is restored together with its photo after the
   listing loses its bytes and ends as `purged` under an active photo.
   `docs/architecture/STORAGE_AND_MEDIA.md:189` says that purged objects "are final and
   are not restored into active photo rows".
2. `import_cancel`. Cancelling a job one of whose phases has started only sets
   `cancel_requested` and cancels the waiting phases; `advance_workflow`
   (`import_chunk_workflow.py:186`) then plans nothing, so nobody queues the
   finalisation. The job stays RUNNING and keeps the agency's import slot.
   `import_cancel_flow.py:161` tells the user "We'll stop this import as soon as the
   active work finishes."

## 5. Known limits of the code, and where the properties name them

Some properties hold with an exception. Each exception is a history variable, or an
assumption, that stands for one behaviour of the code:

| Where | What the code does | Exception |
|---|---|---|
| `idempotency_contract.py:19` | a handler that needs more than 3 seconds loses its lease; a retry runs too and both may succeed, since `store_idempotency` does not compare `lease_owner` | `SlowHandlers` |
| `idempotency_engine.py:843` | a purge deletes what it selected although it was taken over since | `PurgeRaces` |
| `idempotency_engine.py:774` | a worker that dies, or answers 5xx, after the business commit leaves a record that the next delivery takes over: the write is made twice | the promise is about results, not about effects |
| `api_client.py:180` | a half-open probe answered by an ordinary 4xx is reported neither as success nor as failure; with a cached token every later request is rejected until login | `orphaned` |
| `offline_reconciler.py:260` | the status `syncing` is written before the request; after a crash nothing resets it | `Undisturbed` in `Settles` |
| `offline_op_log.py:163`, `offline_reconciler.py:229` | two files are written one after the other; after a crash in between neither is repaired from the other | `Undisturbed` in `LogAgrees`, `ReviewListed`, `NoOrphans` |
| `offline_op_log.py:159` | `_LOCK` is declared and never taken: of two overlapping calls one stores an old list over the other's change | `raced`; `Undisturbed` |
| `offline_op_log.py:297`, `:583` | an edit is merged into an operation that is being sent, and removed with it when the answer is applied; or it stores the old `syncing` back | `raced`; `Undisturbed` in `Settles` |
| `match_jobs.py`, `uow.py:265` | a rebuild request whose recording fails is logged and dropped; a process that dies between the commit and the callback leaves none | `missed` |
| `tasks_match_pairs.py:758` | the task of an offer lists its demandes before it takes the lock and reads the generation | `behind` of offers in `NoForgottenChange` |
| `match_all_scheduler.py:149` | Celery reports an id it does not know as PENDING, so a slot left under such an id is coalesced with for ever | `Orphaned` |
| `tasks_match_cache.py:464` | `MATCH_CACHE_MAX_ROWS_PER_RUN` is compared, before each batch, with the rows of all runs of the scan (`rows_processed` is carried over in the checkpoint): once past it with rows left no later run does a batch, and the scan never finishes | `Spent` in `ScansFinish` |
| `storage_ops_upload_*.py` | completion writes by id whatever the status has become: a double completion credits the usage twice, a late one brings a deleted row back | `odd` |
| `storage_ops_maintenance.py:104` | `storage/delete/` takes a pending or failed row as well, without any other request about, and debits a size that was never credited | `odd` |
| `views_storage.py:132` | `storage/delete/` accepts an object that is attached to a photo | `stripped` |
| `offer_photo_lifecycle.py:294` | a purge or a listing's deletion works on the list it read before its locks | `missed` |
| `import_distributed_load_phase.py:89` | a load cut off between its commit and the end of its phase is done again | `exposed` |
| `import_workflow_dispatch.py:263`, `tasks_import.py:48` | a worker that dies between completing a phase and sending its follow-ups leaves the job to nobody | `lost` |
| `import_workflow_leases.py:213` | the sweep puts an expired phase back to queued and sends no message for it | `lost` |
| `tasks_import_phase_tasks.py:378` | a finalisation out of notification retries re-raises past the handler that fails the job: RUNNING, `finalize_queued` set, and no message | `lost` |
| `tasks_import_phase_tasks.py:231`, `:352` | a task that does not find its job or its user returns with nothing done, and one killed by the hard time limit is acknowledged | `lost` |
| `import_review_submit_attempts.py:478` | rows are committed on their own connection, the section's end on another | `past.exposed` |
| `import_review_db_state.py:632` | `ensure_review_state` restores items from the copy in `review_rows` (docs: "not the authoritative review model", `IMPORTER_ARCHITECTURE.md:432`) | `past.returned` |
| `tasks_maintenance.py:300` | the watchdog saves the workflow it read over a newer one | `past.clobbered` |
| `tasks_maintenance.py:498` | the watchdog dies between cancelling an attempt and returning the job to review | `past.stranded` |

The limit of the journal weighs most, since `offline_op_log.py:1` calls it "durable". The
flush runs on a background thread (`main_window_status.py:301`) and loses a write in two
ways. It loads the list to set an operation to `syncing`; the user's write is stored and
reported as taken; and the flush stores the list it had loaded. Or, with the journal calls
one after the other: the flush has listed a create; the user's edit of the entity is merged
into it (`offline_op_log.py:297-306`), stored and reported as taken; and the create, sent
as it was listed, is removed with the edit when its answer is applied
(`offline_reconciler.py:210`, `offline_op_log.py:583`). The edit is then neither in the
snapshot nor on the server; the log has it, but is read only when the snapshot is missing
or is not a list. Without `raced` in `NoLostWrite` TLC gives the first after 20 steps and,
when journal calls are made to exclude each other, the second after 25. A lock around
`_upsert_op` would therefore not be enough.

Facts that follow from a few lines each and have no run:

* Records abandoned `in_progress` are never purged (`idempotency_engine.py:839`).
* `_wait_for_completion` takes a second pooled connection while the first holds the row
  lock (`idempotency_engine.py:651`).
* An operation blocked by an authentication error is neither resent nor listed in the
  sync-issues dialog (`offline_reconciler.py:225`).
* A queued create that is replayed after the 24-hour life of its key is made again.
* Two reservations at once may exceed the tenant's `max_in_flight`.
* Restoring a photo puts its object back among the ready ones without another look at the
  quota (`offer_photo_lifecycle.py:121`), so that `QuotaHolds` is a theorem of the uploads
  and not of the uploads together with the photos.
* An expired import slot that has an owner still blocks, so a stuck RUNNING job blocks
  the agency's imports. An error of `release_execution_slot` after the finalisation marks
  a COMPLETED job FAILED (`tasks_import_phase_tasks.py:358`). `cancel_import_request`
  tests `status == RUNNING` after it set FAILED, so it never releases the slot
  (`import_cancel_flow.py:130`).
* The kickoff of a review locks the workflow and then the job, the terminal section the
  job and then the workflow; PostgreSQL breaks that circle by aborting one.

## 6. What is proved

For every set of deliveries, scopes and fingerprints, any assignment of keys and bodies
and any purge limit (`IdempotencyProofs`):

| Theorem | States | Assumes |
|---|---|---|
| `TypeCorrect` | `Spec => []TypeOK` | - |
| `ReplaysAreFaithful` | `Spec => []ReplayFaithful` | - |
| `StoresHitTheirRow` | `Spec => []StoredByHolder` | - |
| `HandlersExcludeEachOther` | `Spec => []OneHandlerPerScope` | `~SlowHandlers`, `~PurgeRaces` |
| `SuccessIsUnique` | `Spec => []OneSuccessPerRecord` | `~SlowHandlers`, `~PurgeRaces` |
| `CompletedStaysFinal` | `Spec => CompletedIsFinal` | `~SlowHandlers`, `~PurgeRaces` |
| `EngineKeepsPromise` | `Spec => KeepsPromise`: the engine implements `OnceOnly` | `~SlowHandlers`, `~PurgeRaces` |

The argument for the first three is the invariant `SoundInv`. `StoredByHolder` alone is
not inductive: it has to be known that ids are never used twice (`Fresh`: every id in a
row or in a context is below the sequence), that whoever carries a record id asked for
what the record's fingerprint says (`HolderFp`), that a row's response columns come from
such a holder and a completed row's from one with a final outcome (`RowsSound`), and that
a response once replayed was one of those (`ReplaySound`). No lease occurs in it, so it
holds with late handlers and racing purges.

Mutual exclusion needs the leases. `PromptInv` adds that no two rows share an id
(`UniqueIds`); that the delivery in its handler owns the row of its scope, which is in
progress with a live lease (`Held`); that what a purge has selected is not in progress
(`DoomSound`); and that a success that has been reported is in the row that carries its
id, which is completed (`SuccessSound`). `Held` is what breaks when a handler outlives
its lease, and `DoomSound` when a purge overlaps a takeover: the two assumptions are
exactly those. With them each action of the engine is a step of `OnceOnly` or changes
nothing that `OnceOnly` sees.

For any finite set of threads, any threshold, number of attempts and set of outcomes
(`CircuitProofs`): `BreakerTypes` and `BreakerStaysConsistent`, whose conjunction is
inductive.

For any number of streams, callers, runs and rows and any limits (`MatchAllProofs`):
`ScanTypes`; `ResumesSafely` (`[]CheckpointCovers`), where the strengthening says that
what a run has in hand is covered as well as long as it owns the checkpoint; and
`ResetsComplete` (`ScansComplete`).

For any scopes, messages and faults (`MatchRebuildProofs`): `QueueTypes` and
`NothingForgotten` (`[]NoForgottenChange`). The strengthening has three parts: pairs are
behind on a demande's own change or on that of its client only (`Local`); the task of an
offer has no other scope (`Pure`); and what a started task has not computed yet of a
change requested before it read the generations is still in its list (`Progress`), which
is why its completion may clear the row when no generation has moved.

For any sets of chunks and workers, any retries, faults and cancellations
(`ImportProofs`): `ImportTypes`; `ReportsWholeImports` (`[]FinalizedWhole`) from `Whole`,
a completed load has its rows, and a finalisation is queued, delivered or at work only
once every chunk is loaded; `LoadsOnce` (`[]LoadedOnce`) from `Fresh`, two workers never
hold the same lease token of a phase, and `Once`, outside the exceptions a worker past its
last fence holds the current attempt and the rows of a load are there only when it ends or
has ended; `RootsComeFirst` (`[]RootsReady`) from `Rooted`, nothing of a child's load
moves before the map of the roots is built, and then the roots' loads are completed.

For any number of submissions and workers, any rows and choices and any number of faults
(`ReviewProofs`): `SubmitTypes`, `LateWorkersWriteNothing` (`OnlyCurrentWrites`),
`ChoicesStay` (`[]ChoicesKept`), `RowsAreKept` (`[]NoRowLost`), `CompletedJobsAreClear`
(`[]CompletedIsClear`), `EndsAreFinal` (`TerminalStays`) and `RowsAreWrittenOnce`
(`[]WrittenOnce`). The strengthening: a worker inside its section holds the job's lock and
its attempt is the stored, started one (`Fenced`); what it has applied and what is left
partition its choices (`Worked`); a row it no longer finds or has applied is written
(`Saved`); a stored attempt had its kickoff (`Launched`); while no old workflow was
saved, an attempt that may start has no worker and one that started has at most one
(`Alone`); and a written row that is still open is being applied or among the exceptions
(`Once`).

For any finite set of objects, any artifacts among them, any number of requests and
crashes, any positive sizes and any quota (`StorageProofs`): `StorageTyped`, `QuotaKept`
(`[]QuotaHolds`) and `UsageKept` (`[]UsageExact`). That an admission leaves room is known
when it is checked and needed when the row is inserted, a step later. Three facts bridge
the gap: while one upload is admitted no other is, and nobody else knows its object
(`Fresh`); an upload completes with no more than it reserved (`Reduces`), so that
completions make the sum smaller; and the sum with the admitted size is within the quota
(`InsertFits`). The sum is the cardinality of the set of the objects' units (`SumOf`),
which turns its arithmetic into facts about finite sets. `Fresh` also gives `UsageExact`:
an insertion touches no object that is counted.

For the photos on top of that storage, with any finite sets of offers and clerks and any
number of photos and transactions (`StorageProofs`, about `PhotoSpec` from the empty state,
not from the two states the run starts in):

| Theorem | States | Strengthening |
|---|---|---|
| `PhotosAreTyped` | `[]PhotoTypeOK` | - |
| `PhotosKeepUsage` | `[]UsageExact` | `Fresh` |
| `PhotosAreBacked` | `[]PhotosBacked` | `ReadyBytes`, a ready object has its bytes; `ActiveReady`, an active photo's object is ready |
| `DeletionsReach` | `[]CascadesReach` | `Offered`, a photo's offer has not been removed; `PurgesAll`, a purge of the listing has every offer in its list |
| `PhotosAreReleased` | `[]PhotosReleased` | `Settled`, a photo is of an upload that has ended; `Spare`, there is an id for every attachment under way; `Lists`, two cascades share no offer and the objects a cascade listed before it waited are still those of its photos |

`Lists` is where the row locks enter: a cascade lists, waits and then acts on its list,
and the locks on its offers are why the list is not stale by then. That transactions end
is liveness and stays with the run: `TransactionsEnd` fails when a lock outlives its
transaction, or when a transaction meets a state for which its next step has no case.

For any entities and parents, any answers of the server, any batch limit and any number of
calls and crashes (`JournalProofs`):

| Theorem | States |
|---|---|
| `JournalTyped` | `Spec => []TypeOK` |
| `ParentsGoFirst` | `Spec => []ParentsFirst` |
| `CreatedOnce` | `Spec => []CreateOnce` |
| `LogKept` | `Spec => []LogAgrees` |
| `ReviewsListed` | `Spec => []ReviewListed` |
| `WritesKept` | `Spec => []NoLostWrite` |
| `NoneOrphaned` | `Spec => []NoOrphans` |
| `JournalKeepsPromise` | `Spec => KeepsPromise`: the journal implements `Outbox` |

None of them assumes that the user and the flush take turns. The first three depend on
what an operation is and not on which list it is in. `PlayInv` speaks of every
copy of an operation, in the snapshot, a list read earlier, a batch or a call:
ids are given out in order (`Issued`, `NewId`) and all copies of one agree (`IdsAgree`); a
create whose parent has no server id is blocked without an error (`Waiting`); and whatever
a call names by its id waits for no parent (`Cleared`), so that no late status change
releases a create too early. `OnceInv` adds that all copies of an entity's create carry
one Idempotency-Key (`OneKey`), that an unused key means that the entity has not been made
(`KeyedOnce`), that an entity the user does not know has no create (`Unborn`), and that a
create being sent is known to that call alone (`Sole`).

`WritesKept` is about the writes that are owed: relied on, and neither racing, applied nor
given up (`Owed`). Its invariant `WriteInv` says that a stale list cannot do without one:

* every list that may be stored next has each owed write (`Preserved`), and all copies of
  an operation carry the same owed writes (`Agreed`), each operation once in a list
  (`Unique`);
* a call that takes an operation out of the list takes no owed write with it (`SafeCalls`):
  an operation is removed when it was applied, and then its owed writes were in the copy
  that was sent (`Answered`), or when the user gave it up;
* only calls of the user put operations in (`UiUpserts`, `Solo`), a returning call has its
  write in the snapshot unless it races (`Returned`), the write of a new call is not
  relied on yet (`Fresh`), and while both threads are at work the write of the open call
  races (`Racing`); before a flush has listed anything it has no batch (`Unlisted`).

That a write belongs to one entity (`Apart`) is needed to know what a deletion gives up.
The argument holds wherever the client dies. The two ways of losing a write in section 5
are where `Agreed` or `Preserved` would fail for a racing write.

`JournalKeepsPromise` needs all of `WritesKept` and `CreatedOnce`, and that a direct request
carries the newest write (`Newest`). A replacement of the file is a `Rewrite`, since
`NoLostWrite` holds after it; the flush's listing a `Pick`; an exchange is a `Deliver` or
none; the return of a call, a deletion, a discard and the end of a race are a `Tell`; loads,
log lines, conflicts and the death of the client are stutters or keep the same writes.

`LogKept`, `ReviewsListed` and `NoneOrphaned` state what holds of two files, or of two lines
of one, when nothing came between: their properties are conditional on `Undisturbed`, and
their invariants on `overlaps = 0`. `SerialInv` then says that one of the threads is idle
(`Alone`), that the list read is the one about to be replaced (`Current`), and that the log
is behind the snapshot by the call being made (`Logged`). On top of it `ReviewsListed` needs
that a parked operation is listed, or that a call to come lists or releases it (`Reviewed`),
and that nothing is taken off the list that stays parked (`ReviewCalls`); `NoneOrphaned`
that the parents the screens offer are present (`Shown`), that the parent of what waits is
present or about to be cancelled with its dependents (`Parented`, `Cancels`), and that no
call removes a create otherwise (`ParentCalls`).

Only model-checked: all liveness (`RecoversUnlessOrphaned`, both `Settles`, `ScansFinish`,
`ReservationsEnd`, `TransactionsEnd`, `ImportsEnd`, `SubmissionsEnd`): fairness and
`ENABLED` are out of the prover's reach. Every other property of the passing runs is a
theorem.

## 7. Abstractions

* Screens, translations, logging, error texts, JSON layouts and the HMAC algorithm.
* Transactions are atomic and see their own tenant. A transaction is one step, except
  where it waits for locks in between or commits on two connections.
* Clocks are reduced to the comparisons the code makes with them.
* Corrupted or partially written files: `replace` of a temporary file is one step.
* *Journal*: generic operations and media uploads. What the screens show of an entity is
  reduced to the id under which they know it. The server inside it never purges a key.
* *MatchRebuild*: a wilaya scope behaves as a client scope;
  `expand_match_pairs_for_demande` only adds candidates and is left out.
* *Photos*: a transaction waits for all it still needs at once; the order in which it gets
  the locks of one step does not matter to what it does afterwards. In particular a cascade
  gets its offers' rows and the agency's generation row together, where the code has the
  offers while it waits for the generation. Any open transaction may be rolled back at any
  time; which one of a circle PostgreSQL chooses is left open.
* *Storage*: the limit per user and day, download links, and
  `restore_deleted_storage` of `storage_ops_maintenance.py`, which nothing calls.
* *Import*: parsing and preparing the file, the queue of jobs and the agency's slots, the
  repair of jobs of which no phase started. Bundles have both roots and children: the
  branches of the dispatch for bundles without one of them are left out. The immediate
  cancellation's health read and its writes are one step.
* *Review*: drafts of single items and groups, filters and pages, learning signals, the
  dead letters of skipped rows, the limit of 25 rows of the `review_rows` copy. A
  submission is accepted while the job has items; the code asks for a visible (pending or
  blocked) one (`views_import_review.py:157`) and so turns one away that follows a failed
  submission with decisions on every item. A worker's check of its attempt and its read of
  the items are one step, and the decisions stored with single items, which it merges into
  its own, are left out with the drafts. A pass of the watchdog that other steps overtake
  counts as a fault.

## 8. Not modelled

The map covers a small share of the repository's lines. Most of the others hold no state
machine: Qt screens and style sheets, translations, migrations, installers and
deployment scripts, performance and verification scripts, registries of routes,
permissions and contracts, and serializers. The matcher is SQL and floating point and the
importer's normalisation text heuristics, which a bounded model would only repeat.
Notifications are rows without a protocol. Transactions and row-level security are
assumed.

What does have state and could follow, in the order of use:

1. `WritePath`: journal and engine composed, with the record's time to live, the purge of
   old keys and row versions as the effect.
2. Generic operations, projections and the media upload queue, which share the journal's
   file pattern.
3. The generation counters and rebuild leases of the match cache.
4. Sessions and lockout (refresh rotation, revocation, failed-login counters).
5. The import's prepare step, its queue and slots, and the repair of jobs that never
   started; drafts of the review.
6. Registration and permission requests.
7. Theorems: an abstract specification of the storage with its photos, and that both
   implement it.
