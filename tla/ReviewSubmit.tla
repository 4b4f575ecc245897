---------------------------- MODULE ReviewSubmit ----------------------------
\* The submission of an import's review: the request that stores the user's
\* choices and dispatches a task, the worker that applies them, and the watchdog
\* that repairs stalled attempts.
\* (server/services/import_review_submit_*.py, task_attempt_lifecycle.py,
\* import_review_finalize_service.py, server/api/tasks_maintenance.py)
\*
\* One import job. A row of its review is created anew or updates an existing
\* record; the rows are written through the unit of work, on a connection of
\* its own, so they are committed whatever becomes of the job's transaction.
EXTENDS Naturals, FiniteSets

CONSTANTS
  Submissions, \* number of submissions
  Processes,   \* number of worker processes of the imports queue
  Creates,     \* review rows that create a record
  Updates,     \* review rows that update an existing record
  Choices,     \* for each submission, the sets of rows it may resolve
  MaxFaults    \* bound on crashes, errors, failed sends and slow passes

ASSUME RowsAssumption == Creates \cap Updates = {}
ASSUME NumbersAssumption ==
  Submissions \in Nat /\ Processes \in Nat /\ MaxFaults \in Nat

Items == Creates \cup Updates

\* Submissions, and the tasks they dispatch, are named in the order in which
\* they come; free processes are alike, and the first one takes a message.
Tasks == 1..Submissions

Workers == 1..Processes

Nobody == 0

ASSUME ChoicesAssumption == Choices \in [Tasks -> SUBSET SUBSET Items]

Startable == {"pending", "published", "publish_failed"}

Terminal == {"completed", "conflict", "failed", "cancelled"}

Statuses == {"none", "started"} \cup Startable \cup Terminal

VARIABLES
  job,       \* the status of the ImportJob
  workflow,  \* ImportWorkflowState: review_submit_dispatch and review_submit
  items,     \* its ImportReviewItem rows, and their copy in review_rows
  written,   \* how often a row was committed: 0, 1, or 2 for more than once
  lock,      \* the worker whose open transaction holds the job's row
  requests,  \* the submit requests: step, review_rows they loaded, choices
  queue,     \* undelivered messages, at most one for a task
  workers,   \* the workers: step, task, choices found, rows, what is left
  watchdog,  \* repair_stalled_import_jobs_task: step, workflow and rows read
  faults,    \* faults so far
  past       \* what the properties must know of the past

vars == <<job, workflow, items, written, lock, requests, queue, workers,
          watchdog, faults, past>>

Idle == [pc |-> "idle", task |-> Nobody, choices |-> Nobody,
         rows |-> {}, left |-> {}, done |-> {}]

NoWorkflow == [task |-> Nobody, status |-> "none", choices |-> Nobody]

Resting == [pc |-> "idle", seen |-> NoWorkflow, rows |-> {}]

Init ==
  /\ job = "ready"
  /\ workflow = NoWorkflow
  /\ items = Items
  /\ written = [i \in Items |-> 0]
  /\ lock = Nobody
  /\ requests = [t \in Tasks |-> [pc |-> "idle", sample |-> {}, chosen |-> {}]]
  /\ queue = {}
  /\ workers = [w \in Workers |-> Idle]
  /\ watchdog = Resting
  /\ faults = 0
  /\ past = [exposed |-> {}, returned |-> {}, clobbered |-> FALSE,
             stranded |-> FALSE]

-----------------------------------------------------------------------------
\* The attempt fence.

\* Mutant: any started attempt passes for the worker's own.
StartedAtAll(t) == workflow.status = "started"

\* is_attempt_current: the attempt of task t is the stored one and started.
Current(t) == workflow.task = t /\ workflow.status = "started"

\* claim_started_payload: the attempt of task t may be started.
MayStart(t) == workflow.task = t /\ workflow.status \in Startable

\* Mutant: an attempt is cancelled whatever its status is.
SameTask(t) == workflow.task = t

\* cancel_payload: only a started attempt of task t is cancelled.
Cancellable(t) == workflow.task = t /\ workflow.status = "started"

\* Mutant: the choices stored are those of the attempt before.
BegunWithOldChoices(t) ==
  [task |-> t, status |-> "pending", choices |-> workflow.choices]

\* persist_review_submit_workflow and begin_review_submit_dispatch.
Begun(t) == [task |-> t, status |-> "pending", choices |-> t]

\* _mark_review_submit_dispatch_published and _publish_failed, on fresh state.
Marked(t, status) ==
  IF MayStart(t) THEN [workflow EXCEPT !.status = status] ELSE workflow

\* finish_payload and cancel_payload: the stored attempt ends, and its stored
\* choices are dropped.
Ended(status) == [workflow EXCEPT !.status = status, !.choices = Nobody]

Fault == faults < MaxFaults /\ faults' = faults + 1

\* ensure_review_state of a job object that was loaded with these review_rows:
\* when the job has no items left, they are made again from the rows
\* (backfill_legacy_review_state). Items and review_rows are saved together, so
\* on a job object that is fresh this changes nothing.
EnsureReviewState(rows) ==
  IF items = {} /\ rows # {}
  THEN /\ items' = rows
       /\ past' = [past EXCEPT !.returned = @ \cup rows]
  ELSE UNCHANGED <<items, past>>

-----------------------------------------------------------------------------
\* The request: import_review_submit and kickoff_review_submission.

Step(t, pc) == requests' = [requests EXCEPT ![t].pc = pc]

Close(t) ==
  requests' = [requests EXCEPT ![t] = [@ EXCEPT !.pc = "done", !.sample = {}]]

\* The job is loaded; without rows to review the answer is 400.
SubmitReview(t) ==
  /\ requests[t].pc = "idle"
  /\ \A s \in 1..(t - 1) : requests[s].pc # "idle"
  /\ items # {}
  /\ requests' = [requests EXCEPT ![t] =
                    [@ EXCEPT !.pc = "checked", !.sample = items]]
  /\ UNCHANGED <<job, workflow, items, written, lock, queue, workers,
                 watchdog, faults, past>>

\* One transaction stores the choices, begins the attempt and sets RUNNING,
\* whatever the job's status and attempt are by now. Rows without a usable
\* choice stay in review.
Kickoff(t) ==
  /\ requests[t].pc = "checked"
  /\ lock = Nobody
  /\ \E chosen \in Choices[t] :
       requests' = [requests EXCEPT ![t] =
                      [@ EXCEPT !.pc = "committed", !.chosen = chosen]]
  /\ workflow' = Begun(t)
  /\ job' = "running"
  /\ UNCHANGED <<items, written, lock, queue, workers, watchdog,
                 faults, past>>

\* detect_create_conflicts finds a duplicate: the answer is 409.
RefuseKickoff(t) ==
  /\ requests[t].pc = "checked"
  /\ requests' = [requests EXCEPT ![t] =
                    [@ EXCEPT !.pc = "idle", !.sample = {}]]
  /\ UNCHANGED <<job, workflow, items, written, lock, queue, workers,
                 watchdog, faults, past>>

\* publish_review_submit_dispatch, after the commit.
Publish(t) ==
  /\ requests[t].pc = "committed"
  /\ queue' = queue \cup {t}
  /\ Step(t, "published")
  /\ UNCHANGED <<job, workflow, items, written, lock, workers, watchdog,
                 faults, past>>

PublishFails(t) ==
  /\ requests[t].pc = "committed"
  /\ Fault
  /\ Step(t, "publish_failed")
  /\ UNCHANGED <<job, workflow, items, written, lock, queue, workers,
                 watchdog, past>>

MarkDispatch(t) ==
  /\ requests[t].pc \in {"published", "publish_failed"}
  /\ lock = Nobody
  /\ workflow' = Marked(t, requests[t].pc)
  /\ Step(t, "answering")
  /\ UNCHANGED <<job, items, written, lock, queue, workers, watchdog,
                 faults, past>>

\* The answer counts the rows of the job object the request loaded at first.
Answer(t) ==
  /\ requests[t].pc = "answering"
  /\ items = {} => lock = Nobody
  /\ EnsureReviewState(requests[t].sample)
  /\ Close(t)
  /\ UNCHANGED <<job, workflow, written, lock, queue, workers, watchdog,
                 faults>>

RequestDies(t) ==
  /\ requests[t].pc \in {"committed", "published", "publish_failed"}
  /\ Fault
  /\ Close(t)
  /\ UNCHANGED <<job, workflow, items, written, lock, queue, workers,
                 watchdog, past>>

-----------------------------------------------------------------------------
\* The worker: run_review_submit_task.

FirstFree(w) ==
  workers[w].pc = "idle" /\ \A v \in 1..(w - 1) : workers[v].pc # "idle"

Rest(w) == workers' = [workers EXCEPT ![w] = Idle]

Goes(w, pc) == workers' = [workers EXCEPT ![w].pc = pc]

\* claim_review_submit_attempt_started; the choices are those of the claim.
Claim(w, t) ==
  /\ FirstFree(w)
  /\ t \in queue
  /\ lock = Nobody
  /\ MayStart(t)
  /\ queue' = queue \ {t}
  /\ workflow' = [workflow EXCEPT !.status = "started"]
  /\ workers' = [workers EXCEPT ![w] =
                   [Idle EXCEPT !.pc = "claimed", !.task = t,
                                !.choices = workflow.choices]]
  /\ UNCHANGED <<job, items, written, lock, requests, watchdog, faults,
                 past>>

\* A message of another, a running or an ended attempt is dropped.
Ignore(w, t) ==
  /\ FirstFree(w)
  /\ t \in queue
  /\ lock = Nobody
  /\ ~MayStart(t)
  /\ queue' = queue \ {t}
  /\ UNCHANGED <<job, workflow, items, written, lock, requests, workers,
                 watchdog, faults, past>>

\* assert_review_submit_attempt_current, then _build_prepared_submit reads the
\* items, outside any transaction.
Prepare(w) ==
  /\ workers[w].pc = "claimed"
  /\ workers[w].choices # Nobody
  /\ lock = Nobody
  /\ IF Current(workers[w].task)
     THEN workers' = [workers EXCEPT ![w] =
                        [@ EXCEPT !.pc = "prepared", !.rows = items]]
     ELSE Rest(w)
  /\ UNCHANGED <<job, workflow, items, written, lock, requests, queue,
                 watchdog, faults, past>>

\* Preparing raises, a soft time limit included.
PrepareFails(w) ==
  /\ workers[w].pc \in {"claimed", "prepared"}
  /\ Fault
  /\ Goes(w, "broken")
  /\ UNCHANGED <<job, workflow, items, written, lock, requests, queue,
                 watchdog, past>>

\* persist_review_submit_failure_terminal under the fence, after an error or
\* when the claim found no stored choices.
Recover(w) ==
  /\ \/ workers[w].pc = "broken"
     \/ workers[w].pc = "claimed" /\ workers[w].choices = Nobody
  /\ lock = Nobody
  /\ IF Current(workers[w].task)
     THEN job' = "ready" /\ workflow' = Ended("failed")
     ELSE UNCHANGED <<job, workflow>>
  /\ Rest(w)
  /\ UNCHANGED <<items, written, lock, requests, queue, watchdog, faults,
                 past>>

\* run_review_submit_terminal_section: the job's row stays locked from here to
\* the end of the section, and the attempt must be current.
Enter(w) ==
  /\ workers[w].pc = "prepared"
  /\ lock = Nobody
  /\ Current(workers[w].task)
  /\ lock' = w
  /\ Goes(w, "entered")
  /\ UNCHANGED <<job, workflow, items, written, requests, queue, watchdog,
                 faults, past>>

TurnedAway(w) ==
  /\ workers[w].pc = "prepared"
  /\ lock = Nobody
  /\ ~Current(workers[w].task)
  /\ Rest(w)
  /\ UNCHANGED <<job, workflow, items, written, lock, requests, queue,
                 watchdog, faults, past>>

Chosen(w) == workers[w].rows \cap requests[workers[w].choices].chosen

Committed(rows) ==
  written' = [i \in Items |->
                IF i \in rows /\ written[i] < 2 THEN written[i] + 1
                ELSE written[i]]

\* apply_pending_creates: all new records in one transaction of their own.
ApplyCreates(w) ==
  /\ workers[w].pc = "entered"
  /\ Committed(Chosen(w) \cap Creates)
  /\ workers' = [workers EXCEPT ![w] =
                   [@ EXCEPT !.pc = "created", !.left = Chosen(w) \cap Updates,
                             !.done = Chosen(w) \cap Creates]]
  /\ UNCHANGED <<job, workflow, items, lock, requests, queue, watchdog,
                 faults, past>>

\* A create finds a duplicate before anything is committed.
CreateConflict(w) ==
  /\ workers[w].pc = "entered"
  /\ Chosen(w) \cap Creates # {}
  /\ Goes(w, "conflict")
  /\ UNCHANGED <<job, workflow, items, written, lock, requests, queue,
                 watchdog, faults, past>>

\* _apply_pending_updates: one transaction a row.
ApplyUpdate(w) ==
  /\ workers[w].pc = "created"
  /\ \E i \in workers[w].left :
       /\ Committed({i})
       /\ workers' = [workers EXCEPT ![w] =
                        [@ EXCEPT !.left = workers[w].left \ {i},
                                  !.done = workers[w].done \cup {i}]]
  /\ UNCHANGED <<job, workflow, items, lock, requests, queue, watchdog,
                 faults, past>>

\* The record changed since its version was read: the first conflict stops.
UpdateConflict(w) ==
  /\ workers[w].pc = "created"
  /\ workers[w].left # {}
  /\ Goes(w, "conflict")
  /\ UNCHANGED <<job, workflow, items, written, lock, requests, queue,
                 watchdog, faults, past>>

\* Mutant: the choices of rows without a usable choice are taken as made.
NothingStill(w) == {}

\* Mutant: the rows that were written stay in review.
StillAll(w) == workers[w].rows

\* The rows that still need review.
StillReview(w) == workers[w].rows \ Chosen(w)

\* Mutant: the job is completed whatever is left.
AlwaysCompleted(w) == "completed"

\* The status of the job after the submission.
FinalStatus(w) == IF StillReview(w) = {} THEN "completed" ELSE "ready"

\* finalize_review_submission and finish_current: the items become the rows
\* that still need review, and the transaction commits.
Finalize(w) ==
  /\ workers[w].pc = "created"
  /\ workers[w].left = {}
  /\ items' = StillReview(w)
  /\ job' = FinalStatus(w)
  /\ workflow' = Ended("completed")
  /\ lock' = Nobody
  /\ Rest(w)
  /\ UNCHANGED <<written, requests, queue, watchdog, faults, past>>

\* An error in the section, handled inside it.
SectionFails(w) ==
  /\ workers[w].pc \in {"entered", "created"}
  /\ Fault
  /\ Goes(w, "failed")
  /\ UNCHANGED <<job, workflow, items, written, lock, requests, queue,
                 watchdog, past>>

\* _terminal_failure: the job returns to review with the rows it had, those
\* already committed included.
GiveBack(w) ==
  /\ workers[w].pc \in {"conflict", "failed"}
  /\ job' = "ready"
  /\ workflow' = Ended(workers[w].pc)
  /\ past' = [past EXCEPT !.exposed = @ \cup workers[w].done]
  /\ lock' = Nobody
  /\ Rest(w)
  /\ UNCHANGED <<items, written, requests, queue, watchdog, faults>>

\* An error of the job's own transaction, in which nothing more can be saved:
\* it rolls back, and the failure is recorded in a transaction of its own.
SectionAborts(w) ==
  /\ workers[w].pc \in {"entered", "created"}
  /\ Fault
  /\ lock' = Nobody
  /\ past' = [past EXCEPT !.exposed = @ \cup workers[w].done]
  /\ workers' = [workers EXCEPT ![w] =
                   [@ EXCEPT !.pc = "broken", !.left = {}, !.done = {}]]
  /\ UNCHANGED <<job, workflow, items, written, requests, queue, watchdog>>

\* The worker is lost: its transaction rolls back and the message returns.
Crash(w) ==
  /\ workers[w].pc # "idle"
  /\ Fault
  /\ lock' = IF lock = w THEN Nobody ELSE lock
  /\ queue' = queue \cup {workers[w].task}
  /\ past' = [past EXCEPT !.exposed = @ \cup workers[w].done]
  /\ Rest(w)
  /\ UNCHANGED <<job, workflow, items, written, requests, watchdog>>

-----------------------------------------------------------------------------
\* The watchdog: repair_stalled_import_jobs_task. An attempt is late when its
\* time stamp is a minute old, which a slow one may be at any time.

Watch(pc) == watchdog' = [watchdog EXCEPT !.pc = pc]

\* Mutant: an attempt that was started is left alone.
LateUnstarted == job = "running" /\ workflow.status \in Startable

\* execution_health_snapshot: the attempt is a case for repair.
Late == job = "running" /\ workflow.status \in Startable \cup {"started"}

\* The pass reads the job. For an attempt that was not started, _note_repair
\* follows at once and saves the workflow as it was read, which changes nothing.
Scan ==
  /\ watchdog.pc = "idle"
  /\ Late
  /\ watchdog' = [pc |-> IF workflow.status = "started" THEN "late"
                         ELSE "publish",
                  seen |-> workflow, rows |-> {}]
  /\ UNCHANGED <<job, workflow, items, written, lock, requests, queue,
                 workers, faults, past>>

\* The pass is held up between the reading and _note_repair.
SlowScan ==
  /\ watchdog.pc = "idle"
  /\ Late
  /\ workflow.status \in Startable
  /\ Fault
  /\ watchdog' = [pc |-> "note", seen |-> workflow, rows |-> {}]
  /\ UNCHANGED <<job, workflow, items, written, lock, requests, queue,
                 workers, past>>

\* request_review_submit_attempt_cancel, on fresh state.
CancelAttempt ==
  /\ watchdog.pc = "late"
  /\ lock = Nobody
  /\ IF Cancellable(watchdog.seen.task)
     THEN workflow' = Ended("cancelled") /\ Watch("refresh")
     ELSE watchdog' = Resting /\ UNCHANGED workflow
  /\ UNCHANGED <<job, items, written, lock, requests, queue, workers,
                 faults, past>>

\* The job is read again, and _note_repair follows at once.
Refresh ==
  /\ watchdog.pc = "refresh"
  /\ watchdog' = [pc |-> "give_back", seen |-> workflow, rows |-> items]
  /\ UNCHANGED <<job, workflow, items, written, lock, requests, queue,
                 workers, faults, past>>

SlowRefresh ==
  /\ watchdog.pc = "refresh"
  /\ Fault
  /\ watchdog' = [pc |-> "note_cancel", seen |-> workflow, rows |-> items]
  /\ UNCHANGED <<job, workflow, items, written, lock, requests, queue,
                 workers, past>>

\* _note_repair saves the whole workflow as it was read, without the job's
\* lock; the row of the workflow is locked while a section is open.
NoteRepair ==
  /\ watchdog.pc \in {"note", "note_cancel"}
  /\ lock = Nobody
  /\ workflow' = watchdog.seen
  /\ past' = [past EXCEPT !.clobbered = @ \/ workflow # watchdog.seen]
  /\ Watch(IF watchdog.pc = "note" THEN "publish" ELSE "give_back")
  /\ UNCHANGED <<job, items, written, lock, requests, queue, workers,
                 faults>>

\* publish_review_submit_dispatch of the attempt that was read.
Republish ==
  /\ watchdog.pc = "publish"
  /\ watchdog.seen.task \notin queue
  /\ queue' = queue \cup {watchdog.seen.task}
  /\ Watch("published")
  /\ UNCHANGED <<job, workflow, items, written, lock, requests, workers,
                 faults, past>>

RepublishFails ==
  /\ watchdog.pc = "publish"
  /\ Fault
  /\ Watch("publish_failed")
  /\ UNCHANGED <<job, workflow, items, written, lock, requests, queue,
                 workers, past>>

MarkRepublished ==
  /\ watchdog.pc \in {"published", "publish_failed"}
  /\ lock = Nobody
  /\ workflow' = Marked(watchdog.seen.task, watchdog.pc)
  /\ watchdog' = Resting
  /\ UNCHANGED <<job, items, written, lock, requests, queue, workers,
                 faults, past>>

\* persist_review_submit_ready_state on the job that was refreshed.
ReturnToReview ==
  /\ watchdog.pc = "give_back"
  /\ lock = Nobody
  /\ job' = "ready"
  /\ EnsureReviewState(watchdog.rows)
  /\ watchdog' = Resting
  /\ UNCHANGED <<workflow, written, lock, requests, queue, workers,
                 faults>>

\* The pass is lost, or an error ends it for this job.
WatchdogDies ==
  /\ watchdog.pc # "idle"
  /\ Fault
  /\ watchdog' = Resting
  /\ past' = [past EXCEPT !.stranded =
                @ \/ watchdog.pc \in {"refresh", "note_cancel", "give_back"}]
  /\ UNCHANGED <<job, workflow, items, written, lock, requests, queue,
                 workers>>

-----------------------------------------------------------------------------
RequestStep(t) ==
  \/ SubmitReview(t) \/ Kickoff(t) \/ RefuseKickoff(t) \/ Publish(t)
  \/ PublishFails(t) \/ MarkDispatch(t) \/ Answer(t) \/ RequestDies(t)

\* What a worker that is not lost goes on to do.
WorkerStep(w) ==
  \/ \E t \in Tasks : Claim(w, t) \/ Ignore(w, t)
  \/ Prepare(w) \/ Recover(w) \/ Enter(w) \/ TurnedAway(w) \/ ApplyCreates(w)
  \/ ApplyUpdate(w) \/ Finalize(w) \/ GiveBack(w)

WorkerTrouble(w) ==
  \/ CreateConflict(w) \/ UpdateConflict(w) \/ PrepareFails(w)
  \/ SectionFails(w) \/ SectionAborts(w) \/ Crash(w)

\* What a pass of the watchdog that is not lost goes on to do.
WatchdogStep ==
  \/ Scan \/ CancelAttempt \/ Refresh \/ NoteRepair \/ Republish
  \/ MarkRepublished \/ ReturnToReview

Next ==
  \/ \E t \in Tasks : RequestStep(t)
  \/ \E w \in Workers : WorkerStep(w) \/ WorkerTrouble(w)
  \/ WatchdogStep \/ SlowScan \/ SlowRefresh \/ RepublishFails
  \/ WatchdogDies

Spec == Init /\ [][Next]_vars

\* The workers take messages and go on, and the watchdog runs every minute.
Fairness ==
  /\ \A w \in Workers : WF_vars(WorkerStep(w))
  /\ WF_vars(WatchdogStep)

FairSpec == Spec /\ Fairness

-----------------------------------------------------------------------------
Attempts ==
  [task : Tasks \cup {Nobody}, status : Statuses, choices : Tasks \cup {Nobody}]

Requests ==
  [pc : {"idle", "checked", "committed", "published", "publish_failed",
         "answering", "done"},
   sample : SUBSET Items, chosen : SUBSET Items]

Runs ==
  [pc : {"idle", "claimed", "broken", "prepared", "entered", "created",
         "conflict", "failed"},
   task : Tasks \cup {Nobody}, choices : Tasks \cup {Nobody},
   rows : SUBSET Items, left : SUBSET Items, done : SUBSET Items]

Passes ==
  [pc : {"idle", "late", "refresh", "note", "note_cancel", "publish",
         "published", "publish_failed", "give_back"},
   seen : Attempts, rows : SUBSET Items]

\* The types of the variables.
TypeOK ==
  /\ job \in {"ready", "running", "completed"}
  /\ workflow \in Attempts
  /\ items \in SUBSET Items
  /\ written \in [Items -> 0..2]
  /\ lock \in Workers \cup {Nobody}
  /\ requests \in [Tasks -> Requests]
  /\ queue \in SUBSET Tasks
  /\ workers \in [Workers -> Runs]
  /\ watchdog \in Passes
  /\ faults \in 0..MaxFaults
  /\ past \in [exposed : SUBSET Items, returned : SUBSET Items,
               clobbered : BOOLEAN, stranded : BOOLEAN]

\* A row leaves the review only when it was written, whatever submissions,
\* conflicts, crashes and repairs meet (finalize_review_submission).
NoRowLost == \A i \in Items : i \in items \/ written[i] > 0

\* A row is written once, unless a section that had written it did not commit,
\* an old copy of the review brought it back, or the watchdog saved an old
\* workflow over a newer one (run_review_submit_terminal_section).
WrittenOnce ==
  \A i \in Items :
    \/ written[i] < 2
    \/ i \in past.exposed \cup past.returned
    \/ past.clobbered

\* An attempt that may start, or has started, finds the choices of its own
\* submission: "task started without persisted workflow payload" is never
\* logged (run_review_submit_task).
ChoicesKept ==
  workflow.status \in Startable \cup {"started"}
    => workflow.choices = workflow.task

\* Rows are written only by a worker whose attempt is the stored one, started,
\* and protected by the job's lock: a cancelled or superseded worker writes
\* nothing, however late it comes.
OnlyCurrentWrites ==
  [][written' # written =>
       \E w \in Workers : /\ lock = w
                          /\ workflow.task = workers[w].task
                          /\ workflow.status = "started"]_vars

\* An attempt that ended keeps its end: no late mark of a publisher, claim or
\* repair changes it ("monotonic terminal decisions"), unless the watchdog
\* saved an old workflow over it.
TerminalStays ==
  [][workflow.status \in Terminal /\ workflow'.task = workflow.task
       => workflow'.status = workflow.status \/ past'.clobbered]_vars

\* A job is completed only with nothing left to review, but for rows that an
\* old copy of the review brought back.
CompletedIsClear == job = "completed" => items \subseteq past.returned

\* A job that a submission set running is ready or completed again in the end,
\* whichever send, worker or pass of the watchdog was lost, unless the watchdog
\* was lost between cancelling an attempt and returning the job to review.
SubmissionsEnd == job = "running" ~> (job # "running" \/ past.stranded)
=============================================================================
