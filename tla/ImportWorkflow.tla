---------------------------- MODULE ImportWorkflow ----------------------------
(***************************************************************************)
(* The distributed execution of one import job: the phases of its chunks    *)
(* (imports_importchunkphase), their leases, the Celery tasks that plan,    *)
(* load and finalize (server/api/tasks_import*.py), cancellation, and the   *)
(* sweep of expired leases (server/services/import_workflow_*.py).          *)
(*                                                                         *)
(* A task is delivered at least once (CELERY_TASK_ACKS_LATE).  Between two  *)
(* of its database transactions everyone else may run, and it may crash, be *)
(* delivered again, stall past its lease or raise.  The model starts when   *)
(* the file has been prepared and its chunks staged.                        *)
(***************************************************************************)
EXTENDS Naturals, FiniteSets

CONSTANTS
  Singles,     \* chunks of a single-entity import
  Roots,       \* root chunks of a bundle (clients, listings)
  Children,    \* child chunks of a bundle (demandes, offers)
  Workers,     \* processes of the imports queue
  Finalize,    \* import_finalize_job_task
  Prepare,     \* import_prepare_phase_task, from its call of the dispatch on
  MaxRetries,  \* max_retries of a task
  MaxFaults,   \* bound on crashes, redeliveries, errors and stalls
  MaxCancels   \* bound on cancel requests

ASSUME ChunksAssumption ==
  /\ Singles # {} /\ Roots # {} /\ Children # {}
  /\ Roots \cap Children = {} /\ Singles \cap (Roots \cup Children) = {}
ASSUME BoundsAssumption ==
  MaxRetries \in Nat /\ MaxFaults \in Nat /\ MaxCancels \in Nat

Of(chunks, kind) == chunks \X {kind}
Phases == Of(Singles \cup Roots \cup Children, "plan")
          \cup Of(Singles \cup Roots \cup Children, "load")

ASSUME TasksAssumption ==
  Finalize \notin Phases /\ Prepare \notin Phases /\ Finalize # Prepare

VARIABLES
  bundle,   \* bundle_mode = "same_side_bundle"
  job,      \* the job and its workflow payload
  phase,    \* each phase
  queue,    \* messages waiting for a worker
  retries,  \* each task's request.retries
  worker,   \* each process
  sweep,    \* requeue_expired_import_phases, between its read and its writes
  rows,     \* history: how often each chunk's rows were committed
  exposed,  \* history: loads put back, or cut off, after their last fence
  lost,     \* history: a message is gone that nothing sends again
  faults, cancels

history == <<exposed, lost>>
counters == <<faults, cancels>>
vars == <<bundle, job, phase, queue, retries, worker, sweep, rows, history, counters>>

Tasks == Phases \cup {Finalize, Prepare}
Job   == [status: {"running", "completed", "ready", "failed"}, cancel: BOOLEAN,
          index: BOOLEAN, anchors: BOOLEAN,
          finalizeQueued: BOOLEAN, finalized: BOOLEAN]
\* token: the lease_token as the number of the attempt, 0 when empty.
Phase == [status: {"none", "blocked", "pending", "queued", "running",
                   "completed", "failed", "cancelled"},
          attempts: Nat, token: Nat, late: BOOLEAN]
\* saw: the cancel flag finalize read; send: the tasks still to enqueue.
Worker == [pc: {"idle", "claim", "work", "commit", "complete", "dispatch", "send",
                "read", "save", "release", "abort", "bury"},
           task: Tasks, token: Nat, saw: BOOLEAN, send: SUBSET Tasks]

TypeOK ==
  /\ bundle \in BOOLEAN
  /\ job \in Job
  /\ phase \in [Phases -> Phase]
  /\ queue \subseteq Tasks
  /\ retries \in [Tasks -> 0 .. MaxRetries]
  /\ worker \in [Workers -> Worker]
  /\ sweep \in [todo: SUBSET Phases, running: BOOLEAN]
  /\ rows \in [Phases -> Nat]
  /\ exposed \subseteq Phases /\ lost \in BOOLEAN
  /\ faults \in 0 .. MaxFaults /\ cancels \in 0 .. MaxCancels

Chunks == IF bundle THEN Roots \cup Children ELSE Singles
Idle   == [pc |-> "idle", task |-> Prepare, token |-> 0, saw |-> FALSE, send |-> {}]

\* stage_prepared_artifact: the plans of child chunks wait for the roots'.
Staged(p) ==
  [status |-> IF p \in Of(Chunks, "plan") \ Of(Children, "plan") THEN "pending"
              ELSE IF p[1] \in Chunks THEN "blocked" ELSE "none",
   attempts |-> 0, token |-> 0, late |-> FALSE]

Init ==
  /\ bundle \in BOOLEAN
  /\ job = [status |-> "running", cancel |-> FALSE, index |-> FALSE,
            anchors |-> FALSE, finalizeQueued |-> FALSE, finalized |-> FALSE]
  /\ phase = [p \in Phases |-> Staged(p)]
  /\ queue = {}
  /\ retries = [t \in Tasks |-> 0]
  /\ \E w \in Workers :
       worker = [v \in Workers |-> IF v = w THEN [Idle EXCEPT !.pc = "dispatch"] ELSE Idle]
  /\ sweep = [todo |-> {}, running |-> FALSE]
  /\ rows = [p \in Phases |-> 0]
  /\ exposed = {} /\ lost = FALSE
  /\ faults = 0 /\ cancels = 0

-----------------------------------------------------------------------------
At(w, pcs)  == worker[w].pc \in pcs
To(w, pc)   == worker' = [worker EXCEPT ![w].pc = pc]
\* The task returns and its message is acknowledged.
Leave(w)    == worker' = [worker EXCEPT ![w] = Idle]
Status(p)   == phase[p].status
IsLoad(t)   == t \in Phases /\ t[2] = "load"

\* Mutant: the phase is running, whoever holds it.
RunningAtAll(w) == Status(worker[w].task) = "running"

\* The row is RUNNING under this attempt's lease token.
Current(w) ==
  LET p == worker[w].task IN
  Status(p) = "running" /\ phase[p].token = worker[w].token

Stopped == job.status # "running" \/ job.cancel

\* A load whose rows are committed, or about to be, without another fence.
AtRisk(p) ==
  /\ IsLoad(p)
  /\ Status(p) = "completed"
     \/ \E v \in Workers : worker[v].task = p /\ At(v, {"commit", "complete"})

Deliver(w, t) ==
  /\ At(w, {"idle"}) /\ t \in queue
  /\ queue' = queue \ {t}
  /\ worker' = [worker EXCEPT ![w] =
       [Idle EXCEPT !.pc = IF t = Finalize THEN "read" ELSE "claim", !.task = t]]
  /\ UNCHANGED <<bundle, job, phase, retries, sweep, rows, history, counters>>

-----------------------------------------------------------------------------
(* A plan or load task (_run_chunk_phase_task).                            *)

Closed == {"completed", "blocked", "cancelled"}

\* acquire_phase under the row lock.  Each phase has one task, so a running
\* one is acquired again by a redelivery of the same task id.
Claim(w) ==
  LET p == worker[w].task IN
  /\ At(w, {"claim"})
  /\ \/ /\ Stopped
        /\ phase' = IF Status(p) \in {"blocked", "pending", "queued"}
                      THEN [phase EXCEPT ![p].status = "cancelled"] ELSE phase
        /\ Leave(w) /\ UNCHANGED exposed
     \/ /\ ~Stopped /\ Status(p) \in Closed
        /\ Leave(w) /\ UNCHANGED <<phase, exposed>>
     \/ /\ ~Stopped /\ Status(p) \notin Closed
        /\ phase' = [phase EXCEPT ![p] =
             [status |-> "running", attempts |-> @.attempts + 1,
              token |-> @.attempts + 1, late |-> FALSE]]
        /\ worker' = [worker EXCEPT ![w].pc = "work",
                                    ![w].token = phase[p].attempts + 1]
        /\ exposed' = IF \E v \in Workers : worker[v].task = p
                                            /\ At(v, {"commit", "complete"})
                        THEN exposed \cup {p} ELSE exposed
  /\ UNCHANGED <<bundle, job, queue, retries, sweep, rows, lost, counters>>

\* _completed.
Completed(ps) == ps # {} /\ \A p \in ps : Status(p) = "completed"

\* _load_child_root_precheck, before a child chunk is loaded.
RootsLoaded(p) == p \in Of(Children, "load") => Completed(Of(Roots, "load"))

\* run_with_phase_attempt_fence around each batch of inserts, or around the
\* planned manifest.  The inserts are in a transaction of their own, which is
\* committed after the last fence.
Work(w) ==
  LET p == worker[w].task IN
  /\ At(w, {"work"}) /\ RootsLoaded(p)
  /\ Current(w) /\ ~Stopped
  /\ phase' = [phase EXCEPT ![p].late = FALSE]
  /\ To(w, IF IsLoad(p) THEN "commit" ELSE "complete")
  /\ UNCHANGED <<bundle, job, queue, retries, sweep, rows, history, counters>>

\* The attempt meets a lost lease or a finished job, or the cancellation:
\* cancel_phase_attempt cancels the phase under the attempt's own token.
Yields(w) ==
  LET p == worker[w].task IN
  /\ At(w, {"work"}) /\ (Stopped \/ ~Current(w))
  /\ \/ UNCHANGED phase /\ (~Current(w) \/ job.status # "running")
     \/ /\ Current(w)
        /\ phase' = [phase EXCEPT ![p].status = "cancelled", ![p].token = 0,
                                  ![p].late = FALSE]
  /\ Leave(w)
  /\ UNCHANGED <<bundle, job, queue, retries, sweep, rows, history, counters>>

Commit(w) ==
  LET p == worker[w].task IN
  /\ At(w, {"commit"})
  /\ rows' = [rows EXCEPT ![p] = @ + 1]
  /\ exposed' = IF Current(w) THEN exposed ELSE exposed \cup {p}
  /\ To(w, "complete")
  /\ UNCHANGED <<bundle, job, phase, queue, retries, sweep, lost, counters>>

\* complete_phase.
Complete(w) ==
  LET p == worker[w].task IN
  /\ At(w, {"complete"})
  /\ IF Current(w)
       THEN /\ phase' = [phase EXCEPT ![p].status = "completed", ![p].token = 0,
                                      ![p].late = FALSE]
            /\ To(w, "dispatch")
       ELSE Leave(w) /\ UNCHANGED phase
  /\ UNCHANGED <<bundle, job, queue, retries, sweep, rows, history, counters>>

-----------------------------------------------------------------------------
(* advance_workflow, one transaction under the job's row lock, then the     *)
(* messages (_queue_import_dispatch).                                       *)

\* _queue_pending, with allow_blocked or without.
Pending(ps)   == {p \in ps : Status(p) = "pending"}
Unstarted(ps) == {p \in ps : Status(p) \in {"pending", "blocked"}}

Indexed == job.index \/ Completed(Of(Roots, "plan"))
Planned == Indexed /\ Completed(Of(Children, "plan"))

\* Mutant: children go ahead without the map of created roots.
PlannedOnly == Planned

Anchored == Planned /\ (job.anchors \/ Completed(Of(Roots, "load")))

\* Mutant: the loads are started.
NoneWaits == \A c \in Chunks : Status(<<c, "load">>) \notin {"blocked", "pending", "queued"}

\* Every load is done, by the order in which the dispatch looks at them.
AllLoaded ==
  IF bundle THEN Anchored /\ Completed(Of(Children, "load"))
            ELSE Completed(Of(Singles, "plan")) /\ Completed(Of(Singles, "load"))

\* Mutant: the loads of a single-entity import stay blocked.
DueWithoutLoads ==
  IF bundle
    THEN IF Indexed
           THEN Unstarted(Of(Children, "plan") \cup Of(Roots, "load"))
                \cup IF Anchored THEN Unstarted(Of(Children, "load")) ELSE {}
           ELSE Pending(Of(Roots, "plan"))
    ELSE Pending(Of(Singles, "plan") \cup Of(Singles, "load"))

Due ==
  IF bundle
    THEN IF Indexed
           THEN Unstarted(Of(Children, "plan") \cup Of(Roots, "load"))
                \cup IF Anchored THEN Unstarted(Of(Children, "load")) ELSE {}
           ELSE Pending(Of(Roots, "plan"))
    ELSE Pending(Of(Singles, "plan"))
         \cup IF Completed(Of(Singles, "plan"))
                THEN Unstarted(Of(Singles, "load")) ELSE {}

Failed == \E p \in Phases : Status(p) = "failed"

Dispatch(w) ==
  LET ends == AllLoaded /\ ~job.finalizeQueued IN
  /\ At(w, {"dispatch"})
  /\ IF Stopped \/ Failed
       THEN Leave(w) /\ UNCHANGED <<job, phase>>
       ELSE /\ phase' = [p \in Phases |-> IF p \in Due
                           THEN [phase[p] EXCEPT !.status = "queued"] ELSE phase[p]]
            /\ job' = [job EXCEPT !.index = bundle /\ Indexed,
                                  !.anchors = @ \/ (bundle /\ Anchored),
                                  !.finalizeQueued = @ \/ ends]
            /\ worker' = [worker EXCEPT ![w].pc = "send",
                 ![w].send = Due \cup IF ends THEN {Finalize} ELSE {}]
  /\ UNCHANGED <<bundle, queue, retries, sweep, rows, history, counters>>

Send(w) ==
  /\ At(w, {"send"})
  /\ \/ worker[w].send = {} /\ Leave(w) /\ UNCHANGED queue
     \/ \E t \in worker[w].send :
          /\ queue' = queue \cup {t}
          /\ worker' = [worker EXCEPT ![w].send = @ \ {t}]
  /\ UNCHANGED <<bundle, job, phase, retries, sweep, rows, history, counters>>

-----------------------------------------------------------------------------
(* finalize_distributed_import_job, and the slot's release.                *)

Read(w) ==
  /\ At(w, {"read"})
  /\ worker' = [worker EXCEPT ![w].pc = IF job.finalized THEN "release" ELSE "save",
                              ![w].saw = job.cancel]
  /\ UNCHANGED <<bundle, job, phase, queue, retries, sweep, rows, history, counters>>

\* _decide_terminal_state: the counts of rows, errors and open reviews decide.
Decisions(saw) == IF saw THEN {"failed"} ELSE {"completed", "ready", "failed"}

\* The whole payload is written as it was read.
Save(w) ==
  /\ At(w, {"save"})
  /\ \E s \in Decisions(worker[w].saw) :
       job' = [job EXCEPT !.status = s, !.cancel = worker[w].saw, !.finalized = TRUE]
  /\ To(w, "release")
  /\ UNCHANGED <<bundle, phase, queue, retries, sweep, rows, history, counters>>

Release(w) ==
  /\ At(w, {"release"})
  /\ Leave(w)
  /\ UNCHANGED <<bundle, job, phase, queue, retries, sweep, rows, history, counters>>

-----------------------------------------------------------------------------
(* Cancellation and failure.                                               *)

\* request_workflow_cancellation, in a job that is left with this status.
CancelWorkflow(status) ==
  /\ job' = [job EXCEPT !.cancel = TRUE, !.status = status]
  /\ phase' = [p \in Phases |->
       IF Status(p) \in {"blocked", "pending", "queued"}
         THEN [phase[p] EXCEPT !.status = "cancelled", !.token = 0, !.late = FALSE]
         ELSE phase[p]]

\* cancel_import_request while the job runs and its phases were dispatched.
\* As long as none has started, and the progress written while the file was
\* prepared does not hide that, cancel_import_immediately also ends the job.
CancelRequest ==
  /\ cancels < MaxCancels /\ cancels' = cancels + 1
  /\ job.status = "running"
  /\ \A w \in Workers : At(w, {"dispatch"}) => worker[w].task # Prepare
  /\ \/ CancelWorkflow("running")
     \/ CancelWorkflow("failed") /\ \A p \in Phases : phase[p].attempts = 0
  /\ UNCHANGED <<bundle, queue, retries, worker, sweep, rows, history, faults>>

\* mark_distributed_job_failed: it cancels, then saves the job.
Abort(w) ==
  /\ At(w, {"abort"})
  /\ CancelWorkflow(job.status)
  /\ To(w, "bury")
  /\ UNCHANGED <<bundle, queue, retries, sweep, rows, history, counters>>

Bury(w) ==
  /\ At(w, {"bury"})
  /\ job' = [job EXCEPT !.status = "failed"]
  /\ Leave(w)
  /\ UNCHANGED <<bundle, phase, queue, retries, sweep, rows, history, counters>>

\* handle_phase_exception when no retry is left: fail_phase under the token.
FailPhase(w) ==
  LET p == worker[w].task IN
  IF Current(w)
    THEN /\ phase' = [phase EXCEPT ![p].status = "failed", ![p].token = 0,
                                   ![p].late = FALSE]
         /\ To(w, "abort")
    ELSE Leave(w) /\ UNCHANGED phase

PrecheckFails(w) ==
  /\ At(w, {"work"}) /\ ~RootsLoaded(worker[w].task)
  /\ FailPhase(w)
  /\ UNCHANGED <<bundle, job, queue, retries, sweep, rows, history, counters>>

Fault == faults < MaxFaults /\ faults' = faults + 1
Cut(w) == lost' = (lost \/ At(w, {"dispatch", "send"}))

\* An error the task does not retry.
Fails(w) ==
  LET t == worker[w].task IN
  /\ Fault
  /\ \/ /\ At(w, {"work", "commit", "complete", "dispatch", "send"}) /\ t # Prepare
        /\ FailPhase(w)
        /\ exposed' = IF AtRisk(t) /\ ~At(w, {"commit"}) THEN exposed \cup {t} ELSE exposed
        /\ Cut(w)
     \/ /\ At(w, {"read", "save", "release"}) \/ (At(w, {"dispatch", "send"}) /\ t = Prepare)
        /\ To(w, "abort") /\ UNCHANGED <<phase, exposed, lost>>
  /\ UNCHANGED <<bundle, job, queue, retries, sweep, rows, cancels>>

\* The user or the job is not found, or an error comes before the handler's
\* try: the task returns with nothing done.
TurnsBack(w) ==
  /\ Fault /\ At(w, {"claim", "read"})
  /\ Leave(w) /\ lost' = TRUE
  /\ UNCHANGED <<bundle, job, phase, queue, retries, sweep, rows, exposed, cancels>>

\* handle_phase_exception with a retry left: the phase is queued whatever
\* became of it, and Celery sends the task again.  Finalize is retried when
\* its notification cannot be stored.
Retries(w) ==
  LET t == worker[w].task IN
  /\ Fault /\ retries[t] < MaxRetries
  /\ \/ /\ At(w, {"work", "commit", "complete", "dispatch", "send"}) /\ t # Prepare
        /\ phase' = [phase EXCEPT ![t].status = "queued", ![t].token = 0,
                                  ![t].late = FALSE]
        /\ exposed' = IF AtRisk(t) THEN exposed \cup {t} ELSE exposed
        /\ lost' = (lost \/ worker[w].send # {})
     \/ At(w, {"claim", "save"}) /\ UNCHANGED <<phase, exposed, lost>>
  /\ retries' = [retries EXCEPT ![t] = @ + 1]
  /\ queue' = queue \cup {t}
  /\ Leave(w)
  /\ UNCHANGED <<bundle, job, sweep, rows, cancels>>

\* The notification cannot be stored at the last retry either: the error is
\* raised again, past the handler that fails the job, and the job stays
\* running with finalize_queued set.  No fault beyond the one of the retries.
GivesUp(w) ==
  /\ At(w, {"save"}) /\ retries[Finalize] = MaxRetries
  /\ Leave(w) /\ lost' = TRUE
  /\ UNCHANGED <<bundle, job, phase, queue, retries, sweep, rows, exposed, counters>>

\* The process dies and the broker delivers its message again, or the hard
\* time limit kills the task, whose message is acknowledged.
Crash(w) ==
  LET t == worker[w].task IN
  /\ Fault /\ ~At(w, {"idle"}) /\ t # Prepare
  /\ \/ queue' = queue \cup {t} /\ Cut(w)
     \/ UNCHANGED queue /\ lost' = TRUE
  /\ exposed' = IF IsLoad(t) /\ At(w, {"complete"}) THEN exposed \cup {t} ELSE exposed
  /\ Leave(w)
  /\ UNCHANGED <<bundle, job, phase, retries, sweep, rows, cancels>>

\* The process loses the broker and works on.
Redeliver(w) ==
  LET t == worker[w].task IN
  /\ Fault /\ ~At(w, {"idle"}) /\ t # Prepare /\ t \notin queue
  /\ queue' = queue \cup {t}
  /\ UNCHANGED <<bundle, job, phase, retries, worker, sweep, rows, history, cancels>>

-----------------------------------------------------------------------------
(* requeue_expired_import_phases, every 30 seconds.                        *)

\* The lease's 180 seconds pass without a heartbeat.
Expires(p) ==
  /\ Fault /\ Status(p) = "running" /\ ~phase[p].late
  /\ phase' = [phase EXCEPT ![p].late = TRUE]
  /\ UNCHANGED <<bundle, job, queue, retries, worker, sweep, rows, history, cancels>>

SweepLists ==
  LET expired == {p \in Phases : Status(p) = "running" /\ phase[p].late} IN
  /\ sweep.todo = {} /\ expired # {}
  /\ sweep' = [todo |-> expired, running |-> job.status = "running"]
  /\ UNCHANGED <<bundle, job, phase, queue, retries, worker, rows, history, counters>>

\* The row is updated by its id alone, and no task is sent for it.
SweepPutsBack(p) ==
  /\ p \in sweep.todo
  /\ sweep' = [sweep EXCEPT !.todo = @ \ {p}]
  /\ phase' = [phase EXCEPT
       ![p].status = IF sweep.running /\ ~job.cancel THEN "queued" ELSE "cancelled",
       ![p].token = 0, ![p].late = FALSE]
  /\ exposed' = IF AtRisk(p) THEN exposed \cup {p} ELSE exposed
  /\ lost' = (lost \/ p \notin queue)
  /\ UNCHANGED <<bundle, job, queue, retries, worker, rows, counters>>

-----------------------------------------------------------------------------
Step(w) ==
  \/ Claim(w) \/ Work(w) \/ Yields(w) \/ PrecheckFails(w) \/ Commit(w)
  \/ Complete(w) \/ Dispatch(w) \/ Send(w)
  \/ Read(w) \/ Save(w) \/ Release(w) \/ Abort(w) \/ Bury(w)

Breaks(w) ==
  Fails(w) \/ TurnsBack(w) \/ Retries(w) \/ GivesUp(w) \/ Crash(w) \/ Redeliver(w)

Next ==
  \/ \E w \in Workers : Step(w) \/ Breaks(w) \/ \E t \in Tasks : Deliver(w, t)
  \/ \E p \in Phases : Expires(p) \/ SweepPutsBack(p)
  \/ SweepLists \/ CancelRequest

Spec == Init /\ [][Next]_vars

\* Messages reach a worker and workers go on.
Fairness ==
  /\ \A t \in Tasks : WF_vars(\E w \in Workers : Deliver(w, t))
  /\ \A w \in Workers : WF_vars(Step(w))

FairSpec == Spec /\ Fairness

-----------------------------------------------------------------------------
\* An import is reported completed, or ready for review, only when the rows
\* of every chunk were committed, whatever crashed, ran twice or was put back
\* (advance_workflow_dispatch, complete_phase).
FinalizedWhole ==
  job.status \in {"completed", "ready"} => \A c \in Chunks : rows[<<c, "load">>] >= 1

\* The rows of a chunk are committed once, unless its load was cut off or put
\* back after its last fence (run_with_phase_attempt_fence, acquire_phase).
LoadedOnce == \A p \in Phases : rows[p] > 1 => p \in exposed

\* A child chunk that is being loaded finds every root chunk loaded ("root
\* chunk load has not completed yet" is never raised), unless a completed
\* root load was put back.
RootsReady ==
  \A w \in Workers :
    At(w, {"work"}) => \/ RootsLoaded(worker[w].task)
                       \/ Of(Roots, "load") \cap exposed # {}

\* An import that nobody cancels ends: through redeliveries, retries, errors
\* and late leases every phase and finalize get their turn, or the job fails.
\* A message that is gone for good is the exception (a follow-up cut off, a
\* task killed or turned back, finalize out of retries, a phase put back by
\* the sweep with no message waiting): nothing sends it again.
ImportsEnd == <>(job.status # "running" \/ job.cancel \/ lost)

\* A cancelled import ends ("We'll stop this import as soon as the active
\* work finishes", cancel_import_request).
CancelEnds == job.cancel ~> job.status # "running"
=============================================================================
