----------------------------- MODULE MatchRebuild -----------------------------
(***************************************************************************)
(* The durable rebuild queue of the match pairs: table match_rebuild_state *)
(* (core/data/match_rebuild_state.py), the enqueue helpers of              *)
(* server/services/match_jobs.py, the Celery tasks that recompute pairs    *)
(* (server/api/tasks_match_pairs.py) and the janitor that sweeps stale     *)
(* requests (server/api/tasks_integrity.py).                               *)
(*                                                                         *)
(* A scope is a demande, a client or an offer.  Demande scopes go through  *)
(* a debounced queue that a flush task drains in batches; the others send  *)
(* a task of their own.  A wilaya scope behaves as a client scope.         *)
(*                                                                         *)
(* The pairs of a demande are abstracted to the scopes whose last change   *)
(* they do not reflect.  A recompute deletes and inserts the demande's     *)
(* rows in one transaction, so computations of one demande are serialised  *)
(* by those row locks and each is one step.  Generations are compared only *)
(* with the value a task read when it started, so the model keeps, for     *)
(* each task, the scopes whose generation has grown since.                 *)
(***************************************************************************)
EXTENDS Naturals, FiniteSets, FiniteSetsExt

CONSTANTS
  Demandes,   \* demande ids, positive integers
  Clients,    \* client scopes
  Offers,     \* offer scopes
  Tasks,      \* rebuild task messages that may exist at once: 1..n
  Flushers,   \* flush task messages that may exist at once: 1..n
  FlushLimit, \* rows one flush may claim (batch size times max batches)
  MaxWrites,  \* bound: business transactions, and sweeps that find demandes
              \* without stored pairs
  MaxFaults   \* bound: lost requests, killed tasks, lost messages

Direct == Clients \cup Offers
Scopes == Demandes \cup Direct

ASSUME ScopesAssumption ==
  /\ Demandes \subseteq Nat \ {0}
  /\ Demandes \cap Direct = {} /\ Clients \cap Offers = {}
ASSUME SlotsAssumption == Tasks \subseteq Nat /\ Flushers \subseteq Nat
ASSUME BoundsAssumption ==
  FlushLimit \in Nat \ {0} /\ MaxWrites \in Nat /\ MaxFaults \in Nat

VARIABLES
  reach,    \* the demandes of each client, those each offer may match
  behind,   \* per demande: scopes whose last change its pairs do not reflect
  owed,     \* per scope: commits whose on_commit callback has yet to run
  hint,     \* per direct scope: demande_ids_hint of the callbacks owed
  missed,   \* scopes of which a request was lost before it was recorded
  row,      \* match_rebuild_state, one row per scope
  task,     \* rebuild tasks
  flush,    \* flush tasks
  lockKey,  \* cache key demande_queue_flush is set
  wanted,   \* cache key demande_queue_flush_requested is set
  adding,   \* processes about to call cache.add on the lock key
  setting,  \* processes whose add failed, about to set the requested key
  writes, faults

business == <<reach, behind, owed, hint, missed>>
wakeup   == <<lockKey, wanted, adding, setting>>
bounds   == <<writes, faults>>
vars     == <<business, row, task, flush, wakeup, bounds>>

Claims  == {"none", "live", "expired"}
Row     == [pending: BOOLEAN, aged: BOOLEAN, debounced: BOOLEAN, claim: Claims]
\* args: the hint in the message; ids: the demandes it covers; todo: those
\* not recomputed yet; moved: scopes whose generation grew since it started.
TaskPCs == {"off", "queued", "listed", "clearing", "running"}
Task    == [pc: TaskPCs, scopes: SUBSET Scopes, args: SUBSET Demandes,
            ids: SUBSET Demandes, todo: SUBSET Demandes, moved: SUBSET Scopes]
FlushPCs == {"off", "queued", "locked", "end"}
\* wait: rows whose debounce ends before the countdown of the message does.
Flush   == [pc: FlushPCs, follow: BOOLEAN, wait: SUBSET Demandes]

NoTask  == [pc |-> "off", scopes |-> {}, args |-> {}, ids |-> {},
            todo |-> {}, moved |-> {}]
NoFlush == [pc |-> "off", follow |-> FALSE, wait |-> {}]

TypeOK ==
  /\ reach \in [Direct -> SUBSET Demandes]
  /\ behind \in [Demandes -> SUBSET Scopes]
  /\ owed \in [Scopes -> Nat]
  /\ hint \in [Direct -> SUBSET Demandes]
  /\ missed \in SUBSET Scopes
  /\ row \in [Scopes -> Row]
  /\ task \in [Tasks -> Task]
  /\ flush \in [Flushers -> Flush]
  /\ lockKey \in BOOLEAN /\ wanted \in BOOLEAN
  /\ adding \in Nat /\ setting \in Nat
  /\ writes \in Nat /\ faults \in Nat

\* Everything is in step and the queue is empty.
Init ==
  /\ reach \in [Direct -> SUBSET Demandes]
  /\ behind = [d \in Demandes |-> {}]
  /\ owed = [s \in Scopes |-> 0]
  /\ hint = [s \in Direct |-> {}]
  /\ missed = {}
  /\ row = [s \in Scopes |-> [pending |-> FALSE, aged |-> FALSE,
                              debounced |-> FALSE, claim |-> "none"]]
  /\ task = [t \in Tasks |-> NoTask]
  /\ flush = [f \in Flushers |-> NoFlush]
  /\ lockKey = FALSE /\ wanted = FALSE /\ adding = 0 /\ setting = 0
  /\ writes = 0 /\ faults = 0

-----------------------------------------------------------------------------
(* Business transactions: they commit, then run their on_commit callback.  *)

WriteDemande(d) ==
  /\ writes < MaxWrites
  /\ writes' = writes + 1
  /\ behind' = [behind EXCEPT ![d] = @ \cup {d}]
  /\ owed' = [owed EXCEPT ![d] = @ + 1]
  /\ UNCHANGED <<reach, hint, missed, row, task, flush, wakeup, faults>>

\* A client keeps its demandes.  An offer may come to match others:
\* update_offer hints at those it matched before and those it matches now, the
\* other writes, to or from an offer that matches nothing, give no hint.
WriteDirect(s) ==
  /\ writes < MaxWrites
  /\ writes' = writes + 1
  /\ \E S \in SUBSET Demandes :
       LET touched == reach[s] \cup S IN
         /\ s \in Clients => S = reach[s]
         /\ reach' = [reach EXCEPT ![s] = S]
         /\ \/ s \in Offers /\ hint' = [hint EXCEPT ![s] = @ \cup touched]
            \/ (s \in Clients \/ {} \in {reach[s], S}) /\ UNCHANGED hint
         /\ behind' = [d \in Demandes |->
              IF d \in touched THEN behind[d] \cup {s} ELSE behind[d]]
  /\ owed' = [owed EXCEPT ![s] = @ + 1]
  /\ UNCHANGED <<missed, row, task, flush, wakeup, faults>>

-----------------------------------------------------------------------------
(* request_rebuild and the enqueue helpers.                                *)

FreeTask(t)  == task[t].pc = "off" /\ \A u \in Tasks : task[u].pc = "off" => t <= u
FreeFlush(f) == flush[f].pc = "off" /\ \A g \in Flushers : flush[g].pc = "off" => f <= g

Queued(scopes, args) ==
  [NoTask EXCEPT !.pc = "queued", !.scopes = scopes, !.args = args]

Started(t) == task[t].pc \in {"clearing", "running"}

\* generation = generation + 1, as every started task of a scope sees it.
Bumped(S) ==
  [t \in Tasks |-> IF Started(t)
                     THEN [task[t] EXCEPT !.moved = @ \cup S] ELSE task[t]]

\* Debounced: an expired claim is cleared, a live one is kept.
RequestedDemande(r) ==
  [pending |-> TRUE, aged |-> FALSE, debounced |-> TRUE,
   claim |-> IF r.claim = "live" THEN "live" ELSE "none"]

\* Not debounced; direct scopes are never claimed, so never suppressed.
RequestedDirect ==
  [pending |-> TRUE, aged |-> FALSE, debounced |-> FALSE, claim |-> "none"]

\* The countdown of a flush covers the debounce that ran when it was sent.
NoLongerWaiting(D) == [f \in Flushers |-> [flush[f] EXCEPT !.wait = @ \ D]]

\* request_rebuild_batch in one transaction, then one flush is asked for.
RecordDemandes(D) ==
  /\ row' = [s \in Scopes |-> IF s \in D THEN RequestedDemande(row[s]) ELSE row[s]]
  /\ task' = Bumped(D)
  /\ flush' = NoLongerWaiting(D)
  /\ adding' = adding + 1

\* request_rebuild, then the scope's own task is sent.
RecordDirect(s, args) ==
  /\ row' = [row EXCEPT ![s] = RequestedDirect]
  /\ \E t \in Tasks :
       FreeTask(t) /\ task' = [Bumped({s}) EXCEPT ![t] = Queued({s}, args)]

\* enqueue_rebuild_demande_pairs(_batch), from on_commit.
EnqueueDemande(d) ==
  /\ owed[d] > 0
  /\ owed' = [owed EXCEPT ![d] = @ - 1]
  /\ RecordDemandes({d})
  /\ UNCHANGED <<reach, behind, hint, missed, lockKey, wanted, setting, bounds>>

\* enqueue_rebuild_client_pairs, enqueue_rebuild_offer_pairs.
EnqueueDirect(s) ==
  /\ owed[s] > 0
  /\ owed' = [owed EXCEPT ![s] = @ - 1]
  /\ RecordDirect(s, hint[s])
  /\ hint' = [hint EXCEPT ![s] = {}]
  /\ UNCHANGED <<reach, behind, missed, flush, wakeup, bounds>>

Fault == faults < MaxFaults /\ faults' = faults + 1

\* The process dies after its commit, or the request's own transaction
\* fails: the helpers log a warning and swallow the exception.
RequestLost(s) ==
  /\ Fault
  /\ owed[s] > 0
  /\ owed' = [owed EXCEPT ![s] = @ - 1]
  /\ missed' = missed \cup {s}
  /\ UNCHANGED <<reach, behind, hint, row, task, flush, wakeup, writes>>

\* schedule_demande_rebuild_flush: cache.add wins, the flush is sent.
ScheduleFlush ==
  /\ adding > 0
  /\ ~lockKey
  /\ adding' = adding - 1
  /\ lockKey' = TRUE
  /\ \E f \in Flushers :
       /\ FreeFlush(f)
       /\ flush' = [flush EXCEPT ![f] =
            [pc |-> "queued", follow |-> FALSE,
             wait |-> {d \in Demandes : row[d].debounced}]]
  /\ UNCHANGED <<business, row, task, wanted, setting, bounds>>

\* cache.add loses; the requested key is set by a later call.
FlushAlreadyScheduled ==
  /\ adding > 0
  /\ lockKey
  /\ adding' = adding - 1
  /\ setting' = setting + 1
  /\ UNCHANGED <<business, row, task, flush, lockKey, wanted, bounds>>

SetRequested ==
  /\ setting > 0
  /\ setting' = setting - 1
  /\ wanted' = TRUE
  /\ UNCHANGED <<business, row, task, flush, lockKey, adding, bounds>>

\* apply_async raises: the lock key is deleted and the error swallowed; or
\* the process dies before it could call the cache at all.
ScheduleFails ==
  /\ Fault
  /\ adding > 0
  /\ adding' = adding - 1
  /\ UNCHANGED <<business, row, task, flush, lockKey, wanted, setting, writes>>

-----------------------------------------------------------------------------
(* flush_rebuild_demande_pairs_queue.                                      *)

FlushAt(f, pc) == flush[f].pc = pc

\* pg_try_advisory_lock on "demande_flush_queue".
FlushStarts(f) ==
  /\ FlushAt(f, "queued")
  /\ flush[f].wait = {}
  /\ \A g \in Flushers : ~FlushAt(g, "locked")
  /\ flush' = [flush EXCEPT ![f].pc = "locked"]
  /\ UNCHANGED <<business, row, task, wakeup, bounds>>

\* Not locked: return, and the finally clause deletes the other's lock key.
FlushSkipped(f) ==
  /\ FlushAt(f, "queued")
  /\ flush[f].wait = {}
  /\ \E g \in Flushers : FlushAt(g, "locked")
  /\ flush' = [flush EXCEPT ![f] = NoFlush]
  /\ lockKey' = FALSE
  /\ UNCHANGED <<business, row, task, wanted, adding, setting, bounds>>

Dispatchable(d) == row[d].pending /\ ~row[d].debounced /\ row[d].claim # "live"

\* claim_dispatchable_scope_ids: at most FlushLimit rows.
Claimable(S) ==
  LET ready == {d \in Demandes : Dispatchable(d)} IN
    /\ S \subseteq ready
    /\ S = ready \/ Cardinality(S) = FlushLimit
    /\ Cardinality(S) <= FlushLimit

Claimed(S) ==
  [s \in Scopes |-> IF s \in S THEN [row[s] EXCEPT !.claim = "live", !.aged = FALSE]
                    ELSE row[s]]

\* The claims and their batch task; then the lock is released, the finally
\* clause deletes the lock key and the requested key is read.
FlushClaims(f) ==
  /\ FlushAt(f, "locked")
  /\ \E S \in SUBSET Demandes :
       /\ Claimable(S)
       /\ row' = Claimed(S)
       /\ IF S = {} THEN task' = task
          ELSE \E t \in Tasks : FreeTask(t) /\ task' = [task EXCEPT ![t] = Queued(S, {})]
  /\ lockKey' = FALSE
  /\ flush' = [flush EXCEPT ![f].pc = "end", ![f].follow = wanted]
  /\ UNCHANGED <<business, wanted, adding, setting, bounds>>

\* The requested key is deleted, also when it was set since it was read;
\* then another flush is asked for if it was set or rows are dispatchable.
FlushEnds(f) ==
  /\ FlushAt(f, "end")
  /\ wanted' = FALSE
  /\ flush' = [flush EXCEPT ![f] = NoFlush]
  /\ adding' = IF flush[f].follow \/ \E d \in Demandes : Dispatchable(d)
                 THEN adding + 1 ELSE adding
  /\ UNCHANGED <<business, row, task, lockKey, setting, bounds>>

\* Time limit, lost message or an error after the claims were committed:
\* the rows stay claimed without a task; the finally clause may have run.
FlushDies(f) ==
  /\ Fault
  /\ ~FlushAt(f, "off")
  /\ flush' = [flush EXCEPT ![f] = NoFlush]
  /\ \E S \in SUBSET Demandes :
       /\ S = {} \/ (FlushAt(f, "locked") /\ Claimable(S))
       /\ row' = Claimed(S)
  /\ lockKey' \in {lockKey, FALSE}
  /\ UNCHANGED <<business, task, wanted, adding, setting, writes>>

-----------------------------------------------------------------------------
(* The rebuild tasks.                                                      *)

IsOffer(t) == task[t].scopes \cap Offers # {}
IsBatch(t) == task[t].scopes \subseteq Demandes

\* The advisory lock key of a batch is its first id, last id and length.
SameLock(t, u) ==
  \/ task[t].scopes = task[u].scopes
  \/ /\ IsBatch(t) /\ IsBatch(u)
     /\ Min(task[t].scopes) = Min(task[u].scopes)
     /\ Max(task[t].scopes) = Max(task[u].scopes)
     /\ Cardinality(task[t].scopes) = Cardinality(task[u].scopes)

LockFree(t) == \A u \in Tasks : Started(u) => ~SameLock(t, u)

\* Only the offer task lists its demandes before it takes the lock.
OfferLists(t) ==
  /\ task[t].pc = "queued"
  /\ IsOffer(t)
  /\ \E o \in Offers :
       /\ o \in task[t].scopes
       /\ task' = [task EXCEPT ![t].pc = "listed",
                               ![t].ids = task[t].args \cup reach[o]]
  /\ UNCHANGED <<business, row, flush, wakeup, bounds>>

Ready(t) == task[t].pc = (IF IsOffer(t) THEN "listed" ELSE "queued")

Covered(t) ==
  IF IsOffer(t) THEN task[t].ids
  ELSE (task[t].scopes \cap Demandes)
       \cup UNION {reach[c] : c \in Clients \cap task[t].scopes}

\* The lock is taken, then the generations are read.
TaskStarts(t) ==
  /\ Ready(t)
  /\ LockFree(t)
  /\ task' = [task EXCEPT ![t].pc = IF IsOffer(t) THEN "clearing" ELSE "running",
                          ![t].ids = Covered(t),
                          ![t].todo = Covered(t),
                          ![t].moved = {}]
  /\ UNCHANGED <<business, row, flush, wakeup, bounds>>

\* "skipped": nothing is computed and nothing is completed.
TaskSkipped(t) ==
  /\ Ready(t)
  /\ ~LockFree(t)
  /\ task' = [task EXCEPT ![t] = NoTask]
  /\ UNCHANGED <<business, row, flush, wakeup, bounds>>

\* clear_candidates_for_offer, clear_pairs_for_offer: every pair of the
\* offer goes, which is right for the demandes it no longer reaches.
OfferClears(t) ==
  /\ task[t].pc = "clearing"
  /\ behind' = [d \in Demandes |->
       (behind[d] \ task[t].scopes)
         \cup {o \in Offers \cap task[t].scopes : d \in reach[o]}]
  /\ task' = [task EXCEPT ![t].pc = "running"]
  /\ UNCHANGED <<reach, owed, hint, missed, row, flush, wakeup, bounds>>

\* One demande of _compute_demande_chunks, from what is committed now.
Compute(t) ==
  /\ task[t].pc = "running"
  /\ \E d \in task[t].todo :
       /\ behind' = [behind EXCEPT ![d] = {}]
       /\ task' = [task EXCEPT ![t].todo = @ \ {d}]
  /\ UNCHANGED <<reach, owed, hint, missed, row, flush, wakeup, bounds>>

\* Mutant: the generation is not compared again.
NoRerun(t) == task[t].scopes \cap {}

\* current_gen > start_generation
Rerun(t) == task[t].scopes \cap task[t].moved

Complete(t) ==
  /\ task[t].pc = "running"
  /\ task[t].todo = {}
  /\ row' = [s \in Scopes |->
       IF s \in task[t].scopes
         THEN [pending |-> s \in Rerun(t), aged |-> FALSE,
               debounced |-> FALSE, claim |-> "none"]
         ELSE row[s]]
  /\ task' = [task EXCEPT ![t] =
       IF Rerun(t) = {} THEN NoTask
       ELSE Queued(Rerun(t), IF IsOffer(t) THEN task[t].ids ELSE {})]
  /\ flush' = NoLongerWaiting(task[t].scopes)
  /\ UNCHANGED <<business, wakeup, bounds>>

\* Time limit, retries used up, or the broker lost the message.
TaskDies(t) ==
  /\ Fault
  /\ task[t].pc # "off"
  /\ task' = [task EXCEPT ![t] = NoTask]
  /\ UNCHANGED <<business, row, flush, wakeup, writes>>

\* The worker is lost, or an error is retried: acks_late, the same message.
TaskRedelivered(t) ==
  /\ Fault
  /\ task[t].pc \notin {"off", "queued"}
  /\ task' = [task EXCEPT ![t] = Queued(@.scopes, @.args)]
  /\ UNCHANGED <<business, row, flush, wakeup, writes>>

-----------------------------------------------------------------------------
(* The clock and match_pairs_janitor_task.                                 *)

\* No flush is on its way: the debounce of a second, the flush and its
\* follow-up are over.
Quiet == adding = 0 /\ setting = 0 /\ \A f \in Flushers : FlushAt(f, "off")

DebounceEnds(d) ==
  /\ row[d].debounced
  /\ row' = [row EXCEPT ![d].debounced = FALSE]
  /\ flush' = NoLongerWaiting({d})
  /\ UNCHANGED <<business, task, wakeup, bounds>>

ClaimExpires(d) ==
  /\ row[d].claim = "live"
  /\ row' = [row EXCEPT ![d].claim = "expired"]
  /\ UNCHANGED <<business, task, flush, wakeup, bounds>>

\* updated_at falls behind the janitor's staleness threshold of an hour, by
\* when a debounce and a claim of the same age are long over.
RowAges(s) ==
  /\ Quiet
  /\ row[s].pending /\ ~row[s].aged
  /\ ~row[s].debounced /\ row[s].claim # "live"
  /\ row' = [row EXCEPT ![s].aged = TRUE]
  /\ UNCHANGED <<business, task, flush, wakeup, bounds>>

\* The two cache keys live for five minutes, longer than a flush takes.
LockKeyExpires ==
  /\ lockKey
  /\ lockKey' = FALSE
  /\ UNCHANGED <<business, row, task, flush, wanted, adding, setting, bounds>>

RequestedExpires ==
  /\ wanted
  /\ Quiet
  /\ wanted' = FALSE
  /\ UNCHANGED <<business, row, task, flush, lockKey, adding, setting, bounds>>

\* Mutant: a row that was ever claimed is left to its claimant.
StaleUnclaimed(s) == row[s].pending /\ row[s].aged /\ row[s].claim = "none"

\* fetch_stale_pending
StalePending(s) == row[s].pending /\ row[s].aged

\* The sweep reads, then requests again what it read, every 15 minutes: not
\* within seconds of a flush.  A row completed in between is requested all
\* the same, as is a demande found without stored pairs.  The session of the
\* sweep ends in a rollback, so reclaiming lapsed claims leaves no trace.
JanitorRequestsDemandes ==
  /\ Quiet
  /\ \E found \in SUBSET Demandes :
       LET again == {d \in Demandes : StalePending(d)} \cup found IN
         /\ again # {}
         /\ RecordDemandes(again)
         /\ found # {} => writes < MaxWrites
         /\ writes' = IF found = {} THEN writes ELSE writes + 1
  /\ UNCHANGED <<business, lockKey, wanted, setting, faults>>

\* _schedule_rebuild
JanitorRequestsDirect(s) ==
  /\ StalePending(s)
  /\ RecordDirect(s, {})
  /\ UNCHANGED <<business, flush, wakeup, bounds>>

-----------------------------------------------------------------------------
Business ==
  \/ \E d \in Demandes : WriteDemande(d)
  \/ \E s \in Direct : WriteDirect(s)

Faults ==
  \/ \E s \in Scopes : RequestLost(s)
  \/ ScheduleFails
  \/ \E f \in Flushers : FlushDies(f)
  \/ \E t \in Tasks : TaskDies(t) \/ TaskRedelivered(t)

Callback(s) == (s \in Demandes /\ EnqueueDemande(s)) \/ (s \in Direct /\ EnqueueDirect(s))
RowTime(s)  == RowAges(s) \/ (s \in Demandes /\ (DebounceEnds(s) \/ ClaimExpires(s)))
Schedule    == ScheduleFlush \/ FlushAlreadyScheduled
FlushStep(f) ==
  FlushStarts(f) \/ FlushSkipped(f) \/ FlushClaims(f) \/ FlushEnds(f)
TaskStep(t) ==
  \/ OfferLists(t) \/ TaskStarts(t) \/ TaskSkipped(t)
  \/ OfferClears(t) \/ Compute(t) \/ Complete(t)
Janitor == JanitorRequestsDemandes \/ \E s \in Direct : JanitorRequestsDirect(s)

Next ==
  \/ Business \/ Faults
  \/ \E s \in Scopes : Callback(s) \/ RowTime(s)
  \/ Schedule \/ SetRequested
  \/ \E f \in Flushers : FlushStep(f)
  \/ \E t \in Tasks : TaskStep(t)
  \/ LockKeyExpires \/ RequestedExpires
  \/ Janitor

Spec == Init /\ [][Next]_vars

\* Processes that started go on, workers take messages, time passes, keys
\* with a time to live expire and the scheduler starts the janitor.  Strong
\* fairness where a message needs one of the Tasks: the broker has no bound.
Fairness ==
  /\ \A s \in Scopes : SF_vars(Callback(s)) /\ WF_vars(RowAges(s))
  /\ \A d \in Demandes : WF_vars(DebounceEnds(d)) /\ WF_vars(ClaimExpires(d))
  /\ WF_vars(Schedule) /\ WF_vars(SetRequested)
  /\ \A f \in Flushers : WF_vars(FlushStep(f))
  /\ \A t \in Tasks : WF_vars(TaskStep(t))
  /\ WF_vars(LockKeyExpires)
  /\ WF_vars(JanitorRequestsDemandes)
  /\ \A s \in Direct : SF_vars(JanitorRequestsDirect(s))
FairSpec == Spec /\ Fairness

-----------------------------------------------------------------------------
(* Properties.                                                             *)

\* Some request for the change is recorded, about to be, or was lost whole.
Remembered(s) == owed[s] > 0 \/ row[s].pending \/ s \in missed

\* The generation protocol forgets nothing: while pairs do not reflect a
\* change of a demande or a client, its row is pending, whatever tasks,
\* reruns, skipped batches, lapsed claims and late completions overlap. (The
\* task of an offer lists its demandes before it takes the lock and reads the
\* generation, so it can miss those the offer came to match.)
NoForgottenChange ==
  \A d \in Demandes : \A s \in behind[d] \ Offers : Remembered(s)

\* Every recorded change reaches the pairs in the end: killed tasks and
\* flushes, lapsed claims and lost wake-ups are made good by the janitor.
Settles == <>[](\A d \in Demandes : behind[d] \subseteq missed \cup Offers)
=============================================================================
