------------------------------- MODULE MatchAll -------------------------------
(***************************************************************************)
(* Tenant-wide match counting: POST /matches/<stream>/all schedules one     *)
(* count task per stream (server/services/match_all_scheduler.py over       *)
(* core/data/tenant_work_lease.py), and the task walks the stream's rows in *)
(* id order, resuming from a checkpoint it holds a lease on                 *)
(* (server/api/tasks_match_cache.py over core/data/task_scan_checkpoint.py).*)
(*                                                                         *)
(* One agency.  A caller is one HTTP request at a time, a run is one Celery *)
(* task id.  Rows are named by their rank 1, 2, ... in id order.  Time is   *)
(* abstracted to whether lease_until has passed.                            *)
(***************************************************************************)
EXTENDS Naturals, FiniteSets

CONSTANTS
  Streams,      \* clients:all, demandes:all, listings:all, offers:all
  Callers,      \* requests in flight; also the name of a "pending-<uuid>" owner
  Runs,         \* Celery task ids
  None,         \* SQL NULL in a lease_owner column
  Rows,         \* the most active rows a stream has
  BatchSize,    \* MATCH_CACHE_DB_BATCH_SIZE
  MaxRowsPerRun,  \* MATCH_CACHE_MAX_ROWS_PER_RUN
  MaxInFlight,  \* fair_share_limit of the admission
  MaxFaults     \* bound on the failures of one behaviour

ASSUME NamesAssumption ==
  /\ None \notin Callers \cup Runs \cup Streams
  /\ Callers \cap Runs = {}
  /\ IsFiniteSet(Streams)
ASSUME LimitsAssumption ==
  /\ Rows \in Nat /\ BatchSize \in Nat \ {0}
  /\ MaxRowsPerRun \in Nat /\ MaxInFlight \in Nat \ {0} /\ MaxFaults \in Nat

VARIABLES
  size,     \* the number of active rows of each stream, which stays
  slot,     \* the tenant_work_lease row of each stream
  ckpt,     \* the task_scan_checkpoints row of each stream
  call,     \* each caller inside schedule_tenant_fair_task
  run,      \* each task
  counted,  \* history: rows counted since the checkpoint was last reset
  faults    \* failures so far

tables == <<slot, ckpt>>
vars == <<tables, call, run, counted, faults, size>>

Leases  == {"null", "live", "lapsed"}
Slot    == [in_flight: Nat, owner: Callers \cup Runs \cup {None}, lease: Leases]
Ckpt    == [last: 0 .. Rows, rows: Nat, owner: Runs \cup {None}, lease: Leases]
\* full: did the active rows reach the limit?  seen: the owner to look up, or
\* the task launched.  again: is this the second reservation?
Call    == [pc: {"idle", "count", "reserve", "lookup", "launch", "assign"},
            stream: Streams \cup {None}, full: BOOLEAN, again: BOOLEAN,
            seen: Callers \cup Runs \cup {None}]
\* forgotten: an id the result backend does not know, which Celery reports
\* as PENDING, whether it never existed or its result has expired.
Run     == [pc: {"forgotten", "queued", "total", "scan", "end", "release",
                 "unwind", "ended"},
            stream: Streams \cup {None}, last: 0 .. Rows, rows: Nat,
            begun: BOOLEAN, more: BOOLEAN]

FreeSlot == [in_flight |-> 0, owner |-> None, lease |-> "null"]

NewCkpt  == [last |-> 0, rows |-> 0, owner |-> None, lease |-> "null"]

TypeOK ==
  /\ size \in [Streams -> 0 .. Rows]
  /\ slot \in [Streams -> Slot]
  /\ ckpt \in [Streams -> Ckpt]
  /\ call \in [Callers -> Call]
  /\ run \in [Runs -> Run]
  /\ counted \in [Streams -> SUBSET (1 .. Rows)]
  /\ faults \in 0 .. MaxFaults

Idle   == [pc |-> "idle", stream |-> None, full |-> FALSE, again |-> FALSE,
           seen |-> None]
NoTask == [pc |-> "forgotten", stream |-> None, last |-> 0, rows |-> 0,
           begun |-> FALSE, more |-> FALSE]

Init ==
  /\ size \in [Streams -> 0 .. Rows]
  /\ slot = [s \in Streams |-> FreeSlot]
  /\ ckpt = [s \in Streams |-> NewCkpt]
  /\ call = [c \in Callers |-> Idle]
  /\ run = [r \in Runs |-> NoTask]
  /\ counted = [s \in Streams |-> {}]
  /\ faults = 0

Fault == faults < MaxFaults /\ faults' = faults + 1

-----------------------------------------------------------------------------
(* schedule_tenant_fair_task.                                              *)

ToCall(c, pc) == call' = [call EXCEPT ![c].pc = pc]
Leave(c) == call' = [call EXCEPT ![c] = Idle]

Requested(c, s) ==
  /\ call[c].pc = "idle"
  /\ call' = [call EXCEPT ![c] = [Idle EXCEPT !.pc = "count",
                                                !.stream = s]]
  /\ UNCHANGED <<tables, run, counted, faults, size>>

Live(s) == slot[s].in_flight > 0 /\ slot[s].lease = "live"

\* reserve_stream_slot, its first locked SELECT: rows that are not active yet
\* are neither counted nor locked.
CountActive(c) ==
  /\ call[c].pc = "count"
  /\ call' = [call EXCEPT ![c].pc = "reserve",
        ![c].full = Cardinality({s \in Streams : Live(s)}) >= MaxInFlight]
  /\ UNCHANGED <<tables, run, counted, faults, size>>

\* lease_owner and lease_until is not None and in_flight > 0: whether the
\* lease has lapsed is not asked.
Taken(s) ==
  slot[s].owner # None /\ slot[s].lease # "null" /\ slot[s].in_flight > 0

\* The locked SELECT of the stream's own row, and what follows it.
Reserve(c) ==
  LET s == call[c].stream IN
  /\ call[c].pc = "reserve"
  /\ \/ /\ Taken(s) /\ ~call[c].again
        /\ call' = [call EXCEPT ![c].pc = "lookup", ![c].seen = slot[s].owner]
        /\ UNCHANGED slot
     \/ Taken(s) /\ call[c].again /\ Leave(c) /\ UNCHANGED slot
     \/ ~Taken(s) /\ call[c].full /\ Leave(c) /\ UNCHANGED slot
     \/ /\ ~Taken(s) /\ ~call[c].full
        /\ slot' = [slot EXCEPT ![s] = [in_flight |-> @.in_flight + 1,
                                        owner |-> c, lease |-> "live"]]
        /\ ToCall(c, "launch")
  /\ UNCHANGED <<ckpt, run, counted, faults, size>>

\* Mutant: a finished task counts as active too.
AlwaysActive(o) == o # None

\* AsyncResult(owner).status in ACTIVE_STATES: an unknown id is PENDING.
Active(o) == o \in Callers \/ (o \in Runs /\ run[o].pc # "ended")

Releases(s, o) == slot' = IF slot[s].owner = o
                            THEN [slot EXCEPT ![s] = FreeSlot] ELSE slot

\* The owner is alive: coalesced.  It has ended: release its slot, try again.
Lookup(c) ==
  /\ call[c].pc = "lookup"
  /\ \/ Active(call[c].seen) /\ Leave(c) /\ UNCHANGED slot
     \/ /\ ~Active(call[c].seen)
        /\ Releases(call[c].stream, call[c].seen)
        /\ call' = [call EXCEPT ![c].pc = "count", ![c].again = TRUE]
  /\ UNCHANGED <<ckpt, run, counted, faults, size>>

\* A task id nobody refers to any more, standing for a new one.
Fresh(r) ==
  /\ run[r].pc \in {"forgotten", "ended"}
  /\ \A s \in Streams : slot[s].owner # r /\ ckpt[s].owner # r
  /\ \A c \in Callers : call[c].seen # r

\* launch_task(): the task is with the broker.  Which unused id it gets is of
\* no consequence.
Launch(c) ==
  /\ call[c].pc = "launch"
  /\ \E r \in Runs : Fresh(r)
  /\ LET r == CHOOSE new \in Runs : Fresh(new) IN
       /\ run' = [run EXCEPT ![r] =
                    [NoTask EXCEPT !.pc = "queued", !.stream = call[c].stream]]
       /\ call' = [call EXCEPT ![c].pc = "assign", ![c].seen = r]
  /\ UNCHANGED <<tables, counted, faults, size>>

\* The launch returns no task id: the provisional owner's slot is released.
LaunchUnnamed(c) ==
  /\ call[c].pc = "launch"
  /\ Fault
  /\ Releases(call[c].stream, c)
  /\ Leave(c)
  /\ UNCHANGED <<ckpt, run, counted, size>>

\* The broker refuses the task, or the server process dies: the slot stays
\* with the provisional owner.
CallerFails(c) ==
  /\ call[c].pc \in {"launch", "assign"}
  /\ Fault
  /\ Leave(c)
  /\ UNCHANGED <<tables, run, counted, size>>

AssignOwner(c) ==
  LET s == call[c].stream IN
  /\ call[c].pc = "assign"
  /\ slot' = IF slot[s].owner = c
               THEN [slot EXCEPT ![s].owner = call[c].seen, ![s].lease = "live"]
               ELSE slot
  /\ Leave(c)
  /\ UNCHANGED <<ckpt, run, counted, faults, size>>

-----------------------------------------------------------------------------
(* count_matches_all_<stream>_task.                                        *)

ToRun(r, pc) == run' = [run EXCEPT ![r].pc = pc]
Ends(r) == run' = [run EXCEPT ![r] = [NoTask EXCEPT !.pc = "ended"]]

Acquirable(s, r) == ckpt[s].owner \in {None, r} \/ ckpt[s].lease # "live"

\* _acquire_checkpoint; another run's lease is live: skipped.
Acquire(r) ==
  LET s == run[r].stream IN
  /\ run[r].pc = "queued"
  /\ IF Acquirable(s, r)
       THEN /\ ckpt' = [ckpt EXCEPT ![s].owner = r, ![s].lease = "live"]
            /\ run' = [run EXCEPT ![r].pc = "total", ![r].begun = FALSE,
                         ![r].last = ckpt[s].last, ![r].rows = ckpt[s].rows]
       ELSE ToRun(r, "release") /\ UNCHANGED ckpt
  /\ UNCHANGED <<slot, call, counted, faults, size>>

AllRows(s) == 1 .. size[s]
Counts(s, ids) == counted' = [counted EXCEPT ![s] = @ \cup ids]

\* _maybe_run_full_count_fast_path: a scan from the start counts everything in
\* one query when the stream is small enough for the configured threshold.
FastPath(r) ==
  /\ run[r].pc = "total"
  /\ \E small \in BOOLEAN :
       IF run[r].last = 0 /\ small
         THEN /\ Counts(run[r].stream, AllRows(run[r].stream))
              /\ run' = [run EXCEPT ![r].pc = "end", ![r].more = FALSE]
         ELSE ToRun(r, "scan") /\ UNCHANGED counted
  /\ UNCHANGED <<tables, call, faults, size>>

\* The ids of a batch are those after last_id, up to batch[-1].
BatchEnd(r) == IF run[r].last + BatchSize < size[run[r].stream]
                 THEN run[r].last + BatchSize ELSE size[run[r].stream]
NextBatch(r) == run[r].last + 1 .. BatchEnd(r)

\* Mutant: the checkpoint is written by whoever has scanned.
OwnsAlways(s, r) == run[r].stream = s

\* WHERE lease_owner = own id, in every later write of the checkpoint.
Owns(s, r) == ckpt[s].owner = r

\* _budget_exhausted: rows_processed came from the checkpoint.
OverRows(r) == run[r].rows >= MaxRowsPerRun

\* One batch: count it, save_progress and heartbeat_lease.
Batch(r) ==
  LET s == run[r].stream
      last == BatchEnd(r)
      rows == run[r].rows + (last - run[r].last) IN
  /\ run[r].pc = "scan"
  /\ NextBatch(r) # {}
  /\ ~OverRows(r)
  /\ Counts(s, NextBatch(r))
  /\ run' = [run EXCEPT ![r].last = last, ![r].rows = rows, ![r].begun = TRUE]
  /\ ckpt' = IF Owns(s, r)
               THEN [ckpt EXCEPT ![s].last = last, ![s].rows = rows,
                                 ![s].lease = "live"]
               ELSE ckpt
  /\ UNCHANGED <<slot, call, faults, size>>

\* Mutant: has_more is not set when the budget is exhausted.
LoopEndsAsDone(r) ==
  /\ run[r].pc = "scan"
  /\ NextBatch(r) = {} \/ run[r].begun
  /\ run' = [run EXCEPT ![r].pc = "end", ![r].more = FALSE]
  /\ UNCHANGED <<tables, call, counted, faults, size>>

\* The loop ends: no batch is left, or the row budget or the deadline is
\* reached (a run gets through one batch before its deadline).
LoopEnds(r) ==
  /\ run[r].pc = "scan"
  /\ IF NextBatch(r) = {}
       THEN run' = [run EXCEPT ![r].pc = "end", ![r].more = FALSE]
       ELSE /\ run[r].begun \/ OverRows(r)
            /\ run' = [run EXCEPT ![r].pc = "end", ![r].more = TRUE]
  /\ UNCHANGED <<tables, call, counted, faults, size>>

\* release_lease keeps last_id and rows_processed, reset_progress clears them.
ReleaseOrReset(r) ==
  LET s == run[r].stream IN
  /\ run[r].pc = "end"
  /\ ckpt' = IF ~Owns(s, r) THEN ckpt
             ELSE IF run[r].more
               THEN [ckpt EXCEPT ![s].owner = None, ![s].lease = "null"]
               ELSE [ckpt EXCEPT ![s] = NewCkpt]
  /\ counted' = IF Owns(s, r) /\ ~run[r].more
                  THEN [counted EXCEPT ![s] = {}] ELSE counted
  /\ ToRun(r, "release")
  /\ UNCHANGED <<slot, call, faults, size>>

\* finally: release_stream_slot.
ReleaseSlot(r) ==
  /\ run[r].pc = "release"
  /\ Releases(run[r].stream, r)
  /\ Ends(r)
  /\ UNCHANGED <<ckpt, call, counted, faults, size>>

\* The same after an exception: a connection error or the soft time limit puts
\* the task back in the queue under its id (autoretry_for), without its slot.
Unwind(r) ==
  /\ run[r].pc = "unwind"
  /\ Releases(run[r].stream, r)
  /\ ToRun(r, "queued") \/ Ends(r)
  /\ UNCHANGED <<ckpt, call, counted, faults, size>>

\* That transaction fails: logged, and the slot stays with an ended task.
ReleaseSlotFails(r) ==
  /\ run[r].pc = "release"
  /\ Fault
  /\ Ends(r)
  /\ UNCHANGED <<tables, call, counted, size>>

Working(r) == run[r].pc \in {"total", "scan", "end"}

\* An exception leaves the checkpoint's lease as it is.
RunRaises(r) ==
  /\ Working(r)
  /\ Fault
  /\ ToRun(r, "unwind")
  /\ UNCHANGED <<tables, call, counted, size>>

\* The hard time limit kills the worker; the result is FAILURE.
RunKilled(r) ==
  /\ Working(r)
  /\ Fault
  /\ Ends(r)
  /\ UNCHANGED <<tables, call, counted, size>>

\* The worker is lost: acks_late redelivers the message under the same id.
RunRedelivered(r) ==
  /\ Working(r)
  /\ Fault
  /\ ToRun(r, "queued")
  /\ UNCHANGED <<tables, call, counted, size>>

-----------------------------------------------------------------------------
(* The clock.                                                              *)

\* Between two heartbeats a batch may outlast the 120-second lease.
CheckpointLapses(s) ==
  /\ ckpt[s].lease = "live"
  /\ ckpt' = [ckpt EXCEPT ![s].lease = "lapsed"]
  /\ UNCHANGED <<slot, call, run, counted, faults, size>>

SlotLapses(s) ==
  /\ slot[s].lease = "live"
  /\ slot' = [slot EXCEPT ![s].lease = "lapsed"]
  /\ UNCHANGED <<ckpt, call, run, counted, faults, size>>

\* The result backend drops the result of a task nobody asked about for a day.
ResultExpires(r) ==
  /\ run[r].pc = "ended"
  /\ Fault
  /\ run' = [run EXCEPT ![r] = NoTask]
  /\ UNCHANGED <<tables, call, counted, size>>

Scheduling(c) ==
  CountActive(c) \/ Reserve(c) \/ Lookup(c) \/ Launch(c) \/ AssignOwner(c)

Task(r) ==
  \/ Acquire(r) \/ FastPath(r) \/ Batch(r) \/ LoopEnds(r)
  \/ ReleaseOrReset(r) \/ ReleaseSlot(r) \/ Unwind(r)

TaskFault(r) ==
  \/ ReleaseSlotFails(r) \/ RunRaises(r) \/ RunKilled(r) \/ RunRedelivered(r)
  \/ ResultExpires(r)

Next ==
  \/ \E c \in Callers, s \in Streams : Requested(c, s)
  \/ \E c \in Callers : Scheduling(c) \/ LaunchUnnamed(c) \/ CallerFails(c)
  \/ \E r \in Runs : Task(r) \/ TaskFault(r)
  \/ \E s \in Streams : CheckpointLapses(s) \/ SlotLapses(s)

Spec == Init /\ [][Next]_vars

\* Requests for every stream keep coming, a call that has started ends, a
\* queued task is taken up and ends, and the clock advances.
Fairness ==
  /\ \A c \in Callers : WF_vars(Scheduling(c))
  /\ \A c \in Callers, s \in Streams : SF_vars(Requested(c, s))
  /\ \A r \in Runs : WF_vars(Task(r))
  /\ \A s \in Streams : WF_vars(CheckpointLapses(s)) /\ WF_vars(SlotLapses(s))

FairSpec == Spec /\ Fairness

-----------------------------------------------------------------------------
(* Properties.                                                             *)

\* Whatever runs overlap after a lapsed lease, a crash or a redelivery, every
\* row up to the checkpoint has been counted since the scan began: a resumed
\* scan never skips a row, also when a run of an earlier scan is still going.
CheckpointCovers ==
  \A s \in Streams : 1 .. ckpt[s].last \subseteq counted[s]

\* The checkpoint is reset only when the scan has counted every row.
ResetStep(s) ==
  ckpt[s].last > 0 /\ ckpt[s]'.last = 0 => AllRows(s) \subseteq counted[s]
ScansComplete == [][\A s \in Streams : ResetStep(s)]_vars

\* The slot is held under an id the result backend knows nothing about.
Orphaned(s) ==
  \/ \E c \in Callers : slot[s].owner = c /\ call[c].pc \notin {"launch", "assign"}
  \/ \E r \in Runs : slot[s].owner = r /\ run[r].pc = "forgotten"

\* The scan has stopped at the row budget with rows left.  rows_processed is
\* carried over, so that no later run of it does a batch.
Spent(s) == ckpt[s].rows >= MaxRowsPerRun /\ ckpt[s].last < size[s]

\* While requests keep coming, scans of a stream keep being finished, in as
\* many runs as they need, unless the slot is left under an unknown id (the
\* coalescing then never ends) or the stream has more rows than the budget.
ScansFinish ==
  \A s \in Streams : []<>(counted[s] = {}) \/ <>[]Orphaned(s) \/ <>[]Spent(s)
=============================================================================
