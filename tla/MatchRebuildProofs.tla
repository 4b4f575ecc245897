-------------------------- MODULE MatchRebuildProofs --------------------------
(***************************************************************************)
(* The rebuild queue forgets no change of a demande or a client, for any    *)
(* number of scopes, tasks, flushes and faults.  NoForgottenChange is not   *)
(* inductive: that a completion may clear pending rests on what the task    *)
(* that completes has computed since it read the generations (Progress),    *)
(* and that on which demandes a change can concern (Local).                 *)
(***************************************************************************)
EXTENDS MatchRebuild, TLAPS

\* The task of an offer has no other scope.
Pure == \A t \in Tasks : IsOffer(t) => task[t].scopes \subseteq Offers

\* A demande's change concerns its own pairs, a client's its demandes.
Local ==
  \A d \in Demandes : \A s \in behind[d] :
    (s \in Demandes => s = d) /\ (s \in Clients => d \in reach[s])

\* What a started task has not computed yet of a change that was committed
\* and requested before it read the generations is still in its list.
Progress ==
  \A t \in Tasks : Started(t) =>
    \A s \in task[t].scopes : \A d \in Demandes :
      s \in behind[d] /\ s \notin Offers /\ s \notin task[t].moved
        => d \in task[t].todo \/ owed[s] > 0 \/ s \in missed

IInv == TypeOK /\ Pure /\ Local /\ Progress /\ NoForgottenChange

-----------------------------------------------------------------------------
\* What is sent, bumped or claimed has its type (Queued, Bumped, Claimed,
\* NoLongerWaiting and the rows a request leaves).
LEMMA HelperTypes ==
  ASSUME TypeOK
  PROVE  /\ \A S \in SUBSET Scopes, A \in SUBSET Demandes : Queued(S, A) \in Task
         /\ \A S \in SUBSET Scopes : Bumped(S) \in [Tasks -> Task]
         /\ \A S \in SUBSET Demandes : Claimed(S) \in [Scopes -> Row]
         /\ \A S : NoLongerWaiting(S) \in [Flushers -> Flush]
         /\ \A r \in Row : RequestedDemande(r) \in Row
         /\ RequestedDirect \in Row
         /\ NoTask \in Task /\ NoFlush \in Flush
<1>1. \A S \in SUBSET Scopes, A \in SUBSET Demandes : Queued(S, A) \in Task
  BY DEF Queued, NoTask, Task, TaskPCs
<1>2. \A S \in SUBSET Scopes : Bumped(S) \in [Tasks -> Task]
  BY DEF Bumped, TypeOK, Task
<1>3. \A S \in SUBSET Demandes : Claimed(S) \in [Scopes -> Row]
  BY DEF Claimed, TypeOK, Row, Claims
<1>4. \A S : NoLongerWaiting(S) \in [Flushers -> Flush]
  BY DEF NoLongerWaiting, TypeOK, Flush
<1>5. \A r \in Row : RequestedDemande(r) \in Row
  BY DEF RequestedDemande, Row, Claims
<1>6. RequestedDirect \in Row
  BY DEF RequestedDirect, Row, Claims
<1>7. NoTask \in Task /\ NoFlush \in Flush
  BY DEF NoTask, NoFlush, Task, Flush, TaskPCs, FlushPCs
<1>. QED BY <1>1, <1>2, <1>3, <1>4, <1>5, <1>6, <1>7

\* request_rebuild_batch and request_rebuild keep the types.
LEMMA RecordTypes ==
  ASSUME TypeOK
  PROVE  /\ \A D \in SUBSET Demandes : RecordDemandes(D) =>
              /\ row' \in [Scopes -> Row] /\ task' \in [Tasks -> Task]
              /\ flush' \in [Flushers -> Flush] /\ adding' \in Nat
         /\ \A s \in Direct, A \in SUBSET Demandes : RecordDirect(s, A) =>
              row' \in [Scopes -> Row] /\ task' \in [Tasks -> Task]
<1>1. ASSUME NEW D \in SUBSET Demandes, RecordDemandes(D)
      PROVE  /\ row' \in [Scopes -> Row] /\ task' \in [Tasks -> Task]
             /\ flush' \in [Flushers -> Flush] /\ adding' \in Nat
  <2>1. row' \in [Scopes -> Row]
    BY <1>1, HelperTypes DEF RecordDemandes, TypeOK
  <2>2. D \in SUBSET Scopes
    BY DEF Scopes
  <2>3. task' \in [Tasks -> Task] /\ flush' \in [Flushers -> Flush]
    BY <1>1, <2>2, HelperTypes DEF RecordDemandes
  <2>4. adding' \in Nat
    BY <1>1 DEF RecordDemandes, TypeOK
  <2>. QED BY <2>1, <2>3, <2>4
<1>2. ASSUME NEW s \in Direct, NEW A \in SUBSET Demandes, RecordDirect(s, A)
      PROVE  row' \in [Scopes -> Row] /\ task' \in [Tasks -> Task]
  <2>1. {s} \in SUBSET Scopes
    BY DEF Scopes
  <2>2. Queued({s}, A) \in Task /\ Bumped({s}) \in [Tasks -> Task]
    BY <2>1, HelperTypes
  <2>3. task' \in [Tasks -> Task]
    BY <1>2, <2>2 DEF RecordDirect
  <2>4. row' \in [Scopes -> Row]
    BY <1>2, HelperTypes DEF RecordDirect, TypeOK
  <2>. QED BY <2>3, <2>4
<1>. QED BY <1>1, <1>2

-----------------------------------------------------------------------------
\* Every step of the queue keeps the types.
LEMMA TypeStep ==
  ASSUME TypeOK, [Next]_vars
  PROVE  TypeOK'
<1>. USE DEF TypeOK
<1>1. CASE UNCHANGED vars
  BY <1>1 DEF vars, business, wakeup, bounds
<1>2. ASSUME NEW d \in Demandes, WriteDemande(d) PROVE TypeOK'
  BY <1>2 DEF WriteDemande, wakeup, Scopes
<1>3. ASSUME NEW s \in Direct, WriteDirect(s) PROVE TypeOK'
  BY <1>3 DEF WriteDirect, wakeup, Scopes
<1>4. ASSUME NEW s \in Scopes, RequestLost(s) PROVE TypeOK'
  BY <1>4 DEF RequestLost, Fault, wakeup
<1>5. CASE ScheduleFails \/ FlushAlreadyScheduled \/ SetRequested
  <2>1. adding' \in Nat /\ setting' \in Nat /\ faults' \in Nat /\ writes' \in Nat
    BY <1>5 DEF ScheduleFails, FlushAlreadyScheduled, SetRequested, Fault, bounds
  <2>2. lockKey' \in BOOLEAN /\ wanted' \in BOOLEAN
    BY <1>5 DEF ScheduleFails, FlushAlreadyScheduled, SetRequested
  <2>3. UNCHANGED <<business, row, task, flush>>
    BY <1>5 DEF ScheduleFails, FlushAlreadyScheduled, SetRequested
  <2>. QED BY <2>1, <2>2, <2>3 DEF business
<1>6. ASSUME NEW f \in Flushers, FlushDies(f) PROVE TypeOK'
  <2>1. row' \in [Scopes -> Row]
    BY <1>6, HelperTypes DEF FlushDies
  <2>2. flush' \in [Flushers -> Flush]
    BY <1>6, HelperTypes DEF FlushDies
  <2>3. lockKey' \in BOOLEAN /\ wanted' \in BOOLEAN
    BY <1>6 DEF FlushDies
  <2>4. adding' \in Nat /\ setting' \in Nat /\ faults' \in Nat /\ writes' \in Nat
    BY <1>6 DEF FlushDies, Fault
  <2>5. UNCHANGED <<business, task>>
    BY <1>6 DEF FlushDies
  <2>. QED BY <2>1, <2>2, <2>3, <2>4, <2>5 DEF business
<1>7. ASSUME NEW t \in Tasks, TaskDies(t) \/ TaskSkipped(t) PROVE TypeOK'
  <2>1. task' \in [Tasks -> Task]
    BY <1>7, HelperTypes DEF TaskDies, TaskSkipped
  <2>. QED BY <1>7, <2>1 DEF TaskDies, TaskSkipped, Fault, business, wakeup, bounds
<1>8. ASSUME NEW t \in Tasks, TaskRedelivered(t) PROVE TypeOK'
  <2>1. task' \in [Tasks -> Task]
    BY <1>8, HelperTypes DEF TaskRedelivered, Task
  <2>. QED BY <1>8, <2>1 DEF TaskRedelivered, Fault, business, wakeup
<1>9. ASSUME NEW d \in Demandes, EnqueueDemande(d) PROVE TypeOK'
  <2>1. owed' \in [Scopes -> Nat]
    BY <1>9 DEF EnqueueDemande, Scopes
  <2>. QED BY <1>9, <2>1, RecordTypes DEF EnqueueDemande, bounds
<1>10. ASSUME NEW s \in Direct, EnqueueDirect(s) PROVE TypeOK'
  <2>1. owed' \in [Scopes -> Nat] /\ hint' \in [Direct -> SUBSET Demandes]
    BY <1>10 DEF EnqueueDirect, Scopes
  <2>2. row' \in [Scopes -> Row] /\ task' \in [Tasks -> Task]
    BY <1>10, RecordTypes DEF EnqueueDirect
  <2>. QED BY <1>10, <2>1, <2>2 DEF EnqueueDirect, bounds, wakeup
<1>11. ASSUME NEW s \in Scopes, RowTime(s) PROVE TypeOK'
  <2>1. flush' \in [Flushers -> Flush]
    BY <1>11, HelperTypes DEF RowTime, RowAges, DebounceEnds, ClaimExpires
  <2>2. row' \in [Scopes -> Row]
    <3>1. CASE RowAges(s)
      BY <3>1 DEF RowAges, Row
    <3>2. CASE DebounceEnds(s)
      BY <3>2 DEF DebounceEnds, Row
    <3>3. CASE ClaimExpires(s)
      BY <3>3 DEF ClaimExpires, Row, Claims
    <3>. QED BY <1>11, <3>1, <3>2, <3>3 DEF RowTime
  <2>. QED BY <1>11, <2>1, <2>2
           DEF RowTime, RowAges, DebounceEnds, ClaimExpires, business, wakeup, bounds
<1>12. CASE ScheduleFlush
  <2>1. flush' \in [Flushers -> Flush]
    BY <1>12 DEF ScheduleFlush, Flush, FlushPCs
  <2>. QED BY <1>12, <2>1 DEF ScheduleFlush, business, bounds
<1>13. ASSUME NEW f \in Flushers, FlushStarts(f) \/ FlushSkipped(f) \/ FlushEnds(f)
       PROVE  TypeOK'
  <2>1. flush' \in [Flushers -> Flush]
    BY <1>13, HelperTypes DEF FlushStarts, FlushSkipped, FlushEnds, Flush, FlushPCs
  <2>2. lockKey' \in BOOLEAN /\ wanted' \in BOOLEAN
    BY <1>13 DEF FlushStarts, FlushSkipped, FlushEnds, wakeup
  <2>3. adding' \in Nat /\ setting' \in Nat
    BY <1>13 DEF FlushStarts, FlushSkipped, FlushEnds, wakeup
  <2>4. UNCHANGED <<business, row, task, bounds>>
    BY <1>13 DEF FlushStarts, FlushSkipped, FlushEnds
  <2>. QED BY <2>1, <2>2, <2>3, <2>4 DEF business, bounds
<1>14. ASSUME NEW f \in Flushers, FlushClaims(f) PROVE TypeOK'
  <2>1. flush' \in [Flushers -> Flush]
    BY <1>14 DEF FlushClaims, Flush, FlushPCs
  <2>2. PICK S \in SUBSET Demandes :
          /\ row' = Claimed(S)
          /\ IF S = {} THEN task' = task
             ELSE \E t \in Tasks : FreeTask(t) /\ task' = [task EXCEPT ![t] = Queued(S, {})]
    BY <1>14 DEF FlushClaims
  <2>3. Queued(S, {}) \in Task /\ Claimed(S) \in [Scopes -> Row]
    BY HelperTypes DEF Scopes
  <2>4. row' \in [Scopes -> Row] /\ task' \in [Tasks -> Task]
    BY <2>2, <2>3
  <2>. QED BY <1>14, <2>1, <2>4 DEF FlushClaims, business, bounds
<1>15. ASSUME NEW t \in Tasks, OfferLists(t) \/ TaskStarts(t) PROVE TypeOK'
  <2>1. task' \in [Tasks -> Task]
    <3>1. ASSUME OfferLists(t) PROVE task' \in [Tasks -> Task]
      <4>1. PICK o \in Offers :
              task' = [task EXCEPT ![t].pc = "listed", ![t].ids = task[t].args \cup reach[o]]
        BY <3>1 DEF OfferLists
      <4>2. task[t] \in Task /\ task[t].args \cup reach[o] \in SUBSET Demandes
        BY DEF Task, Direct
      <4>3. [task[t] EXCEPT !.pc = "listed", !.ids = task[t].args \cup reach[o]] \in Task
        BY <4>2 DEF Task, TaskPCs
      <4>. QED BY <4>1, <4>3
    <3>2. Covered(t) \in SUBSET Demandes
      BY DEF Covered, Task, Direct
    <3>3. ASSUME TaskStarts(t) PROVE task' \in [Tasks -> Task]
      <4>1. PICK pc \in {"clearing", "running"} :
              task' = [task EXCEPT ![t].pc = pc, ![t].ids = Covered(t),
                                   ![t].todo = Covered(t), ![t].moved = {}]
        BY <3>3 DEF TaskStarts
      <4>2. [task[t] EXCEPT !.pc = pc, !.ids = Covered(t), !.todo = Covered(t),
                            !.moved = {}] \in Task
        BY <3>2 DEF Task, TaskPCs
      <4>. QED BY <4>1, <4>2
    <3>. QED BY <1>15, <3>1, <3>3
  <2>. QED BY <1>15, <2>1 DEF OfferLists, TaskStarts, business, wakeup, bounds
<1>16. ASSUME NEW t \in Tasks, OfferClears(t) \/ Compute(t) PROVE TypeOK'
  <2>1. task' \in [Tasks -> Task]
    <3>1. ASSUME OfferClears(t) PROVE task' \in [Tasks -> Task]
      BY <3>1 DEF OfferClears, Task, TaskPCs
    <3>2. ASSUME Compute(t) PROVE task' \in [Tasks -> Task]
      <4>1. PICK d \in task[t].todo : task' = [task EXCEPT ![t].todo = @ \ {d}]
        BY <3>2 DEF Compute
      <4>2. [task[t] EXCEPT !.todo = @ \ {d}] \in Task
        BY DEF Task
      <4>. QED BY <4>1, <4>2
    <3>. QED BY <1>16, <3>1, <3>2
  <2>2. behind' \in [Demandes -> SUBSET Scopes]
    BY <1>16 DEF OfferClears, Compute, Scopes, Direct
  <2>. QED BY <1>16, <2>1, <2>2 DEF OfferClears, Compute, wakeup, bounds
<1>17. ASSUME NEW t \in Tasks, Complete(t) PROVE TypeOK'
  <2>1. Rerun(t) \in SUBSET Scopes /\ task[t].ids \in SUBSET Demandes
    BY DEF Rerun, Task
  <2>2. task' \in [Tasks -> Task]
    BY <1>17, <2>1, HelperTypes DEF Complete
  <2>3. row' \in [Scopes -> Row]
    BY <1>17 DEF Complete, Row, Claims
  <2>4. flush' \in [Flushers -> Flush]
    BY <1>17, HelperTypes DEF Complete
  <2>. QED BY <1>17, <2>2, <2>3, <2>4 DEF Complete, business, wakeup, bounds
<1>18. CASE LockKeyExpires \/ RequestedExpires
  BY <1>18 DEF LockKeyExpires, RequestedExpires, business, bounds
<1>19. CASE JanitorRequestsDemandes
  <2>1. PICK D \in SUBSET Demandes : RecordDemandes(D)
    <3>1. PICK found \in SUBSET Demandes :
            RecordDemandes({d \in Demandes : StalePending(d)} \cup found)
      BY <1>19 DEF JanitorRequestsDemandes
    <3>. QED BY <3>1
  <2>2. writes' \in Nat
    BY <1>19 DEF JanitorRequestsDemandes
  <2>. QED BY <1>19, <2>1, <2>2, RecordTypes DEF JanitorRequestsDemandes, business
<1>20. ASSUME NEW s \in Direct, JanitorRequestsDirect(s) PROVE TypeOK'
  <2>1. RecordDirect(s, {}) /\ {} \in SUBSET Demandes
    BY <1>20 DEF JanitorRequestsDirect
  <2>2. row' \in [Scopes -> Row] /\ task' \in [Tasks -> Task]
    BY <2>1, RecordTypes
  <2>. QED BY <1>20, <2>2 DEF JanitorRequestsDirect, business, wakeup, bounds
<1>. QED
  BY <1>1, <1>2, <1>3, <1>4, <1>5, <1>6, <1>7, <1>8, <1>9, <1>10, <1>11, <1>12,
     <1>13, <1>14, <1>15, <1>16, <1>17, <1>18, <1>19, <1>20
  DEF Next, Business, Faults, Callback, Schedule, FlushStep, TaskStep, Janitor

-----------------------------------------------------------------------------
(* What every step but TaskStarts and Complete keeps.                      *)

\* Clients keep their demandes.
ReachKept == \A c \in Clients : reach'[c] = reach[c]

\* What is added to the pairs' backlog is owed a callback.
BacklogOwed ==
  \A d \in Demandes : \A s \in behind'[d] :
    \/ s \in Offers \/ s \in behind[d]
    \/ owed'[s] > 0 /\ (s \in Demandes => s = d)
                    /\ (s \in Clients => d \in reach[s])

\* What is no longer owed is pending and seen by every started task.
OwedHandedOver ==
  \A s \in Scopes :
    owed[s] > 0 \/ s \in missed =>
      \/ owed'[s] > 0 \/ s \in missed'
      \/ /\ row'[s].pending
         /\ \A t \in Tasks : task'[t].pc \in {"clearing", "running"}
                               => s \in task'[t].moved

PendingKept == \A s \in Scopes : row[s].pending => row'[s].pending

\* No task starts, and what one strikes off its list has been computed.
StartedKept ==
  \A t \in Tasks :
    task'[t].pc \in {"clearing", "running"} =>
      /\ Started(t)
      /\ task'[t].scopes = task[t].scopes
      /\ task[t].moved \subseteq task'[t].moved
      /\ \A d \in task[t].todo \ task'[t].todo : behind'[d] \subseteq Offers

ScopesKept ==
  \A t \in Tasks :
    \/ task'[t].scopes = task[t].scopes
    \/ task'[t].scopes \subseteq Demandes \cup Clients
    \/ task'[t].scopes \subseteq Offers

\* A step that starts no task and clears no request keeps the invariant.
LEMMA Keeps ==
  ASSUME IInv, TypeOK', ReachKept, BacklogOwed, OwedHandedOver, PendingKept,
         StartedKept, ScopesKept
  PROVE  IInv'
<1>. USE DEF ReachKept, BacklogOwed, OwedHandedOver, PendingKept, StartedKept,
            ScopesKept
<1>1. Pure'
  BY ScopesAssumption DEF IInv, Pure, IsOffer, Direct
<1>2. Local'
  BY ScopesAssumption DEF IInv, Local, Direct
<1>3. Progress'
  <2>. SUFFICES ASSUME NEW t \in Tasks, task'[t].pc \in {"clearing", "running"},
                       NEW s \in task'[t].scopes, NEW d \in Demandes,
                       s \in behind'[d], s \notin Offers, s \notin task'[t].moved
                PROVE  d \in task'[t].todo \/ owed'[s] > 0 \/ s \in missed'
    BY DEF Progress, Started
  <2>1. s \in Scopes
    BY DEF IInv, TypeOK, Task
  <2>2. CASE s \in behind[d]
    <3>1. d \in task[t].todo \/ owed[s] > 0 \/ s \in missed
      BY <2>2 DEF IInv, Progress, Started
    <3>2. CASE d \in task[t].todo
      BY <3>2
    <3>3. CASE owed[s] > 0 \/ s \in missed
      BY <2>1, <3>3
    <3>. QED BY <3>1, <3>2, <3>3
  <2>. QED BY <2>2
<1>4. NoForgottenChange'
  <2>. SUFFICES ASSUME NEW d \in Demandes, NEW s \in behind'[d], s \notin Offers
                PROVE  owed'[s] > 0 \/ row'[s].pending \/ s \in missed'
    BY DEF NoForgottenChange, Remembered
  <2>1. s \in Scopes
    BY DEF TypeOK
  <2>2. CASE s \in behind[d]
    BY <2>1, <2>2 DEF IInv, NoForgottenChange, Remembered
  <2>. QED BY <2>2
<1>. QED BY <1>1, <1>2, <1>3, <1>4 DEF IInv

\* A task that starts lists every demande its scopes concern.
LEMMA StartKeeps ==
  ASSUME IInv, TypeOK', NEW t \in Tasks, TaskStarts(t)
  PROVE  IInv'
<1>1. /\ UNCHANGED <<business, row>>
      /\ task'[t].scopes = task[t].scopes /\ task'[t].todo = Covered(t)
      /\ \A u \in Tasks : u # t => task'[u] = task[u]
      /\ \A u \in Tasks : task'[u].scopes = task[u].scopes
  BY DEF TaskStarts, IInv, TypeOK, Task
<1>2. Pure' /\ Local' /\ NoForgottenChange'
  BY <1>1 DEF IInv, Pure, Local, NoForgottenChange, Remembered, IsOffer, business
<1>3. Progress'
  <2>. SUFFICES ASSUME NEW u \in Tasks, task'[u].pc \in {"clearing", "running"},
                       NEW s \in task'[u].scopes, NEW d \in Demandes,
                       s \in behind'[d], s \notin Offers, s \notin task'[u].moved
                PROVE  d \in task'[u].todo \/ owed'[s] > 0 \/ s \in missed'
    BY DEF Progress, Started
  <2>1. CASE u # t
    BY <1>1, <2>1 DEF IInv, Progress, Started, business
  <2>2. CASE u = t
    <3>1. s \in task[t].scopes /\ s \in behind[d] /\ s \in Demandes \cup Clients
      BY <1>1, <2>2 DEF business, IInv, TypeOK, Task, Scopes, Direct
    <3>2. ~IsOffer(t)
      BY <3>1 DEF IInv, Pure
    <3>3. (s \in Demandes => s = d) /\ (s \in Clients => d \in reach[s])
      BY <3>1 DEF IInv, Local
    <3>4. d \in Covered(t)
      BY <3>1, <3>2, <3>3 DEF Covered
    <3>. QED BY <1>1, <2>2, <3>4
  <2>. QED BY <2>1, <2>2
<1>. QED BY <1>2, <1>3 DEF IInv

\* A task completes a scope whose generation has not moved only when no pairs
\* are behind it any more, other than for a change still owed its callback.
LEMMA CompleteKeeps ==
  ASSUME IInv, TypeOK', NEW t \in Tasks, Complete(t)
  PROVE  IInv'
<1>1. UNCHANGED business
  BY DEF Complete
<1>2. /\ \A u \in Tasks : u # t => task'[u] = task[u]
      /\ task'[t].pc \in {"off", "queued"}
      /\ task'[t].scopes \subseteq task[t].scopes
  BY DEF Complete, IInv, TypeOK, Task, Queued, NoTask, Rerun
<1>3. Pure' /\ Local'
  BY <1>1, <1>2, ScopesAssumption DEF IInv, Pure, Local, IsOffer, business
<1>4. Progress'
  BY <1>1, <1>2 DEF IInv, Progress, Started, business
<1>5. NoForgottenChange'
  <2>. SUFFICES ASSUME NEW d \in Demandes, NEW s \in behind[d], s \notin Offers
                PROVE  owed[s] > 0 \/ row'[s].pending \/ s \in missed
    BY <1>1 DEF NoForgottenChange, Remembered, business
  <2>1. s \in Scopes
    BY DEF IInv, TypeOK
  <2>2. owed[s] > 0 \/ row[s].pending \/ s \in missed
    BY DEF IInv, NoForgottenChange, Remembered
  <2>3. CASE s \in task[t].scopes /\ s \notin task[t].moved
    BY <2>3 DEF IInv, Progress, Started, Complete
  <2>4. CASE s \in task[t].scopes /\ s \in task[t].moved
    BY <2>1, <2>4 DEF Complete, Rerun
  <2>5. CASE s \notin task[t].scopes
    BY <2>1, <2>2, <2>5 DEF Complete
  <2>. QED BY <2>3, <2>4, <2>5
<1>. QED BY <1>3, <1>4, <1>5 DEF IInv

-----------------------------------------------------------------------------
\* Steps that leave the business state alone owe and add nothing new.
LEMMA BusinessKept ==
  ASSUME UNCHANGED business
  PROVE  ReachKept /\ BacklogOwed /\ OwedHandedOver
BY DEF business, ReachKept, BacklogOwed, OwedHandedOver

\* Steps that leave the tasks alone.
LEMMA TasksKept ==
  ASSUME UNCHANGED task
  PROVE  StartedKept /\ ScopesKept
BY DEF StartedKept, ScopesKept, Started

\* The queue starts in step.
LEMMA InvInit ==
  ASSUME Init
  PROVE  IInv
<1>1. TypeOK
  <2>1. row \in [Scopes -> Row] /\ task \in [Tasks -> Task] /\ flush \in [Flushers -> Flush]
    BY DEF Init, Row, Claims, Task, TaskPCs, Flush, FlushPCs, NoTask, NoFlush
  <2>. QED BY <2>1 DEF Init, TypeOK
<1>2. Pure /\ Progress
  BY DEF Init, Pure, Progress, IsOffer, NoTask, Started
<1>3. Local /\ NoForgottenChange
  BY DEF Init, Local, NoForgottenChange
<1>. QED BY <1>1, <1>2, <1>3 DEF IInv

\* A business transaction owes the callback of what it changes.
LEMMA WriteKeeps ==
  ASSUME IInv, TypeOK',
         \/ \E d \in Demandes : WriteDemande(d)
         \/ \E s \in Direct : WriteDirect(s)
  PROVE  IInv'
<1>1. UNCHANGED <<missed, row, task>>
  BY DEF WriteDemande, WriteDirect
<1>2. StartedKept /\ ScopesKept /\ PendingKept
  BY <1>1, TasksKept DEF PendingKept
<1>3. ASSUME NEW d \in Demandes, WriteDemande(d)
      PROVE  ReachKept /\ BacklogOwed /\ OwedHandedOver
  <2>1. d \in Scopes /\ owed[d] \in Nat /\ owed'[d] = owed[d] + 1
    BY <1>3 DEF WriteDemande, IInv, TypeOK, Scopes
  <2>2. \A s \in Scopes : s # d => owed'[s] = owed[s]
    BY <1>3 DEF WriteDemande, IInv, TypeOK
  <2>3. ReachKept /\ OwedHandedOver
    BY <1>1, <1>3, <2>1, <2>2 DEF WriteDemande, ReachKept, OwedHandedOver
  <2>4. BacklogOwed
    BY <1>3, <2>1, ScopesAssumption DEF WriteDemande, BacklogOwed, IInv, TypeOK, Direct
  <2>. QED BY <2>3, <2>4
<1>4. ASSUME NEW s \in Direct, WriteDirect(s)
      PROVE  ReachKept /\ BacklogOwed /\ OwedHandedOver
  <2>1. s \in Scopes /\ owed[s] \in Nat /\ owed'[s] = owed[s] + 1
    BY <1>4 DEF WriteDirect, IInv, TypeOK, Scopes
  <2>2. \A u \in Scopes : u # s => owed'[u] = owed[u]
    BY <1>4 DEF WriteDirect, IInv, TypeOK
  <2>3. PICK S \in SUBSET Demandes :
          /\ s \in Clients => S = reach[s]
          /\ reach' = [reach EXCEPT ![s] = S]
          /\ behind' = [d \in Demandes |->
               IF d \in reach[s] \cup S THEN behind[d] \cup {s} ELSE behind[d]]
    BY <1>4 DEF WriteDirect
  <2>4. ReachKept
    BY <2>3 DEF ReachKept, IInv, TypeOK, Direct
  <2>5. OwedHandedOver
    BY <1>1, <2>1, <2>2 DEF OwedHandedOver
  <2>6. BacklogOwed
    BY <2>1, <2>3, ScopesAssumption DEF BacklogOwed, Direct
  <2>. QED BY <2>4, <2>5, <2>6
<1>. QED BY <1>2, <1>3, <1>4, Keeps

\* A request lost whole is counted as missed.
LEMMA LostKeeps ==
  ASSUME IInv, TypeOK', NEW s \in Scopes, RequestLost(s)
  PROVE  IInv'
<1>1. UNCHANGED <<reach, behind, row, task>>
  BY DEF RequestLost
<1>2. StartedKept /\ ScopesKept /\ PendingKept
  BY <1>1, TasksKept DEF PendingKept
<1>3. ReachKept /\ BacklogOwed
  BY <1>1 DEF ReachKept, BacklogOwed
<1>4. OwedHandedOver
  BY DEF RequestLost, OwedHandedOver, IInv, TypeOK
<1>. QED BY <1>2, <1>3, <1>4, Keeps

\* Tasks that end, return to the broker or list their demandes start nothing.
LEMMA ParkKeeps ==
  ASSUME IInv, TypeOK', NEW t \in Tasks,
         TaskDies(t) \/ TaskSkipped(t) \/ TaskRedelivered(t) \/ OfferLists(t)
  PROVE  IInv'
<1>1. UNCHANGED <<business, row>>
  BY DEF TaskDies, TaskSkipped, TaskRedelivered, OfferLists
<1>2. /\ \A u \in Tasks : u # t => task'[u] = task[u]
      /\ task'[t].pc \in {"off", "queued", "listed"}
      /\ task'[t].scopes \in {task[t].scopes, {}}
  <2>1. CASE TaskDies(t) \/ TaskSkipped(t)
    BY <2>1 DEF TaskDies, TaskSkipped, NoTask, IInv, TypeOK
  <2>2. CASE TaskRedelivered(t)
    BY <2>2 DEF TaskRedelivered, Queued, NoTask, IInv, TypeOK
  <2>3. CASE OfferLists(t)
    BY <2>3 DEF OfferLists, IInv, TypeOK, Task
  <2>. QED BY <2>1, <2>2, <2>3
<1>3. StartedKept /\ ScopesKept
  BY <1>2 DEF StartedKept, ScopesKept, Started
<1>4. PendingKept
  BY <1>1 DEF PendingKept
<1>. QED BY <1>1, <1>3, <1>4, BusinessKept, Keeps

\* The clear and the computation of a task.
LEMMA WorkKeeps ==
  ASSUME IInv, TypeOK', NEW t \in Tasks, OfferClears(t) \/ Compute(t)
  PROVE  IInv'
<1>1. UNCHANGED <<reach, owed, missed, row>>
  BY DEF OfferClears, Compute
<1>2. /\ \A u \in Tasks : u # t => task'[u] = task[u]
      /\ Started(t)
      /\ task'[t].scopes = task[t].scopes /\ task'[t].moved = task[t].moved
      /\ \A d \in task[t].todo \ task'[t].todo : behind'[d] = {}
  <2>1. ASSUME OfferClears(t) PROVE task'[t].todo = task[t].todo
    BY <2>1 DEF OfferClears, IInv, TypeOK, Task
  <2>2. ASSUME Compute(t) PROVE \A d \in task[t].todo \ task'[t].todo : behind'[d] = {}
    BY <2>2 DEF Compute, IInv, TypeOK, Task
  <2>3. Started(t) /\ \A u \in Tasks : u # t => task'[u] = task[u]
    BY DEF OfferClears, Compute, Started, IInv, TypeOK
  <2>4. task'[t].scopes = task[t].scopes /\ task'[t].moved = task[t].moved
    BY DEF OfferClears, Compute, IInv, TypeOK, Task
  <2>. QED BY <2>1, <2>2, <2>3, <2>4
<1>3. StartedKept /\ ScopesKept
  BY <1>2 DEF StartedKept, ScopesKept, Started
<1>4. BacklogOwed
  BY DEF OfferClears, Compute, BacklogOwed, IInv, TypeOK
<1>5. ReachKept /\ OwedHandedOver /\ PendingKept
  BY <1>1 DEF ReachKept, OwedHandedOver, PendingKept
<1>. QED BY <1>3, <1>4, <1>5, Keeps

\* What is recorded is pending, and every started task sees it.
LEMMA RecordKeeps ==
  ASSUME IInv, TypeOK'
  PROVE  /\ \A d \in Demandes : EnqueueDemande(d) => IInv'
         /\ \A s \in Direct : EnqueueDirect(s) => IInv'
         /\ JanitorRequestsDemandes => IInv'
         /\ \A s \in Direct : JanitorRequestsDirect(s) => IInv'
<1>1. ASSUME NEW D \in SUBSET Demandes, RecordDemandes(D)
      PROVE  /\ StartedKept /\ ScopesKept /\ PendingKept
             /\ \A s \in D : row'[s].pending
             /\ \A s \in D, t \in Tasks :
                  task'[t].pc \in {"clearing", "running"} => s \in task'[t].moved
  <2>1. \A t \in Tasks :
          /\ task'[t].pc = task[t].pc /\ task'[t].scopes = task[t].scopes
          /\ task'[t].todo = task[t].todo /\ task[t].moved \subseteq task'[t].moved
          /\ Started(t) => D \subseteq task'[t].moved
    BY <1>1 DEF RecordDemandes, Bumped, Started, IInv, TypeOK, Task
  <2>2. StartedKept /\ ScopesKept
    BY <2>1 DEF StartedKept, ScopesKept, Started
  <2>3. PendingKept /\ \A s \in D : row'[s].pending
    BY <1>1 DEF RecordDemandes, RequestedDemande, PendingKept, Scopes
  <2>. QED BY <2>1, <2>2, <2>3 DEF Started
<1>2. ASSUME NEW s \in Direct, NEW A \in SUBSET Demandes, RecordDirect(s, A)
      PROVE  /\ StartedKept /\ ScopesKept /\ PendingKept
             /\ row'[s].pending
             /\ \A t \in Tasks :
                  task'[t].pc \in {"clearing", "running"} => s \in task'[t].moved
  <2>1. PICK n \in Tasks : task' = [Bumped({s}) EXCEPT ![n] = Queued({s}, A)]
    BY <1>2 DEF RecordDirect
  <2>2. task'[n].pc = "queued" /\ task'[n].scopes = {s}
    BY <2>1 DEF Bumped, Queued, NoTask
  <2>3. \A t \in Tasks : t # n =>
          /\ task'[t].pc = task[t].pc /\ task'[t].scopes = task[t].scopes
          /\ task'[t].todo = task[t].todo /\ task[t].moved \subseteq task'[t].moved
          /\ Started(t) => s \in task'[t].moved
    BY <2>1 DEF Bumped, Started, IInv, TypeOK, Task
  <2>4. StartedKept
    BY <2>2, <2>3 DEF StartedKept, Started
  <2>5. ScopesKept
    BY <2>2, <2>3 DEF ScopesKept, Direct
  <2>6. PendingKept /\ row'[s].pending
    BY <1>2 DEF RecordDirect, RequestedDirect, PendingKept, IInv, TypeOK, Scopes
  <2>. QED BY <2>2, <2>3, <2>4, <2>5, <2>6 DEF Started
<1>3. ASSUME NEW d \in Demandes, EnqueueDemande(d) PROVE IInv'
  <2>1. ReachKept /\ BacklogOwed
    BY <1>3 DEF EnqueueDemande, ReachKept, BacklogOwed
  <2>2. {d} \in SUBSET Demandes /\ RecordDemandes({d})
    BY <1>3 DEF EnqueueDemande
  <2>3. OwedHandedOver
    BY <1>1, <1>3, <2>2 DEF EnqueueDemande, OwedHandedOver, IInv, TypeOK
  <2>. QED BY <1>1, <2>1, <2>2, <2>3, Keeps
<1>4. ASSUME NEW s \in Direct, EnqueueDirect(s) PROVE IInv'
  <2>1. ReachKept /\ BacklogOwed
    BY <1>4 DEF EnqueueDirect, ReachKept, BacklogOwed
  <2>2. hint[s] \in SUBSET Demandes /\ RecordDirect(s, hint[s])
    BY <1>4 DEF EnqueueDirect, IInv, TypeOK
  <2>3. OwedHandedOver
    BY <1>2, <1>4, <2>2 DEF EnqueueDirect, OwedHandedOver, IInv, TypeOK
  <2>. QED BY <1>2, <2>1, <2>2, <2>3, Keeps
<1>5. ASSUME JanitorRequestsDemandes PROVE IInv'
  <2>1. PICK found \in SUBSET Demandes :
          RecordDemandes({d \in Demandes : StalePending(d)} \cup found)
    BY <1>5 DEF JanitorRequestsDemandes
  <2>2. StartedKept /\ ScopesKept /\ PendingKept
    BY <1>1, <2>1
  <2>. QED BY <1>5, <2>2, BusinessKept, Keeps DEF JanitorRequestsDemandes
<1>6. ASSUME NEW s \in Direct, JanitorRequestsDirect(s) PROVE IInv'
  <2>1. RecordDirect(s, {}) /\ {} \in SUBSET Demandes
    BY <1>6 DEF JanitorRequestsDirect
  <2>2. StartedKept /\ ScopesKept /\ PendingKept
    BY <1>2, <2>1
  <2>. QED BY <1>6, <2>2, BusinessKept, Keeps DEF JanitorRequestsDirect
<1>. QED BY <1>3, <1>4, <1>5, <1>6

\* The wake-up of the flush, the clock and dying flushes touch no request.
LEMMA WakeupKeeps ==
  ASSUME IInv, TypeOK', UNCHANGED <<business, task>>, PendingKept
  PROVE  IInv'
BY BusinessKept, TasksKept, Keeps

\* Claiming rows leaves them pending; the batch it sends is of demandes.
LEMMA ClaimKeeps ==
  ASSUME IInv, TypeOK', NEW f \in Flushers, FlushClaims(f)
  PROVE  IInv'
<1>1. PICK S \in SUBSET Demandes :
        /\ row' = Claimed(S)
        /\ IF S = {} THEN task' = task
           ELSE \E t \in Tasks : FreeTask(t) /\ task' = [task EXCEPT ![t] = Queued(S, {})]
  BY DEF FlushClaims
<1>2. PendingKept
  BY <1>1 DEF PendingKept, Claimed, IInv, TypeOK, Row
<1>3. StartedKept /\ ScopesKept
  <2>1. CASE task' = task
    BY <2>1, TasksKept
  <2>2. ASSUME NEW t \in Tasks, task' = [task EXCEPT ![t] = Queued(S, {})]
        PROVE  StartedKept /\ ScopesKept
    <3>1. /\ task'[t].pc = "queued" /\ task'[t].scopes = S
          /\ \A u \in Tasks : u # t => task'[u] = task[u]
      BY <2>2 DEF Queued, NoTask, IInv, TypeOK
    <3>. QED BY <3>1 DEF StartedKept, ScopesKept, Started
  <2>. QED BY <1>1, <2>1, <2>2
<1>. QED BY <1>2, <1>3, BusinessKept, Keeps DEF FlushClaims

-----------------------------------------------------------------------------
\* Every step of the queue keeps the invariant.
LEMMA InvStep ==
  ASSUME IInv, [Next]_vars
  PROVE  IInv'
<1>0. TypeOK'
  BY TypeStep DEF IInv
<1>1. CASE UNCHANGED vars
  BY <1>0, <1>1, WakeupKeeps DEF vars, PendingKept
<1>2. CASE Business
  BY <1>0, <1>2, WriteKeeps DEF Business
<1>3. ASSUME NEW s \in Scopes, RequestLost(s) PROVE IInv'
  BY <1>0, <1>3, LostKeeps
<1>4. CASE ScheduleFails \/ Schedule \/ SetRequested \/ LockKeyExpires \/ RequestedExpires
  BY <1>0, <1>4, WakeupKeeps
  DEF ScheduleFails, Schedule, ScheduleFlush, FlushAlreadyScheduled, SetRequested,
      LockKeyExpires, RequestedExpires, PendingKept
<1>5. ASSUME NEW f \in Flushers, FlushDies(f) PROVE IInv'
  <2>1. PICK S \in SUBSET Demandes : row' = Claimed(S)
    BY <1>5 DEF FlushDies
  <2>2. PendingKept
    BY <2>1 DEF PendingKept, Claimed, IInv, TypeOK, Row
  <2>. QED BY <1>0, <1>5, <2>2, WakeupKeeps DEF FlushDies
<1>6. ASSUME NEW f \in Flushers, FlushStep(f) PROVE IInv'
  <2>1. CASE FlushClaims(f)
    BY <1>0, <2>1, ClaimKeeps
  <2>2. CASE FlushStarts(f) \/ FlushSkipped(f) \/ FlushEnds(f)
    BY <1>0, <2>2, WakeupKeeps DEF FlushStarts, FlushSkipped, FlushEnds, PendingKept
  <2>. QED BY <1>6, <2>1, <2>2 DEF FlushStep
<1>7. ASSUME NEW s \in Scopes, RowTime(s) PROVE IInv'
  <2>1. PendingKept
    BY <1>7 DEF RowTime, RowAges, DebounceEnds, ClaimExpires, PendingKept, IInv, TypeOK, Row
  <2>. QED BY <1>0, <1>7, <2>1, WakeupKeeps DEF RowTime, RowAges, DebounceEnds, ClaimExpires
<1>8. ASSUME NEW t \in Tasks, TaskDies(t) \/ TaskRedelivered(t) PROVE IInv'
  BY <1>0, <1>8, ParkKeeps
<1>9. ASSUME NEW t \in Tasks, TaskStep(t) PROVE IInv'
  BY <1>0, <1>9, ParkKeeps, StartKeeps, WorkKeeps, CompleteKeeps DEF TaskStep
<1>10. ASSUME NEW s \in Scopes, Callback(s) PROVE IInv'
  BY <1>0, <1>10, RecordKeeps DEF Callback
<1>11. CASE Janitor
  BY <1>0, <1>11, RecordKeeps DEF Janitor
<1>. QED
  BY <1>1, <1>2, <1>3, <1>4, <1>5, <1>6, <1>7, <1>8, <1>9, <1>10, <1>11
  DEF Next, Faults

\* Rows, tasks, flush messages and the wake-up keys keep their types in every
\* behaviour of the queue, for any number of scopes, messages and faults.
THEOREM QueueTypes == Spec => []TypeOK
<1>1. Init => TypeOK
  BY InvInit DEF IInv
<1>2. TypeOK /\ [Next]_vars => TypeOK'
  BY TypeStep
<1>. QED BY <1>1, <1>2, PTL DEF Spec

\* The generation protocol of match_rebuild_state forgets no change of a
\* demande or a client: in every behaviour, with any number of scopes, tasks,
\* flushes, writes and faults, a change that some pairs do not reflect is
\* pending, about to be requested, or was lost whole before it was recorded.
THEOREM NothingForgotten == Spec => []NoForgottenChange
<1>1. Init => IInv
  BY InvInit
<1>2. IInv /\ [Next]_vars => IInv'
  BY InvStep
<1>3. IInv => NoForgottenChange
  BY DEF IInv
<1>. QED BY <1>1, <1>2, <1>3, PTL DEF Spec
=============================================================================
