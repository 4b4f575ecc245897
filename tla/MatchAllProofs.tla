---------------------------- MODULE MatchAllProofs ----------------------------
(***************************************************************************)
(* Proofs about MatchAll, for any streams, callers, task ids and limits.   *)
(***************************************************************************)
EXTENDS MatchAll, TLAPS

Queued(r) == run[r].pc \notin {"forgotten", "ended"}

\* A call or a task that is under way knows its stream.
Routed ==
  /\ \A c \in Callers : call[c].pc # "idle" => call[c].stream \in Streams
  /\ \A r \in Runs : Queued(r) => run[r].stream \in Streams

\* The run that holds the checkpoint's lease scans that stream, has every row
\* behind it counted, and every row when it is about to report the end.
HolderCovers ==
  \A s \in Streams, r \in Runs :
    ckpt[s].owner = r /\ Queued(r) =>
      /\ run[r].stream = s
      /\ Working(r) => 1 .. run[r].last \subseteq counted[s]
      /\ run[r].pc = "end" /\ run[r].more = FALSE => AllRows(s) \subseteq counted[s]

ScanInv == TypeOK /\ Routed /\ CheckpointCovers /\ HolderCovers

LEMMA ScanInit == Init => ScanInv
<1> USE NamesAssumption, LimitsAssumption
<1>1. ASSUME Init PROVE TypeOK
  BY <1>1 DEF Init, TypeOK, Slot, Ckpt, Call, Run, FreeSlot, NewCkpt, Idle,
     NoTask, Leases
<1>2. ASSUME Init PROVE Routed /\ CheckpointCovers /\ HolderCovers
  BY <1>2 DEF Init, Routed, CheckpointCovers, HolderCovers, Queued, NewCkpt,
     Idle, NoTask
<1>3. QED
  BY <1>1, <1>2 DEF ScanInv

\* What is left to show of a step of one caller, or of one task.
LEMMA OneCall ==
  ASSUME ScanInv, NEW c \in Callers, NEW f \in Call,
         call' = [call EXCEPT ![c] = f],
         f.pc # "idle" => f.stream \in Streams
  PROVE  /\ call' \in [Callers -> Call]
         /\ \A d \in Callers : call[d]'.pc # "idle" => call[d]'.stream \in Streams
BY DEF ScanInv, TypeOK, Routed

LEMMA OneRun ==
  ASSUME ScanInv, NEW r \in Runs, NEW f \in Run,
         run' = [run EXCEPT ![r] = f],
         f.pc \notin {"forgotten", "ended"} => f.stream \in Streams
  PROVE  /\ run' \in [Runs -> Run]
         /\ \A q \in Runs : Queued(q)' =>
              run[q]'.stream \in Streams
BY DEF ScanInv, TypeOK, Routed, Queued

\* The steps of schedule_tenant_fair_task leave the checkpoints alone.
LEMMA CallStep ==
  ASSUME ScanInv, NEW c \in Callers,
         \/ \E s \in Streams : Requested(c, s)
         \/ Scheduling(c) \/ LaunchUnnamed(c) \/ CallerFails(c)
  PROVE  TypeOK' /\ Routed' /\ UNCHANGED <<ckpt, counted, size>>
<1> USE NamesAssumption DEF tables, Queued
<1>i. /\ call[c] \in Call
      /\ call[c].pc # "idle" => call[c].stream \in Streams
  BY DEF ScanInv, TypeOK, Routed
<1>u. ASSUME UNCHANGED <<ckpt, counted, size>>, faults' \in 0 .. MaxFaults,
             slot' \in [Streams -> Slot], run' \in [Runs -> Run],
             \A q \in Runs : Queued(q)' =>
               run[q]'.stream \in Streams,
             NEW f \in Call, call' = [call EXCEPT ![c] = f],
             f.pc # "idle" => f.stream \in Streams
      PROVE  TypeOK' /\ Routed'
  BY <1>u, OneCall DEF ScanInv, TypeOK, Routed
<1>n. /\ faults \in 0 .. MaxFaults /\ slot \in [Streams -> Slot]
      /\ run \in [Runs -> Run]
      /\ \A q \in Runs : Queued(q) =>
           run[q].stream \in Streams
  BY DEF ScanInv, TypeOK, Routed
<1>0. Idle \in Call
  BY DEF Idle, Call
<1>1. CASE \E s \in Streams : Requested(c, s)
  <2>1. PICK s \in Streams : Requested(c, s)
    BY <1>1
  <2> DEFINE f == [Idle EXCEPT !.pc = "count", !.stream = s]
  <2>2. f \in Call /\ f.stream \in Streams
    BY DEF Idle, Call
  <2>3. call' = [call EXCEPT ![c] = f] /\ UNCHANGED <<slot, ckpt, run, counted, faults, size>>
    BY <2>1 DEF Requested
  <2> HIDE DEF f
  <2>4. QED
    BY <1>u, <1>n, <2>2, <2>3
<1>2. CASE CountActive(c)
  <2> DEFINE full == Cardinality({s \in Streams : Live(s)}) >= MaxInFlight
             f == [call[c] EXCEPT !.pc = "reserve", !.full = full]
  <2>1. full \in BOOLEAN
    BY SMT
  <2>2. call' = [call EXCEPT ![c].pc = "reserve", ![c].full = full]
    BY <1>2 DEF CountActive
  <2> HIDE DEF full
  <2>3. f \in Call /\ f.stream \in Streams
    BY <1>i, <1>2, <2>1 DEF Call, CountActive
  <2>4. call' = [call EXCEPT ![c] = f] /\ UNCHANGED <<slot, ckpt, run, counted, faults, size>>
    BY <1>2, <2>2 DEF CountActive, ScanInv, TypeOK
  <2> HIDE DEF f
  <2>5. QED
    BY <1>u, <1>n, <2>3, <2>4
<1>3. CASE Reserve(c)
  <2> DEFINE s == call[c].stream
             f == [call[c] EXCEPT !.pc = "lookup", !.seen = slot[s].owner]
             g == [call[c] EXCEPT !.pc = "launch"]
  <2>1. s \in Streams /\ UNCHANGED <<ckpt, run, counted, faults, size>>
    BY <1>i, <1>3 DEF Reserve
  <2>2. CASE UNCHANGED slot /\ Leave(c)
    BY <1>u, <1>n, <1>0, <2>1, <2>2 DEF Leave, Idle
  <2>3. CASE /\ UNCHANGED slot
             /\ call' = [call EXCEPT ![c].pc = "lookup", ![c].seen = slot[s].owner]
    <3>1. f \in Call /\ f.stream \in Streams
      BY <1>i, <1>n, <2>1 DEF Call, Slot
    <3>2. call' = [call EXCEPT ![c] = f]
      BY <2>3 DEF ScanInv, TypeOK
    <3> HIDE DEF f
    <3>3. QED
      BY <1>u, <1>n, <2>1, <2>3, <3>1, <3>2
  <2>4. CASE /\ slot' = [slot EXCEPT ![s] = [in_flight |-> @.in_flight + 1,
                                             owner |-> c, lease |-> "live"]]
             /\ ToCall(c, "launch")
    <3>1. g \in Call /\ g.stream \in Streams
      BY <1>i, <2>1 DEF Call
    <3>2. call' = [call EXCEPT ![c] = g]
      BY <2>4 DEF ScanInv, TypeOK, ToCall
    <3>3. slot' \in [Streams -> Slot]
      BY <1>n, <2>1, <2>4 DEF Slot, Leases
    <3> HIDE DEF g
    <3>4. QED
      BY <1>u, <1>n, <2>1, <3>1, <3>2, <3>3
  <2>5. QED
    BY <1>3, <2>2, <2>3, <2>4 DEF Reserve
<1>4. CASE Lookup(c)
  <2> DEFINE f == [call[c] EXCEPT !.pc = "count", !.again = TRUE]
  <2>1. /\ call[c].stream \in Streams
        /\ UNCHANGED <<ckpt, run, counted, faults, size>>
    BY <1>i, <1>4 DEF Lookup
  <2>2. slot' \in [Streams -> Slot]
    BY <1>n, <1>4, <2>1 DEF Lookup, Releases, FreeSlot, Slot, Leases
  <2>3. CASE Leave(c)
    BY <1>u, <1>n, <1>0, <2>1, <2>2, <2>3 DEF Leave, Idle
  <2>4. CASE call' = [call EXCEPT ![c].pc = "count", ![c].again = TRUE]
    <3>1. f \in Call /\ f.stream \in Streams
      BY <1>i, <2>1 DEF Call
    <3>2. call' = [call EXCEPT ![c] = f]
      BY <2>4 DEF ScanInv, TypeOK
    <3> HIDE DEF f
    <3>3. QED
      BY <1>u, <1>n, <2>1, <2>2, <3>1, <3>2
  <2>5. QED
    BY <1>4, <2>3, <2>4 DEF Lookup
<1>5. CASE Launch(c)
  <2> DEFINE r == CHOOSE new \in Runs : Fresh(new)
             f == [call[c] EXCEPT !.pc = "assign", !.seen = r]
             t == [NoTask EXCEPT !.pc = "queued", !.stream = call[c].stream]
  <2>1. r \in Runs
    BY <1>5 DEF Launch
  <2>2. /\ run' = [run EXCEPT ![r] = t]
        /\ call' = [call EXCEPT ![c].pc = "assign", ![c].seen = r]
        /\ UNCHANGED <<slot, ckpt, counted, faults, size>>
        /\ call[c].stream \in Streams
    BY <1>i, <1>5 DEF Launch
  <2> HIDE DEF r
  <2>a. f \in Call /\ f.stream \in Streams
    BY <1>i, <2>1, <2>2 DEF Call
  <2>b. t \in Run /\ t.stream \in Streams
    <3>1. call[c].stream \in Streams /\ 0 \in 0 .. Rows
      BY <2>2, LimitsAssumption
    <3>2. QED
      BY <3>1 DEF NoTask, Run
  <2>4. call' = [call EXCEPT ![c] = f]
    BY <2>2 DEF ScanInv, TypeOK
  <2> HIDE DEF f, t
  <2>5. QED
    BY <1>u, <1>n, <2>1, <2>2, <2>a, <2>b, <2>4, OneRun
<1>6. CASE AssignOwner(c)
  <2>1. /\ call[c].stream \in Streams /\ Leave(c)
        /\ UNCHANGED <<ckpt, run, counted, faults, size>>
    BY <1>i, <1>6 DEF AssignOwner
  <2>2. slot' \in [Streams -> Slot]
    BY <1>i, <1>n, <1>6, <2>1 DEF AssignOwner, Slot, Call, Leases
  <2>3. QED
    BY <1>u, <1>n, <1>0, <2>1, <2>2 DEF Leave, Idle
<1>7. CASE CallerFails(c)
  <2>1. faults' \in 0 .. MaxFaults
    BY <1>n, <1>7, LimitsAssumption DEF CallerFails, Fault
  <2>2. QED
    BY <1>u, <1>n, <1>0, <1>7, <2>1 DEF CallerFails, Leave, Idle
<1>8. CASE LaunchUnnamed(c)
  <2>1. faults' \in 0 .. MaxFaults /\ UNCHANGED <<ckpt, run, counted, size>>
    BY <1>n, <1>8, LimitsAssumption DEF LaunchUnnamed, Fault
  <2>2. slot' \in [Streams -> Slot]
    BY <1>i, <1>n, <1>8 DEF LaunchUnnamed, Releases, FreeSlot, Slot, Leases
  <2>3. QED
    BY <1>u, <1>n, <1>0, <1>8, <2>1, <2>2 DEF LaunchUnnamed, Leave, Idle
<1>9. QED
  <2>1. TypeOK' /\ Routed'
    BY <1>1, <1>2, <1>3, <1>4, <1>5, <1>6, <1>7, <1>8 DEF Scheduling
  <2>2. UNCHANGED <<ckpt, counted, size>>
    BY DEF Scheduling, Requested, CountActive, Reserve, Lookup, Launch,
       AssignOwner, LaunchUnnamed, CallerFails
  <2>3. QED
    BY <2>1, <2>2

\* Counting more rows, or writing a checkpoint that is covered, is harmless.
LEMMA CoversGrow ==
  ASSUME ScanInv, NEW t \in Streams, NEW ids \in SUBSET (1 .. Rows),
         counted' = [counted EXCEPT ![t] = @ \cup ids]
  PROVE  /\ counted' \in [Streams -> SUBSET (1 .. Rows)]
         /\ \A s \in Streams : counted[s] \subseteq counted[s]'
         /\ ids \subseteq counted[t]'
BY DEF ScanInv, TypeOK

\* What a step of one task must show: the checkpoints stay covered, other
\* runs gain nothing, and if this one holds a checkpoint it has covered it.
StepCovers(r, f) ==
  /\ run' = [run EXCEPT ![r] = f]
  /\ f.pc \notin {"forgotten", "ended"} => f.stream \in Streams
  /\ UNCHANGED size /\ ckpt' \in [Streams -> Ckpt]
  /\ counted' \in [Streams -> SUBSET (1 .. Rows)]
  /\ \A s \in Streams : 1 .. ckpt[s]'.last \subseteq counted[s]'
  /\ \A s \in Streams, q \in Runs \ {r} : ckpt[s]'.owner = q =>
       ckpt[s].owner = q /\ counted[s] \subseteq counted[s]'
  /\ \A s \in Streams :
       ckpt[s]'.owner = r /\ f.pc \notin {"forgotten", "ended"} =>
         /\ f.stream = s
         /\ f.pc \in {"total", "scan", "end"} => 1 .. f.last \subseteq counted[s]'
         /\ f.pc = "end" /\ f.more = FALSE => AllRows(s)' \subseteq counted[s]'

LEMMA RunStep ==
  ASSUME ScanInv, NEW r \in Runs, NEW f \in Run, StepCovers(r, f)
  PROVE  /\ run' \in [Runs -> Run]
         /\ \A q \in Runs : Queued(q)' => run[q]'.stream \in Streams
         /\ CheckpointCovers' /\ HolderCovers'
<1> USE DEF ScanInv, StepCovers
<1>1. CheckpointCovers'
  BY DEF CheckpointCovers
<1>2. ASSUME NEW s \in Streams, NEW q \in Runs, (ckpt[s].owner = q /\ Queued(q))'
      PROVE  /\ run[q]'.stream = s
             /\ Working(q)' => 1 .. run[q]'.last \subseteq counted[s]'
             /\ run[q]'.pc = "end" /\ run[q]'.more = FALSE => AllRows(s)' \subseteq counted[s]'
  <2>1. CASE q # r
    <3>1. run[q]' = run[q] /\ ckpt[s].owner = q /\ counted[s] \subseteq counted[s]'
      BY <1>2, <2>1 DEF TypeOK
    <3>2. /\ run[q].stream = s
          /\ Working(q)' => 1 .. run[q].last \subseteq counted[s]
          /\ run[q].pc = "end" /\ run[q].more = FALSE => AllRows(s) \subseteq counted[s]
      BY <1>2, <3>1 DEF HolderCovers, Queued, Working
    <3>3. AllRows(s)' = AllRows(s)
      BY DEF AllRows
    <3>4. QED
      BY <1>2, <3>1, <3>2, <3>3
  <2>2. CASE q = r
    <3>1. run[q]' = f
      BY <2>2 DEF TypeOK
    <3>2. QED
      BY <1>2, <2>2, <3>1 DEF Queued, Working
  <2>3. QED
    BY <2>1, <2>2
<1>3. QED
  BY <1>1, <1>2, OneRun DEF HolderCovers

\* The same, for a step that also leaves the callers alone.
LEMMA TaskStep ==
  ASSUME ScanInv, NEW r \in Runs, NEW f \in Run, StepCovers(r, f),
         UNCHANGED call, slot' \in [Streams -> Slot], faults' \in 0 .. MaxFaults
  PROVE  ScanInv'
<1>1. /\ run' \in [Runs -> Run]
      /\ \A q \in Runs : Queued(q)' => run[q]'.stream \in Streams
      /\ CheckpointCovers' /\ HolderCovers'
  BY RunStep
<1>2. TypeOK'
  BY <1>1 DEF ScanInv, TypeOK, StepCovers
<1>3. Routed'
  BY <1>1 DEF ScanInv, Routed
<1>4. QED
  BY <1>1, <1>2, <1>3 DEF ScanInv

\* The facts about one task and its stream that every step of it starts from.
LEMMA TaskFacts ==
  ASSUME ScanInv, NEW r \in Runs, Queued(r)
  PROVE  /\ run[r] \in Run /\ run[r].stream \in Streams
         /\ run[r].last \in 0 .. Rows /\ run[r].rows \in Nat
         /\ ckpt[run[r].stream] \in Ckpt
         /\ ckpt \in [Streams -> Ckpt] /\ run \in [Runs -> Run]
         /\ slot \in [Streams -> Slot] /\ call \in [Callers -> Call]
         /\ counted \in [Streams -> SUBSET (1 .. Rows)]
         /\ faults \in 0 .. MaxFaults /\ size[run[r].stream] \in 0 .. Rows
         /\ \A s \in Streams : 1 .. ckpt[s].last \subseteq counted[s]
         /\ \A s \in Streams : ckpt[s].owner = r =>
              /\ run[r].stream = s
              /\ Working(r) => 1 .. run[r].last \subseteq counted[s]
              /\ run[r].pc = "end" /\ run[r].more = FALSE => AllRows(s) \subseteq counted[s]
<1>1. run[r] \in Run /\ run[r].stream \in Streams
  BY DEF ScanInv, TypeOK, Routed
<1>2. QED
  BY <1>1 DEF ScanInv, TypeOK, Run, CheckpointCovers, HolderCovers

\* A task goes on without touching the checkpoint or the counts.
LEMMA QuietStep ==
  ASSUME ScanInv, NEW r \in Runs, Queued(r), NEW f \in Run,
         run' = [run EXCEPT ![r] = f],
         UNCHANGED <<ckpt, counted, call, size>>,
         slot' \in [Streams -> Slot], faults' \in 0 .. MaxFaults,
         f.pc \notin {"forgotten", "ended"} => f.stream = run[r].stream,
         f.pc \in {"total", "scan", "end"} => Working(r) /\ f.last = run[r].last,
         f.pc = "end" /\ f.more = FALSE => size[run[r].stream] <= run[r].last
  PROVE  ScanInv'
<1>1. /\ ckpt \in [Streams -> Ckpt] /\ call \in [Callers -> Call]
      /\ counted \in [Streams -> SUBSET (1 .. Rows)]
      /\ \A s \in Streams : 1 .. ckpt[s].last \subseteq counted[s]
      /\ run[r].stream \in Streams
  BY TaskFacts
<1>2. \A s \in Streams : ckpt[s].owner = r =>
        /\ run[r].stream = s
        /\ Working(r) => 1 .. run[r].last \subseteq counted[s]
  BY TaskFacts
<1>3. \A s \in Streams :
        ckpt[s].owner = r /\ f.pc \notin {"forgotten", "ended"} =>
          /\ f.stream = s
          /\ f.pc \in {"total", "scan", "end"} => 1 .. f.last \subseteq counted[s]
          /\ f.pc = "end" /\ f.more = FALSE => AllRows(s) \subseteq counted[s]
  <2>1. size[run[r].stream] \in 0 .. Rows /\ run[r].last \in 0 .. Rows
    BY TaskFacts
  <2>2. f.pc = "end" /\ f.more = FALSE =>
          AllRows(run[r].stream) \subseteq 1 .. run[r].last
    BY <2>1, LimitsAssumption DEF AllRows
  <2>3. QED
    BY <1>1, <1>2, <2>2
<1>4. StepCovers(r, f)
  BY <1>1, <1>3 DEF StepCovers, AllRows
<1>5. QED
  BY <1>4, TaskStep

LEMMA AcquireStep ==
  ASSUME ScanInv, NEW r \in Runs, Acquire(r)
  PROVE  ScanInv'
<1>1. /\ run[r].pc = "queued" /\ Queued(r)
      /\ UNCHANGED <<slot, call, counted, faults, size>>
  BY DEF Acquire, Queued
<1>s. PICK s \in Streams : s = run[r].stream
  BY <1>1, TaskFacts
<1>2. /\ run[r] \in Run /\ ckpt[s] \in Ckpt
      /\ ckpt \in [Streams -> Ckpt] /\ run \in [Runs -> Run]
      /\ slot \in [Streams -> Slot] /\ call \in [Callers -> Call]
      /\ faults \in 0 .. MaxFaults
      /\ counted \in [Streams -> SUBSET (1 .. Rows)]
      /\ \A t \in Streams : 1 .. ckpt[t].last \subseteq counted[t]
      /\ \A t \in Streams : ckpt[t].owner = r => t = s
  BY <1>1, <1>s, TaskFacts
<1>3. CASE Acquirable(s, r)
  <2>1. PICK f \in Run : f = [run[r] EXCEPT !.pc = "total", !.begun = FALSE,
                               !.last = ckpt[s].last, !.rows = ckpt[s].rows]
    BY <1>2 DEF Run, Ckpt
  <2>2. f.stream = s /\ f.pc = "total" /\ f.last = ckpt[s].last
    BY <1>2, <1>s, <2>1 DEF Run
  <2>3. /\ ckpt' = [ckpt EXCEPT ![s].owner = r, ![s].lease = "live"]
        /\ run' = [run EXCEPT ![r] = f]
    BY <1>2, <1>3, <1>s, <2>1 DEF Acquire
  <2>4. /\ ckpt' \in [Streams -> Ckpt]
        /\ \A t \in Streams : /\ ckpt[t]'.last = ckpt[t].last
                               /\ ckpt[t]'.owner = IF t = s THEN r ELSE ckpt[t].owner
    BY <1>2, <2>3 DEF Ckpt, Leases
  <2>5. StepCovers(r, f)
    BY <1>1, <1>2, <2>2, <2>3, <2>4 DEF StepCovers
  <2>6. UNCHANGED call /\ slot' \in [Streams -> Slot] /\ faults' \in 0 .. MaxFaults
    BY <1>1, <1>2
  <2>7. QED
    BY <2>5, <2>6, TaskStep
<1>4. CASE ~Acquirable(s, r)
  <2>1. PICK f \in Run : f = [run[r] EXCEPT !.pc = "release"]
    BY <1>2 DEF Run
  <2>2. run' = [run EXCEPT ![r] = f] /\ UNCHANGED ckpt
    BY <1>2, <1>4, <1>s, <2>1 DEF Acquire, ToRun
  <2>3. f.pc = "release" /\ f.stream = run[r].stream
    BY <1>2, <2>1 DEF Run
  <2>4. QED
    BY <1>1, <1>2, <2>2, <2>3, QuietStep
<1>5. QED
  BY <1>3, <1>4

LEMMA FastPathStep ==
  ASSUME ScanInv, NEW r \in Runs, FastPath(r)
  PROVE  ScanInv'
<1>1. /\ run[r].pc = "total" /\ Queued(r) /\ Working(r)
      /\ UNCHANGED <<slot, ckpt, call, faults, size>>
  BY DEF FastPath, Queued, Working, tables
<1>s. PICK s \in Streams : s = run[r].stream
  BY <1>1, TaskFacts
<1>2. /\ run[r] \in Run /\ ckpt[s] \in Ckpt
      /\ ckpt \in [Streams -> Ckpt] /\ run \in [Runs -> Run]
      /\ slot \in [Streams -> Slot] /\ call \in [Callers -> Call]
      /\ faults \in 0 .. MaxFaults
      /\ counted \in [Streams -> SUBSET (1 .. Rows)]
      /\ \A t \in Streams : 1 .. ckpt[t].last \subseteq counted[t]
      /\ \A t \in Streams : ckpt[t].owner = r => t = s
  BY <1>1, <1>s, TaskFacts
<1>3. CASE /\ run' = [run EXCEPT ![r].pc = "end", ![r].more = FALSE]
           /\ Counts(s, AllRows(s)) /\ run[r].last = 0
  <2>1. PICK f \in Run : f = [run[r] EXCEPT !.pc = "end", !.more = FALSE]
    BY <1>2 DEF Run
  <2>2. f.stream = s /\ f.pc = "end" /\ 1 .. f.last = {}
    BY <1>2, <1>3, <1>s, <2>1 DEF Run
  <2>3. run' = [run EXCEPT ![r] = f]
    BY <1>2, <1>3, <2>1
  <2>4. /\ counted' \in [Streams -> SUBSET (1 .. Rows)]
        /\ \A t \in Streams : counted[t] \subseteq counted[t]'
        /\ AllRows(s)' \subseteq counted[s]'
    <3>1. AllRows(s) \in SUBSET (1 .. Rows)
      <4>1. size[s] \in 0 .. Rows
        BY <1>1, <1>s, TaskFacts
      <4>2. QED
        BY <4>1, LimitsAssumption DEF AllRows
    <3>2. AllRows(s)' = AllRows(s)
      BY <1>1 DEF AllRows
    <3>3. QED
      BY <1>3, <3>1, <3>2, CoversGrow DEF Counts
  <2>5. StepCovers(r, f)
    BY <1>1, <1>2, <2>2, <2>3, <2>4 DEF StepCovers
  <2>6. UNCHANGED call /\ slot' \in [Streams -> Slot] /\ faults' \in 0 .. MaxFaults
    BY <1>1, <1>2
  <2>7. QED
    BY <2>5, <2>6, TaskStep
<1>4. CASE run' = [run EXCEPT ![r].pc = "scan"] /\ UNCHANGED counted
  <2>1. PICK f \in Run : f = [run[r] EXCEPT !.pc = "scan"]
    BY <1>2 DEF Run
  <2>2. /\ f.pc = "scan" /\ f.stream = run[r].stream /\ f.last = run[r].last
        /\ run' = [run EXCEPT ![r] = f]
    BY <1>2, <1>4, <2>1 DEF Run
  <2>3. QED
    BY <1>1, <1>2, <1>4, <2>2, QuietStep
<1>5. QED
  BY <1>s, <1>3, <1>4 DEF FastPath, ToRun

LEMMA BatchStep ==
  ASSUME ScanInv, NEW r \in Runs, Batch(r)
  PROVE  ScanInv'
<1>1. /\ run[r].pc = "scan" /\ Queued(r) /\ Working(r)
      /\ UNCHANGED <<slot, call, faults, size>>
  BY DEF Batch, Queued, Working
<1>s. PICK s \in Streams : s = run[r].stream
  BY <1>1, TaskFacts
<1>2. /\ run[r] \in Run /\ ckpt[s] \in Ckpt
      /\ ckpt \in [Streams -> Ckpt] /\ run \in [Runs -> Run]
      /\ slot \in [Streams -> Slot] /\ call \in [Callers -> Call]
      /\ faults \in 0 .. MaxFaults
      /\ counted \in [Streams -> SUBSET (1 .. Rows)]
      /\ \A t \in Streams : 1 .. ckpt[t].last \subseteq counted[t]
      /\ \A t \in Streams : ckpt[t].owner = r => t = s
  BY <1>1, <1>s, TaskFacts
<1>l. /\ run[r].last \in 0 .. Rows /\ run[r].rows \in Nat
      /\ ckpt[s].owner = r => 1 .. run[r].last \subseteq counted[s]
  BY <1>1, <1>s, TaskFacts
<1>3. PICK last \in 0 .. Rows : last = BatchEnd(r) /\ run[r].last <= last
  <2>1. size[run[r].stream] \in 0 .. Rows /\ NextBatch(r) # {}
    BY <1>1, TaskFacts DEF Batch
  <2>2. BatchEnd(r) \in 0 .. Rows
    BY <1>l, <2>1, LimitsAssumption DEF BatchEnd
  <2>3. run[r].last <= BatchEnd(r)
    BY <1>l, <2>1, <2>2, LimitsAssumption DEF NextBatch
  <2>4. QED
    BY <2>2, <2>3
<1>4. PICK rows \in Nat : rows = run[r].rows + (last - run[r].last)
  BY <1>l, <1>3, LimitsAssumption
<1>5. PICK f \in Run : f = [run[r] EXCEPT !.last = last, !.rows = rows,
                                          !.begun = TRUE]
  BY <1>2 DEF Run
<1>6. f.stream = s /\ f.pc = "scan" /\ f.last = last
  BY <1>1, <1>2, <1>s, <1>5 DEF Run
<1>7. /\ run' = [run EXCEPT ![r] = f]
      /\ counted' = [counted EXCEPT ![s] = @ \cup (run[r].last + 1 .. last)]
      /\ ckpt' = IF ckpt[s].owner = r
                   THEN [ckpt EXCEPT ![s].last = last, ![s].rows = rows,
                                     ![s].lease = "live"]
                   ELSE ckpt
  BY <1>2, <1>s, <1>3, <1>4, <1>5 DEF Batch, Counts, NextBatch, Owns
<1>8. /\ counted' \in [Streams -> SUBSET (1 .. Rows)]
      /\ \A t \in Streams : counted[t] \subseteq counted[t]'
      /\ run[r].last + 1 .. last \subseteq counted[s]'
  <2>1. run[r].last + 1 .. last \in SUBSET (1 .. Rows)
    BY <1>l, <1>3, LimitsAssumption
  <2>2. QED
    BY <1>7, <2>1, CoversGrow
<1>9. ckpt[s].owner = r => 1 .. last \subseteq counted[s]'
  BY <1>l, <1>3, <1>8, LimitsAssumption
<1>10. /\ ckpt' \in [Streams -> Ckpt]
       /\ \A t \in Streams :
            /\ ckpt[t]'.owner = ckpt[t].owner
            /\ ckpt[t]'.last = IF t = s /\ ckpt[s].owner = r
                                 THEN last ELSE ckpt[t].last
  BY <1>2, <1>7 DEF Ckpt, Leases
<1>11. StepCovers(r, f)
  <2>1. \A t \in Streams : 1 .. ckpt[t]'.last \subseteq counted[t]'
    BY <1>2, <1>8, <1>9, <1>10
  <2>2. QED
    BY <1>1, <1>2, <1>6, <1>7, <1>8, <1>9, <1>10, <2>1 DEF StepCovers
<1>12. UNCHANGED call /\ slot' \in [Streams -> Slot] /\ faults' \in 0 .. MaxFaults
  BY <1>1, <1>2
<1>13. QED
  BY <1>11, <1>12, TaskStep

LEMMA LoopEndsStep ==
  ASSUME ScanInv, NEW r \in Runs, LoopEnds(r)
  PROVE  ScanInv'
<1>1. /\ run[r].pc = "scan" /\ Queued(r) /\ Working(r)
      /\ UNCHANGED <<slot, ckpt, call, counted, faults, size>>
  BY DEF LoopEnds, Queued, Working, tables
<1>2. /\ run[r] \in Run /\ run[r].last \in 0 .. Rows /\ run \in [Runs -> Run]
      /\ slot \in [Streams -> Slot] /\ faults \in 0 .. MaxFaults
  BY <1>1, TaskFacts
<1>3. PICK more \in BOOLEAN :
        /\ run' = [run EXCEPT ![r].pc = "end", ![r].more = more]
        /\ more = FALSE => NextBatch(r) = {}
  BY DEF LoopEnds
<1>4. more = FALSE => size[run[r].stream] <= run[r].last
  <2>1. size[run[r].stream] \in 0 .. Rows
    BY <1>1, TaskFacts
  <2>2. run[r].last < size[run[r].stream] => run[r].last + 1 \in NextBatch(r)
    BY <1>2, <2>1, LimitsAssumption DEF NextBatch, BatchEnd
  <2>3. QED
    BY <1>2, <1>3, <2>1, <2>2, LimitsAssumption
<1>5. PICK f \in Run : f = [run[r] EXCEPT !.pc = "end", !.more = more]
  BY <1>2 DEF Run
<1>6. /\ f.pc = "end" /\ f.stream = run[r].stream /\ f.last = run[r].last
      /\ f.more = more /\ run' = [run EXCEPT ![r] = f]
  BY <1>2, <1>3, <1>5 DEF Run
<1>7. QED
  BY <1>1, <1>2, <1>4, <1>6, QuietStep

LEMMA ReleaseOrResetStep ==
  ASSUME ScanInv, NEW r \in Runs, ReleaseOrReset(r)
  PROVE  /\ ScanInv'
         /\ \A s \in Streams : ResetStep(s)
<1>1. /\ run[r].pc = "end" /\ Queued(r) /\ Working(r)
      /\ UNCHANGED <<slot, call, faults, size>>
  BY DEF ReleaseOrReset, Queued, Working
<1>s. PICK s \in Streams : s = run[r].stream
  BY <1>1, TaskFacts
<1>2. /\ run[r] \in Run /\ ckpt[s] \in Ckpt
      /\ ckpt \in [Streams -> Ckpt] /\ run \in [Runs -> Run]
      /\ slot \in [Streams -> Slot] /\ call \in [Callers -> Call]
      /\ faults \in 0 .. MaxFaults
      /\ counted \in [Streams -> SUBSET (1 .. Rows)]
      /\ \A t \in Streams : 1 .. ckpt[t].last \subseteq counted[t]
      /\ \A t \in Streams : ckpt[t].owner = r => t = s
      /\ ckpt[s].owner = r /\ run[r].more = FALSE => AllRows(s) \subseteq counted[s]
  BY <1>1, <1>s, TaskFacts
<1>3. PICK f \in Run : f = [run[r] EXCEPT !.pc = "release"]
  BY <1>2 DEF Run
<1>4. f.stream = s /\ f.pc = "release" /\ run' = [run EXCEPT ![r] = f]
  BY <1>2, <1>s, <1>3 DEF Run, ReleaseOrReset, ToRun
<1>5. CASE UNCHANGED <<ckpt, counted, size>>
  <2>1. ScanInv'
    BY <1>1, <1>2, <1>s, <1>4, <1>5, QuietStep
  <2>2. QED
    BY <1>5, <2>1 DEF ResetStep
<1>6. CASE /\ ckpt[s].owner = r
           /\ ckpt' = [ckpt EXCEPT ![s].owner = None, ![s].lease = "null"]
           /\ UNCHANGED counted
  <2>1. /\ ckpt' \in [Streams -> Ckpt]
        /\ \A t \in Streams :
             /\ ckpt[t]'.owner = IF t = s THEN None ELSE ckpt[t].owner
             /\ ckpt[t]'.last = ckpt[t].last
    BY <1>2, <1>6 DEF Ckpt, Leases
  <2>2. StepCovers(r, f)
    BY <1>1, <1>2, <1>4, <1>6, <2>1, NamesAssumption DEF StepCovers
  <2>3. \A t \in Streams : ResetStep(t)
    BY <1>2, <2>1 DEF ResetStep, Ckpt
  <2>4. UNCHANGED call /\ slot' \in [Streams -> Slot] /\ faults' \in 0 .. MaxFaults
    BY <1>1, <1>2
  <2>5. QED
    BY <2>2, <2>3, <2>4, TaskStep
<1>7. CASE /\ ckpt[s].owner = r /\ run[r].more = FALSE
           /\ ckpt' = [ckpt EXCEPT ![s] = NewCkpt]
           /\ counted' = [counted EXCEPT ![s] = {}]
  <2>1. /\ ckpt' \in [Streams -> Ckpt]
        /\ \A t \in Streams :
             /\ ckpt[t]'.owner = IF t = s THEN None ELSE ckpt[t].owner
             /\ ckpt[t]'.last = IF t = s THEN 0 ELSE ckpt[t].last
    BY <1>2, <1>7, LimitsAssumption DEF Ckpt, NewCkpt, Leases
  <2>2. /\ counted' \in [Streams -> SUBSET (1 .. Rows)]
        /\ \A t \in Streams : counted[t]' = IF t = s THEN {} ELSE counted[t]
    BY <1>2, <1>7
  <2>3. \A t \in Streams : 1 .. ckpt[t]'.last \subseteq counted[t]'
    BY <1>2, <2>1, <2>2
  <2>4. StepCovers(r, f)
    BY <1>1, <1>2, <1>4, <2>1, <2>2, <2>3, NamesAssumption DEF StepCovers
  <2>5. \A t \in Streams : ResetStep(t)
    BY <1>2, <1>7, <2>1 DEF ResetStep, Ckpt
  <2>6. UNCHANGED call /\ slot' \in [Streams -> Slot] /\ faults' \in 0 .. MaxFaults
    BY <1>1, <1>2
  <2>7. QED
    BY <2>4, <2>5, <2>6, TaskStep
<1>8. run[r].more \in BOOLEAN
  BY <1>2 DEF Run
<1>9. QED
  BY <1>5, <1>6, <1>7, <1>8, <1>s DEF ReleaseOrReset, Owns

\* The ends and the failures of a task.
LEMMA EndingStep ==
  ASSUME ScanInv, NEW r \in Runs,
         \/ ReleaseSlot(r) \/ Unwind(r) \/ ReleaseSlotFails(r) \/ RunRaises(r)
         \/ RunKilled(r) \/ RunRedelivered(r)
  PROVE  ScanInv'
<1>1. Queued(r) /\ UNCHANGED <<ckpt, call, counted, size>>
  BY DEF ReleaseSlot, Unwind, ReleaseSlotFails, RunRaises, RunKilled,
     RunRedelivered, Queued, Working, tables
<1>2. /\ run[r] \in Run /\ run \in [Runs -> Run] /\ run[r].stream \in Streams
      /\ slot \in [Streams -> Slot] /\ faults \in 0 .. MaxFaults
  BY <1>1, TaskFacts
<1>3. slot' \in [Streams -> Slot]
  BY <1>2 DEF ReleaseSlot, Unwind, ReleaseSlotFails, RunRaises, RunKilled,
     RunRedelivered, tables, Releases, FreeSlot, Slot, Leases
<1>4. faults' \in 0 .. MaxFaults
  BY <1>2, LimitsAssumption DEF ReleaseSlot, Unwind, ReleaseSlotFails,
     RunRaises, RunKilled, RunRedelivered, Fault
<1>5. CASE Ends(r)
  <2>1. PICK f \in Run : f = [NoTask EXCEPT !.pc = "ended"]
    <3>1. 0 \in 0 .. Rows
      BY LimitsAssumption
    <3>2. QED
      BY <3>1 DEF Run, NoTask
  <2>2. f.pc = "ended" /\ run' = [run EXCEPT ![r] = f]
    BY <1>5, <2>1 DEF Ends, NoTask
  <2>3. QED
    BY <1>1, <1>3, <1>4, <2>2, QuietStep
<1>6. ASSUME NEW p \in {"queued", "unwind"}, ToRun(r, p)
      PROVE  ScanInv'
  <2>1. PICK f \in Run : f = [run[r] EXCEPT !.pc = p]
    BY <1>2 DEF Run
  <2>2. /\ f.pc = p /\ f.stream = run[r].stream
        /\ run' = [run EXCEPT ![r] = f]
    BY <1>2, <1>6, <2>1 DEF ToRun, Run
  <2>3. f.pc \notin {"total", "scan", "end"}
    BY <2>2
  <2>4. QED
    BY <1>1, <1>3, <1>4, <2>2, <2>3, QuietStep
<1>7. QED
  BY <1>5, <1>6 DEF ReleaseSlot, Unwind, ReleaseSlotFails, RunRaises,
     RunKilled, RunRedelivered

\* Everything else: the callers, the clock and the result backend.
LEMMA OtherStep ==
  ASSUME ScanInv,
         \/ \E c \in Callers, s \in Streams : Requested(c, s)
         \/ \E c \in Callers : Scheduling(c) \/ LaunchUnnamed(c) \/ CallerFails(c)
         \/ \E r \in Runs : ResultExpires(r)
         \/ \E s \in Streams : CheckpointLapses(s) \/ SlotLapses(s)
         \/ UNCHANGED vars
  PROVE  ScanInv' /\ \A s \in Streams : ckpt[s]'.last = ckpt[s].last
<1> USE DEF ScanInv
<1>1. CASE UNCHANGED vars
  BY <1>1 DEF vars, tables, TypeOK, Routed, CheckpointCovers, HolderCovers,
     Queued, Working, AllRows
<1>2. ASSUME NEW c \in Callers,
             \/ \E s \in Streams : Requested(c, s)
             \/ Scheduling(c) \/ LaunchUnnamed(c) \/ CallerFails(c)
      PROVE  ScanInv' /\ \A s \in Streams : ckpt[s]'.last = ckpt[s].last
  <2>1. TypeOK' /\ Routed' /\ UNCHANGED <<ckpt, counted, size>>
    BY <1>2, CallStep
  <2>2. CheckpointCovers'
    BY <2>1 DEF CheckpointCovers
  <2>3. HolderCovers'
    <3>1. CASE UNCHANGED run
      BY <2>1, <3>1 DEF HolderCovers, Queued, Working, AllRows
    <3>2. CASE Launch(c)
      <4>1. PICK new \in Runs : new = CHOOSE q \in Runs : Fresh(q)
        BY <3>2 DEF Launch
      <4>2. Fresh(new)
        BY <3>2, <4>1 DEF Launch
      <4>3. \A q \in Runs \ {new} : run[q]' = run[q]
        BY <3>2, <4>1 DEF Launch, TypeOK
      <4>4. \A s \in Streams : ckpt[s]'.owner # new
        BY <2>1, <4>2 DEF Fresh
      <4>5. QED
        BY <2>1, <4>3, <4>4 DEF HolderCovers, Queued, Working, AllRows
    <3>3. QED
      BY <1>2, <3>1, <3>2 DEF Scheduling, Requested, CountActive, Reserve,
         Lookup, AssignOwner, LaunchUnnamed, CallerFails, tables
  <2>4. QED
    BY <2>1, <2>2, <2>3
<1>3. ASSUME NEW r \in Runs, ResultExpires(r)
      PROVE  ScanInv' /\ \A s \in Streams : ckpt[s]'.last = ckpt[s].last
  <2>1. UNCHANGED <<slot, ckpt, call, counted, size>> /\ ~Queued(r)
    BY <1>3 DEF ResultExpires, tables, Queued
  <2>2. PICK f \in Run : f = NoTask
    <3>1. 0 \in 0 .. Rows
      BY LimitsAssumption
    <3>2. QED
      BY <3>1 DEF Run, NoTask
  <2>3. f.pc = "forgotten" /\ run' = [run EXCEPT ![r] = f]
    BY <1>3, <2>2 DEF ResultExpires, NoTask
  <2>4. StepCovers(r, f)
    BY <2>1, <2>3 DEF StepCovers, TypeOK, CheckpointCovers
  <2>5. faults' \in 0 .. MaxFaults /\ slot' \in [Streams -> Slot]
    BY <1>3, <2>1, LimitsAssumption DEF ResultExpires, Fault, TypeOK
  <2>6. QED
    BY <2>1, <2>4, <2>5, TaskStep
<1>4. ASSUME NEW s \in Streams, CheckpointLapses(s)
      PROVE  ScanInv' /\ \A t \in Streams : ckpt[t]'.last = ckpt[t].last
  <2>1. UNCHANGED <<slot, call, run, counted, faults, size>>
    BY <1>4 DEF CheckpointLapses
  <2>2. /\ ckpt' \in [Streams -> Ckpt]
        /\ \A t \in Streams : /\ ckpt[t]'.last = ckpt[t].last
                               /\ ckpt[t]'.owner = ckpt[t].owner
    BY <1>4 DEF CheckpointLapses, TypeOK, Ckpt, Leases
  <2>3. TypeOK' /\ Routed'
    BY <2>1, <2>2 DEF TypeOK, Routed, Queued
  <2>4. CheckpointCovers' /\ HolderCovers'
    BY <2>1, <2>2 DEF CheckpointCovers, HolderCovers, Queued, Working, AllRows
  <2>5. QED
    BY <2>2, <2>3, <2>4
<1>5. ASSUME NEW s \in Streams, SlotLapses(s)
      PROVE  ScanInv' /\ \A t \in Streams : ckpt[t]'.last = ckpt[t].last
  <2>1. UNCHANGED <<ckpt, call, run, counted, faults, size>>
    BY <1>5 DEF SlotLapses
  <2>2. slot' \in [Streams -> Slot]
    BY <1>5 DEF SlotLapses, TypeOK, Slot, Leases
  <2>3. TypeOK' /\ Routed'
    BY <2>1, <2>2 DEF TypeOK, Routed, Queued
  <2>4. CheckpointCovers' /\ HolderCovers'
    BY <2>1 DEF CheckpointCovers, HolderCovers, Queued, Working, AllRows
  <2>5. QED
    BY <2>1, <2>3, <2>4
<1>6. QED
  BY <1>1, <1>2, <1>3, <1>4, <1>5

\* Only reset_progress moves a checkpoint back to the start.
LEMMA ScanNext ==
  ASSUME ScanInv, [Next]_vars
  PROVE  ScanInv' /\ \A s \in Streams : ResetStep(s)
<1>1. ASSUME \A s \in Streams : ckpt[s]'.last = 0 => ckpt[s].last = 0
      PROVE  \A s \in Streams : ResetStep(s)
  BY <1>1 DEF ScanInv, TypeOK, Ckpt, ResetStep
<1>2. ASSUME NEW r \in Runs, Task(r)
      PROVE  ScanInv' /\ \A s \in Streams : ResetStep(s)
  <2>1. CASE ReleaseOrReset(r)
    BY <2>1, ReleaseOrResetStep
  <2>2. CASE Batch(r)
    <3>1. /\ run[r].last \in 0 .. Rows /\ run[r].stream \in Streams
          /\ ckpt \in [Streams -> Ckpt] /\ size[run[r].stream] \in 0 .. Rows
      <4>1. Queued(r)
        BY <2>2 DEF Batch, Queued
      <4>2. QED
        BY <4>1, TaskFacts
    <3>2. NextBatch(r) # {} => BatchEnd(r) > 0
      <4>1. BatchEnd(r) \in 0 .. Rows
        BY <3>1, LimitsAssumption DEF BatchEnd
      <4>2. QED
        BY <3>1, <4>1, LimitsAssumption DEF NextBatch
    <3>3. \A s \in Streams : ckpt[s]'.last = 0 => ckpt[s].last = 0
      BY <2>2, <3>1, <3>2 DEF Batch
    <3>4. QED
      BY <1>1, <2>2, <3>3, BatchStep
  <2>3. CASE Acquire(r)
    <3>1. \A s \in Streams : ckpt[s]'.last = ckpt[s].last
      <4>1. Queued(r)
        BY <2>3 DEF Acquire, Queued
      <4>2. run[r].stream \in Streams /\ ckpt \in [Streams -> Ckpt]
        BY <4>1, TaskFacts
      <4>3. QED
        BY <2>3, <4>2 DEF Acquire, Ckpt
    <3>2. QED
      BY <1>1, <2>3, <3>1, AcquireStep
  <2>4. CASE FastPath(r) \/ LoopEnds(r) \/ ReleaseSlot(r) \/ Unwind(r)
    <3>1. UNCHANGED ckpt
      BY <2>4 DEF FastPath, LoopEnds, ReleaseSlot, Unwind, tables
    <3>2. QED
      BY <1>1, <2>4, <3>1, FastPathStep, LoopEndsStep, EndingStep
  <2>5. QED
    BY <1>2, <2>1, <2>2, <2>3, <2>4 DEF Task
<1>3. ASSUME NEW r \in Runs, TaskFault(r), ~ResultExpires(r)
      PROVE  ScanInv' /\ \A s \in Streams : ResetStep(s)
  <2>1. UNCHANGED ckpt
    BY <1>3 DEF TaskFault, ReleaseSlotFails, RunRaises, RunKilled,
       RunRedelivered, tables
  <2>2. ScanInv'
    BY <1>3, EndingStep DEF TaskFault
  <2>3. QED
    BY <1>1, <2>1, <2>2
<1>4. QED
  BY <1>1, <1>2, <1>3, OtherStep DEF Next

\* The types of the model hold in every reachable state.
THEOREM ScanTypes == Spec => []TypeOK
<1>1. Init => ScanInv
  BY ScanInit
<1>2. ScanInv /\ [Next]_vars => ScanInv'
  BY ScanNext
<1>3. ScanInv => TypeOK
  BY DEF ScanInv
<1>4. QED
  BY <1>1, <1>2, <1>3, PTL DEF Spec

\* A scan resumed from its checkpoint never skips a row, for any number of
\* overlapping, retried, redelivered and killed tasks.
THEOREM ResumesSafely == Spec => []CheckpointCovers
<1>1. Init => ScanInv
  BY ScanInit
<1>2. ScanInv /\ [Next]_vars => ScanInv'
  BY ScanNext
<1>3. ScanInv => CheckpointCovers
  BY DEF ScanInv
<1>4. QED
  BY <1>1, <1>2, <1>3, PTL DEF Spec

\* reset_progress ends a scan only when every row has been counted in it.
THEOREM ResetsComplete == Spec => ScansComplete
<1>1. Init => ScanInv
  BY ScanInit
<1>2. ScanInv /\ [Next]_vars => ScanInv'
  BY ScanNext
<1>3. ScanInv /\ [Next]_vars => [\A s \in Streams : ResetStep(s)]_vars
  BY ScanNext
<1>4. QED
  BY <1>1, <1>2, <1>3, PTL DEF Spec, ScansComplete

=============================================================================
