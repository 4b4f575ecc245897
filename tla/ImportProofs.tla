----------------------------- MODULE ImportProofs -----------------------------
(***************************************************************************)
(* What an import reports and how often it loads, for any number of chunks, *)
(* workers, retries, faults and cancellations.                              *)
(***************************************************************************)
EXTENDS ImportWorkflow, TLAPS

\* Which tasks a worker can have at which point.
Fit(k) ==
  /\ Prepare \notin k.send
  /\ k.pc \in {"claim", "work", "commit", "complete"} => k.task \in Phases
  /\ k.pc = "commit" => IsLoad(k.task)
  /\ k.pc \in {"read", "save", "release"} => k.task = Finalize
  /\ k.pc \in {"dispatch", "send"} => k.task \in Phases \cup {Prepare}

Shaped == Prepare \notin queue /\ \A w \in Workers : Fit(worker[w])

Typed == TypeOK /\ Shaped

Loaded(c) == rows[<<c, "load">>] >= 1

\* A load is completed only after a commit of its rows, the map of roots is
\* built and the job finalized only when the loads they need were completed.
\* A load may be put back afterwards, its rows are still there.
Whole ==
  /\ \A p \in Phases : IsLoad(p) /\ Status(p) = "completed" => rows[p] >= 1
  /\ \A w \in Workers : At(w, {"complete"}) /\ IsLoad(worker[w].task)
                          => rows[worker[w].task] >= 1
  /\ job.anchors => \A c \in Roots : Loaded(c)
  /\ job.finalizeQueued => \A c \in Chunks : Loaded(c)
  /\ \/ job.finalizeQueued
     \/ /\ job.status \notin {"completed", "ready"}
        /\ Finalize \notin queue
        /\ \A w \in Workers : worker[w].task # Finalize /\ Finalize \notin worker[w].send

Holding(w) == At(w, {"work", "commit", "complete"})

\* The attempts of a phase have tokens of their own.
Fresh ==
  /\ \A w \in Workers :
       Holding(w) => worker[w].token \in 1 .. phase[worker[w].task].attempts
  /\ \A v, w \in Workers :
       Holding(v) /\ Holding(w) /\ worker[v].task = worker[w].task /\ v # w
         => worker[v].token # worker[w].token

Ending(w, p) == worker[w].task = p /\ At(w, {"commit", "complete"})

\* Who passed the last fence of a load still holds it, and its rows were
\* committed only by who is about to complete it or has.
Guarded(p) ==
  /\ rows[p] <= 1
  /\ rows[p] = 1 => \/ Status(p) = "completed"
                    \/ \E w \in Workers : Ending(w, p) /\ At(w, {"complete"})
  /\ \A w \in Workers : Ending(w, p) => Current(w)

Once ==
  \A p \in Phases :
    /\ ~IsLoad(p) => rows[p] = 0
    /\ IsLoad(p) /\ p \notin exposed => Guarded(p)

\* Nothing of a child's load moves before the map of roots is built.
Waiting(p) ==
  /\ Status(p) \in {"none", "blocked", "cancelled"}
  /\ p \notin queue /\ p \notin sweep.todo
  /\ \A w \in Workers : worker[w].task # p /\ p \notin worker[w].send

\* The map of roots stands for completed loads, or for one put back since.
Rooted ==
  /\ job.anchors => \A p \in Of(Roots, "load") : Status(p) = "completed" \/ p \in exposed
  /\ job.anchors \/ \A p \in Of(Children, "load") : Waiting(p)

-----------------------------------------------------------------------------
\* What a worker becomes keeps its type.
LEMMA WorkerTypes ==
  ASSUME TypeOK, NEW w \in Workers
  PROVE  /\ Idle \in Worker
         /\ worker[w] \in Worker
         /\ Leave(w) => worker' \in [Workers -> Worker]
         /\ To(w, "commit") => worker' \in [Workers -> Worker]
         /\ To(w, "complete") => worker' \in [Workers -> Worker]
         /\ To(w, "dispatch") => worker' \in [Workers -> Worker]
         /\ To(w, "release") => worker' \in [Workers -> Worker]
         /\ To(w, "abort") => worker' \in [Workers -> Worker]
         /\ To(w, "bury") => worker' \in [Workers -> Worker]
<1>1. Idle \in Worker
  BY DEF Idle, Worker, Tasks
<1>2. worker[w] \in Worker
  BY DEF TypeOK
<1>. QED BY <1>1, <1>2 DEF Leave, To, TypeOK, Worker

\* The next step of a plan or load task keeps the types.
LEMMA PhaseTaskTypes ==
  ASSUME Typed, NEW w \in Workers,
         Claim(w) \/ Work(w) \/ Yields(w) \/ PrecheckFails(w) \/ Commit(w) \/ Complete(w)
  PROVE  TypeOK'
<1>. USE DEF Typed, TypeOK
<1>1. CASE Claim(w)
  <2>. DEFINE p == worker[w].task
  <2>1. p \in Phases
    BY <1>1 DEF Claim, Shaped, Fit, At
  <2>2. phase[p] \in Phase /\ phase[p].attempts \in Nat
    BY <2>1 DEF Phase
  <2>3. phase' \in [Phases -> Phase]
    <3>1. CASE ~Stopped /\ Status(p) \notin Closed
      <4>1. [status |-> "running", attempts |-> phase[p].attempts + 1,
             token |-> phase[p].attempts + 1, late |-> FALSE] \in Phase
        BY <2>2 DEF Phase
      <4>. QED BY <1>1, <2>1, <3>1, <4>1 DEF Claim
    <3>2. CASE Stopped
      BY <1>1, <2>1, <3>2 DEF Claim, Phase
    <3>3. CASE ~Stopped /\ Status(p) \in Closed
      BY <1>1, <3>3 DEF Claim
    <3>. QED BY <3>1, <3>2, <3>3
  <2>4. worker' \in [Workers -> Worker]
    BY <1>1, <2>2, WorkerTypes DEF Claim, Worker
  <2>5. exposed' \subseteq Phases
    BY <1>1, <2>1 DEF Claim
  <2>. QED BY <1>1, <2>3, <2>4, <2>5 DEF Claim, counters
<1>2. CASE Work(w)
  <2>1. phase' \in [Phases -> Phase]
    BY <1>2 DEF Work, Phase
  <2>2. worker' \in [Workers -> Worker]
    BY <1>2, WorkerTypes DEF Work
  <2>. QED BY <1>2, <2>1, <2>2 DEF Work, history, counters
<1>3. CASE Yields(w)
  <2>1. phase' \in [Phases -> Phase]
    BY <1>3 DEF Yields, Phase
  <2>2. worker' \in [Workers -> Worker]
    BY <1>3, WorkerTypes DEF Yields
  <2>. QED BY <1>3, <2>1, <2>2 DEF Yields, history, counters
<1>4. CASE PrecheckFails(w)
  <2>1. phase' \in [Phases -> Phase]
    BY <1>4 DEF PrecheckFails, FailPhase, Phase
  <2>2. worker' \in [Workers -> Worker]
    BY <1>4, WorkerTypes DEF PrecheckFails, FailPhase
  <2>. QED BY <1>4, <2>1, <2>2 DEF PrecheckFails, history, counters
<1>5. CASE Commit(w)
  <2>1. worker[w].task \in Phases
    BY <1>5 DEF Commit, Shaped, Fit, At
  <2>2. rows' \in [Phases -> Nat] /\ exposed' \subseteq Phases
    BY <1>5, <2>1 DEF Commit
  <2>3. worker' \in [Workers -> Worker]
    BY <1>5, WorkerTypes DEF Commit
  <2>. QED BY <1>5, <2>2, <2>3 DEF Commit, counters
<1>6. CASE Complete(w)
  <2>1. phase' \in [Phases -> Phase]
    BY <1>6 DEF Complete, Phase
  <2>2. worker' \in [Workers -> Worker]
    BY <1>6, WorkerTypes DEF Complete
  <2>. QED BY <1>6, <2>1, <2>2 DEF Complete, history, counters
<1>. QED BY <1>1, <1>2, <1>3, <1>4, <1>5, <1>6

\* What is due are phases.
LEMMA DuePhases == Due \subseteq Phases
  BY DEF Due, Unstarted, Pending, Of, Phases

\* The dispatch, the finalization and the failure of the job keep the types.
LEMMA JobTypes ==
  ASSUME Typed, NEW w \in Workers,
         \/ Dispatch(w) \/ Send(w) \/ Read(w) \/ Save(w) \/ Release(w)
         \/ Abort(w) \/ Bury(w)
  PROVE  TypeOK'
<1>. USE DEF Typed, TypeOK
<1>1. CASE Dispatch(w)
  <2>1. phase' \in [Phases -> Phase]
    BY <1>1 DEF Dispatch, Phase
  <2>2. job' \in Job
    BY <1>1 DEF Dispatch, Job
  <2>3. Due \cup {Finalize} \subseteq Tasks
    BY DuePhases DEF Tasks
  <2>4. worker' \in [Workers -> Worker]
    BY <1>1, <2>3, WorkerTypes DEF Dispatch, Worker
  <2>. QED BY <1>1, <2>1, <2>2, <2>4 DEF Dispatch, history, counters
<1>2. CASE Send(w)
  <2>1. worker' \in [Workers -> Worker] /\ queue' \subseteq Tasks
    BY <1>2, WorkerTypes DEF Send, Worker
  <2>. QED BY <1>2, <2>1 DEF Send, history, counters
<1>3. CASE Read(w)
  <2>1. worker' \in [Workers -> Worker]
    <3>1. job.cancel \in BOOLEAN
      BY DEF Job
    <3>. DEFINE r(pc) == [worker[w] EXCEPT !.pc = pc, !.saw = job.cancel]
    <3>2. r("release") \in Worker /\ r("save") \in Worker
      BY <3>1, WorkerTypes DEF Worker
    <3>3. \/ worker' = [worker EXCEPT ![w] = r("release")]
          \/ worker' = [worker EXCEPT ![w] = r("save")]
      BY <1>3 DEF Read
    <3>. QED BY <3>2, <3>3
  <2>. QED BY <1>3, <2>1 DEF Read, history, counters
<1>4. CASE Save(w)
  <2>1. worker[w].saw \in BOOLEAN
    BY WorkerTypes DEF Worker
  <2>2. job' \in Job
    BY <1>4, <2>1 DEF Save, Decisions, Job
  <2>3. worker' \in [Workers -> Worker]
    BY <1>4, WorkerTypes DEF Save
  <2>. QED BY <1>4, <2>2, <2>3 DEF Save, history, counters
<1>5. CASE Release(w)
  <2>1. worker' \in [Workers -> Worker]
    BY <1>5, WorkerTypes DEF Release
  <2>. QED BY <1>5, <2>1 DEF Release, history, counters
<1>6. CASE Abort(w)
  <2>1. worker' \in [Workers -> Worker]
    BY <1>6, WorkerTypes DEF Abort
  <2>2. job' \in Job /\ phase' \in [Phases -> Phase]
    BY <1>6 DEF Abort, CancelWorkflow, Job, Phase
  <2>. QED BY <1>6, <2>1, <2>2 DEF Abort, history, counters
<1>7. CASE Bury(w)
  <2>1. worker' \in [Workers -> Worker]
    BY <1>7, WorkerTypes DEF Bury
  <2>2. job' \in Job
    BY <1>7 DEF Bury, Job
  <2>. QED BY <1>7, <2>1, <2>2 DEF Bury, history, counters
<1>. QED BY <1>1, <1>2, <1>3, <1>4, <1>5, <1>6, <1>7

\* Faults keep the types.
LEMMA FaultTypes ==
  ASSUME Typed, NEW w \in Workers, Breaks(w)
  PROVE  TypeOK'
<1>. USE DEF Typed, TypeOK
<1>1. worker[w].task \in Tasks /\ worker[w].send \subseteq Tasks
  BY WorkerTypes DEF Worker
<1>2. faults < MaxFaults /\ faults' = faults + 1 => faults' \in 0 .. MaxFaults
  BY BoundsAssumption
<1>3. CASE Fails(w)
  <2>1. worker' \in [Workers -> Worker]
    BY <1>3, WorkerTypes DEF Fails, FailPhase
  <2>2. phase' \in [Phases -> Phase]
    BY <1>3 DEF Fails, FailPhase, Phase
  <2>3. exposed' \subseteq Phases /\ lost' \in BOOLEAN
    BY <1>3 DEF Fails, AtRisk, IsLoad, Cut
  <2>. QED BY <1>2, <1>3, <2>1, <2>2, <2>3 DEF Fails, Fault
<1>4. CASE Retries(w)
  <2>1. worker' \in [Workers -> Worker]
    BY <1>4, WorkerTypes DEF Retries
  <2>2. phase' \in [Phases -> Phase]
    BY <1>4 DEF Retries, Phase
  <2>3. exposed' \subseteq Phases /\ lost' \in BOOLEAN
    BY <1>4 DEF Retries, AtRisk, IsLoad
  <2>4. retries' \in [Tasks -> 0 .. MaxRetries] /\ queue' \subseteq Tasks
    BY <1>1, <1>4, BoundsAssumption DEF Retries
  <2>. QED BY <1>2, <1>4, <2>1, <2>2, <2>3, <2>4 DEF Retries, Fault
<1>5. CASE Crash(w)
  <2>1. worker' \in [Workers -> Worker]
    BY <1>5, WorkerTypes DEF Crash
  <2>2. exposed' \subseteq Phases /\ lost' \in BOOLEAN /\ queue' \subseteq Tasks
    BY <1>1, <1>5 DEF Crash, IsLoad, Cut
  <2>. QED BY <1>2, <1>5, <2>1, <2>2 DEF Crash, Fault
<1>6. CASE Redeliver(w)
  BY <1>1, <1>2, <1>6 DEF Redeliver, Fault, history
<1>7. CASE TurnsBack(w) \/ GivesUp(w)
  <2>1. worker' \in [Workers -> Worker]
    BY <1>7, WorkerTypes DEF TurnsBack, GivesUp
  <2>. QED BY <1>2, <1>7, <2>1 DEF TurnsBack, GivesUp, Fault, counters
<1>. QED BY <1>3, <1>4, <1>5, <1>6, <1>7 DEF Breaks

\* Every step keeps the types.
LEMMA TypeStep ==
  ASSUME Typed, [Next]_vars
  PROVE  TypeOK'
<1>. USE DEF Typed, TypeOK
<1>1. CASE UNCHANGED vars
  BY <1>1 DEF vars, history, counters
<1>2. ASSUME NEW w \in Workers, Step(w) PROVE TypeOK'
  BY <1>2, PhaseTaskTypes, JobTypes DEF Step
<1>3. ASSUME NEW w \in Workers, NEW t \in Tasks, Deliver(w, t) PROVE TypeOK'
  <2>1. worker' \in [Workers -> Worker]
    BY <1>3, WorkerTypes DEF Deliver, Idle, Worker
  <2>. QED BY <1>3, <2>1 DEF Deliver, history, counters
<1>4. ASSUME NEW p \in Phases, Expires(p) PROVE TypeOK'
  <2>1. phase' \in [Phases -> Phase]
    BY <1>4 DEF Expires, Phase
  <2>2. faults' \in 0 .. MaxFaults
    BY <1>4, BoundsAssumption DEF Expires, Fault
  <2>. QED BY <1>4, <2>1, <2>2 DEF Expires, history
<1>5. ASSUME NEW p \in Phases, SweepPutsBack(p) PROVE TypeOK'
  <2>1. phase' \in [Phases -> Phase]
    <3>. DEFINE q(s) == [phase[p] EXCEPT !.status = s, !.token = 0, !.late = FALSE]
    <3>1. q("queued") \in Phase /\ q("cancelled") \in Phase
      BY DEF Phase
    <3>2. \/ phase' = [phase EXCEPT ![p] = q("queued")]
          \/ phase' = [phase EXCEPT ![p] = q("cancelled")]
      BY <1>5 DEF SweepPutsBack
    <3>. QED BY <3>1, <3>2
  <2>2. exposed' \subseteq Phases /\ lost' \in BOOLEAN
    BY <1>5 DEF SweepPutsBack
  <2>3. sweep' \in [todo: SUBSET Phases, running: BOOLEAN]
    BY <1>5 DEF SweepPutsBack
  <2>. QED BY <1>5, <2>1, <2>2, <2>3 DEF SweepPutsBack, counters
<1>6. CASE SweepLists
  BY <1>6 DEF SweepLists, history, counters
<1>7. CASE CancelRequest
  <2>1. job' \in Job /\ phase' \in [Phases -> Phase]
    <3>1. CASE CancelWorkflow("running")
      BY <3>1 DEF CancelWorkflow, Job, Phase
    <3>2. CASE CancelWorkflow("failed")
      BY <3>2 DEF CancelWorkflow, Job, Phase
    <3>. QED BY <1>7, <3>1, <3>2 DEF CancelRequest
  <2>2. cancels' \in 0 .. MaxCancels
    BY <1>7, BoundsAssumption DEF CancelRequest
  <2>. QED BY <1>7, <2>1, <2>2 DEF CancelRequest, history
<1>. QED BY <1>1, <1>2, <1>3, <1>4, <1>5, <1>6, <1>7, FaultTypes DEF Next

-----------------------------------------------------------------------------
\* Every step keeps the shape of the workers.
LEMMA ShapeStep ==
  ASSUME Typed, [Next]_vars
  PROVE  Shaped'
<1>. USE DEF Typed, Shaped
<1>i. Fit(Idle)
  BY DEF Idle, Fit
<1>f. \A w \in Workers : Leave(w) => \A v \in Workers : Fit(worker'[v])
  BY <1>i DEF Leave, TypeOK
<1>t. \A w \in Workers : worker[w] \in Worker
  BY DEF TypeOK
<1>1. CASE UNCHANGED vars
  BY <1>1 DEF vars
<1>2. ASSUME NEW w \in Workers, Step(w) PROVE Shaped'
  <2>1. CASE Claim(w)
    BY <2>1, <1>f, <1>t DEF Claim, Fit, TypeOK, At, Worker
  <2>2. CASE Work(w) \/ PrecheckFails(w) \/ Yields(w)
    <3>1. CASE Work(w)
      <4>. DEFINE p == worker[w].task
      <4>1. p \in Phases
        BY <3>1 DEF Work, Fit, At
      <4>2. /\ worker'[w].task = p /\ worker'[w].send = worker[w].send
            /\ worker'[w].pc = IF IsLoad(p) THEN "commit" ELSE "complete"
        BY <3>1, <1>t DEF Work, To, TypeOK, Worker
      <4>3. \A v \in Workers : v # w => worker'[v] = worker[v]
        BY <3>1 DEF Work, To, TypeOK
      <4>. QED BY <3>1, <4>1, <4>2, <4>3 DEF Work, Fit
    <3>2. CASE PrecheckFails(w)
      BY <3>2, <1>f, <1>t DEF PrecheckFails, FailPhase, To, Fit, TypeOK, At, Worker
    <3>3. CASE Yields(w)
      BY <3>3, <1>f DEF Yields
    <3>. QED BY <2>2, <3>1, <3>2, <3>3
  <2>3. CASE Commit(w) \/ Complete(w)
    BY <2>3, <1>f, <1>t DEF Commit, Complete, To, Fit, TypeOK, At, Worker
  <2>4. CASE Dispatch(w)
    <3>1. Prepare \notin Due \cup {Finalize}
      BY DuePhases, TasksAssumption
    <3>. QED BY <2>4, <3>1, <1>f, <1>t DEF Dispatch, Fit, TypeOK, At, Worker
  <2>5. CASE Send(w)
    BY <2>5, <1>f, <1>t DEF Send, Fit, TypeOK, At, Worker
  <2>6. CASE Read(w) \/ Save(w) \/ Release(w)
    <3>1. CASE Read(w)
      <4>1. /\ worker'[w].task = Finalize /\ worker'[w].send = worker[w].send
            /\ worker'[w].pc \in {"release", "save"}
        BY <3>1, <1>t DEF Read, Fit, TypeOK, At, Worker
      <4>2. \A v \in Workers : v # w => worker'[v] = worker[v]
        BY <3>1 DEF Read, TypeOK
      <4>. QED BY <3>1, <4>1, <4>2 DEF Read, Fit
    <3>2. CASE Save(w)
      BY <3>2, <1>t DEF Save, To, Fit, TypeOK, At, Worker
    <3>3. CASE Release(w)
      BY <3>3, <1>f DEF Release
    <3>. QED BY <2>6, <3>1, <3>2, <3>3
  <2>7. CASE Abort(w) \/ Bury(w)
    BY <2>7, <1>f, <1>t DEF Abort, Bury, To, Fit, TypeOK, At, Worker
  <2>. QED BY <1>2, <2>1, <2>2, <2>3, <2>4, <2>5, <2>6, <2>7 DEF Step
<1>3. ASSUME NEW w \in Workers, NEW t \in Tasks, Deliver(w, t) PROVE Shaped'
  BY <1>3, <1>t DEF Deliver, Idle, Fit, TypeOK, Worker, Tasks
<1>4. ASSUME NEW w \in Workers, Breaks(w) PROVE Shaped'
  <2>1. CASE Fails(w)
    <3>1. queue' = queue /\ (Leave(w) \/ To(w, "abort"))
      BY <2>1 DEF Fails, FailPhase
    <3>2. CASE To(w, "abort")
      BY <3>1, <3>2, <1>t DEF To, Fit, TypeOK, Worker
    <3>. QED BY <3>1, <3>2, <1>f
  <2>2. CASE Retries(w)
    <3>1. worker[w].task # Prepare
      BY <2>2, <1>t, TasksAssumption DEF Retries, Fit, At
    <3>. QED BY <2>2, <3>1, <1>f DEF Retries
  <2>3. CASE Crash(w) \/ TurnsBack(w) \/ GivesUp(w) \/ Redeliver(w)
    BY <2>3, <1>f DEF Crash, TurnsBack, GivesUp, Redeliver
  <2>. QED BY <1>4, <2>1, <2>2, <2>3 DEF Breaks
<1>5. ASSUME NEW p \in Phases, Expires(p) \/ SweepPutsBack(p) PROVE Shaped'
  BY <1>5 DEF Expires, SweepPutsBack
<1>6. CASE SweepLists \/ CancelRequest
  BY <1>6 DEF SweepLists, CancelRequest
<1>. QED BY <1>1, <1>2, <1>3, <1>4, <1>5, <1>6 DEF Next

-----------------------------------------------------------------------------
\* What a step has to respect for Whole to hold after it.
LEMMA WholeKept ==
  ASSUME TypeOK, Whole, bundle' = bundle,
         \A p \in Phases : rows[p] \in Nat /\ rows'[p] \in Nat /\ rows'[p] >= rows[p],
         \A p \in Phases : phase'[p].status = "completed" =>
           Status(p) = "completed" \/ (IsLoad(p) => rows[p] >= 1),
         \A v \in Workers : worker'[v].pc = "complete" =>
           \/ worker'[v] = worker[v]
           \/ IsLoad(worker'[v].task) => rows'[worker'[v].task] >= 1,
         job'.anchors => job.anchors \/ \A c \in Roots : Loaded(c),
         job'.finalizeQueued => job.finalizeQueued \/ \A c \in Chunks : Loaded(c),
         job.finalizeQueued => job'.finalizeQueued,
         job'.status \in {"completed", "ready"} =>
           job'.finalizeQueued \/ job.status \in {"completed", "ready"},
         Finalize \in queue' => job'.finalizeQueued \/ Finalize \in queue,
         \A v \in Workers : worker'[v].task = Finalize \/ Finalize \in worker'[v].send =>
           \/ job'.finalizeQueued \/ Finalize \in queue
           \/ worker[v].task = Finalize \/ Finalize \in worker[v].send
  PROVE  Whole'
<1>1. \A c \in Singles \cup Roots \cup Children : Loaded(c) => Loaded(c)'
  BY DEF Loaded, Of, Phases
<1>2. \A p \in Phases : IsLoad(p) /\ phase'[p].status = "completed" => rows'[p] >= 1
  BY DEF Whole, Status
<1>3. \A v \in Workers : worker'[v].pc = "complete" /\ IsLoad(worker'[v].task)
                          => rows'[worker'[v].task] >= 1
  BY DEF Whole, At, IsLoad
<1>4. job'.anchors => \A c \in Roots : Loaded(c)'
  BY <1>1 DEF Whole
<1>5. Chunks' = Chunks /\ Chunks \subseteq Singles \cup Roots \cup Children
  BY DEF Chunks
<1>6. job'.finalizeQueued => \A c \in Chunks : Loaded(c)'
  BY <1>1, <1>5 DEF Whole
<1>7. \/ job'.finalizeQueued
      \/ /\ job'.status \notin {"completed", "ready"}
         /\ Finalize \notin queue'
         /\ \A v \in Workers : worker'[v].task # Finalize /\ Finalize \notin worker'[v].send
  BY DEF Whole
<1>. QED BY <1>2, <1>3, <1>4, <1>5, <1>6, <1>7 DEF Whole, Status, At, IsLoad

\* The dispatch asks for the finalization, and builds the map of roots, only
\* when the loads were completed.
LEMMA DispatchWhole ==
  ASSUME Typed, Whole, NEW w \in Workers, Dispatch(w)
  PROVE  Whole'
<1>. USE DEF Typed
<1>a. \A S : Completed(Of(S, "load")) /\ S \subseteq Singles \cup Roots \cup Children
             => \A c \in S : Loaded(c)
  BY DEF Completed, Of, Phases, IsLoad, Loaded, Whole
<1>b. Anchored => \A c \in Roots : Loaded(c)
  BY <1>a DEF Anchored, Whole
<1>c. AllLoaded => \A c \in Chunks : Loaded(c)
  BY <1>a, <1>b DEF AllLoaded, Chunks
<1>1. UNCHANGED <<bundle, rows, queue>>
  BY DEF Dispatch
<1>2. \A p \in Phases : rows[p] \in Nat /\ rows'[p] = rows[p]
  BY <1>1 DEF TypeOK
<1>3. \A p \in Phases : phase'[p].status = "completed" => Status(p) = "completed"
  BY DEF Dispatch, TypeOK, Phase, Status
<1>4. /\ worker'[w].pc \in {"idle", "send"}
      /\ \A v \in Workers : v # w => worker'[v] = worker[v]
  BY DEF Dispatch, Leave, Idle, TypeOK, Worker
<1>5. \/ UNCHANGED job
      \/ /\ job'.anchors = (job.anchors \/ (bundle /\ Anchored))
         /\ job'.finalizeQueued = (job.finalizeQueued \/ (AllLoaded /\ ~job.finalizeQueued))
         /\ job'.status = job.status
  BY DEF Dispatch, TypeOK, Job
<1>6. worker'[w].task = Finalize => worker[w].task = Finalize
  BY TasksAssumption DEF Dispatch, Leave, Idle, TypeOK, Worker
<1>7. Finalize \in worker'[w].send => job'.finalizeQueued
  <2>1. CASE Stopped \/ Failed
    BY <2>1 DEF Dispatch, Leave, Idle, TypeOK
  <2>2. CASE ~(Stopped \/ Failed)
    <3>1. worker'[w].send = Due \cup IF AllLoaded /\ ~job.finalizeQueued THEN {Finalize} ELSE {}
      BY <2>2 DEF Dispatch, TypeOK, Worker
    <3>2. job'.finalizeQueued = (job.finalizeQueued \/ (AllLoaded /\ ~job.finalizeQueued))
      BY <2>2 DEF Dispatch, TypeOK, Job
    <3>3. Finalize \notin Due
      BY DuePhases, TasksAssumption
    <3>. QED BY <3>1, <3>2, <3>3
  <2>. QED BY <2>1, <2>2
<1>8. /\ job'.anchors => job.anchors \/ \A c \in Roots : Loaded(c)
      /\ job'.finalizeQueued => job.finalizeQueued \/ \A c \in Chunks : Loaded(c)
      /\ job.finalizeQueued => job'.finalizeQueued
      /\ job'.status = job.status
  BY <1>b, <1>c, <1>5
<1>9. \A v \in Workers : worker'[v].pc = "complete" => worker'[v] = worker[v]
  BY <1>4
<1>10. \A v \in Workers : worker'[v].task = Finalize \/ Finalize \in worker'[v].send =>
         job'.finalizeQueued \/ worker[v].task = Finalize \/ Finalize \in worker[v].send
  BY <1>4, <1>6, <1>7
<1>11. \A p \in Phases : rows[p] \in Nat /\ rows'[p] \in Nat /\ rows'[p] >= rows[p]
  BY <1>2
<1>. QED BY <1>1, <1>3, <1>8, <1>9, <1>10, <1>11, WholeKept

\* Steps that leave the map of roots, the request for the finalization and
\* the rows alone, and that concern one worker at most.
LEMMA WholeQuiet ==
  ASSUME TypeOK, Whole, NEW w, UNCHANGED <<bundle, rows>>,
         job'.anchors = job.anchors, job'.finalizeQueued = job.finalizeQueued,
         job'.status \in {"completed", "ready"} =>
           job.finalizeQueued \/ job.status \in {"completed", "ready"},
         \A p \in Phases : phase'[p].status = "completed" =>
           Status(p) = "completed" \/ (IsLoad(p) => rows[p] >= 1),
         Finalize \in queue' =>
           \/ job.finalizeQueued \/ Finalize \in queue
           \/ \E v \in Workers : worker[v].task = Finalize \/ Finalize \in worker[v].send,
         \A v \in Workers : v # w => worker'[v] = worker[v],
         w \in Workers =>
           /\ worker'[w].pc = "complete" => ~IsLoad(worker'[w].task) \/ worker'[w] = worker[w]
           /\ worker'[w].task = Finalize => worker[w].task = Finalize \/ Finalize \in queue
           /\ Finalize \in worker'[w].send => Finalize \in worker[w].send
  PROVE  Whole'
<1>1. \A p \in Phases : rows[p] \in Nat /\ rows'[p] \in Nat /\ rows'[p] >= rows[p]
  BY DEF TypeOK
<1>2. \A v \in Workers : worker'[v].pc = "complete" =>
         \/ worker'[v] = worker[v]
         \/ IsLoad(worker'[v].task) => rows'[worker'[v].task] >= 1
  OBVIOUS
<1>3. \A v \in Workers : worker'[v].task = Finalize \/ Finalize \in worker'[v].send =>
           \/ job'.finalizeQueued \/ Finalize \in queue
           \/ worker[v].task = Finalize \/ Finalize \in worker[v].send
  OBVIOUS
<1>4. Finalize \in queue' => job'.finalizeQueued \/ Finalize \in queue
  BY DEF Whole
<1>. QED BY <1>1, <1>2, <1>3, <1>4, WholeKept

\* request_workflow_cancellation closes what has not started, and no more.
LEMMA CancelKeeps ==
  ASSUME TypeOK, NEW s, CancelWorkflow(s), NEW p \in Phases
  PROVE  \/ phase'[p] = phase[p]
         \/ /\ Status(p) \in {"blocked", "pending", "queued"}
            /\ phase'[p].status = "cancelled"
            /\ phase'[p].attempts = phase[p].attempts
<1>1. phase[p] \in Phase
  BY DEF TypeOK
<1>2. phase'[p] = IF Status(p) \in {"blocked", "pending", "queued"}
                    THEN [phase[p] EXCEPT !.status = "cancelled", !.token = 0, !.late = FALSE]
                    ELSE phase[p]
  BY DEF CancelWorkflow
<1>. QED BY <1>1, <1>2 DEF Phase

\* Every step keeps Whole.
LEMMA WholeStep ==
  ASSUME Typed, Whole, [Next]_vars
  PROVE  Whole'
<1>. USE DEF Typed
<1>i. /\ Idle.pc = "idle" /\ Idle.task # Finalize /\ Finalize \notin Idle.send
  BY TasksAssumption DEF Idle
<1>t. \A w \in Workers : worker[w] \in Worker
  BY DEF TypeOK
<1>1. CASE UNCHANGED vars
  BY <1>1, WholeQuiet DEF vars, Status
<1>2. ASSUME NEW w \in Workers, Step(w) PROVE Whole'
  <2>1. CASE Claim(w)
    <3>1. \A p \in Phases : phase'[p].status = "completed" => Status(p) = "completed"
      BY <2>1 DEF Claim, TypeOK, Phase, Status
    <3>2. /\ \A v \in Workers : v # w => worker'[v] = worker[v]
          /\ worker'[w].pc # "complete" /\ worker'[w].send \subseteq worker[w].send
          /\ worker'[w].task = Finalize => worker[w].task = Finalize
      BY <2>1, <1>i, <1>t DEF Claim, Leave, Idle, TypeOK, Worker
    <3>. QED BY <2>1, <3>1, <3>2, WholeQuiet DEF Claim
  <2>2. CASE Work(w)
    <3>1. \A p \in Phases : phase'[p].status = "completed" => Status(p) = "completed"
      BY <2>2 DEF Work, TypeOK, Phase, Status
    <3>2. /\ \A v \in Workers : v # w => worker'[v] = worker[v]
          /\ worker'[w].pc = "complete" => ~IsLoad(worker'[w].task)
          /\ worker'[w].task = worker[w].task /\ worker'[w].send = worker[w].send
      BY <2>2, <1>t DEF Work, To, TypeOK, Worker
    <3>. QED BY <2>2, <3>1, <3>2, WholeQuiet DEF Work
  <2>3. CASE Yields(w) \/ PrecheckFails(w)
    <3>1. \A p \in Phases : phase'[p].status = "completed" => Status(p) = "completed"
      BY <2>3 DEF Yields, PrecheckFails, FailPhase, TypeOK, Phase, Status
    <3>2. /\ \A v \in Workers : v # w => worker'[v] = worker[v]
          /\ worker'[w].pc # "complete" /\ worker'[w].send \subseteq worker[w].send
          /\ worker'[w].task = Finalize => worker[w].task = Finalize
      BY <2>3, <1>i, <1>t DEF Yields, PrecheckFails, FailPhase, Leave, Idle, To,
           TypeOK, Worker
    <3>. QED BY <2>3, <3>1, <3>2, WholeQuiet DEF Yields, PrecheckFails
  <2>4. CASE Commit(w)
    <3>. DEFINE p == worker[w].task
    <3>1. /\ p \in Phases /\ rows' = [rows EXCEPT ![p] = @ + 1]
          /\ UNCHANGED <<bundle, job, phase, queue>>
      BY <2>4 DEF Commit, Shaped, Fit, At
    <3>2. /\ \A q \in Phases : rows[q] \in Nat /\ rows'[q] \in Nat /\ rows'[q] >= rows[q]
          /\ rows'[p] >= 1
      BY <3>1 DEF TypeOK
    <3>3. /\ \A v \in Workers : v # w => worker'[v] = worker[v]
          /\ worker'[w].task = p /\ worker'[w].send = worker[w].send
      BY <2>4, <1>t DEF Commit, To, TypeOK, Worker
    <3>4. \A v \in Workers : worker'[v].pc = "complete" =>
           \/ worker'[v] = worker[v]
           \/ IsLoad(worker'[v].task) => rows'[worker'[v].task] >= 1
      BY <3>2, <3>3
    <3>5. \A v \in Workers : worker'[v].task = Finalize \/ Finalize \in worker'[v].send =>
            worker[v].task = Finalize \/ Finalize \in worker[v].send
      BY <3>3
    <3>. QED BY <3>1, <3>2, <3>4, <3>5, WholeKept DEF Status
  <2>5. CASE Complete(w)
    <3>1. \A p \in Phases : phase'[p].status = "completed" =>
            Status(p) = "completed" \/ (IsLoad(p) => rows[p] >= 1)
      BY <2>5 DEF Complete, TypeOK, Phase, Status, Whole, At
    <3>2. /\ \A v \in Workers : v # w => worker'[v] = worker[v]
          /\ worker'[w].pc # "complete" /\ worker'[w].send \subseteq worker[w].send
          /\ worker'[w].task = Finalize => worker[w].task = Finalize
      BY <2>5, <1>i, <1>t DEF Complete, Leave, Idle, To, TypeOK, Worker
    <3>. QED BY <2>5, <3>1, <3>2, WholeQuiet DEF Complete
  <2>6. CASE Send(w)
    <3>1. /\ \A v \in Workers : v # w => worker'[v] = worker[v]
          /\ worker'[w].pc # "complete" /\ worker'[w].send \subseteq worker[w].send
          /\ worker'[w].task = Finalize => worker[w].task = Finalize
      BY <2>6, <1>i, <1>t DEF Send, Leave, Idle, At, TypeOK, Worker
    <3>2. Finalize \in queue' => Finalize \in queue \/ Finalize \in worker[w].send
      BY <2>6 DEF Send
    <3>. QED BY <2>6, <3>1, <3>2, WholeQuiet DEF Send, Status
  <2>7. CASE Read(w) \/ Save(w) \/ Release(w)
    <3>1. worker[w].task = Finalize
      BY <2>7 DEF Read, Save, Release, Shaped, Fit, At
    <3>2. job.finalizeQueued
      BY <3>1 DEF Whole
    <3>3. /\ UNCHANGED <<bundle, rows, phase, queue>>
          /\ job'.anchors = job.anchors /\ job'.finalizeQueued = job.finalizeQueued
      BY <2>7 DEF Read, Save, Release, TypeOK, Job
    <3>4. /\ \A v \in Workers : v # w => worker'[v] = worker[v]
          /\ worker'[w].pc # "complete" /\ worker'[w].send \subseteq worker[w].send
      <4>1. CASE Read(w)
        <5>1. worker'[w].pc \in {"release", "save"} /\ worker'[w].send = worker[w].send
          BY <4>1, <1>t DEF Read, TypeOK, Worker
        <5>2. \A v \in Workers : v # w => worker'[v] = worker[v]
          BY <4>1 DEF Read, TypeOK
        <5>. QED BY <5>1, <5>2
      <4>2. CASE Save(w)
        BY <4>2, <1>t DEF Save, To, TypeOK, Worker
      <4>3. CASE Release(w)
        BY <4>3 DEF Release, Leave, Idle, TypeOK
      <4>. QED BY <2>7, <4>1, <4>2, <4>3
    <3>. QED BY <3>1, <3>2, <3>3, <3>4, WholeQuiet DEF Status
  <2>8. CASE Abort(w) \/ Bury(w)
    <3>1. /\ UNCHANGED <<bundle, rows, queue>>
          /\ job'.anchors = job.anchors /\ job'.finalizeQueued = job.finalizeQueued
          /\ job'.status \in {job.status, "failed"}
      BY <2>8 DEF Abort, Bury, CancelWorkflow, TypeOK, Job
    <3>2. \A p \in Phases : phase'[p].status = "completed" => Status(p) = "completed"
      BY <2>8, CancelKeeps DEF Abort, Bury, Status
    <3>3. /\ \A v \in Workers : v # w => worker'[v] = worker[v]
          /\ worker'[w].pc # "complete" /\ worker'[w].send \subseteq worker[w].send
          /\ worker'[w].task = Finalize => worker[w].task = Finalize
      BY <2>8, <1>i, <1>t DEF Abort, Bury, Leave, Idle, To, TypeOK, Worker
    <3>. QED BY <3>1, <3>2, <3>3, WholeQuiet
  <2>. QED BY <1>2, <2>1, <2>2, <2>3, <2>4, <2>5, <2>6, <2>7, <2>8, DispatchWhole DEF Step
<1>3. ASSUME NEW w \in Workers, NEW t \in Tasks, Deliver(w, t) PROVE Whole'
  <2>1. /\ \A v \in Workers : v # w => worker'[v] = worker[v]
        /\ worker'[w].pc # "complete" /\ worker'[w].send = {} /\ worker'[w].task = t
      BY <1>3, <1>t DEF Deliver, Idle, TypeOK, Worker
  <2>. QED BY <1>3, <2>1, WholeQuiet DEF Deliver, Status
<1>4. ASSUME NEW w \in Workers, Breaks(w) PROVE Whole'
  <2>1. UNCHANGED <<bundle, rows, job>> /\ queue' \subseteq queue \cup {worker[w].task}
    BY <1>4 DEF Breaks, Fails, Retries, Crash, TurnsBack, GivesUp, Redeliver
  <2>2. \A p \in Phases : phase'[p].status = "completed" => Status(p) = "completed"
    BY <1>4 DEF Breaks, Fails, FailPhase, Retries, Crash, TurnsBack, GivesUp,
         Redeliver, TypeOK, Phase, Status
  <2>3. /\ \A v \in Workers : v # w => worker'[v] = worker[v]
        /\ worker'[w] # worker[w] => worker'[w].pc # "complete"
        /\ worker'[w].send \subseteq worker[w].send
        /\ worker'[w].task = Finalize => worker[w].task = Finalize
    <3>1. CASE Fails(w)
      BY <3>1, <1>i, <1>t DEF Fails, FailPhase, Leave, Idle, To, TypeOK, Worker
    <3>2. CASE Retries(w) \/ Crash(w) \/ TurnsBack(w) \/ GivesUp(w)
      BY <3>2, <1>i DEF Retries, Crash, TurnsBack, GivesUp, Leave, Idle, TypeOK
    <3>3. CASE Redeliver(w)
      BY <3>3 DEF Redeliver
    <3>. QED BY <1>4, <3>1, <3>2, <3>3 DEF Breaks
  <2>. QED BY <2>1, <2>2, <2>3, WholeQuiet
<1>5. ASSUME NEW p \in Phases, Expires(p) \/ SweepPutsBack(p) PROVE Whole'
  <2>1. \A q \in Phases : phase'[q].status = "completed" => Status(q) = "completed"
    BY <1>5 DEF Expires, SweepPutsBack, TypeOK, Phase, Status
  <2>. QED BY <1>5, <2>1, WholeQuiet DEF Expires, SweepPutsBack
<1>6. CASE SweepLists \/ CancelRequest
  <2>1. /\ UNCHANGED <<bundle, rows, queue, worker>>
        /\ job'.anchors = job.anchors /\ job'.finalizeQueued = job.finalizeQueued
        /\ job'.status \in {job.status, "failed"}
    BY <1>6 DEF SweepLists, CancelRequest, CancelWorkflow, TypeOK, Job
  <2>2. \A q \in Phases : phase'[q].status = "completed" => Status(q) = "completed"
    BY <1>6, CancelKeeps DEF SweepLists, CancelRequest, Status
  <2>. QED BY <2>1, <2>2, WholeQuiet
<1>. QED BY <1>1, <1>2, <1>3, <1>4, <1>5, <1>6 DEF Next

\* The import starts typed, with nothing loaded or reported.
LEMMA WholeInit ==
  ASSUME Init
  PROVE  Typed /\ Whole
<1>1. TypeOK
  <2>1. \A p \in Phases : Staged(p) \in Phase
    BY DEF Staged, Phase
  <2>2. Idle \in Worker /\ [Idle EXCEPT !.pc = "dispatch"] \in Worker
    BY DEF Idle, Worker, Tasks
  <2>3. worker \in [Workers -> Worker]
    BY <2>2 DEF Init
  <2>4. phase \in [Phases -> Phase]
    BY <2>1 DEF Init
  <2>5. job \in Job /\ bundle \in BOOLEAN
    BY DEF Init, Job
  <2>6. retries \in [Tasks -> 0 .. MaxRetries] /\ rows \in [Phases -> Nat]
    BY BoundsAssumption DEF Init
  <2>7. queue \subseteq Tasks /\ exposed \subseteq Phases /\ lost \in BOOLEAN
    BY Zenon DEF Init
  <2>9. faults \in 0 .. MaxFaults /\ cancels \in 0 .. MaxCancels
    BY BoundsAssumption DEF Init
  <2>8. sweep \in [todo: SUBSET Phases, running: BOOLEAN]
    BY DEF Init
  <2>. QED BY <2>3, <2>4, <2>5, <2>6, <2>7, <2>8, <2>9 DEF TypeOK
<1>2. Shaped
  BY DEF Init, Shaped, Fit, Idle
<1>3. Whole
  <2>1. \A p \in Phases : Status(p) # "completed"
    BY DEF Init, Status, Staged
  <2>2. \A w \in Workers : /\ worker[w].pc \in {"idle", "dispatch"}
                            /\ worker[w].task # Finalize /\ Finalize \notin worker[w].send
    BY TasksAssumption DEF Init, Idle
  <2>. QED BY <2>1, <2>2 DEF Init, Whole, At
<1>. QED BY <1>1, <1>2, <1>3 DEF Typed

\* The state of an import has its type (imports_importchunkphase, the
\* workflow payload and the tasks of server/api/tasks_import*.py).
THEOREM ImportTypes == Spec => []TypeOK
<1>1. Init => Typed
  BY WholeInit
<1>2. Typed /\ [Next]_vars => Typed'
  BY TypeStep, ShapeStep DEF Typed
<1>3. Typed => TypeOK
  BY DEF Typed
<1>. QED BY <1>1, <1>2, <1>3, PTL DEF Spec

\* An import reported completed, or ready for review, has committed the rows
\* of every chunk (advance_workflow_dispatch, finalize_distributed_import_job).
THEOREM ReportsWholeImports == Spec => []FinalizedWhole
<1>1. Init => Typed /\ Whole
  BY WholeInit
<1>2. Typed /\ Whole /\ [Next]_vars => Typed' /\ Whole'
  BY TypeStep, ShapeStep, WholeStep DEF Typed
<1>3. Whole => FinalizedWhole
  BY DEF Whole, FinalizedWhole, Loaded
<1>. QED BY <1>1, <1>2, <1>3, PTL DEF Spec

-----------------------------------------------------------------------------
\* A step that acquires nothing keeps the tokens apart.
LEMMA FreshKept ==
  ASSUME Fresh,
         \A v \in Workers : Holding(v)' =>
           /\ Holding(v) /\ worker'[v].task = worker[v].task
           /\ worker'[v].token = worker[v].token
           /\ phase'[worker[v].task].attempts = phase[worker[v].task].attempts
  PROVE  Fresh'
  BY DEF Fresh

\* Every step keeps the tokens apart.
LEMMA FreshStep ==
  ASSUME Typed, Fresh, [Next]_vars
  PROVE  Fresh'
<1>. USE DEF Typed
<1>t. \A w \in Workers : worker[w] \in Worker
  BY DEF TypeOK
<1>h. \A w \in Workers : Holding(w) => worker[w].task \in Phases
  BY DEF Holding, At, Shaped, Fit
<1>1. CASE UNCHANGED vars
  BY <1>1, FreshKept DEF vars, Holding, At
<1>2. ASSUME NEW w \in Workers, Step(w) PROVE Fresh'
  <2>1. CASE Claim(w)
    <3>. DEFINE p == worker[w].task
    <3>1. p \in Phases
      BY <2>1 DEF Claim, At, Shaped, Fit
    <3>2. CASE Stopped \/ Status(p) \in Closed
      <4>1. \A v \in Workers : Holding(v)' => Holding(v) /\ worker'[v] = worker[v]
        BY <2>1, <3>2 DEF Claim, Leave, Idle, Holding, At, TypeOK
      <4>2. \A q \in Phases : phase'[q].attempts = phase[q].attempts
        BY <2>1, <3>2 DEF Claim, TypeOK, Phase
      <4>. QED BY <4>1, <4>2, <1>h, FreshKept
    <3>3. CASE ~Stopped /\ Status(p) \notin Closed
      <4>1. /\ phase[p].attempts \in Nat
            /\ phase'[p].attempts = phase[p].attempts + 1
            /\ \A q \in Phases : q # p => phase'[q] = phase[q]
        BY <2>1, <3>1, <3>3 DEF Claim, TypeOK, Phase
      <4>2. /\ worker'[w].task = p /\ worker'[w].token = phase[p].attempts + 1
            /\ \A v \in Workers : v # w => worker'[v] = worker[v]
        BY <2>1, <3>3, <1>t DEF Claim, TypeOK, Worker
      <4>3. \A v \in Workers : v # w /\ Holding(v)' =>
              Holding(v) /\ worker[v].token \in 1 .. phase[worker[v].task].attempts
        BY <4>2 DEF Fresh, Holding, At
      <4>4. \A v \in Workers : Holding(v)' =>
              worker'[v].token \in 1 .. phase'[worker'[v].task].attempts
        BY <1>h, <4>1, <4>2, <4>3
      <4>5. \A v \in Workers : v # w /\ Holding(v)' /\ worker'[v].task = p
                               => worker'[v].token # worker'[w].token
        BY <4>1, <4>2, <4>3
      <4>6. \A u, v \in Workers :
              Holding(u)' /\ Holding(v)' /\ worker'[u].task = worker'[v].task /\ u # v
                => worker'[u].token # worker'[v].token
        BY <4>2, <4>3, <4>5 DEF Fresh
      <4>. QED BY <4>4, <4>6 DEF Fresh
    <3>. QED BY <3>2, <3>3
  <2>2. CASE ~Claim(w)
    <3>1. \A v \in Workers : Holding(v)' =>
            /\ Holding(v) /\ worker'[v].task = worker[v].task
            /\ worker'[v].token = worker[v].token
      <4>1. CASE Work(w) \/ Commit(w) \/ Complete(w)
        BY <4>1, <1>t DEF Work, Commit, Complete, To, Leave, Idle, Holding, At, TypeOK,
             Worker
      <4>2. CASE Yields(w) \/ PrecheckFails(w)
        BY <4>2, <1>t DEF Yields, PrecheckFails, FailPhase, To, Leave, Idle, Holding, At,
                          TypeOK, Worker
      <4>3. CASE Dispatch(w) \/ Send(w)
        BY <4>3, <1>t DEF Dispatch, Send, Leave, Idle, Holding, At, TypeOK, Worker
      <4>4. CASE Read(w)
        <5>1. worker'[w].pc \in {"release", "save"}
          BY <4>4, <1>t DEF Read, TypeOK, Worker
        <5>2. \A v \in Workers : v # w => worker'[v] = worker[v]
          BY <4>4 DEF Read, TypeOK
        <5>. QED BY <5>1, <5>2 DEF Holding, At
      <4>5. CASE Save(w) \/ Abort(w)
        <5>1. worker'[w].pc \in {"release", "bury"}
          <6>1. To(w, "release") \/ To(w, "bury")
            BY <4>5 DEF Save, Abort
          <6>. QED BY <6>1, <1>t DEF To, TypeOK, Worker
        <5>2. \A v \in Workers : v # w => worker'[v] = worker[v]
          BY <4>5 DEF Save, Abort, To, TypeOK
        <5>. QED BY <5>1, <5>2 DEF Holding, At
      <4>6. CASE Release(w) \/ Bury(w)
        BY <4>6 DEF Release, Bury, Leave, Idle, Holding, At, TypeOK
      <4>. QED BY <1>2, <2>2, <4>1, <4>2, <4>3, <4>4, <4>5, <4>6 DEF Step
    <3>2. \A q \in Phases : phase'[q].attempts = phase[q].attempts
      <4>1. CASE Work(w) \/ Yields(w) \/ PrecheckFails(w) \/ Complete(w)
        BY <4>1 DEF Work, Yields, PrecheckFails, FailPhase, Complete, TypeOK, Phase
      <4>2. CASE Dispatch(w)
        BY <4>2 DEF Dispatch, TypeOK, Phase
      <4>3. CASE Abort(w)
        BY <4>3, CancelKeeps DEF Abort
      <4>4. CASE Commit(w) \/ Send(w) \/ Read(w) \/ Save(w) \/ Release(w) \/ Bury(w)
        BY <4>4 DEF Commit, Send, Read, Save, Release, Bury
      <4>. QED BY <1>2, <2>2, <4>1, <4>2, <4>3, <4>4 DEF Step
    <3>. QED BY <3>1, <3>2, <1>h, FreshKept
  <2>. QED BY <2>1, <2>2
<1>3. ASSUME NEW w \in Workers, NEW t \in Tasks, Deliver(w, t) PROVE Fresh'
  <2>1. \A v \in Workers : Holding(v)' => Holding(v) /\ worker'[v] = worker[v]
    BY <1>3 DEF Deliver, Idle, Holding, At, TypeOK
  <2>. QED BY <1>3, <2>1, FreshKept DEF Deliver
<1>4. ASSUME NEW w \in Workers, Breaks(w) PROVE Fresh'
  <2>1. \A v \in Workers : Holding(v)' => Holding(v) /\ worker'[v] = worker[v]
    <3>1. CASE Fails(w)
      BY <3>1, <1>t DEF Fails, FailPhase, To, Leave, Idle, Holding, At, TypeOK, Worker
    <3>2. CASE Retries(w) \/ Crash(w) \/ TurnsBack(w) \/ GivesUp(w) \/ Redeliver(w)
      BY <3>2 DEF Retries, Crash, TurnsBack, GivesUp, Redeliver, Leave, Idle, Holding,
           At, TypeOK
    <3>. QED BY <1>4, <3>1, <3>2 DEF Breaks
  <2>2. \A q \in Phases : phase'[q].attempts = phase[q].attempts
    BY <1>4 DEF Breaks, Fails, FailPhase, Retries, Crash, TurnsBack, GivesUp,
         Redeliver, TypeOK, Phase
  <2>. QED BY <2>1, <2>2, <1>h, FreshKept
<1>5. ASSUME NEW p \in Phases, Expires(p) \/ SweepPutsBack(p) PROVE Fresh'
  <2>1. \A q \in Phases : phase'[q].attempts = phase[q].attempts
    BY <1>5 DEF Expires, SweepPutsBack, TypeOK, Phase
  <2>2. worker' = worker
    BY <1>5 DEF Expires, SweepPutsBack
  <2>. QED BY <2>1, <2>2, <1>h, FreshKept DEF Holding, At
<1>6. CASE SweepLists \/ CancelRequest
  <2>1. \A q \in Phases : phase'[q].attempts = phase[q].attempts
    BY <1>6, CancelKeeps DEF SweepLists, CancelRequest
  <2>2. worker' = worker
    BY <1>6 DEF SweepLists, CancelRequest
  <2>. QED BY <2>1, <2>2, <1>h, FreshKept DEF Holding, At
<1>. QED BY <1>1, <1>2, <1>3, <1>4, <1>5, <1>6 DEF Next

-----------------------------------------------------------------------------
\* Who holds a load that nothing has disturbed is alone after its last fence.
LEMMA Alone ==
  ASSUME Typed, Fresh, Once, NEW w \in Workers, Holding(w), Current(w),
         IsLoad(worker[w].task), worker[w].task \notin exposed
  PROVE  /\ \A v \in Workers : Ending(v, worker[w].task) => v = w
         /\ ~At(w, {"complete"}) => rows[worker[w].task] = 0
<1>. DEFINE p == worker[w].task
<1>1. p \in Phases /\ Guarded(p) /\ rows[p] \in Nat
  BY DEF IsLoad, Once, Typed, TypeOK
<1>2. \A v \in Workers : Ending(v, p) => v = w
  BY <1>1 DEF Guarded, Current, Ending, Fresh, Holding, At
<1>3. Status(p) # "completed"
  BY DEF Current
<1>. QED BY <1>1, <1>2, <1>3 DEF Guarded

\* A load that nothing has disturbed and that is not at risk was not loaded.
LEMMA NotAtRisk ==
  ASSUME Typed, Once, NEW p \in Phases, IsLoad(p), p \notin exposed,
         ~AtRisk(p) \/ Status(p) \notin {"running", "completed"}
  PROVE  rows[p] = 0 /\ \A v \in Workers : ~Ending(v, p)
<1>1. Guarded(p) /\ rows[p] \in Nat
  BY DEF Once, Typed, TypeOK
<1>2. \A v \in Workers : ~Ending(v, p)
  BY <1>1 DEF Guarded, AtRisk, Ending, Current
<1>3. Status(p) # "completed"
  BY DEF AtRisk
<1>. QED BY <1>1, <1>2, <1>3 DEF Guarded

\* What a step that commits and completes nothing has to respect.
LEMMA OnceKept ==
  ASSUME Typed, Once, exposed \subseteq exposed', rows' = rows,
         \A p \in Phases : IsLoad(p) /\ p \notin exposed' =>
           \/ rows[p] = 0 /\ \A v \in Workers : ~Ending(v, p)'
           \/ /\ phase'[p].status = phase[p].status /\ phase'[p].token = phase[p].token
              /\ \A v \in Workers :
                   Ending(v, p)' \/ (Ending(v, p) /\ At(v, {"complete"}))
                     => worker'[v] = worker[v]
  PROVE  Once'
<1>1. ASSUME NEW p \in Phases, IsLoad(p), p \notin exposed' PROVE Guarded(p)'
  <2>1. Guarded(p) /\ rows[p] \in Nat
    BY <1>1 DEF Once, Typed, TypeOK
  <2>2. CASE rows[p] = 0 /\ \A v \in Workers : ~Ending(v, p)'
    BY <2>2 DEF Guarded
  <2>3. CASE /\ phase'[p].status = phase[p].status /\ phase'[p].token = phase[p].token
             /\ \A v \in Workers :
                  Ending(v, p)' \/ (Ending(v, p) /\ At(v, {"complete"}))
                    => worker'[v] = worker[v]
    <3>1. \A v \in Workers : Ending(v, p)' => Ending(v, p) /\ worker'[v] = worker[v]
      BY <2>3 DEF Ending, At
    <3>2. \A v \in Workers : Ending(v, p)' => Current(v)'
      BY <2>1, <2>3, <3>1 DEF Guarded, Current, Status, Ending
    <3>3. rows[p] = 1 => \/ phase'[p].status = "completed"
                        \/ \E v \in Workers : Ending(v, p)' /\ At(v, {"complete"})'
      BY <2>1, <2>3 DEF Guarded, Status, Ending, At
    <3>. QED BY <2>1, <3>2, <3>3 DEF Guarded, Status
  <2>. QED BY <1>1, <2>2, <2>3
<1>2. \A p \in Phases : IsLoad(p)' = IsLoad(p)
  BY DEF IsLoad
<1>. QED BY <1>1, <1>2 DEF Once

\* Every step of the worker of a load or plan keeps Once.
LEMMA PhaseTaskOnce ==
  ASSUME Typed, Fresh, Once, NEW w \in Workers,
         Claim(w) \/ Work(w) \/ Yields(w) \/ PrecheckFails(w) \/ Commit(w) \/ Complete(w)
  PROVE  Once'
<1>p. PICK p \in Phases : p = worker[w].task
  BY DEF Claim, Work, Yields, PrecheckFails, Commit, Complete, At, Typed, Shaped, Fit
<1>t. worker \in [Workers -> Worker] /\ phase \in [Phases -> Phase] /\ worker[w] \in Worker
  BY DEF Typed, TypeOK
<1>1. CASE Claim(w)
  <2>1. CASE ~Stopped /\ Status(p) \notin Closed
    <3>1. /\ \A v \in Workers : v # w => worker'[v] = worker[v]
          /\ worker'[w].pc = "work" /\ worker[w].pc = "claim"
      BY <1>p, <1>1, <2>1, <1>t DEF Claim, Worker, At
    <3>2. \A q \in Phases : q # p => phase'[q] = phase[q]
      BY <1>p, <1>1, <2>1, <1>t DEF Claim
    <3>3. \A v \in Workers, q \in Phases :
            /\ Ending(v, q)' => v # w
            /\ Ending(v, q) => v # w
      BY <1>p, <3>1 DEF Ending, At
    <3>4. IsLoad(p) /\ p \notin exposed' => rows[p] = 0 /\ \A v \in Workers : ~Ending(v, p)'
      <4>1. ASSUME IsLoad(p), p \notin exposed'
            PROVE  rows[p] = 0 /\ \A v \in Workers : ~Ending(v, p)'
        <5>1. p \notin exposed /\ \A v \in Workers : ~Ending(v, p)
          BY <1>p, <1>1, <2>1, <4>1 DEF Claim, Ending
        <5>2. ~AtRisk(p)
          BY <1>p, <2>1, <5>1 DEF AtRisk, Closed, Ending
        <5>3. rows[p] = 0
          BY <1>p, <4>1, <5>1, <5>2, NotAtRisk
        <5>4. \A v \in Workers : ~Ending(v, p)'
          BY <1>p, <3>1, <5>1 DEF Ending, At
        <5>. QED BY <5>3, <5>4
      <4>. QED BY <4>1
    <3>5. exposed \subseteq exposed' /\ rows' = rows
      BY <1>p, <1>1, <2>1 DEF Claim
    <3>. QED BY <1>p, <3>1, <3>2, <3>3, <3>4, <3>5, OnceKept
  <2>2. CASE Stopped \/ Status(p) \in Closed
    <3>1. /\ \A v \in Workers : v # w => worker'[v] = worker[v]
          /\ worker'[w].pc = "idle" /\ worker[w].pc = "claim"
      BY <1>p, <1>1, <2>2, <1>t DEF Claim, Leave, Idle, At
    <3>2. \A v \in Workers, q \in Phases :
            Ending(v, q)' \/ Ending(v, q) => worker'[v] = worker[v]
      BY <1>p, <3>1 DEF Ending, At
    <3>3. \A q \in Phases :
            \/ phase'[q] = phase[q]
            \/ Status(q) \in {"blocked", "pending", "queued"}
      BY <1>p, <1>1, <2>2, <1>t DEF Claim
    <3>4. exposed' = exposed /\ rows' = rows
      BY <1>p, <1>1, <2>2 DEF Claim
    <3>5. \A q \in Phases : /\ Status(q) \in {"blocked", "pending", "queued"}
                            /\ IsLoad(q) /\ q \notin exposed
                            => rows[q] = 0 /\ \A v \in Workers : ~Ending(v, q)'
      BY <1>p, <3>2, NotAtRisk DEF Ending, At
    <3>. QED BY <1>p, <3>2, <3>3, <3>4, <3>5, OnceKept
  <2>. QED BY <2>1, <2>2
<1>2. CASE Work(w)
  <2>1. /\ Current(w) /\ Holding(w) /\ At(w, {"work"}) /\ rows' = rows /\ exposed' = exposed
    BY <1>p, <1>2 DEF Work, history, Holding, At
  <2>2. /\ \A v \in Workers : v # w => worker'[v] = worker[v]
        /\ worker'[w].task = p /\ worker'[w].token = worker[w].token
    BY <1>p, <1>2, <1>t DEF Work, To, Worker
  <2>3. \A q \in Phases : phase'[q].status = phase[q].status /\ phase'[q].token = phase[q].token
    BY <1>p, <1>2, <1>t DEF Work, Phase
  <2>4. ASSUME NEW q \in Phases, IsLoad(q), q \notin exposed PROVE Guarded(q)'
    <3>1. Guarded(q)
      BY <1>p, <2>4 DEF Once
    <3>2. \A v \in Workers : Ending(v, q)' => Current(v)'
      BY <1>p, <2>1, <2>2, <2>3, <3>1 DEF Guarded, Ending, Current, Status, At
    <3>3. \A v \in Workers : Ending(v, q) /\ At(v, {"complete"})
                             => Ending(v, q)' /\ At(v, {"complete"})'
      BY <1>p, <2>1, <2>2 DEF Ending, At
    <3>. QED BY <1>p, <2>1, <2>3, <3>1, <3>2, <3>3 DEF Guarded, Status
  <2>. QED BY <1>p, <2>1, <2>4 DEF Once, IsLoad
<1>3. CASE Yields(w) \/ PrecheckFails(w)
  <2>1. /\ At(w, {"work"}) /\ Holding(w) /\ rows' = rows /\ exposed' = exposed
    BY <1>p, <1>3 DEF Yields, PrecheckFails, history, Holding, At
  <2>2. /\ \A v \in Workers : v # w => worker'[v] = worker[v]
        /\ worker'[w].pc \in {"idle", "abort"}
    BY <1>p, <1>3, <1>t DEF Yields, PrecheckFails, FailPhase, To, Leave, Idle, Worker
  <2>3. /\ \A q \in Phases : q # p => phase'[q] = phase[q]
        /\ phase' = phase \/ Current(w)
    BY <1>p, <1>3, <1>t DEF Yields, PrecheckFails, FailPhase
  <2>4. \A v \in Workers, q \in Phases :
          Ending(v, q)' \/ Ending(v, q) => v # w /\ worker'[v] = worker[v]
    BY <1>p, <2>1, <2>2 DEF Ending, At
  <2>5. Current(w) /\ IsLoad(p) /\ p \notin exposed
          => rows[p] = 0 /\ \A v \in Workers : ~Ending(v, p)'
    BY <1>p, <2>1, <2>2, <2>4, Alone DEF At, Ending
  <2>. QED BY <1>p, <2>1, <2>3, <2>4, <2>5, OnceKept
<1>4. CASE Commit(w)
  <2>1. /\ At(w, {"commit"}) /\ Holding(w) /\ phase' = phase /\ IsLoad(p)
        /\ rows' = [rows EXCEPT ![p] = @ + 1]
        /\ exposed' = IF Current(w) THEN exposed ELSE exposed \cup {p}
    BY <1>p, <1>4 DEF Commit, Holding, At, Typed, Shaped, Fit
  <2>2. /\ \A v \in Workers : v # w => worker'[v] = worker[v]
        /\ worker'[w].task = p /\ worker'[w].token = worker[w].token
        /\ worker'[w].pc = "complete"
    BY <1>p, <1>4, <1>t DEF Commit, To, Worker
  <2>3. rows \in [Phases -> Nat]
    BY DEF Typed, TypeOK
  <2>4. ASSUME NEW q \in Phases, IsLoad(q), q \notin exposed' PROVE Guarded(q)'
    <3>1. Guarded(q) /\ q \notin exposed
      BY <1>p, <2>1, <2>4 DEF Once
    <3>2. \A v \in Workers : Ending(v, q)' => Current(v)'
      BY <1>p, <2>1, <2>2, <3>1 DEF Guarded, Ending, Current, Status, At
    <3>3. CASE q = p
      <4>1. Current(w)
        BY <1>p, <2>1, <2>4, <3>3
      <4>2. rows[p] = 0
        BY <1>p, <2>1, <2>4, <3>1, <3>3, <4>1, Alone DEF At
      <4>3. rows'[p] = 1 /\ Ending(w, p)' /\ At(w, {"complete"})'
        BY <1>p, <2>1, <2>2, <2>3, <4>2 DEF Ending, At
      <4>. QED BY <1>p, <3>2, <3>3, <4>3 DEF Guarded
    <3>4. CASE q # p
      <4>1. rows'[q] = rows[q]
        BY <1>p, <2>1, <2>3, <3>4
      <4>2. \A v \in Workers : Ending(v, q) => v # w /\ Ending(v, q)' /\ worker'[v] = worker[v]
        BY <1>p, <2>2, <3>4 DEF Ending, At
      <4>. QED BY <1>p, <2>1, <3>1, <3>2, <4>1, <4>2 DEF Guarded, Status, At
    <3>. QED BY <3>3, <3>4
  <2>5. \A q \in Phases : ~IsLoad(q) => rows'[q] = 0
    BY <1>p, <2>1, <2>3 DEF Once
  <2>. QED BY <1>p, <2>4, <2>5 DEF Once, IsLoad
<1>5. CASE Complete(w)
  <2>1. /\ At(w, {"complete"}) /\ Holding(w) /\ rows' = rows /\ exposed' = exposed
    BY <1>p, <1>5 DEF Complete, history, Holding, At
  <2>2. /\ \A v \in Workers : v # w => worker'[v] = worker[v]
        /\ worker'[w].pc \in {"idle", "dispatch"}
    BY <1>p, <1>5, <1>t DEF Complete, To, Leave, Idle, Worker
  <2>3. /\ \A q \in Phases : q # p => phase'[q] = phase[q]
        /\ Current(w) => phase'[p].status = "completed"
    BY <1>p, <1>5, <1>t DEF Complete, Phase
  <2>4. ASSUME NEW q \in Phases, IsLoad(q), q \notin exposed PROVE Guarded(q)'
    <3>1. Guarded(q)
      BY <1>p, <2>4 DEF Once
    <3>2. CASE q = p
      <4>1. Ending(w, p)
        BY <1>p, <2>1 DEF Ending, At
      <4>2. Current(w)
        BY <1>p, <3>1, <3>2, <4>1 DEF Guarded
      <4>3. \A v \in Workers : ~Ending(v, p)'
        <5>1. \A v \in Workers : Ending(v, p) => v = w
          BY <1>p, <2>1, <2>4, <3>2, <4>2, Alone
        <5>. QED BY <1>p, <2>2, <5>1 DEF Ending, At
      <4>. QED BY <1>p, <2>1, <2>3, <3>1, <3>2, <4>2, <4>3 DEF Guarded, Status
    <3>3. CASE q # p
      <4>1. \A v \in Workers : Ending(v, q)' \/ Ending(v, q) => v # w /\ worker'[v] = worker[v]
        BY <1>p, <2>2, <3>3 DEF Ending, At
      <4>2. \A v \in Workers : Ending(v, q)' => Current(v)'
        BY <1>p, <2>3, <3>1, <3>3, <4>1 DEF Guarded, Ending, Current, Status, At
      <4>3. \A v \in Workers : Ending(v, q) /\ At(v, {"complete"})
                               => Ending(v, q)' /\ At(v, {"complete"})'
        BY <1>p, <4>1 DEF Ending, At
      <4>. QED BY <1>p, <2>1, <2>3, <3>1, <3>3, <4>2, <4>3 DEF Guarded, Status
    <3>. QED BY <3>2, <3>3
  <2>. QED BY <1>p, <2>1, <2>4 DEF Once, IsLoad
<1>. QED BY <1>1, <1>2, <1>3, <1>4, <1>5

\* Faults keep Once: whatever cuts off or puts back a load after its last
\* fence exposes it.
LEMMA FaultOnce ==
  ASSUME Typed, Fresh, Once, NEW w \in Workers, Breaks(w)
  PROVE  Once'
<1>t. worker \in [Workers -> Worker] /\ phase \in [Phases -> Phase] /\ worker[w] \in Worker
  BY DEF Typed, TypeOK
<1>1. exposed \subseteq exposed' /\ rows' = rows
  BY DEF Breaks, Fails, Retries, Crash, TurnsBack, GivesUp, Redeliver, history
<1>2. CASE Fails(w) \/ Retries(w) \/ Crash(w) \/ TurnsBack(w) \/ GivesUp(w)
  <2>1. /\ \A v \in Workers : v # w => worker'[v] = worker[v]
        /\ worker'[w].pc \in {"idle", "abort"}
    BY <1>2, <1>t DEF Fails, FailPhase, Retries, Crash, TurnsBack, GivesUp, To, Leave,
         Idle, At, Worker
  <2>2. \A v \in Workers, q \in Phases : Ending(v, q)' => Ending(v, q) /\ worker'[v] = worker[v]
    BY <2>1 DEF Ending, At
  <2>3. ASSUME NEW q \in Phases, IsLoad(q), q \notin exposed', q # worker[w].task
        PROVE  /\ phase'[q] = phase[q]
               /\ \A v \in Workers : Ending(v, q) => worker'[v] = worker[v]
    BY <1>2, <1>t, <2>1, <2>3 DEF Fails, FailPhase, Retries, Crash, TurnsBack, GivesUp,
         Ending
  <2>4. ASSUME NEW q \in Phases, IsLoad(q), q \notin exposed', q = worker[w].task, AtRisk(q)
        PROVE  \/ rows[q] = 0 /\ \A v \in Workers : ~Ending(v, q)'
               \/ /\ phase'[q] = phase[q]
                  /\ \A v \in Workers : Ending(v, q) /\ At(v, {"complete"})
                                          => worker'[v] = worker[v]
    <3>1. Guarded(q)
      BY <1>1, <2>4 DEF Once
    <3>2. CASE Fails(w) /\ At(w, {"commit"})
      <4>1. Current(w) /\ Holding(w)
        BY <2>4, <3>1, <3>2 DEF Guarded, Ending, Holding, At
      <4>2. rows[q] = 0 /\ \A v \in Workers : Ending(v, q) => v = w
        BY <1>1, <2>4, <3>2, <4>1, Alone DEF At
      <4>. QED BY <2>1, <2>2, <4>2 DEF Ending, At
    <3>3. CASE TurnsBack(w) \/ GivesUp(w)
      BY <2>1, <3>3 DEF TurnsBack, GivesUp, At
    <3>4. CASE Fails(w) /\ ~At(w, {"commit"})
      BY <1>t, <2>4, <3>4, TasksAssumption DEF Fails, At, Tasks, Typed, Shaped, Fit
    <3>5. CASE Retries(w) /\ ~At(w, {"claim", "save"})
      BY <2>4, <3>5 DEF Retries, At
    <3>6. CASE Retries(w) /\ At(w, {"claim", "save"})
      BY <2>1, <3>6 DEF Retries, At
    <3>7. CASE Crash(w)
      BY <2>1, <2>4, <3>7 DEF Crash, Ending, At
    <3>. QED BY <1>2, <3>2, <3>3, <3>4, <3>5, <3>6, <3>7 DEF At
  <2>5. ASSUME NEW q \in Phases, IsLoad(q), q \notin exposed', ~AtRisk(q)
        PROVE  rows[q] = 0 /\ \A v \in Workers : ~Ending(v, q)'
    BY <1>1, <2>2, <2>5, NotAtRisk
  <2>6. ASSUME NEW q \in Phases, IsLoad(q), q \notin exposed'
        PROVE  \/ rows[q] = 0 /\ \A v \in Workers : ~Ending(v, q)'
               \/ /\ phase'[q] = phase[q]
                  /\ \A v \in Workers : Ending(v, q) /\ At(v, {"complete"})
                                          => worker'[v] = worker[v]
    BY <2>3, <2>4, <2>5, <2>6
  <2>. QED BY <1>1, <2>2, <2>6, OnceKept
<1>3. CASE Redeliver(w)
  BY <1>1, <1>3, OnceKept DEF Redeliver
<1>. QED BY <1>2, <1>3 DEF Breaks

\* Every step keeps Once.
LEMMA OnceStep ==
  ASSUME Typed, Fresh, Once, [Next]_vars
  PROVE  Once'
<1>t. worker \in [Workers -> Worker] /\ phase \in [Phases -> Phase]
  BY DEF Typed, TypeOK
<1>1. CASE UNCHANGED vars
  BY <1>1, OnceKept DEF vars, history
<1>w. ASSUME NEW q \in Phases, IsLoad(q), q \notin exposed,
             Status(q) \notin {"running", "completed"}
      PROVE  rows[q] = 0 /\ \A v \in Workers : ~Ending(v, q)
  BY <1>w, NotAtRisk
<1>2. ASSUME NEW w \in Workers, Step(w) PROVE Once'
  <2>1. CASE \/ Dispatch(w) \/ Send(w) \/ Read(w) \/ Save(w) \/ Release(w)
             \/ Abort(w) \/ Bury(w)
    <3>1. /\ \A v \in Workers : v # w => worker'[v] = worker[v]
          /\ worker[w].pc \notin {"commit", "complete"}
      BY <2>1, <1>t DEF Dispatch, Send, Read, Save, Release, Abort, Bury, To, Leave, At
    <3>2. worker'[w].pc \notin {"commit", "complete"}
      <4>1. CASE Dispatch(w) \/ Send(w)
        BY <4>1, <1>t DEF Dispatch, Send, Leave, Idle, At, Worker
      <4>2. CASE Read(w)
        BY <4>2, <1>t DEF Read, Worker
      <4>3. CASE Release(w) \/ Bury(w)
        BY <4>3, <1>t DEF Release, Bury, Leave, Idle
      <4>4. CASE Save(w) \/ Abort(w)
        <5>1. To(w, "release") \/ To(w, "bury")
          BY <4>4 DEF Save, Abort
        <5>. QED BY <5>1, <1>t DEF To, Worker
      <4>. QED BY <2>1, <4>1, <4>2, <4>3, <4>4
    <3>3. \A v \in Workers, q \in Phases :
            Ending(v, q)' \/ Ending(v, q) => worker'[v] = worker[v]
      BY <3>1, <3>2 DEF Ending, At
    <3>4. \A q \in Phases :
            phase'[q] = phase[q] \/ Status(q) \in {"blocked", "pending", "queued"}
      <4>1. CASE Dispatch(w)
        BY <4>1, <1>t DEF Dispatch, Due, Unstarted, Pending
      <4>2. CASE Abort(w)
        BY <4>2, CancelKeeps DEF Abort, Typed
      <4>3. CASE Send(w) \/ Read(w) \/ Save(w) \/ Release(w) \/ Bury(w)
        BY <4>3 DEF Send, Read, Save, Release, Bury
      <4>. QED BY <2>1, <4>1, <4>2, <4>3
    <3>5. exposed' = exposed /\ rows' = rows
      BY <2>1 DEF Dispatch, Send, Read, Save, Release, Abort, Bury, history
    <3>6. \A v \in Workers, q \in Phases : Ending(v, q)' => Ending(v, q)
      BY <3>3 DEF Ending, At
    <3>. QED BY <3>3, <3>4, <3>5, <3>6, <1>w, OnceKept
  <2>. QED BY <1>2, <2>1, PhaseTaskOnce DEF Step
<1>3. ASSUME NEW w \in Workers, NEW t \in Tasks, Deliver(w, t) PROVE Once'
  <2>1. /\ \A v \in Workers : v # w => worker'[v] = worker[v]
        /\ worker[w].pc = "idle" /\ worker'[w].pc \in {"read", "claim"}
    BY <1>3, <1>t DEF Deliver, Idle, At
  <2>2. \A v \in Workers, q \in Phases :
          Ending(v, q)' \/ Ending(v, q) => worker'[v] = worker[v]
    BY <2>1 DEF Ending, At
  <2>. QED BY <1>3, <2>2, OnceKept DEF Deliver, history
<1>4. ASSUME NEW p \in Phases, Expires(p) \/ SweepPutsBack(p) PROVE Once'
  <2>1. UNCHANGED <<worker, rows>> /\ exposed \subseteq exposed'
    BY <1>4 DEF Expires, SweepPutsBack, history
  <2>2. \A q \in Phases :
          \/ phase'[q].status = phase[q].status /\ phase'[q].token = phase[q].token
          \/ q \in exposed' \/ ~AtRisk(q)
    BY <1>4, <1>t DEF Expires, SweepPutsBack, Phase
  <2>3. ASSUME NEW q \in Phases, IsLoad(q), q \notin exposed', ~AtRisk(q)
        PROVE  rows[q] = 0 /\ \A v \in Workers : ~Ending(v, q)'
    BY <2>1, <2>3, NotAtRisk DEF Ending, At
  <2>. QED BY <2>1, <2>2, <2>3, OnceKept
<1>5. CASE SweepLists \/ CancelRequest
  <2>1. UNCHANGED <<worker, rows, exposed>>
    BY <1>5 DEF SweepLists, CancelRequest, history
  <2>2. \A q \in Phases :
          phase'[q] = phase[q] \/ Status(q) \in {"blocked", "pending", "queued"}
    BY <1>5, CancelKeeps DEF SweepLists, CancelRequest, Typed
  <2>3. \A v \in Workers, q \in Phases : Ending(v, q)' => Ending(v, q)
    BY <2>1 DEF Ending, At
  <2>. QED BY <2>1, <2>2, <2>3, <1>w, OnceKept
<1>. QED BY <1>1, <1>2, <1>3, <1>4, <1>5, FaultOnce DEF Next

\* The rows of a chunk are committed once, unless its load was cut off or put
\* back after its last fence (run_with_phase_attempt_fence, acquire_phase,
\* complete_phase).
THEOREM LoadsOnce == Spec => []LoadedOnce
<1>1. Init => Typed /\ Fresh /\ Once
  <2>1. ASSUME Init PROVE Fresh /\ Once
    <3>1. \A w \in Workers : worker[w].pc \in {"idle", "dispatch"}
      BY <2>1 DEF Init, Idle
    <3>2. \A p \in Phases : rows[p] = 0
      BY <2>1 DEF Init
    <3>. QED BY <3>1, <3>2 DEF Fresh, Once, Guarded, Holding, Ending, At
  <2>. QED BY <2>1, WholeInit
<1>2. Typed /\ Fresh /\ Once /\ [Next]_vars => Typed' /\ Fresh' /\ Once'
  BY TypeStep, ShapeStep, FreshStep, OnceStep DEF Typed
<1>3. Typed /\ Once => LoadedOnce
  BY DEF Once, Guarded, LoadedOnce, Typed, TypeOK
<1>. QED BY <1>1, <1>2, <1>3, PTL DEF Spec

-----------------------------------------------------------------------------
\* Nothing undoes a completed load without exposing it.
LEMMA CompletedStays ==
  ASSUME Typed, [Next]_vars, NEW p \in Phases, IsLoad(p), Status(p) = "completed"
  PROVE  phase'[p].status = "completed" \/ p \in exposed'
<1>t. phase \in [Phases -> Phase]
  BY DEF Typed, TypeOK
<1>r. AtRisk(p)
  BY DEF AtRisk
<1>1. CASE UNCHANGED vars
  BY <1>1 DEF vars, Status
<1>2. ASSUME NEW w \in Workers, Step(w) PROVE phase'[p].status = "completed"
  <2>1. CASE Claim(w)
    BY <1>t, <2>1 DEF Claim, Closed, Status
  <2>2. CASE Work(w) \/ Yields(w) \/ PrecheckFails(w) \/ Complete(w)
    BY <1>t, <2>2 DEF Work, Yields, PrecheckFails, FailPhase, Complete, Current,
         Status, Phase
  <2>3. CASE Dispatch(w)
    BY <1>t, <2>3 DEF Dispatch, Due, Unstarted, Pending, Status
  <2>4. CASE Abort(w)
    BY <2>4, CancelKeeps DEF Abort, Typed, Status
  <2>5. CASE Commit(w) \/ Send(w) \/ Read(w) \/ Save(w) \/ Release(w) \/ Bury(w)
    BY <2>5 DEF Commit, Send, Read, Save, Release, Bury, Status
  <2>. QED BY <1>2, <2>1, <2>2, <2>3, <2>4, <2>5 DEF Step
<1>3. ASSUME NEW w \in Workers, NEW t \in Tasks, Deliver(w, t)
      PROVE  phase'[p].status = "completed"
  BY <1>3 DEF Deliver, Status
<1>4. ASSUME NEW w \in Workers, Breaks(w)
      PROVE  phase'[p].status = "completed" \/ p \in exposed'
  <2>1. CASE Fails(w)
    BY <1>t, <2>1 DEF Fails, FailPhase, Current, Status
  <2>2. CASE Retries(w)
    BY <1>t, <1>r, <2>2 DEF Retries, Status
  <2>3. CASE Crash(w) \/ TurnsBack(w) \/ GivesUp(w) \/ Redeliver(w)
    BY <2>3 DEF Crash, TurnsBack, GivesUp, Redeliver, Status
  <2>. QED BY <1>4, <2>1, <2>2, <2>3 DEF Breaks
<1>5. ASSUME NEW q \in Phases, Expires(q) \/ SweepPutsBack(q)
      PROVE  phase'[p].status = "completed" \/ p \in exposed'
  BY <1>t, <1>r, <1>5 DEF Expires, SweepPutsBack, Status, Phase
<1>6. CASE SweepLists \/ CancelRequest
  BY <1>6, CancelKeeps DEF SweepLists, CancelRequest, Typed, Status
<1>. QED BY <1>1, <1>2, <1>3, <1>4, <1>5, <1>6 DEF Next

\* What is exposed stays so, and the map of roots is never taken back.
LEMMA HistoryGrows ==
  ASSUME Typed, [Next]_vars
  PROVE  exposed \subseteq exposed' /\ (job.anchors => job'.anchors)
<1>1. CASE UNCHANGED vars
  BY <1>1 DEF vars, history
<1>2. ASSUME NEW w \in Workers, Step(w)
      PROVE  exposed \subseteq exposed' /\ (job.anchors => job'.anchors)
  <2>1. exposed \subseteq exposed'
    BY <1>2 DEF Step, Claim, Work, Yields, PrecheckFails, Commit, Complete, Dispatch, Send,
                Read, Save, Release, Abort, Bury, history
  <2>2. CASE Dispatch(w)
    BY <2>1, <2>2 DEF Dispatch, Typed, TypeOK, Job
  <2>3. CASE Save(w) \/ Abort(w) \/ Bury(w)
    BY <2>1, <2>3 DEF Save, Abort, Bury, CancelWorkflow, Typed, TypeOK, Job
  <2>4. CASE ~(Dispatch(w) \/ Save(w) \/ Abort(w) \/ Bury(w))
    BY <1>2, <2>1, <2>4 DEF Step, Claim, Work, Yields, PrecheckFails, Commit, Complete,
         Send,
                            Read, Release
  <2>. QED BY <2>2, <2>3, <2>4
<1>3. ASSUME NEW w \in Workers, NEW t \in Tasks, Deliver(w, t)
      PROVE  exposed \subseteq exposed' /\ job' = job
  BY <1>3 DEF Deliver, history
<1>4. ASSUME NEW w \in Workers, Breaks(w)
      PROVE  exposed \subseteq exposed' /\ job' = job
  BY <1>4 DEF Breaks, Fails, Retries, Crash, TurnsBack, GivesUp, Redeliver, history
<1>5. ASSUME NEW p \in Phases, Expires(p) \/ SweepPutsBack(p)
      PROVE  exposed \subseteq exposed' /\ job' = job
  BY <1>5 DEF Expires, SweepPutsBack, history
<1>6. CASE SweepLists \/ CancelRequest
  BY <1>6 DEF SweepLists, CancelRequest, CancelWorkflow, history, Typed, TypeOK, Job
<1>. QED BY <1>1, <1>2, <1>3, <1>4, <1>5, <1>6 DEF Next

\* A child's load waits until the dispatch builds the map of roots.
LEMMA WaitingStays ==
  ASSUME Typed, [Next]_vars, NEW p \in Of(Children, "load"), Waiting(p)
  PROVE  Waiting(p)' \/ \E w \in Workers : Dispatch(w) /\ ~Stopped /\ ~Failed /\ p \in Due
<1>t. /\ worker \in [Workers -> Worker] /\ phase \in [Phases -> Phase]
      /\ p \in Phases /\ p # Finalize /\ p # Prepare
  BY TasksAssumption DEF Typed, TypeOK, Of, Phases
<1>i. Idle.task # p /\ p \notin Idle.send
  BY <1>t DEF Idle
<1>1. CASE UNCHANGED vars
  BY <1>1 DEF vars, Waiting, Status
<1>2. ASSUME NEW w \in Workers, Step(w)
      PROVE  Waiting(p)' \/ (Dispatch(w) /\ ~Stopped /\ ~Failed /\ p \in Due)
  <2>1. CASE \/ Claim(w) \/ Work(w) \/ Yields(w) \/ PrecheckFails(w)
             \/ Commit(w) \/ Complete(w)
    <3>1. phase'[p] = phase[p]
      BY <1>t, <2>1 DEF Claim, Work, Yields, PrecheckFails, FailPhase, Commit,
           Complete, Waiting
    <3>2. \A v \in Workers : worker'[v].task # p /\ p \notin worker'[v].send
      <4>1. CASE Claim(w)
        BY <1>t, <1>i, <4>1 DEF Claim, Leave, Waiting, Worker
      <4>2. CASE Work(w) \/ Commit(w) \/ Complete(w)
        <5>1. Leave(w) \/ To(w, "commit") \/ To(w, "complete") \/ To(w, "dispatch")
          BY <4>2 DEF Work, Commit, Complete
        <5>. QED BY <1>t, <1>i, <5>1 DEF To, Leave, Waiting, Worker
      <4>3. CASE Yields(w) \/ PrecheckFails(w)
        <5>1. Leave(w) \/ To(w, "abort")
          BY <4>3 DEF Yields, PrecheckFails, FailPhase
        <5>. QED BY <1>t, <1>i, <5>1 DEF To, Leave, Waiting, Worker
      <4>. QED BY <2>1, <4>1, <4>2, <4>3
    <3>. QED BY <2>1, <3>1, <3>2 DEF Claim, Work, Yields, PrecheckFails, Commit, Complete,
                                     Waiting, Status
  <2>2. CASE Dispatch(w)
    <3>1. CASE Stopped \/ Failed
      BY <1>t, <1>i, <2>2, <3>1 DEF Dispatch, Leave, Waiting, Status
    <3>2. CASE ~(Stopped \/ Failed) /\ p \notin Due
      BY <1>t, <2>2, <3>2 DEF Dispatch, Waiting, Status, Worker
    <3>. QED BY <2>2, <3>1, <3>2
  <2>3. CASE Send(w)
    BY <1>t, <1>i, <2>3 DEF Send, Leave, Waiting, Status, Worker
  <2>4. CASE Read(w)
    BY <1>t, <2>4 DEF Read, Waiting, Status, Worker
  <2>5. CASE Save(w) \/ Release(w) \/ Bury(w)
    <3>1. UNCHANGED <<phase, queue, sweep>> /\ (To(w, "release") \/ Leave(w))
      BY <2>5 DEF Save, Release, Bury
    <3>. QED BY <1>t, <1>i, <3>1 DEF To, Leave, Waiting, Status, Worker
  <2>6. CASE Abort(w)
    <3>1. phase'[p].status \in {"none", "blocked", "cancelled"}
      BY <1>t, <2>6, CancelKeeps DEF Abort, Typed, Waiting, Status
    <3>. QED BY <1>t, <2>6, <3>1 DEF Abort, To, Waiting, Status, Worker
  <2>. QED BY <1>2, <2>1, <2>2, <2>3, <2>4, <2>5, <2>6 DEF Step
<1>3. ASSUME NEW w \in Workers, NEW t \in Tasks, Deliver(w, t) PROVE Waiting(p)'
  <2>1. worker'[w].task = t /\ worker'[w].send = {} /\ t # p
    BY <1>t, <1>3 DEF Deliver, Idle, Waiting
  <2>. QED BY <1>t, <1>3, <2>1 DEF Deliver, Waiting, Status
<1>4. ASSUME NEW w \in Workers, Breaks(w) PROVE Waiting(p)'
  <2>1. phase'[p] = phase[p] /\ p \notin queue' /\ sweep' = sweep
    BY <1>t, <1>4 DEF Breaks, Fails, FailPhase, Retries, Crash, TurnsBack, GivesUp,
         Redeliver, Waiting
  <2>2. \A v \in Workers : worker'[v].task # p /\ p \notin worker'[v].send
    BY <1>t, <1>i, <1>4 DEF Breaks, Fails, FailPhase, Retries, Crash, TurnsBack,
         GivesUp, Redeliver, To, Leave,
                            Waiting, Worker
  <2>. QED BY <2>1, <2>2 DEF Waiting, Status
<1>5. ASSUME NEW q \in Phases, Expires(q) \/ SweepPutsBack(q) PROVE Waiting(p)'
  <2>1. q # p /\ phase'[p] = phase[p]
    BY <1>t, <1>5 DEF Expires, SweepPutsBack, Waiting
  <2>2. sweep'.todo \subseteq sweep.todo
    BY <1>5 DEF Expires, SweepPutsBack, Typed, TypeOK
  <2>. QED BY <1>5, <2>1, <2>2 DEF Expires, SweepPutsBack, Waiting, Status
<1>6. CASE SweepLists
  BY <1>6 DEF SweepLists, Waiting, Status
<1>7. CASE CancelRequest
  <2>1. phase'[p].status \in {"none", "blocked", "cancelled"}
    BY <1>t, <1>7, CancelKeeps DEF CancelRequest, Typed, Waiting, Status
  <2>. QED BY <1>7, <2>1 DEF CancelRequest, Waiting, Status
<1>. QED BY <1>1, <1>2, <1>3, <1>4, <1>5, <1>6, <1>7 DEF Next

\* Every step keeps the children behind the roots.
LEMMA RootedStep ==
  ASSUME Typed, Rooted, [Next]_vars
  PROVE  Rooted'
<1>r. \A p \in Of(Roots, "load") : p \in Phases /\ IsLoad(p)
  BY DEF Of, Phases, IsLoad
<1>1. CASE job.anchors
  <2>1. job'.anchors /\ exposed \subseteq exposed'
    BY <1>1, HistoryGrows
  <2>2. \A p \in Of(Roots, "load") : phase'[p].status = "completed" \/ p \in exposed'
    BY <1>1, <1>r, <2>1, CompletedStays DEF Rooted
  <2>. QED BY <2>1, <2>2 DEF Rooted, Status
<1>2. CASE ~job.anchors
  <2>1. CASE job'.anchors
    <3>1. \E w \in Workers : Dispatch(w) /\ Anchored
      <4>1. CASE \E w \in Workers : Dispatch(w)
        BY <1>2, <2>1, <4>1 DEF Dispatch, Typed, TypeOK, Job
      <4>2. CASE ~\E w \in Workers : Dispatch(w)
        <5>1. job'.anchors = job.anchors
          <6>1. CASE \E w \in Workers : Save(w) \/ Abort(w) \/ Bury(w)
            BY <6>1 DEF Save, Abort, Bury, CancelWorkflow, Typed, TypeOK, Job
          <6>2. CASE CancelRequest
            BY <6>2 DEF CancelRequest, CancelWorkflow, Typed, TypeOK, Job
          <6>3. CASE ~CancelRequest /\ ~\E w \in Workers : Save(w) \/ Abort(w) \/ Bury(w)
            BY <4>2, <6>3 DEF Next, Step, Breaks, Claim, Work, Yields, PrecheckFails,
                 Commit,
                 Complete, Send, Read, Release, Fails, Retries, Crash, TurnsBack,
                      GivesUp, Redeliver, Deliver,
                 Expires, SweepPutsBack, SweepLists, vars
          <6>. QED BY <6>1, <6>2, <6>3
        <5>. QED BY <1>2, <2>1, <5>1
      <4>. QED BY <4>1, <4>2
    <3>2. \A p \in Of(Roots, "load") : Status(p) = "completed"
      BY <1>2, <3>1 DEF Anchored, Completed
    <3>3. \A p \in Of(Roots, "load") : phase'[p].status = "completed" \/ p \in exposed'
      BY <1>r, <3>2, CompletedStays
    <3>. QED BY <2>1, <3>3 DEF Rooted, Status
  <2>2. CASE ~job'.anchors
    <3>1. ASSUME NEW p \in Of(Children, "load") PROVE Waiting(p)'
      <4>1. Waiting(p)
        BY <1>2 DEF Rooted
      <4>2. ASSUME NEW w \in Workers, Dispatch(w), ~Stopped, ~Failed, p \in Due
            PROVE  bundle /\ Anchored
        <5>1. p \in Phases /\ p[1] \in Children /\ p[2] = "load"
          BY DEF Of, Phases
        <5>2. \A S : /\ p \notin Of(S, "plan")
                     /\ p \in Of(S, "load") => p[1] \in S
          BY <5>1 DEF Of
        <5>. QED BY <4>2, <5>1, <5>2, ChunksAssumption DEF Due, Unstarted, Pending
      <4>3. ASSUME NEW w \in Workers, Dispatch(w), ~Stopped, ~Failed, p \in Due
            PROVE  job'.anchors
        BY <4>2, <4>3 DEF Dispatch, Typed, TypeOK, Job
      <4>. QED BY <2>2, <4>1, <4>3, WaitingStays
    <3>. QED BY <2>2, <3>1 DEF Rooted
  <2>. QED BY <2>1, <2>2
<1>. QED BY <1>1, <1>2

\* A child chunk that is being loaded finds every root chunk loaded, unless a
\* completed root load was put back (_load_child_root_precheck,
\* advance_workflow_dispatch).
THEOREM RootsComeFirst == Spec => []RootsReady
<1>1. Init => Typed /\ Rooted
  <2>1. ASSUME Init, NEW p \in Of(Children, "load") PROVE Waiting(p)
    <3>1. p \in Phases /\ p[1] \in Children /\ p[2] = "load" /\ p # Prepare
      BY TasksAssumption DEF Of, Phases
    <3>2. Status(p) \in {"none", "blocked"}
      BY <2>1, <3>1 DEF Init, Status, Staged, Of
    <3>. QED BY <2>1, <3>1, <3>2 DEF Init, Waiting, Idle
  <2>2. Init => ~job.anchors
    BY DEF Init
  <2>. QED BY <2>1, <2>2, WholeInit DEF Rooted
<1>2. Typed /\ Rooted /\ [Next]_vars => Typed' /\ Rooted'
  BY TypeStep, ShapeStep, RootedStep DEF Typed
<1>3. Rooted => RootsReady
  <2>1. ASSUME Rooted, NEW w \in Workers, worker[w].task \in Of(Children, "load")
        PROVE  RootsLoaded(worker[w].task) \/ Of(Roots, "load") \cap exposed # {}
    <3>1. job.anchors
      BY <2>1 DEF Rooted, Waiting
    <3>2. PICK r \in Roots : <<r, "load">> \in Of(Roots, "load")
      BY ChunksAssumption DEF Of
    <3>. QED BY <2>1, <3>1, <3>2 DEF Rooted, RootsLoaded, Completed
  <2>. QED BY <2>1 DEF RootsReady, RootsLoaded
<1>. QED BY <1>1, <1>2, <1>3, PTL DEF Spec

=============================================================================
