----------------------------- MODULE ReviewProofs -----------------------------
(***************************************************************************)
(* The submission of a review, for any number of rows, submissions, worker  *)
(* processes and faults: no row is lost, none is written twice but for the  *)
(* exceptions that are named, and a late worker writes nothing.             *)
(***************************************************************************)
EXTENDS ReviewSubmit, TLAPS

\* A stored attempt is named, and has its own choices until it ends.
Sound(f) ==
  f.status \in Startable \cup {"started"} => f.task \in Tasks /\ f.choices = f.task

\* The steps of a worker inside its terminal section.
Section == {"entered", "created", "conflict", "failed"}

\* A busy worker has a task, and choices when it may enter its section.
Fits(r) ==
  /\ r \in Runs
  /\ r.pc # "idle" => r.task \in Tasks
  /\ r.pc \in Section \cup {"prepared"} => r.choices \in Tasks

\* What is stored and what the workers hold.
Shaped ==
  /\ Sound(workflow)
  /\ Sound(watchdog.seen)
  /\ watchdog.pc \in {"note", "publish"} => watchdog.seen.status \in Startable
  /\ \A w \in Workers : Fits(workers[w])

Typed == TypeOK /\ Shaped

USE DEF Nobody

\* The initial state is typed and shaped.
LEMMA InitTyped == Init => Typed
BY RowsAssumption, NumbersAssumption
   DEF Init, Typed, TypeOK, Shaped, Sound, Idle, NoWorkflow, Resting, Attempts, Requests,
       Runs, Passes, Statuses, Fits, Section, Startable, Terminal, Items, Tasks, Workers

\* The steps of a request keep the types.
LEMMA RequestTyped ==
  ASSUME Typed, NEW t \in Tasks, RequestStep(t)
  PROVE  Typed'
<1> USE DEF Typed, TypeOK, Shaped
<1>1. CASE SubmitReview(t)
  <2>1. requests' \in [Tasks -> Requests]
    BY <1>1 DEF SubmitReview, Requests
  <2> QED BY <1>1, <2>1 DEF SubmitReview
<1>2. CASE Kickoff(t)
  <2>1. requests' \in [Tasks -> Requests]
    <3>1. PICK chosen \in Choices[t] :
            requests' = [requests EXCEPT ![t] =
                           [@ EXCEPT !.pc = "committed", !.chosen = chosen]]
      BY <1>2 DEF Kickoff
    <3>2. chosen \in SUBSET Items
      BY ChoicesAssumption
    <3> QED BY <3>1, <3>2 DEF Requests
  <2>2. workflow' \in Attempts /\ Sound(workflow')
    BY <1>2 DEF Kickoff, Begun, Attempts, Statuses, Startable, Sound
  <2> QED BY <1>2, <2>1, <2>2 DEF Kickoff
<1>3. CASE RefuseKickoff(t)
  <2>1. requests' \in [Tasks -> Requests]
    BY <1>3 DEF RefuseKickoff, Requests
  <2> QED BY <1>3, <2>1 DEF RefuseKickoff
<1>4. CASE Publish(t)
  <2>1. requests' \in [Tasks -> Requests]
    BY <1>4 DEF Publish, Step, Requests
  <2> QED BY <1>4, <2>1 DEF Publish
<1>5. CASE PublishFails(t)
  <2>1. requests' \in [Tasks -> Requests]
    BY <1>5 DEF PublishFails, Step, Requests
  <2>2. faults' \in 0..MaxFaults
    BY <1>5, NumbersAssumption DEF PublishFails, Fault
  <2> QED BY <1>5, <2>1, <2>2 DEF PublishFails
<1>6. CASE MarkDispatch(t)
  <2>1. requests' \in [Tasks -> Requests]
    BY <1>6 DEF MarkDispatch, Step, Requests
  <2>2. workflow' \in Attempts /\ Sound(workflow')
    BY <1>6 DEF MarkDispatch, Marked, MayStart, Attempts, Statuses, Startable, Sound
  <2> QED BY <1>6, <2>1, <2>2 DEF MarkDispatch
<1>7. CASE Answer(t)
  <2>1. requests' \in [Tasks -> Requests]
    BY <1>7 DEF Answer, Close, Requests
  <2>2. /\ items' \in SUBSET Items
        /\ past' \in [exposed : SUBSET Items, returned : SUBSET Items,
                      clobbered : BOOLEAN, stranded : BOOLEAN]
    BY <1>7 DEF Answer, EnsureReviewState, Requests
  <2> QED BY <1>7, <2>1, <2>2 DEF Answer
<1>8. CASE RequestDies(t)
  <2>1. requests' \in [Tasks -> Requests]
    BY <1>8 DEF RequestDies, Close, Requests
  <2>2. faults' \in 0..MaxFaults
    BY <1>8, NumbersAssumption DEF RequestDies, Fault
  <2> QED BY <1>8, <2>1, <2>2 DEF RequestDies
<1> QED
  BY <1>1, <1>2, <1>3, <1>4, <1>5, <1>6, <1>7, <1>8 DEF RequestStep

\* An attempt that ends keeps its type.
LEMMA EndedFits ==
  ASSUME Typed, NEW s \in Terminal
  PROVE  Ended(s) \in Attempts /\ Sound(Ended(s)) /\ Ended(s).status \in Terminal
BY DEF Typed, TypeOK, Shaped, Ended, Attempts, Sound, Terminal, Startable, Statuses

\* The steps of a worker keep the types.
LEMMA WorkerTyped ==
  ASSUME Typed, NEW w \in Workers, WorkerStep(w)
  PROVE  Typed'
<1> USE DEF Typed, TypeOK, Shaped
<1>0. ASSUME NEW r, Fits(r), workers' = [workers EXCEPT ![w] = r]
      PROVE  /\ workers' \in [Workers -> Runs]
             /\ \A v \in Workers : Fits(workers'[v])
  BY <1>0 DEF Fits
<1>w. Fits(workers[w])
  OBVIOUS
<1>r. Rest(w) => /\ workers' \in [Workers -> Runs]
                 /\ \A v \in Workers : Fits(workers'[v])
  <2>1. Fits(Idle)
    BY DEF Idle, Runs, Fits, Section
  <2> QED BY <2>1, <1>0 DEF Rest
<1>g. ASSUME NEW pc, Goes(w, pc), Fits([workers[w] EXCEPT !.pc = pc])
      PROVE  /\ workers' \in [Workers -> Runs]
             /\ \A v \in Workers : Fits(workers'[v])
  <2>1. workers' = [workers EXCEPT ![w] = [workers[w] EXCEPT !.pc = pc]]
    BY <1>g DEF Goes
  <2> QED BY <2>1, <1>0, <1>g
<1>1. ASSUME NEW t \in Tasks, Claim(w, t) PROVE Typed'
  <2>1. Fits([Idle EXCEPT !.pc = "claimed", !.task = t,
                          !.choices = workflow.choices])
    BY DEF Idle, Runs, Attempts, Fits, Section
  <2>2. /\ workers' \in [Workers -> Runs]
        /\ \A v \in Workers : Fits(workers'[v])
    BY <1>1, <2>1, <1>0 DEF Claim
  <2>3. workflow' \in Attempts /\ Sound(workflow')
    BY <1>1 DEF Claim, MayStart, Attempts, Statuses, Startable, Sound
  <2> QED BY <1>1, <2>2, <2>3 DEF Claim
<1>2. ASSUME NEW t \in Tasks, Ignore(w, t) PROVE Typed'
  BY <1>2 DEF Ignore
<1>3. CASE Prepare(w)
  <2>1. Fits([workers[w] EXCEPT !.pc = "prepared", !.rows = items])
    BY <1>3 DEF Prepare, Fits, Runs, Section
  <2>2. /\ workers' \in [Workers -> Runs]
        /\ \A v \in Workers : Fits(workers'[v])
    BY <1>3, <2>1, <1>0, <1>r DEF Prepare
  <2> QED BY <1>3, <2>2 DEF Prepare
<1>4. CASE Recover(w)
  <2>1. workflow' \in Attempts /\ Sound(workflow')
    BY <1>4, EndedFits DEF Recover, Terminal
  <2> QED BY <1>4, <2>1, <1>r DEF Recover
<1>5. CASE Enter(w)
  <2>1. Fits([workers[w] EXCEPT !.pc = "entered"])
    BY <1>5 DEF Enter, Fits, Runs, Section
  <2>2. /\ workers' \in [Workers -> Runs]
        /\ \A v \in Workers : Fits(workers'[v])
    BY <1>5, <2>1, <1>g DEF Enter
  <2> QED BY <1>5, <2>2 DEF Enter
<1>6. CASE TurnedAway(w)
  BY <1>6, <1>r DEF TurnedAway
<1>7. CASE ApplyCreates(w)
  <2>1. Chosen(w) \in SUBSET Items
    BY <1>7 DEF ApplyCreates, Chosen, Fits, Runs
  <2>2. Fits([workers[w] EXCEPT !.pc = "created",
                                !.left = Chosen(w) \cap Updates,
                                !.done = Chosen(w) \cap Creates])
    BY <1>7, <2>1 DEF ApplyCreates, Fits, Runs, Section
  <2>3. /\ workers' \in [Workers -> Runs]
        /\ \A v \in Workers : Fits(workers'[v])
    BY <1>7, <2>2, <1>0 DEF ApplyCreates
  <2>4. written' \in [Items -> 0..2]
    BY <1>7 DEF ApplyCreates, Committed
  <2> QED BY <1>7, <2>3, <2>4 DEF ApplyCreates
<1>8. CASE ApplyUpdate(w)
  <2>1. PICK i \in workers[w].left :
          /\ Committed({i})
          /\ workers' = [workers EXCEPT ![w] =
                           [@ EXCEPT !.left = workers[w].left \ {i},
                                     !.done = workers[w].done \cup {i}]]
    BY <1>8 DEF ApplyUpdate
  <2> DEFINE r == [workers[w] EXCEPT !.left = workers[w].left \ {i},
                                     !.done = workers[w].done \cup {i}]
  <2>2. Fits(r)
    BY DEF Fits, Runs, Section
  <2>5. workers' = [workers EXCEPT ![w] = r]
    BY <2>1
  <2> HIDE DEF r
  <2>3. /\ workers' \in [Workers -> Runs]
        /\ \A v \in Workers : Fits(workers'[v])
    BY <2>2, <2>5, <1>0
  <2>4. written' \in [Items -> 0..2]
    BY <2>1 DEF Committed
  <2> QED BY <1>8, <2>3, <2>4 DEF ApplyUpdate
<1>9. CASE Finalize(w)
  <2>1. workflow' \in Attempts /\ Sound(workflow')
    BY <1>9, EndedFits DEF Finalize, Terminal
  <2>2. items' \in SUBSET Items
    BY <1>9 DEF Finalize, StillReview, Fits, Runs
  <2> QED BY <1>9, <2>1, <2>2, <1>r DEF Finalize, FinalStatus
<1>10. CASE GiveBack(w)
  <2>1. workflow' \in Attempts /\ Sound(workflow')
    BY <1>10, EndedFits DEF GiveBack, Terminal
  <2>2. past' \in [exposed : SUBSET Items, returned : SUBSET Items,
                   clobbered : BOOLEAN, stranded : BOOLEAN]
    BY <1>10 DEF GiveBack, Runs
  <2> QED BY <1>10, <2>1, <2>2, <1>r DEF GiveBack
<1> QED
  BY <1>1, <1>2, <1>3, <1>4, <1>5, <1>6, <1>7, <1>8, <1>9, <1>10
     DEF WorkerStep

\* Conflicts, errors and crashes of a worker keep the types.
LEMMA TroubleTyped ==
  ASSUME Typed, NEW w \in Workers, WorkerTrouble(w)
  PROVE  Typed'
<1> USE DEF Typed, TypeOK, Shaped
<1>f. Fault => faults' \in 0..MaxFaults
  BY NumbersAssumption DEF Fault
<1>g. ASSUME NEW pc \in {"conflict", "failed", "broken"}, Goes(w, pc),
             pc # "broken" => workers[w].choices \in Tasks,
             workers[w].pc # "idle"
      PROVE  /\ workers' \in [Workers -> Runs]
             /\ \A v \in Workers : Fits(workers'[v])
  BY <1>g DEF Goes, Fits, Runs, Section
<1>1. CASE CreateConflict(w)
  <2>1. workers[w].choices \in Tasks
    BY <1>1 DEF CreateConflict, Fits, Section
  <2>2. /\ workers' \in [Workers -> Runs]
        /\ \A v \in Workers : Fits(workers'[v])
    BY <1>1, <2>1, <1>g DEF CreateConflict
  <2> QED BY <1>1, <2>2 DEF CreateConflict
<1>2. CASE UpdateConflict(w)
  <2>1. workers[w].choices \in Tasks
    BY <1>2 DEF UpdateConflict, Fits, Section
  <2>2. /\ workers' \in [Workers -> Runs]
        /\ \A v \in Workers : Fits(workers'[v])
    BY <1>2, <2>1, <1>g DEF UpdateConflict
  <2> QED BY <1>2, <2>2 DEF UpdateConflict
<1>3. CASE PrepareFails(w)
  <2>1. /\ workers' \in [Workers -> Runs]
        /\ \A v \in Workers : Fits(workers'[v])
    BY <1>3, <1>g DEF PrepareFails
  <2> QED BY <1>3, <2>1, <1>f DEF PrepareFails
<1>4. CASE SectionFails(w)
  <2>1. workers[w].choices \in Tasks
    BY <1>4 DEF SectionFails, Fits, Section
  <2>2. /\ workers' \in [Workers -> Runs]
        /\ \A v \in Workers : Fits(workers'[v])
    BY <1>4, <2>1, <1>g DEF SectionFails
  <2> QED BY <1>4, <2>2, <1>f DEF SectionFails
<1>6. CASE SectionAborts(w)
  <2> DEFINE r == [workers[w] EXCEPT !.pc = "broken", !.left = {}, !.done = {}]
  <2>1. Fits(r)
    BY <1>6 DEF SectionAborts, Fits, Runs, Section
  <2>2. workers' = [workers EXCEPT ![w] = r]
    BY <1>6 DEF SectionAborts
  <2> HIDE DEF r
  <2>3. /\ workers' \in [Workers -> Runs]
        /\ \A v \in Workers : Fits(workers'[v])
    BY <2>1, <2>2 DEF Fits
  <2>4. past' \in [exposed : SUBSET Items, returned : SUBSET Items,
                   clobbered : BOOLEAN, stranded : BOOLEAN]
    BY <1>6 DEF SectionAborts, Runs
  <2> QED BY <1>6, <2>3, <2>4, <1>f DEF SectionAborts
<1>5. CASE Crash(w)
  <2>1. Fits(Idle)
    BY DEF Idle, Runs, Fits, Section
  <2>2. /\ workers' \in [Workers -> Runs]
        /\ \A v \in Workers : Fits(workers'[v])
    BY <1>5, <2>1 DEF Crash, Rest, Fits
  <2>3. workers[w].task \in Tasks
    BY <1>5 DEF Crash, Fits
  <2>4. past' \in [exposed : SUBSET Items, returned : SUBSET Items,
                   clobbered : BOOLEAN, stranded : BOOLEAN]
    BY <1>5 DEF Crash, Runs
  <2>5. queue' \in SUBSET Tasks /\ lock' \in Workers \cup {Nobody}
    BY <1>5, <2>3 DEF Crash
  <2> QED BY <1>5, <2>2, <2>4, <2>5, <1>f DEF Crash
<1> QED
  BY <1>1, <1>2, <1>3, <1>4, <1>5, <1>6 DEF WorkerTrouble

\* All steps of the watchdog.
WatchdogAny ==
  WatchdogStep \/ SlowScan \/ SlowRefresh \/ RepublishFails \/ WatchdogDies

\* The steps of the watchdog keep the types.
LEMMA WatchdogTyped ==
  ASSUME Typed, WatchdogAny
  PROVE  Typed'
<1> USE DEF Typed, TypeOK, Shaped
<1> DEFINE Watches ==
      /\ watchdog \in Passes
      /\ Sound(watchdog.seen)
      /\ watchdog.pc \in {"note", "publish"}
           => watchdog.seen.status \in Startable
<1>f. Fault => faults' \in 0..MaxFaults
  BY NumbersAssumption DEF Fault
<1>r. watchdog' = Resting => Watches'
  BY DEF Resting, NoWorkflow, Passes, Attempts, Statuses, Startable, Sound
<1>1. CASE Scan
  <2>1. Watches'
    BY <1>1 DEF Scan, Late, Passes
  <2> QED BY <1>1, <2>1 DEF Scan
<1>2. CASE SlowScan
  <2>1. Watches'
    BY <1>2 DEF SlowScan, Late, Passes
  <2> QED BY <1>2, <2>1, <1>f DEF SlowScan
<1>3. CASE CancelAttempt
  <2>1. Watches'
    BY <1>3, <1>r DEF CancelAttempt, Watch, Passes
  <2>2. workflow' \in Attempts /\ Sound(workflow')
    BY <1>3, EndedFits DEF CancelAttempt, Terminal
  <2> QED BY <1>3, <2>1, <2>2 DEF CancelAttempt
<1>4. CASE Refresh
  <2>1. Watches'
    BY <1>4 DEF Refresh, Passes
  <2> QED BY <1>4, <2>1 DEF Refresh
<1>5. CASE SlowRefresh
  <2>1. Watches'
    BY <1>5 DEF SlowRefresh, Passes
  <2> QED BY <1>5, <2>1, <1>f DEF SlowRefresh
<1>6. CASE NoteRepair
  <2>1. Watches'
    BY <1>6 DEF NoteRepair, Watch, Passes
  <2>2. workflow' \in Attempts /\ Sound(workflow')
    BY <1>6 DEF NoteRepair, Passes
  <2>3. past' \in [exposed : SUBSET Items, returned : SUBSET Items,
                   clobbered : BOOLEAN, stranded : BOOLEAN]
    BY <1>6 DEF NoteRepair
  <2> QED BY <1>6, <2>1, <2>2, <2>3 DEF NoteRepair
<1>7. CASE Republish
  <2>1. Watches'
    BY <1>7 DEF Republish, Watch, Passes
  <2>2. queue' \in SUBSET Tasks
    BY <1>7 DEF Republish, Sound
  <2> QED BY <1>7, <2>1, <2>2 DEF Republish
<1>8. CASE RepublishFails
  <2>1. Watches'
    BY <1>8 DEF RepublishFails, Watch, Passes
  <2> QED BY <1>8, <2>1, <1>f DEF RepublishFails
<1>9. CASE MarkRepublished
  <2>1. workflow' \in Attempts /\ Sound(workflow')
    BY <1>9 DEF MarkRepublished, Marked, MayStart, Attempts, Statuses,
                Startable, Sound
  <2> QED BY <1>9, <2>1, <1>r DEF MarkRepublished
<1>10. CASE ReturnToReview
  <2>1. /\ items' \in SUBSET Items
        /\ past' \in [exposed : SUBSET Items, returned : SUBSET Items,
                      clobbered : BOOLEAN, stranded : BOOLEAN]
    BY <1>10 DEF ReturnToReview, EnsureReviewState, Passes
  <2> QED BY <1>10, <2>1, <1>r DEF ReturnToReview
<1>11. CASE WatchdogDies
  <2>1. past' \in [exposed : SUBSET Items, returned : SUBSET Items,
                   clobbered : BOOLEAN, stranded : BOOLEAN]
    BY <1>11 DEF WatchdogDies
  <2> QED BY <1>11, <2>1, <1>f, <1>r DEF WatchdogDies
<1> QED
  BY <1>1, <1>2, <1>3, <1>4, <1>5, <1>6, <1>7, <1>8, <1>9, <1>10, <1>11
     DEF WatchdogAny, WatchdogStep

\* The variables keep their types, and what is stored its shape.
LEMMA NextTyped == Typed /\ [Next]_vars => Typed'
<1>1. ASSUME Typed, UNCHANGED vars PROVE Typed'
  BY <1>1 DEF Typed, TypeOK, Shaped, vars
<1> QED
  BY <1>1, RequestTyped, WorkerTyped, TroubleTyped, WatchdogTyped
     DEF Next, WatchdogAny

\* Every state is typed and shaped.
LEMMA AlwaysTyped == Spec => []Typed
BY InitTyped, NextTyped, PTL DEF Spec

\* The variables keep their types: an attempt has only the statuses the code
\* knows, whoever ends, marks or repairs it.
THEOREM SubmitTypes == Spec => []TypeOK
<1>1. Typed => TypeOK
  BY DEF Typed
<1> QED BY <1>1, AlwaysTyped, PTL

-----------------------------------------------------------------------------
\* The fence: who is inside a section holds the lock, with a current attempt.
Fenced ==
  \A w \in Workers : workers[w].pc \in Section
                      => lock = w /\ Current(workers[w].task)

\* What a worker did in its section and what is left are the rows it took up.
Worked ==
  \A w \in Workers :
    /\ workers[w].pc \in {"claimed", "broken", "prepared", "entered"}
         => workers[w].left = {} /\ workers[w].done = {}
    /\ workers[w].pc = "created"
         => /\ workers[w].left \cup workers[w].done = Chosen(w)
            /\ workers[w].left \cap workers[w].done = {}

\* Without the lock nobody is inside a section.
LEMMA NoneInside ==
  ASSUME Fenced, lock = Nobody, NEW w \in Workers
  PROVE  workers[w].pc \notin Section
BY NumbersAssumption DEF Fenced, Workers

\* Requests and the watchdog leave the workers and what was written alone, and
\* touch the workflow and the choices only when no section is open.
LEMMA RequestOutside ==
  ASSUME Typed, NEW t \in Tasks, RequestStep(t)
  PROVE  /\ UNCHANGED <<workers, lock, written>>
         /\ lock = Nobody \/ workflow' = workflow
         /\ \/ lock = Nobody
            \/ \A s \in Tasks : requests'[s].chosen = requests[s].chosen
<1>1. UNCHANGED <<workers, lock, written>> /\ (lock = Nobody \/ workflow' = workflow)
  BY DEF RequestStep, SubmitReview, Kickoff, RefuseKickoff, Publish,
         PublishFails, MarkDispatch, Answer, RequestDies
<1>2. lock = Nobody \/ \A s \in Tasks : requests'[s].chosen = requests[s].chosen
  <2> USE DEF Typed, TypeOK, Requests
  <2>1. CASE Kickoff(t)
    BY <2>1 DEF Kickoff
  <2>2. CASE SubmitReview(t)
    BY <2>2 DEF SubmitReview
  <2>3. CASE RefuseKickoff(t)
    BY <2>3 DEF RefuseKickoff
  <2>4. CASE Publish(t) \/ PublishFails(t) \/ MarkDispatch(t)
    <3>1. PICK pc : Step(t, pc)
      BY <2>4 DEF Publish, PublishFails, MarkDispatch
    <3>2. requests'[t].chosen = requests[t].chosen
      BY <3>1 DEF Step
    <3>3. \A s \in Tasks : s # t => requests'[s] = requests[s]
      BY <3>1 DEF Step
    <3> QED BY <3>2, <3>3
  <2>5. CASE Answer(t) \/ RequestDies(t)
    <3>1. Close(t)
      BY <2>5 DEF Answer, RequestDies
    <3>2. requests'[t].chosen = requests[t].chosen
      BY <3>1 DEF Close
    <3>3. \A s \in Tasks : s # t => requests'[s] = requests[s]
      BY <3>1 DEF Close
    <3> QED BY <3>2, <3>3
  <2> QED BY <2>1, <2>2, <2>3, <2>4, <2>5 DEF RequestStep
<1> QED BY <1>1, <1>2

\* So does the watchdog.
LEMMA WatchdogOutside ==
  ASSUME WatchdogAny
  PROVE  /\ UNCHANGED <<workers, lock, written, requests>>
         /\ lock = Nobody \/ workflow' = workflow
BY DEF WatchdogAny, WatchdogStep, Scan, SlowScan, CancelAttempt, Refresh,
       SlowRefresh, NoteRepair, Republish, RepublishFails, MarkRepublished,
       ReturnToReview, WatchdogDies

\* A step of a worker changes no other worker, and nobody's choices.
LEMMA WorkerAlone ==
  ASSUME Typed, NEW w \in Workers, WorkerStep(w) \/ WorkerTrouble(w)
  PROVE  /\ requests' = requests
         /\ \A v \in Workers : v # w => workers'[v] = workers[v]
BY DEF Typed, TypeOK, WorkerStep, WorkerTrouble, Claim, Ignore, Prepare,
       Recover, Enter, TurnedAway, ApplyCreates, ApplyUpdate, Finalize,
       GiveBack, CreateConflict, UpdateConflict, PrepareFails, SectionFails,
       SectionAborts, Crash, Rest, Goes

\* The fence holds at first.
LEMMA InitFenced == Init => Fenced /\ Worked
BY DEF Init, Fenced, Worked, Idle, Section

\* Requests keep the fence.
LEMMA RequestFenced ==
  ASSUME Typed, Fenced, Worked, NEW t \in Tasks, RequestStep(t)
  PROVE  Fenced' /\ Worked'
<1>1. Fenced'
  BY RequestOutside, NoneInside DEF Fenced, Current
<1>2. ASSUME NEW w \in Workers, workers[w].pc = "created"
      PROVE  Chosen(w)' = Chosen(w)
  <2>1. lock # Nobody
    BY <1>2, NoneInside DEF Section
  <2>2. workers[w].choices \in Tasks
    BY <1>2 DEF Typed, Shaped, Fits, Section
  <2> QED BY <2>1, <2>2, RequestOutside DEF Chosen
<1>3. Worked'
  BY <1>2, RequestOutside DEF Worked
<1> QED BY <1>1, <1>3

\* The watchdog keeps the fence.
LEMMA WatchdogFenced ==
  ASSUME Typed, Fenced, Worked, WatchdogAny
  PROVE  Fenced' /\ Worked'
<1>1. Fenced'
  BY WatchdogOutside, NoneInside DEF Fenced, Current
<1>2. Worked'
  BY WatchdogOutside DEF Worked, Chosen
<1> QED BY <1>1, <1>2

\* The steps of a worker keep the fence.
LEMMA WorkerFenced ==
  ASSUME Typed, Fenced, Worked, NEW w \in Workers, WorkerStep(w)
  PROVE  Fenced' /\ Worked'
<1> USE DEF Typed, TypeOK, Fenced, Worked
<1>a. /\ requests' = requests
      /\ \A v \in Workers : v # w => workers'[v] = workers[v]
  BY WorkerAlone
<1>b. \A v \in Workers : v # w => Chosen(v)' = Chosen(v)
  BY <1>a DEF Chosen
<1>r. Rest(w) => /\ workers'[w].pc = "idle"
  BY DEF Rest, Idle
<1>1. ASSUME NEW t \in Tasks, Claim(w, t) PROVE Fenced' /\ Worked'
  <2>1. /\ workers'[w].pc = "claimed"
        /\ workers'[w].left = {} /\ workers'[w].done = {}
    BY <1>1 DEF Claim, Idle
  <2>2. \A v \in Workers : workers[v].pc \notin Section
    BY <1>1, NoneInside DEF Claim
  <2> QED BY <1>a, <1>b, <2>1, <2>2 DEF Section
<1>2. ASSUME NEW t \in Tasks, Ignore(w, t) PROVE Fenced' /\ Worked'
  BY <1>2 DEF Ignore, Current, Chosen
<1>3. CASE Prepare(w)
  <2>1. \/ workers'[w].pc = "idle"
        \/ /\ workers'[w].pc = "prepared"
           /\ workers'[w].left = {} /\ workers'[w].done = {}
    <3>1. CASE Current(workers[w].task)
      <4>1. workers'[w] = [workers[w] EXCEPT !.pc = "prepared", !.rows = items]
        BY <1>3, <3>1 DEF Prepare
      <4>2. workers[w].left = {} /\ workers[w].done = {}
        BY <1>3 DEF Prepare
      <4> QED BY <4>1, <4>2 DEF Runs
    <3>2. CASE ~Current(workers[w].task)
      BY <1>3, <3>2, <1>r DEF Prepare
    <3> QED BY <3>1, <3>2
  <2>2. \A v \in Workers : workers[v].pc \notin Section
    BY <1>3, NoneInside DEF Prepare
  <2> QED BY <1>a, <1>b, <2>1, <2>2 DEF Section
<1>4. CASE Recover(w)
  <2>2. \A v \in Workers : workers[v].pc \notin Section
    BY <1>4, NoneInside DEF Recover
  <2> QED BY <1>4, <1>a, <1>b, <1>r, <2>2 DEF Recover, Section
<1>5. CASE Enter(w)
  <2>1. /\ workers'[w].pc = "entered" /\ workers'[w].task = workers[w].task
        /\ workers'[w].left = {} /\ workers'[w].done = {}
    BY <1>5 DEF Enter, Goes, Runs
  <2>2. \A v \in Workers : workers[v].pc \notin Section
    BY <1>5, NoneInside DEF Enter
  <2> QED BY <1>5, <1>a, <1>b, <2>1, <2>2 DEF Enter, Section, Current
<1>6. CASE TurnedAway(w)
  <2>2. \A v \in Workers : workers[v].pc \notin Section
    BY <1>6, NoneInside DEF TurnedAway
  <2> QED BY <1>6, <1>a, <1>b, <1>r, <2>2 DEF TurnedAway, Section
<1>7. CASE ApplyCreates(w)
  <2>1. /\ workers'[w].pc = "created" /\ workers'[w].task = workers[w].task
        /\ workers'[w].rows = workers[w].rows
        /\ workers'[w].choices = workers[w].choices
        /\ workers'[w].left = Chosen(w) \cap Updates
        /\ workers'[w].done = Chosen(w) \cap Creates
    BY <1>7 DEF ApplyCreates, Runs
  <2>2. Chosen(w)' = Chosen(w)
    BY <1>a, <2>1 DEF Chosen
  <2>3. Chosen(w) \subseteq Items
    BY DEF Chosen, Runs
  <2>4. Fenced'
    BY <1>7, <1>a, <2>1 DEF ApplyCreates, Section, Current
  <2>5. Worked'
    BY <1>a, <1>b, <2>1, <2>2, <2>3, RowsAssumption DEF Items
  <2> QED BY <2>4, <2>5
<1>8. CASE ApplyUpdate(w)
  <2>1. PICK i \in workers[w].left :
          /\ workers'[w].pc = "created" /\ workers'[w].task = workers[w].task
          /\ workers'[w].rows = workers[w].rows
          /\ workers'[w].choices = workers[w].choices
          /\ workers'[w].left = workers[w].left \ {i}
          /\ workers'[w].done = workers[w].done \cup {i}
    BY <1>8 DEF ApplyUpdate, Runs
  <2>2. Chosen(w)' = Chosen(w)
    BY <1>a, <2>1 DEF Chosen
  <2>4. Fenced'
    BY <1>8, <1>a, <2>1 DEF ApplyUpdate, Section, Current
  <2>5. Worked'
    BY <1>8, <1>a, <1>b, <2>1, <2>2 DEF ApplyUpdate
  <2> QED BY <2>4, <2>5
<1>9. CASE Finalize(w)
  <2>1. \A v \in Workers : v # w => workers[v].pc \notin Section
    BY <1>9 DEF Finalize, Section
  <2> QED BY <1>9, <1>a, <1>b, <1>r, <2>1 DEF Finalize, Section
<1>10. CASE GiveBack(w)
  <2>1. \A v \in Workers : v # w => workers[v].pc \notin Section
    BY <1>10 DEF GiveBack, Section
  <2> QED BY <1>10, <1>a, <1>b, <1>r, <2>1 DEF GiveBack, Section
<1> QED
  BY <1>1, <1>2, <1>3, <1>4, <1>5, <1>6, <1>7, <1>8, <1>9, <1>10
     DEF WorkerStep

\* Conflicts, errors and crashes keep the fence.
LEMMA TroubleFenced ==
  ASSUME Typed, Fenced, Worked, NEW w \in Workers, WorkerTrouble(w)
  PROVE  Fenced' /\ Worked'
<1> USE DEF Typed, TypeOK, Fenced, Worked
<1>a. /\ requests' = requests
      /\ \A v \in Workers : v # w => workers'[v] = workers[v]
  BY WorkerAlone
<1>b. \A v \in Workers : v # w => Chosen(v)' = Chosen(v)
  BY <1>a DEF Chosen
<1>g. ASSUME NEW pc, Goes(w, pc)
      PROVE  /\ workers'[w].pc = pc
             /\ workers'[w].task = workers[w].task
             /\ workers'[w].left = workers[w].left
             /\ workers'[w].done = workers[w].done
  BY <1>g DEF Goes, Runs
<1>1. CASE CreateConflict(w)
  <2>1. /\ workers'[w].pc = "conflict" /\ workers'[w].task = workers[w].task
        /\ workers'[w].left = workers[w].left
        /\ workers'[w].done = workers[w].done
    BY <1>1, <1>g DEF CreateConflict
  <2>2. Fenced'
    BY <1>1, <1>a, <2>1 DEF CreateConflict, Section, Current
  <2>3. Worked'
    BY <1>1, <1>a, <1>b, <2>1 DEF CreateConflict
  <2> QED BY <2>2, <2>3
<1>2. CASE UpdateConflict(w)
  <2>1. /\ workers'[w].pc = "conflict" /\ workers'[w].task = workers[w].task
        /\ workers'[w].left = workers[w].left
        /\ workers'[w].done = workers[w].done
    BY <1>2, <1>g DEF UpdateConflict
  <2>2. Fenced'
    BY <1>2, <1>a, <2>1 DEF UpdateConflict, Section, Current
  <2>3. Worked'
    BY <1>2, <1>a, <1>b, <2>1 DEF UpdateConflict
  <2> QED BY <2>2, <2>3
<1>3. CASE PrepareFails(w)
  <2>1. /\ workers'[w].pc = "broken" /\ workers'[w].task = workers[w].task
        /\ workers'[w].left = workers[w].left
        /\ workers'[w].done = workers[w].done
    BY <1>3, <1>g DEF PrepareFails
  <2>2. Fenced'
    BY <1>3, <1>a, <2>1 DEF PrepareFails, Section, Current
  <2>3. Worked'
    BY <1>3, <1>a, <1>b, <2>1 DEF PrepareFails
  <2> QED BY <2>2, <2>3
<1>4. CASE SectionFails(w)
  <2>1. /\ workers'[w].pc = "failed" /\ workers'[w].task = workers[w].task
        /\ workers'[w].left = workers[w].left
        /\ workers'[w].done = workers[w].done
    BY <1>4, <1>g DEF SectionFails
  <2>2. Fenced'
    BY <1>4, <1>a, <2>1 DEF SectionFails, Section, Current
  <2>3. Worked'
    BY <1>4, <1>a, <1>b, <2>1 DEF SectionFails
  <2> QED BY <2>2, <2>3
<1>6. CASE SectionAborts(w)
  <2>1. workers'[w] = [workers[w] EXCEPT !.pc = "broken", !.left = {}, !.done = {}]
    BY <1>6 DEF SectionAborts
  <2>2. /\ workers'[w].pc = "broken"
        /\ workers'[w].left = {} /\ workers'[w].done = {}
    BY <2>1 DEF Runs
  <2>3. \A v \in Workers : v # w => workers[v].pc \notin Section
    BY <1>6 DEF SectionAborts, Section
  <2> QED BY <1>6, <1>a, <1>b, <2>2, <2>3 DEF SectionAborts, Section
<1>5. CASE Crash(w)
  <2>1. workers'[w].pc = "idle"
    BY <1>5 DEF Crash, Rest, Idle
  <2> QED BY <1>5, <1>a, <1>b, <2>1 DEF Crash, Section, Current
<1> QED
  BY <1>1, <1>2, <1>3, <1>4, <1>5, <1>6 DEF WorkerTrouble

\* Every step keeps the fence.
LEMMA NextFenced == Typed /\ Fenced /\ Worked /\ [Next]_vars => Fenced' /\ Worked'
<1>1. ASSUME Typed, Fenced, Worked, UNCHANGED vars PROVE Fenced' /\ Worked'
  BY <1>1 DEF Fenced, Worked, Chosen, Current, vars
<1> QED
  BY <1>1, RequestFenced, WorkerFenced, TroubleFenced, WatchdogFenced
     DEF Next, WatchdogAny

\* The fence holds in every state.
LEMMA AlwaysFenced == Spec => [](Fenced /\ Worked)
BY AlwaysTyped, InitFenced, NextFenced, PTL DEF Spec

\* Rows are written only by a worker whose attempt is the stored one, started,
\* and protected by the job's lock, for any number of workers and submissions.
THEOREM LateWorkersWriteNothing == Spec => OnlyCurrentWrites
<1> DEFINE A == written' # written =>
                  \E w \in Workers : /\ lock = w
                                     /\ workflow.task = workers[w].task
                                     /\ workflow.status = "started"
<1>1. Fenced /\ Typed /\ [Next]_vars => [A]_vars
  <2> SUFFICES ASSUME Fenced, Typed, Next, written' # written
               PROVE  \E w \in Workers : /\ lock = w
                                         /\ workflow.task = workers[w].task
                                         /\ workflow.status = "started"
    BY DEF vars
  <2>1. PICK w \in Workers : WorkerStep(w) \/ WorkerTrouble(w)
    BY RequestOutside, WatchdogOutside DEF Next, WatchdogAny
  <2>2. workers[w].pc \in Section
    BY <2>1 DEF WorkerStep, WorkerTrouble, Claim, Ignore, Prepare,
       Recover, Enter, TurnedAway, ApplyCreates, ApplyUpdate, Finalize,
       GiveBack, CreateConflict, UpdateConflict, PrepareFails, SectionFails,
       SectionAborts, Crash, Section
  <2> QED BY <2>2 DEF Fenced, Current
<1> QED BY <1>1, AlwaysFenced, AlwaysTyped, PTL DEF Spec, OnlyCurrentWrites

\* An attempt that may start, or has started, finds the choices of its own
\* submission, whatever submissions and repairs came before.
THEOREM ChoicesStay == Spec => []ChoicesKept
<1>1. Typed => ChoicesKept
  BY DEF Typed, Shaped, Sound, ChoicesKept
<1> QED BY <1>1, AlwaysTyped, PTL

-----------------------------------------------------------------------------
\* The rows a worker did not find, and those it worked off, are written.
Saved ==
  /\ NoRowLost
  /\ \A w \in Workers, i \in Items :
       /\ workers[w].pc \in {"prepared", "entered", "created"}
            => i \in workers[w].rows \/ written[i] > 0
       /\ workers[w].pc = "created" /\ i \in workers[w].done
            => written[i] > 0

\* No row is lost at first.
LEMMA InitSaved == Init => Saved
BY DEF Init, Saved, NoRowLost, Idle

\* Making the items again loses no row.
LEMMA BackfillSaves ==
  ASSUME Saved, NEW rows, EnsureReviewState(rows), UNCHANGED <<workers, written>>
  PROVE  Saved'
BY DEF Saved, NoRowLost, EnsureReviewState

\* Requests and the watchdog lose no row.
LEMMA OutsideSaved ==
  ASSUME Typed, Saved, WatchdogAny \/ \E t \in Tasks : RequestStep(t)
  PROVE  Saved'
<1>1. UNCHANGED <<workers, written>>
  BY WatchdogOutside, RequestOutside
<1>2. CASE UNCHANGED items
  BY <1>1, <1>2 DEF Saved, NoRowLost
<1>3. CASE ~UNCHANGED items
  <2>1. \E rows : EnsureReviewState(rows)
    BY <1>3 DEF WatchdogAny, WatchdogStep, Scan, SlowScan, CancelAttempt,
       Refresh, SlowRefresh, NoteRepair, Republish, RepublishFails,
       MarkRepublished, ReturnToReview, WatchdogDies, RequestStep,
       SubmitReview, Kickoff, RefuseKickoff, Publish, PublishFails,
       MarkDispatch, Answer, RequestDies
  <2> QED BY <1>1, <2>1, BackfillSaves
<1> QED BY <1>2, <1>3

\* Workers lose no row.
LEMMA WorkerSaved ==
  ASSUME Typed, Fenced, Worked, Saved, NEW w \in Workers,
         WorkerStep(w) \/ WorkerTrouble(w)
  PROVE  Saved'
<1> USE DEF Typed, TypeOK, Saved, NoRowLost
<1>a. /\ requests' = requests
      /\ \A v \in Workers : v # w => workers'[v] = workers[v]
  BY WorkerAlone
<1>b. ASSUME UNCHANGED <<items, written>>,
             \/ workers'[w].pc \notin {"prepared", "entered", "created"}
             \/ /\ workers'[w].pc \in {"prepared", "entered"}
                /\ \/ workers'[w].rows = items
                   \/ /\ workers[w].pc = "prepared"
                      /\ workers'[w].rows = workers[w].rows
      PROVE  Saved'
  BY <1>a, <1>b
<1>r. Rest(w) => workers'[w].pc = "idle"
  BY DEF Rest, Idle
<1>g. \A pc : Goes(w, pc) => /\ workers'[w].pc = pc
                             /\ workers'[w].rows = workers[w].rows
  BY DEF Goes, Runs
<1>1. ASSUME NEW t \in Tasks, Claim(w, t) PROVE Saved'
  <2>1. workers'[w].pc = "claimed"
    BY <1>1 DEF Claim, Idle
  <2> QED BY <1>1, <2>1, <1>b DEF Claim
<1>2. ASSUME NEW t \in Tasks, Ignore(w, t) PROVE Saved'
  BY <1>2 DEF Ignore
<1>3. CASE Prepare(w)
  <2>1. CASE Current(workers[w].task)
    <3>1. workers'[w] = [workers[w] EXCEPT !.pc = "prepared", !.rows = items]
      BY <1>3, <2>1 DEF Prepare
    <3>2. workers'[w].pc = "prepared" /\ workers'[w].rows = items
      BY <3>1 DEF Runs
    <3> QED BY <1>3, <3>2, <1>b DEF Prepare
  <2>2. CASE ~Current(workers[w].task)
    BY <1>3, <2>2, <1>b, <1>r DEF Prepare
  <2> QED BY <2>1, <2>2
<1>4. CASE Recover(w) \/ TurnedAway(w) \/ GiveBack(w) \/ Crash(w)
  BY <1>4, <1>b, <1>r DEF Recover, TurnedAway, GiveBack, Crash
<1>5. CASE Enter(w)
  BY <1>5, <1>b, <1>g DEF Enter
<1>10. CASE SectionAborts(w)
  <2>1. workers'[w] = [workers[w] EXCEPT !.pc = "broken", !.left = {}, !.done = {}]
    BY <1>10 DEF SectionAborts
  <2>2. workers'[w].pc = "broken"
    BY <2>1 DEF Runs
  <2> QED BY <1>10, <1>b, <2>2 DEF SectionAborts
<1>6. CASE \/ CreateConflict(w) \/ UpdateConflict(w) \/ PrepareFails(w)
           \/ SectionFails(w)
  BY <1>6, <1>b, <1>g DEF CreateConflict, UpdateConflict, PrepareFails,
     SectionFails
<1>7. CASE ApplyCreates(w)
  <2>1. /\ workers'[w].pc = "created" /\ workers'[w].rows = workers[w].rows
        /\ workers'[w].done = Chosen(w) \cap Creates
    BY <1>7 DEF ApplyCreates, Runs
  <2>2. \A i \in Items : /\ written[i] > 0 => written'[i] > 0
                         /\ i \in Chosen(w) \cap Creates => written'[i] > 0
    BY <1>7 DEF ApplyCreates, Committed
  <2> QED BY <1>7, <1>a, <2>1, <2>2 DEF ApplyCreates
<1>8. CASE ApplyUpdate(w)
  <2>0. PICK i \in workers[w].left :
          /\ Committed({i})
          /\ workers'[w] = [workers[w] EXCEPT !.left = workers[w].left \ {i},
                                              !.done = workers[w].done \cup {i}]
    BY <1>8 DEF ApplyUpdate
  <2>1. /\ Committed({i})
        /\ workers'[w].pc = "created" /\ workers'[w].rows = workers[w].rows
        /\ workers'[w].done = workers[w].done \cup {i}
    BY <1>8, <2>0 DEF ApplyUpdate, Runs
  <2>2. /\ \A j \in Items : written[j] > 0 => written'[j] > 0
        /\ i \in Items => written'[i] > 0
    BY <2>1 DEF Committed
  <2> QED BY <1>8, <1>a, <2>1, <2>2 DEF ApplyUpdate
<1>9. CASE Finalize(w)
  <2>1. workers'[w].pc = "idle"
    BY <1>9, <1>r DEF Finalize
  <2>2. \A i \in Items : i \in StillReview(w) \/ written[i] > 0
    BY <1>9 DEF Finalize, Worked, StillReview
  <2> QED BY <1>9, <1>a, <2>1, <2>2 DEF Finalize
<1> QED
  BY <1>1, <1>2, <1>3, <1>4, <1>5, <1>6, <1>7, <1>8, <1>9, <1>10
     DEF WorkerStep, WorkerTrouble

\* A row leaves the review only when it was written, for any number of rows,
\* submissions, workers and faults.
THEOREM RowsAreKept == Spec => []NoRowLost
<1>1. Typed /\ Fenced /\ Worked /\ Saved /\ [Next]_vars => Saved'
  <2>1. ASSUME Saved, UNCHANGED vars PROVE Saved'
    BY <2>1 DEF Saved, NoRowLost, vars
  <2> QED BY <2>1, OutsideSaved, WorkerSaved DEF Next, WatchdogAny
<1>2. Saved => NoRowLost
  BY DEF Saved
<1> QED BY <1>1, <1>2, InitSaved, AlwaysTyped, AlwaysFenced, PTL DEF Spec

\* A job is completed only with nothing left to review, but for rows that an
\* old copy of the review brought back.
THEOREM CompletedJobsAreClear == Spec => []CompletedIsClear
<1>1. Init => CompletedIsClear
  BY DEF Init, CompletedIsClear
<1>2. Typed /\ CompletedIsClear /\ [Next]_vars => CompletedIsClear'
  <2> SUFFICES ASSUME Typed, CompletedIsClear, [Next]_vars PROVE CompletedIsClear'
    OBVIOUS
  <2> USE DEF CompletedIsClear, Typed, TypeOK
  <2>1. CASE UNCHANGED vars
    BY <2>1 DEF vars
  <2>2. ASSUME NEW t \in Tasks, RequestStep(t) PROVE CompletedIsClear'
    BY <2>2 DEF RequestStep, SubmitReview, Kickoff, RefuseKickoff, Publish,
       PublishFails, MarkDispatch, Answer, RequestDies, EnsureReviewState
  <2>3. ASSUME NEW w \in Workers, WorkerStep(w) PROVE CompletedIsClear'
    BY <2>3 DEF WorkerStep, Claim, Ignore, Prepare, Recover, Enter, TurnedAway,
       ApplyCreates, ApplyUpdate, Finalize, FinalStatus, GiveBack
  <2>4. ASSUME NEW w \in Workers, WorkerTrouble(w) PROVE CompletedIsClear'
    BY <2>4 DEF WorkerTrouble, CreateConflict, UpdateConflict, PrepareFails,
       SectionFails, SectionAborts, Crash
  <2>5. CASE WatchdogAny
    BY <2>5 DEF WatchdogAny, WatchdogStep, Scan, SlowScan, CancelAttempt,
       Refresh, SlowRefresh, NoteRepair, Republish, RepublishFails,
       MarkRepublished, ReturnToReview, WatchdogDies
  <2> QED BY <2>1, <2>2, <2>3, <2>4, <2>5 DEF Next, WatchdogAny
<1> QED BY <1>1, <1>2, AlwaysTyped, PTL DEF Spec

-----------------------------------------------------------------------------
\* The submission of a stored or running attempt has had its kickoff.
Submitted(n) == n \in Tasks => requests[n].pc \notin {"idle", "checked"}

Launched ==
  /\ Submitted(workflow.task)
  /\ Submitted(watchdog.seen.task)
  /\ \A w \in Workers : workers[w].pc # "idle" => Submitted(workers[w].task)

\* At first nothing is stored or running.
LEMMA InitLaunched == Init => Launched
BY NumbersAssumption
   DEF Init, Launched, Submitted, NoWorkflow, Resting, Idle, Tasks

\* A kickoff is not taken back.
LEMMA StaysSubmitted ==
  ASSUME Typed, NEW t \in Tasks, RequestStep(t),
         NEW n \in Tasks, requests[n].pc \notin {"idle", "checked"}
  PROVE  requests'[n].pc \notin {"idle", "checked"}
<1> USE DEF Typed, TypeOK, Requests
<1>1. CASE SubmitReview(t) \/ RefuseKickoff(t)
  BY <1>1 DEF SubmitReview, RefuseKickoff
<1>2. CASE Kickoff(t)
  BY <1>2 DEF Kickoff
<1>3. CASE Publish(t) \/ PublishFails(t) \/ MarkDispatch(t)
  BY <1>3 DEF Publish, PublishFails, MarkDispatch, Step
<1>4. CASE Answer(t) \/ RequestDies(t)
  BY <1>4 DEF Answer, RequestDies, Close
<1> QED BY <1>1, <1>2, <1>3, <1>4 DEF RequestStep

\* Requests store only attempts of their own submission.
LEMMA RequestLaunched ==
  ASSUME Typed, Launched, NEW t \in Tasks, RequestStep(t)
  PROVE  Launched'
<1>1. workers' = workers /\ watchdog' = watchdog
  BY DEF RequestStep, SubmitReview, Kickoff, RefuseKickoff, Publish,
         PublishFails, MarkDispatch, Answer, RequestDies
<1>2. \/ workflow'.task = workflow.task
      \/ workflow'.task = t /\ requests'[t].pc = "committed"
  <2>1. CASE Kickoff(t)
    BY <2>1 DEF Kickoff, Begun, Typed, TypeOK, Requests
  <2>2. CASE ~Kickoff(t)
    BY <2>2 DEF RequestStep, SubmitReview, RefuseKickoff, Publish,
         PublishFails, MarkDispatch, Answer, RequestDies, Marked, Typed, TypeOK,
         Attempts
  <2> QED BY <2>1, <2>2
<1>3. Submitted(workflow.task)'
  BY <1>2, StaysSubmitted DEF Launched, Submitted
<1> QED BY <1>1, <1>3, StaysSubmitted DEF Launched, Submitted

\* A worker takes a task only with a claim.
LEMMA WorkerTask ==
  ASSUME Typed, NEW w \in Workers, WorkerStep(w) \/ WorkerTrouble(w)
  PROVE  \/ workers'[w].pc = "idle"
         \/ workers'[w].task = workers[w].task /\ workers[w].pc # "idle"
         \/ \E t \in Tasks : Claim(w, t) /\ workers'[w].task = t
<1> USE DEF Typed, TypeOK, Runs
<1>1. ASSUME NEW t \in Tasks, Claim(w, t) PROVE workers'[w].task = t
  BY <1>1 DEF Claim, MayStart, Idle
<1>2. ASSUME NEW t \in Tasks, Ignore(w, t) PROVE workers'[w].pc = "idle"
  BY <1>2 DEF Ignore, FirstFree
<1>3. CASE Prepare(w)
  <2>1. CASE Current(workers[w].task)
    BY <1>3, <2>1 DEF Prepare
  <2>2. CASE ~Current(workers[w].task)
    BY <1>3, <2>2 DEF Prepare, Rest, Idle
  <2> QED BY <2>1, <2>2
<1>4. CASE \/ Recover(w) \/ TurnedAway(w) \/ Finalize(w) \/ GiveBack(w)
           \/ Crash(w)
  BY <1>4 DEF Recover, TurnedAway, Finalize, GiveBack, Crash, Rest, Idle
<1>5. CASE \/ Enter(w) \/ CreateConflict(w) \/ UpdateConflict(w)
           \/ PrepareFails(w) \/ SectionFails(w)
  BY <1>5 DEF Enter, CreateConflict, UpdateConflict, PrepareFails,
     SectionFails, Goes
<1>8. CASE SectionAborts(w)
  BY <1>8 DEF SectionAborts
<1>6. CASE ApplyCreates(w)
  BY <1>6 DEF ApplyCreates
<1>7. CASE ApplyUpdate(w)
  BY <1>7 DEF ApplyUpdate
<1> QED BY <1>1, <1>2, <1>3, <1>4, <1>5, <1>6, <1>7, <1>8
           DEF WorkerStep, WorkerTrouble

\* Workers take up only attempts that are stored.
LEMMA WorkerLaunched ==
  ASSUME Typed, Launched, NEW w \in Workers, WorkerStep(w) \/ WorkerTrouble(w)
  PROVE  Launched'
<1>1. /\ requests' = requests
      /\ \A v \in Workers : v # w => workers'[v] = workers[v]
  BY WorkerAlone
<1>2. watchdog' = watchdog
  BY DEF WorkerStep, WorkerTrouble, Claim, Ignore, Prepare,
       Recover, Enter, TurnedAway, ApplyCreates, ApplyUpdate, Finalize,
       GiveBack, CreateConflict, UpdateConflict, PrepareFails, SectionFails,
       SectionAborts, Crash
<1>3. workflow'.task = workflow.task
  BY DEF WorkerStep, WorkerTrouble, Claim, Ignore, Prepare,
       Recover, Enter, TurnedAway, ApplyCreates, ApplyUpdate, Finalize,
       GiveBack, CreateConflict, UpdateConflict, PrepareFails, SectionFails,
       SectionAborts, Crash, Ended, Typed, TypeOK, Attempts
<1>4. \/ workers'[w].pc = "idle"
      \/ workers'[w].task = workers[w].task /\ workers[w].pc # "idle"
      \/ workers'[w].task = workflow.task
  BY WorkerTask DEF Claim, MayStart
<1> QED BY <1>1, <1>2, <1>3, <1>4 DEF Launched, Submitted

\* The watchdog stores only attempts that were stored before.
LEMMA WatchdogLaunched ==
  ASSUME Typed, Launched, WatchdogAny
  PROVE  Launched'
<1>1. requests' = requests /\ workers' = workers
  BY WatchdogOutside
<1>2. workflow'.task \in {workflow.task, watchdog.seen.task}
  BY DEF WatchdogAny, WatchdogStep, Scan, SlowScan, CancelAttempt, Refresh,
       SlowRefresh, NoteRepair, Republish, RepublishFails, MarkRepublished,
       ReturnToReview, WatchdogDies, Marked, Ended, Typed, TypeOK, Attempts
<1>3. watchdog'.seen.task \in {workflow.task, watchdog.seen.task, Nobody}
  BY DEF WatchdogAny, WatchdogStep, Scan, SlowScan, CancelAttempt, Refresh,
       SlowRefresh, NoteRepair, Republish, RepublishFails, MarkRepublished,
       ReturnToReview, WatchdogDies, Watch, Resting, NoWorkflow,
       Typed, TypeOK, Passes
<1>4. Nobody \notin Tasks
  BY NumbersAssumption DEF Tasks
<1> QED BY <1>1, <1>2, <1>3, <1>4 DEF Launched, Submitted

\* Every attempt has had its kickoff.
LEMMA AlwaysLaunched == Spec => []Launched
<1>1. Typed /\ Launched /\ [Next]_vars => Launched'
  <2>1. ASSUME Launched, UNCHANGED vars PROVE Launched'
    BY <2>1 DEF Launched, Submitted, vars
  <2> QED BY <2>1, RequestLaunched, WorkerLaunched, WatchdogLaunched
             DEF Next, WatchdogAny
<1> QED BY <1>1, InitLaunched, AlwaysTyped, PTL DEF Spec

\* An attempt that ended keeps its end, unless the watchdog saved an old
\* workflow over it.
THEOREM EndsAreFinal == Spec => TerminalStays
<1> DEFINE A == workflow.status \in Terminal /\ workflow'.task = workflow.task
                  => workflow'.status = workflow.status \/ past'.clobbered
<1>1. Typed /\ Fenced /\ Launched /\ [Next]_vars => [A]_vars
  <2> SUFFICES ASSUME Typed, Fenced, Launched, Next,
                      workflow.status \in Terminal,
                      workflow'.task = workflow.task,
                      workflow' # workflow
               PROVE  past'.clobbered
    BY DEF vars
  <2>0. ~MayStart(workflow.task) /\ \A t : ~MayStart(t) /\ ~Current(t)
    BY DEF MayStart, Current, Terminal, Startable
  <2>1. ASSUME NEW t \in Tasks, RequestStep(t) PROVE FALSE
    <3>1. CASE Kickoff(t)
      BY <3>1 DEF Kickoff, Begun, Launched, Submitted
    <3>2. CASE MarkDispatch(t)
      BY <2>0, <3>2 DEF MarkDispatch, Marked
    <3> QED BY <2>1, <3>1, <3>2 DEF RequestStep, SubmitReview, RefuseKickoff,
               Publish, PublishFails, Answer, RequestDies
  <2>2. ASSUME NEW w \in Workers, WorkerStep(w) \/ WorkerTrouble(w) PROVE FALSE
    <3>1. workers[w].pc \notin Section
      BY <2>0 DEF Fenced
    <3> QED BY <2>2, <2>0, <3>1 DEF WorkerStep, WorkerTrouble, Claim, Ignore,
               Prepare, Recover, Enter, TurnedAway, ApplyCreates, ApplyUpdate,
               Finalize, GiveBack, CreateConflict, UpdateConflict,
               PrepareFails, SectionFails, SectionAborts, Crash, Section
  <2>3. CASE WatchdogAny
    <3>1. CASE NoteRepair
      BY <3>1 DEF NoteRepair, Typed, TypeOK
    <3>2. CASE CancelAttempt
      BY <3>2 DEF CancelAttempt, Cancellable, Terminal
    <3>3. CASE MarkRepublished
      BY <3>3, <2>0 DEF MarkRepublished, Marked
    <3> QED BY <2>3, <3>1, <3>2, <3>3 DEF WatchdogAny, WatchdogStep, Scan,
               SlowScan, Refresh, SlowRefresh, Republish, RepublishFails,
               ReturnToReview, WatchdogDies
  <2> QED BY <2>1, <2>2, <2>3 DEF Next, WatchdogAny
<1> QED BY <1>1, AlwaysTyped, AlwaysFenced, AlwaysLaunched, PTL
           DEF Spec, TerminalStays

-----------------------------------------------------------------------------
\* While the watchdog overwrote nothing, an attempt that may start has no
\* worker, and a started one has at most one.
Alone ==
  ~past.clobbered =>
    \A v, w \in Workers :
      /\ workers[w].pc # "idle" => ~MayStart(workers[w].task)
      /\ /\ v # w
         /\ workers[v].pc # "idle" /\ workers[w].pc # "idle"
         /\ workers[v].task = workers[w].task
         => ~Current(workers[w].task)

\* The rows that WrittenOnce exempts.
Exempt == past.exposed \cup past.returned

\* And the rows a current worker found are still in review, and those in
\* review are not written yet, but by the worker that is about to remove them.
Once ==
  ~past.clobbered =>
    /\ \A w \in Workers : \A i \in workers[w].rows :
         workers[w].pc \in Section \cup {"prepared"} /\ Current(workers[w].task)
           => i \in items \/ i \in Exempt
    /\ \A i \in items :
         \/ i \in Exempt
         \/ written[i] = 0
         \/ \E w \in Workers : workers[w].pc \in Section /\ i \in workers[w].done
    /\ \A i \in Items : written[i] < 2 \/ i \in Exempt

\* At first nothing is written.
LEMMA InitOnce == Init => Alone /\ Once
BY DEF Init, Alone, Once, Idle, Exempt

\* What requests do to attempts.
LEMMA RequestAttempts ==
  ASSUME Typed, NEW t \in Tasks, RequestStep(t)
  PROVE  \A n : /\ Current(n)' => Current(n)
                /\ MayStart(n)' => MayStart(n) \/ (n = t /\ requests[t].pc = "checked")
<1>1. CASE Kickoff(t)
  BY <1>1 DEF Kickoff, Begun, Current, MayStart
<1>2. CASE MarkDispatch(t)
  BY <1>2 DEF MarkDispatch, Marked, Current, MayStart, Startable, Typed,
     TypeOK, Attempts
<1> QED
  BY <1>1, <1>2 DEF RequestStep, SubmitReview, RefuseKickoff, Publish,
     PublishFails, Answer, RequestDies, Current, MayStart

\* What requests do to the items and to what the properties exempt.
LEMMA RequestHistory ==
  ASSUME Typed, NEW t \in Tasks, RequestStep(t)
  PROVE  /\ past'.clobbered = past.clobbered
         /\ past'.exposed = past.exposed /\ past.returned \subseteq past'.returned
         /\ items \subseteq items' /\ items' \subseteq items \cup past'.returned
<1>1. CASE Answer(t)
  BY <1>1 DEF Answer, EnsureReviewState, Typed, TypeOK
<1> QED
  BY <1>1 DEF RequestStep, SubmitReview, Kickoff, RefuseKickoff, Publish,
     PublishFails, MarkDispatch, RequestDies

\* What the watchdog does to attempts, when it overwrites nothing.
LEMMA WatchdogAttempts ==
  ASSUME Typed, WatchdogAny, ~past'.clobbered
  PROVE  /\ ~past.clobbered
         /\ \A n : /\ Current(n)' => Current(n)
                   /\ MayStart(n)' => MayStart(n)
<1>1. CASE NoteRepair
  BY <1>1 DEF NoteRepair, Typed, TypeOK, Current, MayStart
<1>2. CASE CancelAttempt
  BY <1>2 DEF CancelAttempt, Ended, Startable, Typed, TypeOK, Attempts,
     Current, MayStart
<1>3. CASE MarkRepublished
  BY <1>3 DEF MarkRepublished, Marked, Current, MayStart, Startable, Typed,
     TypeOK, Attempts
<1>4. CASE ReturnToReview
  BY <1>4 DEF ReturnToReview, EnsureReviewState, Typed, TypeOK, Current, MayStart
<1>5. CASE WatchdogDies
  BY <1>5 DEF WatchdogDies, Typed, TypeOK, Current, MayStart
<1> QED
  BY <1>1, <1>2, <1>3, <1>4, <1>5 DEF WatchdogAny, WatchdogStep, Scan,
     SlowScan, Refresh, SlowRefresh, Republish, RepublishFails, Current, MayStart

\* What the watchdog does to the items and to what the properties exempt.
LEMMA WatchdogHistory ==
  ASSUME Typed, WatchdogAny
  PROVE  /\ past'.exposed = past.exposed /\ past.returned \subseteq past'.returned
         /\ items \subseteq items' /\ items' \subseteq items \cup past'.returned
<1>1. CASE ReturnToReview
  BY <1>1 DEF ReturnToReview, EnsureReviewState, Typed, TypeOK
<1>2. CASE NoteRepair \/ WatchdogDies
  BY <1>2 DEF NoteRepair, WatchdogDies, Typed, TypeOK
<1> QED
  BY <1>1, <1>2 DEF WatchdogAny, WatchdogStep, Scan, SlowScan, CancelAttempt,
     Refresh, SlowRefresh, Republish, RepublishFails, MarkRepublished

\* Requests and the watchdog keep rows from being written twice.
LEMMA OutsideOnce ==
  ASSUME Typed, Launched, Alone, Once,
         WatchdogAny \/ \E t \in Tasks : RequestStep(t)
  PROVE  Alone' /\ Once'
<1>1. UNCHANGED <<workers, written>>
  BY WatchdogOutside, RequestOutside
<1>2. /\ past'.exposed = past.exposed /\ past.returned \subseteq past'.returned
      /\ items \subseteq items' /\ items' \subseteq items \cup past'.returned
  BY WatchdogHistory, RequestHistory
<1>3. ASSUME ~past'.clobbered
      PROVE  /\ ~past.clobbered
             /\ \A n : Current(n)' => Current(n)
             /\ \A w \in Workers : workers[w].pc # "idle"
                  => (MayStart(workers[w].task)' => MayStart(workers[w].task))
  <2>1. CASE WatchdogAny
    BY <2>1, <1>1, <1>3, WatchdogAttempts
  <2>2. ASSUME NEW t \in Tasks, RequestStep(t)
        PROVE  /\ ~past.clobbered
               /\ \A n : Current(n)' => Current(n)
               /\ \A w \in Workers : workers[w].pc # "idle"
                    => (MayStart(workers[w].task)' => MayStart(workers[w].task))
    BY <2>2, <1>1, <1>3, RequestAttempts, RequestHistory
       DEF Launched, Submitted
  <2> QED BY <2>1, <2>2
<1>4. Alone'
  BY <1>1, <1>3 DEF Alone
<1>5. Once'
  BY <1>1, <1>2, <1>3 DEF Once, Exempt
<1> QED BY <1>4, <1>5

\* A worker overwrites nothing and starts no attempt but the one it claims.
LEMMA WorkerAttempts ==
  ASSUME Typed, NEW w \in Workers, WorkerStep(w) \/ WorkerTrouble(w)
  PROVE  /\ past'.clobbered = past.clobbered
         /\ \A n : MayStart(n)' => MayStart(n)
         /\ (\E t \in Tasks : Claim(w, t)) \/ \A n : Current(n)' => Current(n)
<1> USE DEF Typed, TypeOK
<1>1. ASSUME NEW t \in Tasks, Claim(w, t)
      PROVE  past' = past /\ \A n : MayStart(n)' => MayStart(n)
  BY <1>1 DEF Claim, MayStart, Startable, Attempts
<1>2. CASE Recover(w) \/ Finalize(w)
  BY <1>2 DEF Recover, Finalize, Ended, MayStart, Current, Startable, Attempts
<1>3. CASE GiveBack(w)
  BY <1>3 DEF GiveBack, Ended, MayStart, Current, Startable, Attempts
<1>4. CASE Crash(w) \/ SectionAborts(w)
  BY <1>4 DEF Crash, SectionAborts, MayStart, Current
<1> QED
  BY <1>1, <1>2, <1>3, <1>4 DEF WorkerStep, WorkerTrouble, Ignore, Prepare,
     Enter, TurnedAway, ApplyCreates, ApplyUpdate, CreateConflict,
     UpdateConflict, PrepareFails, SectionFails, MayStart, Current

\* No worker joins another in its attempt.
LEMMA WorkerStaysAlone ==
  ASSUME Typed, Alone, NEW w \in Workers, WorkerStep(w) \/ WorkerTrouble(w)
  PROVE  Alone'
<1> SUFFICES ASSUME ~past'.clobbered,
                    NEW u \in Workers, NEW v \in Workers
             PROVE  /\ workers'[v].pc # "idle" => ~MayStart(workers[v].task)'
                    /\ /\ u # v
                       /\ workers'[u].pc # "idle" /\ workers'[v].pc # "idle"
                       /\ workers'[u].task = workers'[v].task
                       => ~Current(workers[v].task)'
  BY DEF Alone
<1>1. /\ ~past.clobbered
      /\ \A n : MayStart(n)' => MayStart(n)
  BY WorkerAttempts
<1>2. \A x \in Workers : x # w => workers'[x] = workers[x]
  BY WorkerAlone
<1>3. CASE \E t \in Tasks : Claim(w, t)
  <2>1. PICK t \in Tasks : Claim(w, t)
    BY <1>3
  <2>2. MayStart(t) /\ workers'[w].task = t
    BY <2>1 DEF Claim, Idle, Typed, TypeOK
  <2>3. \A x \in Workers : x # w /\ workers'[x].pc # "idle" => workers'[x].task # t
    BY <1>1, <1>2, <2>2 DEF Alone
  <2>4. workflow'.status = "started" /\ workflow'.task = t
    BY <2>1, <2>2 DEF Claim, MayStart, Typed, TypeOK, Attempts
  <2> QED BY <2>2, <2>3, <2>4 DEF MayStart, Current, Startable
<1>4. CASE ~\E t \in Tasks : Claim(w, t)
  <2>1. \A n : Current(n)' => Current(n)
    BY <1>4, WorkerAttempts
  <2>2. \A x \in Workers : \/ workers'[x].pc = "idle"
                          \/ /\ workers'[x].task = workers[x].task
                             /\ workers[x].pc # "idle"
    BY <1>2, <1>4, WorkerTask
  <2> QED BY <1>1, <2>1, <2>2 DEF Alone
<1> QED BY <1>3, <1>4

\* A row that the worker inside has not done yet and is not exempt is unwritten.
LEMMA Unwritten ==
  ASSUME Typed, Fenced, Once, ~past.clobbered, NEW w \in Workers,
         workers[w].pc \in Section, NEW i \in workers[w].rows,
         i \notin workers[w].done, i \notin Exempt
  PROVE  i \in items /\ written[i] = 0
BY DEF Fenced, Once

\* Workers write no row twice.
LEMMA WorkerOnce ==
  ASSUME Typed, Fenced, Worked, Alone, Once, NEW w \in Workers,
         WorkerStep(w) \/ WorkerTrouble(w)
  PROVE  Once'
<1> SUFFICES ASSUME ~past'.clobbered
             PROVE  /\ \A v \in Workers : \A i \in workers'[v].rows :
                         /\ workers'[v].pc \in Section \cup {"prepared"}
                         /\ Current(workers[v].task)'
                         => i \in items' \/ i \in Exempt'
                    /\ \A i \in items' :
                         \/ i \in Exempt'
                         \/ written'[i] = 0
                         \/ \E v \in Workers : /\ workers'[v].pc \in Section
                                               /\ i \in workers'[v].done
                    /\ \A i \in Items : written'[i] < 2 \/ i \in Exempt'
  BY DEF Once
<1> DEFINE Goal == Once'
<1> USE DEF Typed, TypeOK
<1>a. /\ requests' = requests
      /\ \A v \in Workers : v # w => workers'[v] = workers[v]
  BY WorkerAlone
<1>c. ~past.clobbered
  BY WorkerAttempts
<1>r. Rest(w) => workers'[w].pc = "idle"
  BY DEF Rest, Idle
<1>g. \A pc : Goes(w, pc) => /\ workers'[w].pc = pc
                             /\ workers'[w].task = workers[w].task
                             /\ workers'[w].rows = workers[w].rows
                             /\ workers'[w].done = workers[w].done
  BY DEF Goes, Runs
<1>1. ASSUME NEW t \in Tasks, Claim(w, t) PROVE Goal
  <2>1. workers'[w].pc = "claimed" /\ workers[w].pc = "idle"
    BY <1>1 DEF Claim, Idle, FirstFree
  <2>2. \A n : Current(n)' => n = t
    BY <1>1 DEF Claim, MayStart, Current, Attempts
  <2>3. \A v \in Workers : workers[v].pc # "idle" => workers[v].task # t
    BY <1>1, <1>c DEF Claim, Alone
  <2> QED BY <1>1, <1>a, <1>c, <2>1, <2>2, <2>3
             DEF Claim, Once, Exempt, Section
<1>2. ASSUME NEW t \in Tasks, Ignore(w, t) PROVE Goal
  BY <1>2 DEF Ignore, Once, Exempt, Current
<1>3. CASE Prepare(w)
  <2>1. \/ workers'[w].pc = "idle"
        \/ workers'[w].pc = "prepared" /\ workers'[w].rows = items
    <3>1. CASE Current(workers[w].task)
      <4>1. workers'[w] = [workers[w] EXCEPT !.pc = "prepared", !.rows = items]
        BY <1>3, <3>1 DEF Prepare
      <4> QED BY <4>1 DEF Runs
    <3>2. CASE ~Current(workers[w].task)
      BY <1>3, <3>2, <1>r DEF Prepare
    <3> QED BY <3>1, <3>2
  <2> QED BY <1>3, <1>a, <1>c, <2>1 DEF Prepare, Once, Exempt, Current, Section
<1>4. CASE Recover(w) \/ TurnedAway(w)
  <2>1. workers'[w].pc = "idle" /\ workers[w].pc \notin Section
    BY <1>4, <1>r DEF Recover, TurnedAway, Section
  <2>2. \A n : Current(n)' => Current(n)
    BY <1>4 DEF Recover, TurnedAway, Ended, Current, Attempts
  <2> QED BY <1>4, <1>a, <1>c, <2>1, <2>2
             DEF Recover, TurnedAway, Once, Exempt, Section
<1>5. CASE \/ Enter(w) \/ CreateConflict(w) \/ UpdateConflict(w)
           \/ SectionFails(w)
  <2>1. /\ workers[w].pc \in Section \cup {"prepared"}
        /\ workers'[w].pc \in Section
        /\ workers'[w].task = workers[w].task
        /\ workers'[w].rows = workers[w].rows
        /\ workers'[w].done = workers[w].done
    BY <1>5, <1>g DEF Enter, CreateConflict, UpdateConflict, SectionFails, Section
  <2>2. UNCHANGED <<items, written, workflow, past>>
    BY <1>5 DEF Enter, CreateConflict, UpdateConflict, SectionFails
  <2> QED BY <1>a, <1>c, <2>1, <2>2 DEF Once, Exempt, Current
<1>6. CASE PrepareFails(w)
  <2>1. workers'[w].pc = "broken" /\ workers[w].pc \notin Section
    BY <1>6, <1>g DEF PrepareFails, Section
  <2> QED BY <1>6, <1>a, <1>c, <2>1 DEF PrepareFails, Once, Exempt, Current, Section
<1>7. CASE ApplyCreates(w)
  <2> DEFINE New == Chosen(w) \cap Creates
  <2>1. /\ workers'[w].pc = "created" /\ workers'[w].task = workers[w].task
        /\ workers'[w].rows = workers[w].rows
        /\ workers'[w].done = New
    BY <1>7 DEF ApplyCreates, Runs
  <2>2. /\ workers[w].pc \in Section /\ workers[w].done = {}
        /\ New \subseteq workers[w].rows
    BY <1>7 DEF ApplyCreates, Section, Worked, Chosen
  <2>3. \A i \in New : i \in Exempt \/ written[i] = 0
    BY <1>c, <2>2, Unwritten
  <2>4. \A i \in Items : written'[i] = IF i \in New /\ written[i] < 2
                                      THEN written[i] + 1 ELSE written[i]
    BY <1>7 DEF ApplyCreates, Committed
  <2>5. \A v \in Workers : workers[v].pc \in Section => v = w
    BY <2>2 DEF Fenced
  <2>6. UNCHANGED <<items, workflow, past>>
    BY <1>7 DEF ApplyCreates
  <2>7. \A i \in items : i \in Exempt \/ written[i] = 0
    BY <1>c, <2>2, <2>5 DEF Once
  <2> HIDE DEF New
  <2>8. \A i \in Items : written'[i] < 2 \/ i \in Exempt'
    BY <1>c, <2>3, <2>4, <2>6 DEF Once, Exempt
  <2>9. \A i \in items' : i \in Exempt' \/ written'[i] = 0
                          \/ (workers'[w].pc \in Section /\ i \in workers'[w].done)
    BY <2>1, <2>4, <2>6, <2>7 DEF Exempt, Section
  <2>10. \A v \in Workers : \A i \in workers'[v].rows :
           /\ workers'[v].pc \in Section \cup {"prepared"}
           /\ Current(workers[v].task)'
           => i \in items' \/ i \in Exempt'
    BY <1>a, <1>c, <2>1, <2>2, <2>6 DEF Once, Exempt, Current
  <2> QED BY <2>8, <2>9, <2>10 DEF Once
<1>8. CASE ApplyUpdate(w)
  <2>0. PICK j \in workers[w].left :
          /\ Committed({j})
          /\ workers'[w] = [workers[w] EXCEPT !.left = workers[w].left \ {j},
                                              !.done = workers[w].done \cup {j}]
    BY <1>8 DEF ApplyUpdate
  <2>1. /\ workers'[w].pc = "created" /\ workers'[w].task = workers[w].task
        /\ workers'[w].rows = workers[w].rows
        /\ workers'[w].done = workers[w].done \cup {j}
    BY <1>8, <2>0 DEF ApplyUpdate, Runs
  <2>2. /\ workers[w].pc \in Section /\ j \in workers[w].rows
        /\ j \notin workers[w].done
    BY <1>8 DEF ApplyUpdate, Section, Worked, Chosen
  <2>3. j \in Exempt \/ written[j] = 0
    BY <1>c, <2>2, Unwritten
  <2>4. \A i \in Items : written'[i] = IF i = j /\ written[i] < 2
                                      THEN written[i] + 1 ELSE written[i]
    BY <2>0 DEF Committed
  <2>5. \A v \in Workers : workers[v].pc \in Section => v = w
    BY <2>2 DEF Fenced
  <2>6. UNCHANGED <<items, workflow, past>>
    BY <1>8 DEF ApplyUpdate
  <2>7. \A i \in items : i \in Exempt \/ written[i] = 0 \/ i \in workers[w].done
    BY <1>c, <2>2, <2>5 DEF Once
  <2>8. \A i \in Items : written'[i] < 2 \/ i \in Exempt'
    BY <1>c, <2>3, <2>4, <2>6 DEF Once, Exempt
  <2>9. \A i \in items' : i \in Exempt' \/ written'[i] = 0
                          \/ (workers'[w].pc \in Section /\ i \in workers'[w].done)
    BY <2>1, <2>4, <2>6, <2>7 DEF Exempt, Section
  <2>10. \A v \in Workers : \A i \in workers'[v].rows :
           /\ workers'[v].pc \in Section \cup {"prepared"}
           /\ Current(workers[v].task)'
           => i \in items' \/ i \in Exempt'
    BY <1>a, <1>c, <2>1, <2>2, <2>6 DEF Once, Exempt, Current
  <2> QED BY <2>8, <2>9, <2>10 DEF Once
<1>9. CASE Finalize(w)
  <2>1. workers'[w].pc = "idle" /\ workers[w].pc \in Section
    BY <1>9, <1>r DEF Finalize, Section
  <2>2. \A n : ~Current(n)'
    BY <1>9 DEF Finalize, Ended, Current, Attempts
  <2>3. items' = workers[w].rows \ Chosen(w) /\ workers[w].done = Chosen(w)
    BY <1>9 DEF Finalize, StillReview, Worked
  <2>4. \A i \in items' : i \in Exempt \/ written[i] = 0
    BY <1>c, <2>1, <2>3, Unwritten
  <2> QED BY <1>9, <1>c, <2>2, <2>4 DEF Finalize, Once, Exempt
<1>11. CASE SectionAborts(w)
  <2>0. workers'[w] = [workers[w] EXCEPT !.pc = "broken", !.left = {}, !.done = {}]
    BY <1>11 DEF SectionAborts
  <2>1. workers'[w].pc = "broken"
    BY <2>0 DEF Runs
  <2>2. \A n : Current(n)' => Current(n)
    BY <1>11 DEF SectionAborts, Current
  <2>3. /\ past'.exposed = past.exposed \cup workers[w].done
        /\ past'.returned = past.returned
        /\ UNCHANGED <<items, written>>
    BY <1>11 DEF SectionAborts
  <2> QED BY <1>a, <1>c, <2>1, <2>2, <2>3 DEF Once, Exempt, Section
<1>10. CASE GiveBack(w) \/ Crash(w)
  <2>1. workers'[w].pc = "idle"
    BY <1>10, <1>r DEF GiveBack, Crash
  <2>2. \A n : Current(n)' => Current(n)
    BY <1>10 DEF GiveBack, Crash, Ended, Current, Attempts
  <2>3. /\ past'.exposed = past.exposed \cup workers[w].done
        /\ past'.returned = past.returned
        /\ UNCHANGED <<items, written>>
    BY <1>10 DEF GiveBack, Crash
  <2> QED BY <1>a, <1>c, <2>1, <2>2, <2>3 DEF Once, Exempt, Section
<1> QED
  BY <1>1, <1>2, <1>3, <1>4, <1>5, <1>6, <1>7, <1>8, <1>9, <1>10, <1>11
     DEF WorkerStep, WorkerTrouble, Once

\* A row is written once, whatever submissions, late workers and repairs meet,
\* with the exceptions that WrittenOnce names.
THEOREM RowsAreWrittenOnce == Spec => []WrittenOnce
<1>1. Typed /\ Fenced /\ Worked /\ Launched /\ Alone /\ Once /\ [Next]_vars
        => Alone' /\ Once'
  <2>1. ASSUME Alone, Once, UNCHANGED vars PROVE Alone' /\ Once'
    BY <2>1 DEF Alone, Once, Exempt, Current, MayStart, vars
  <2> QED BY <2>1, OutsideOnce, WorkerStaysAlone, WorkerOnce
             DEF Next, WatchdogAny
<1>2. Typed /\ Once => WrittenOnce
  BY DEF Once, Exempt, WrittenOnce
<1> QED
  BY <1>1, <1>2, InitOnce, AlwaysTyped, AlwaysFenced, AlwaysLaunched, PTL
     DEF Spec
====
