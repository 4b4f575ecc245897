----------------------------- MODULE CircuitProofs -----------------------------
(***************************************************************************)
(* Proofs about CircuitBreaker, for any number of threads, any threshold,  *)
(* any number of attempts and any set of outcomes.                         *)
(***************************************************************************)
EXTENDS CircuitBreaker, TLAPS

\* The inductive invariant.  A failure reported by a thread that was admitted
\* before the circuit opened still counts: failures may exceed Threshold.
BreakerInv == TypeOK /\ BreakerConsistent

\* The critical sections, by themselves.
LEMMA BreakerSections ==
  ASSUME BreakerInv, RecordSuccess \/ RecordFailure \/ Admits \/ UNCHANGED breaker
  PROVE  /\ cb' \in {"closed", "open", "half_open"}
         /\ failures' \in Nat
         /\ cooled' \in BOOLEAN
         /\ probe' \in BOOLEAN
         /\ BreakerConsistent'
<1>t. /\ TypeOK /\ BreakerConsistent
      /\ Threshold \in Nat \ {0} /\ failures \in Nat
  BY LimitsAssumption DEF BreakerInv, TypeOK
<1>1. CASE RecordSuccess
  <2>1. 0 < Threshold /\ 0 \in Nat
    BY <1>t
  <2>2. QED
    BY <1>1, <2>1, Zenon DEF RecordSuccess, BreakerConsistent
<1>2. CASE RecordFailure
  <2>1. /\ failures' \in Nat /\ cb' \in {"closed", "open", "half_open"}
        /\ cb' = "closed" <=> failures' < Threshold
    BY <1>2, <1>t DEF RecordFailure, TypeOK, BreakerConsistent
  <2>2. /\ cooled' \in BOOLEAN /\ probe' \in BOOLEAN
        /\ probe' => cb' = "half_open"
        /\ ~cooled' => cb' = "open"
    <3>1. CASE cb = "half_open"
      BY <1>2, <3>1, Zenon DEF RecordFailure
    <3>2. CASE cb # "half_open" /\ failures + 1 >= Threshold
      BY <1>2, <1>t, <3>2, Zenon DEF RecordFailure, BreakerConsistent, TypeOK
    <3>3. CASE cb # "half_open" /\ ~(failures + 1 >= Threshold)
      BY <1>2, <1>t, <3>3, Zenon DEF RecordFailure, BreakerConsistent, TypeOK
    <3>4. QED
      BY <3>1, <3>2, <3>3
  <2>3. QED
    BY <2>1, <2>2 DEF BreakerConsistent
<1>3. CASE Admits
  BY <1>3, <1>t DEF Admits, Rejects, TypeOK, BreakerConsistent
<1>4. CASE UNCHANGED breaker
  BY <1>4, <1>t DEF breaker, TypeOK, BreakerConsistent
<1>5. QED
  BY <1>1, <1>2, <1>3, <1>4

\* The rest of the state.
LEMMA RequestType ==
  ASSUME TypeOK, NEW t \in Threads, Request(t)
  PROVE  /\ token' \in BOOLEAN /\ online' \in BOOLEAN
         /\ pc' \in [Threads -> PCs]
         /\ attempt' \in [Threads -> 1 .. Attempts]
         /\ RecordSuccess \/ RecordFailure \/ Admits \/ UNCHANGED breaker
<1> USE LimitsAssumption DEF TypeOK, PCs, Go
<1>1. CASE Prepare(t)
  <2>1. attempt' \in [Threads -> 1 .. Attempts]
    BY <1>1 DEF Prepare
  <2>2. pc' \in [Threads -> PCs] /\ token' \in BOOLEAN /\ online' \in BOOLEAN
    BY <1>1 DEF Prepare
  <2>3. RecordSuccess \/ UNCHANGED breaker
    BY <1>1, Zenon DEF Prepare
  <2>4. QED
    BY <2>1, <2>2, <2>3
<1>2. CASE CircuitCheck(t)
  BY <1>2 DEF CircuitCheck
<1>3. ASSUME RetryOrGiveUp(t)
      PROVE  pc' \in [Threads -> PCs] /\ attempt' \in [Threads -> 1 .. Attempts]
  BY <1>3 DEF RetryOrGiveUp
<1>4. ASSUME NEW o, Respond(t, o)
      PROVE  /\ pc' \in [Threads -> PCs] /\ attempt' \in [Threads -> 1 .. Attempts]
             /\ RecordSuccess \/ RecordFailure \/ UNCHANGED breaker
  BY <1>3, <1>4 DEF Respond
<1>5. CASE Send(t)
  BY <1>3, <1>4, <1>5 DEF Send
<1>6. CASE Reauth(t)
  BY <1>6 DEF Reauth
<1>7. CASE Resend(t)
  BY <1>4, <1>7 DEF Resend
<1>8. QED
  BY <1>1, <1>2, <1>5, <1>6, <1>7 DEF Request

LEMMA BreakerStep == BreakerInv /\ [Next]_vars => BreakerInv'
<1> SUFFICES ASSUME BreakerInv, [Next]_vars PROVE BreakerInv'
  OBVIOUS
<1>1. ASSUME NEW t \in Threads, Request(t) PROVE BreakerInv'
  <2>1. orphaned' \in BOOLEAN
    BY <1>1, Zenon DEF Request
  <2>2. QED
    BY <1>1, <2>1, RequestType, BreakerSections DEF BreakerInv, TypeOK
<1>2. CASE CoolDown
  BY <1>2 DEF CoolDown, BreakerInv, TypeOK, BreakerConsistent
<1>3. CASE Login
  BY <1>3, BreakerSections DEF Login, BreakerInv, TypeOK
<1>4. CASE NetworkChanges
  BY <1>4, BreakerSections DEF NetworkChanges, BreakerInv, TypeOK
<1>5. CASE UNCHANGED vars
  BY <1>5, BreakerSections DEF vars, BreakerInv, TypeOK
<1>6. QED
  BY <1>1, <1>2, <1>3, <1>4, <1>5 DEF Next

LEMMA BreakerInit == Init => BreakerInv
<1> SUFFICES ASSUME Init PROVE BreakerInv
  OBVIOUS
<1>1. /\ 0 \in Nat /\ 0 < Threshold
      /\ attempt \in [Threads -> 1 .. Attempts] /\ pc \in [Threads -> PCs]
  BY LimitsAssumption DEF Init, PCs
<1>2. QED
  BY <1>1, Zenon DEF Init, BreakerInv, TypeOK, BreakerConsistent

\* Whatever threads report to the breaker, and in whatever order, its state,
\* its failure count, its cool-down and its probe flag agree.
THEOREM BreakerStaysConsistent == Spec => []BreakerConsistent
<1>1. Init => BreakerInv
  BY BreakerInit
<1>2. BreakerInv /\ [Next]_vars => BreakerInv'
  BY BreakerStep
<1>3. BreakerInv => BreakerConsistent
  BY DEF BreakerInv
<1>4. QED
  BY <1>1, <1>2, <1>3, PTL DEF Spec

\* Every variable keeps its type, the attempt number of a request its bound.
THEOREM BreakerTypes == Spec => []TypeOK
<1>1. Init => BreakerInv
  BY BreakerInit
<1>2. BreakerInv /\ [Next]_vars => BreakerInv'
  BY BreakerStep
<1>3. BreakerInv => TypeOK
  BY DEF BreakerInv
<1>4. QED
  BY <1>1, <1>2, <1>3, PTL DEF Spec
=============================================================================
