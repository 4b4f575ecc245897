--------------------------- MODULE IdempotencyProofs ---------------------------
(***************************************************************************)
(* Proofs about IdempotencyEngine, for any number of deliveries, scopes    *)
(* and bodies.  See README.md for the argument.                            *)
(***************************************************************************)
EXTENDS IdempotencyEngine, TLAPS

-----------------------------------------------------------------------------
(* Type correctness.                                                       *)

LEMMA InitTypeOK == Init => TypeOK
  BY RequestsAssumption
  DEF Init, TypeOK, Row, NoRow, PCs, Answers, Kinds

\* What every action does to the row of one scope keeps the table typed.
LEMMA PutRow ==
  ASSUME TypeOK, NEW k \in Keys, NEW row \in Row \cup {NoRow},
         rec' = [rec EXCEPT ![k] = row]
  PROVE  rec' \in [Keys -> Row \cup {NoRow}]
  BY DEF TypeOK

LEMMA FinishType ==
  ASSUME TypeOK, NEW r \in Requests, NEW a \in Answers, Finish(r, a)
  PROVE  pc' \in [Requests -> PCs] /\ answer' \in [Requests -> Answers]
  BY DEF TypeOK, Finish, PCs

LEMMA InsertType ==
  ASSUME TypeOK, NEW r \in Requests, InsertRow(r)
  PROVE  TypeOK'
<1> DEFINE row == [id |-> nextId, fp |-> FpOf[r], state |-> "in_progress",
                   attempt |-> 1, lease_owner |-> r, lease |-> "live",
                   response |-> NoReq, expired |-> FALSE]
<1>1. KeyOf[r] \in Keys /\ row \in Row
  BY RequestsAssumption DEF TypeOK, Row, States, Leases
<1>2. rec' \in [Keys -> Row \cup {NoRow}]
  BY <1>1, PutRow DEF InsertRow
<1>3. QED
  BY <1>2 DEF InsertRow, TypeOK, PCs, answers, effects

LEMMA TypeStep == TypeOK /\ [Next]_vars => TypeOK'
<1> SUFFICES ASSUME TypeOK, [Next]_vars PROVE TypeOK'
  OBVIOUS
<1> USE DEF answers, effects
<1>1. ASSUME NEW r \in Requests, Step(r) PROVE TypeOK'
  <2> KeyOf[r] \in Keys
    BY RequestsAssumption
  <2>1. CASE TryInsert(r)
    BY <2>1, InsertType DEF TryInsert, TypeOK, PCs
  <2>2. CASE SelectFindsNothing(r)
    BY <2>2 DEF SelectFindsNothing, TypeOK, PCs
  <2>3. CASE RetryInsert(r)
    BY <2>3, InsertType, FinishType DEF RetryInsert, TypeOK, Answers
  <2>4. CASE AnswerMismatch(r) \/ AnswerIntegrityError(r) \/ AnswerInProgress(r)
             \/ CheckFails(r) \/ ReturnUnstored(r)
    BY <2>4, FinishType
    DEF AnswerMismatch, AnswerIntegrityError, AnswerInProgress, CheckFails,
        ReturnUnstored, TypeOK, Answers
  <2>5. CASE Replay(r)
    BY <2>5, FinishType DEF Replay, TypeOK, Answers, Completed, Exists, Row
  <2>6. CASE TakeOver(r)
    <3> DEFINE row == [rec[KeyOf[r]] EXCEPT !.state = "in_progress",
                         !.attempt = @ + 1, !.lease_owner = r, !.lease = "live"]
    <3>1. rec[KeyOf[r]] \in Row
      BY <2>6 DEF TakeOver, Exists, TypeOK
    <3>2. row \in Row
      <4>1. rec[KeyOf[r]].attempt + 1 \in Nat
        BY <3>1 DEF Row
      <4>2. QED
        BY <3>1, <4>1, Zenon DEF Row, States, Leases
    <3>3. rec' = [rec EXCEPT ![KeyOf[r]] = row]
      BY <2>6, <3>1 DEF TakeOver, TypeOK
    <3>4. rec' \in [Keys -> Row \cup {NoRow}]
      BY <3>2, <3>3, PutRow
    <3>5. QED
      BY <2>6, <3>1, <3>4 DEF TakeOver, TypeOK, PCs, Row
  <2>7. CASE Handle(r)
    BY <2>7 DEF Handle, TypeOK, PCs, Kinds
  <2>8. CASE Crash(r)
    BY <2>8 DEF Crash, TypeOK, PCs
  <2>9. CASE StoreAuth(r)
    <3>1. rec' \in [Keys -> Row \cup {NoRow}]
      BY <2>9, PutRow DEF StoreAuth
    <3>2. QED
      BY <2>9, <3>1, FinishType DEF StoreAuth, TypeOK, Answers
  <2>10. CASE StoreOutcome(r)
    <3>1. rec' \in [Keys -> Row \cup {NoRow}]
      <4>1. CASE HitsRow(r)
        <5> DEFINE row == [rec[KeyOf[r]] EXCEPT !.state = StoredState(r),
                             !.response = r, !.lease = "null"]
        <5>1. rec[KeyOf[r]] \in Row
          BY <4>1 DEF HitsRow, Exists, TypeOK
        <5>2. row \in Row
          BY <5>1 DEF Row, States, Leases, StoredState
        <5>3. rec' = [rec EXCEPT ![KeyOf[r]] = row]
          BY <2>10, <4>1, <5>1 DEF StoreOutcome, TypeOK
        <5>4. QED
          BY <5>2, <5>3, PutRow
      <4>2. CASE ~HitsRow(r)
        BY <2>10, <4>2 DEF StoreOutcome, TypeOK
      <4>3. QED
        BY <4>1, <4>2
    <3>2. QED
      BY <2>10, <3>1, FinishType DEF StoreOutcome, TypeOK, Answers
  <2>11. QED
    BY <1>1, <2>1, <2>2, <2>3, <2>4, <2>5, <2>6, <2>7, <2>8, <2>9, <2>10
    DEF Step
<1>2. ASSUME NEW k \in Keys, Clock(k) PROVE TypeOK'
  <2>1. rec[k] \in Row
    BY <1>2 DEF Clock, LeaseLapses, RecordExpires, Exists, TypeOK
  <2>2. CASE LeaseLapses(k)
    <3> DEFINE row == [rec[k] EXCEPT !.lease = "lapsed"]
    <3>1. row \in Row /\ rec' = [rec EXCEPT ![k] = row]
      BY <2>1, <2>2 DEF LeaseLapses, Row, Leases, TypeOK
    <3>2. QED
      BY <2>2, <3>1, PutRow DEF LeaseLapses, TypeOK
  <2>3. CASE RecordExpires(k)
    <3> DEFINE row == [rec[k] EXCEPT !.expired = TRUE]
    <3>1. row \in Row /\ rec' = [rec EXCEPT ![k] = row]
      BY <2>1, <2>3 DEF RecordExpires, Row, TypeOK
    <3>2. QED
      BY <2>3, <3>1, PutRow DEF RecordExpires, TypeOK
  <2>4. QED
    BY <1>2, <2>2, <2>3 DEF Clock
<1>3. CASE Maintenance
  <2>1. CASE PurgeSelect
    <3>1. doomed' \in SUBSET Nat
      BY <2>1 DEF PurgeSelect, Purgeable, Exists, TypeOK, Row
    <3>2. QED
      BY <2>1, <3>1 DEF PurgeSelect, TypeOK
  <2>2. CASE PurgeDelete
    BY <2>2 DEF PurgeDelete, TypeOK
  <2>3. QED
    BY <1>3, <2>1, <2>2 DEF Maintenance
<1>4. CASE UNCHANGED vars
  BY <1>4 DEF vars, TypeOK
<1>5. QED
  BY <1>1, <1>2, <1>3, <1>4 DEF Next

\* The columns of the table and the bookkeeping of every delivery keep their
\* types: in particular state stays within the CHECK constraint of the table.
THEOREM TypeCorrect == Spec => []TypeOK
<1>1. Init => TypeOK
  BY InitTypeOK
<1>2. TypeOK /\ [Next]_vars => TypeOK'
  BY TypeStep
<1>3. QED
  BY <1>1, <1>2, PTL DEF Spec

-----------------------------------------------------------------------------
(* Soundness of the stored responses, with late handlers and racing purges *)
(* allowed: SlowHandlers and PurgeRaces are arbitrary here.                *)

\* Ids are drawn from a sequence and never reused, so an id in hand names at
\* most the row it was read from.
Fresh ==
  /\ \A k \in Keys : Exists(k) => rec[k].id < nextId
  /\ \A r \in Requests : ctx[r] < nextId

\* A delivery whose record id still names a row has that row's body.
HolderFp ==
  \A r \in Requests :
    /\ pc[r] = "store" => out[r] \in Kinds
    /\ Active(r) /\ HitsRow(r) => rec[KeyOf[r]].fp = FpOf[r]

\* What a row stores was put there by a delivery that is done with it.
RowSound(k) ==
  Exists(k) =>
    /\ rec[k].state = "completed" =>
         /\ rec[k].response # NoReq
         /\ out[rec[k].response] \in {"ok", "refused"}
    /\ rec[k].response # NoReq =>
         /\ KeyOf[rec[k].response] = k
         /\ FpOf[rec[k].response] = rec[k].fp
         /\ ctx[rec[k].response] = rec[k].id
         /\ pc[rec[k].response] = "done"

\* What was replayed came from a delivery that was done.
ReplaySound ==
  /\ ReplayFaithful
  /\ \A r \in Requests : answer[r] = "replayed" => pc[replayOf[r]] = "done"
  /\ \A r \in Requests : answer[r] = "replayed" => pc[r] = "done"

RowsSound == \A k \in Keys : RowSound(k)

SoundInv == TypeOK /\ Fresh /\ HolderFp /\ RowsSound /\ ReplaySound

LEMMA SoundInit == Init => SoundInv
<1> SUFFICES ASSUME Init PROVE SoundInv
  OBVIOUS
<1>1. TypeOK
  BY InitTypeOK
<1>2. Fresh /\ HolderFp /\ RowsSound /\ ReplaySound
  BY RequestsAssumption
  DEF Init, Fresh, HolderFp, RowsSound, RowSound, ReplaySound, ReplayFaithful,
      Exists, Active
<1>3. QED
  BY <1>1, <1>2 DEF SoundInv

LEMMA SoundStep == SoundInv /\ [Next]_vars => SoundInv'
<1> SUFFICES ASSUME SoundInv, [Next]_vars PROVE SoundInv'
  OBVIOUS
<1> TypeOK'
  BY TypeStep DEF SoundInv
<1> USE DEF answers, effects
<1>1. ASSUME NEW r \in Requests, InsertRow(r), pc[r] \in {"idle", "reinsert"},
             ~Exists(KeyOf[r])
      PROVE  SoundInv'
  <2>1. Fresh'
    BY <1>1, RequestsAssumption
    DEF InsertRow, SoundInv, Fresh, Exists, TypeOK, NoRow, Row
  <2>2. HolderFp'
    BY <1>1, RequestsAssumption
    DEF InsertRow, SoundInv, Fresh, HolderFp, HitsRow, Active, Exists, TypeOK,
        NoRow, Row
  <2>3. RowsSound'
    BY <1>1, RequestsAssumption
    DEF InsertRow, SoundInv, RowsSound, RowSound, Exists, TypeOK, NoRow, Row
  <2>4. ReplaySound'
    BY <1>1, RequestsAssumption
    DEF InsertRow, SoundInv, ReplaySound, ReplayFaithful, Exists, TypeOK
  <2>5. QED
    BY <2>1, <2>2, <2>3, <2>4 DEF SoundInv
<1>2. ASSUME NEW r \in Requests, TakeOver(r) PROVE SoundInv'
  <2>1. Fresh'
    BY <1>2, RequestsAssumption
    DEF TakeOver, SoundInv, Fresh, Exists, TypeOK, NoRow, Row
  <2>2. HolderFp'
    BY <1>2, RequestsAssumption
    DEF TakeOver, Mismatched, SoundInv, HolderFp, HitsRow, Active, Exists,
        TypeOK, NoRow, Row
  <2>3. RowsSound'
    <3>1. SUFFICES ASSUME NEW k \in Keys, Exists(k)' PROVE RowSound(k)'
      BY DEF RowsSound, RowSound
    <3>2. /\ rec[k] \in Row /\ Exists(k)
          /\ rec'[k].response = rec[k].response
          /\ rec'[k].fp = rec[k].fp /\ rec'[k].id = rec[k].id
          /\ rec'[k].state = "completed" => rec[k].state = "completed"
      BY <1>2, <3>1 DEF TakeOver, SoundInv, Exists, TypeOK, Row, NoRow
    <3>3. RowSound(k)
      BY DEF SoundInv, RowsSound
    <3>4. rec[k].response # NoReq => rec[k].response \in Requests \ {r}
      BY <1>2, <3>2, <3>3 DEF TakeOver, RowSound, Row
    <3>5. \A q \in Requests \ {r} : ctx'[q] = ctx[q] /\ pc'[q] = pc[q]
      BY <1>2 DEF TakeOver, SoundInv, TypeOK
    <3>6. out' = out
      BY <1>2 DEF TakeOver
    <3>7. QED
      BY <3>2, <3>3, <3>4, <3>5, <3>6 DEF RowSound
  <2>4. ReplaySound'
    BY <1>2 DEF TakeOver, SoundInv, ReplaySound, ReplayFaithful, TypeOK
  <2>5. QED
    BY <2>1, <2>2, <2>3, <2>4 DEF SoundInv
<1>3. ASSUME NEW r \in Requests, NEW a \in Answers \ {"replayed"}, Finish(r, a),
             UNCHANGED <<rec, nextId, ctx, replayOf, effects, stale, doomed>>
      PROVE  SoundInv'
  <2>1. Fresh' /\ HolderFp'
    BY <1>3 DEF Finish, SoundInv, Fresh, HolderFp, HitsRow, Active, Exists, TypeOK
  <2>2. RowsSound'
    BY <1>3 DEF Finish, SoundInv, RowsSound, RowSound, Exists, TypeOK
  <2>3. ReplaySound'
    BY <1>3 DEF Finish, SoundInv, ReplaySound, ReplayFaithful, TypeOK
  <2>4. QED
    BY <2>1, <2>2, <2>3 DEF SoundInv
<1>4. ASSUME NEW r \in Requests, Replay(r) PROVE SoundInv'
  <2>1. Fresh' /\ HolderFp'
    BY <1>4
    DEF Replay, Finish, SoundInv, Fresh, HolderFp, HitsRow, Active, Exists, TypeOK
  <2>2. RowsSound'
    BY <1>4 DEF Replay, Finish, SoundInv, RowsSound, RowSound, Exists, TypeOK
  <2>3. ReplaySound'
    <3> DEFINE q == rec[KeyOf[r]].response
    <3>1. /\ q \in Requests
          /\ KeyOf[q] = KeyOf[r] /\ FpOf[q] = FpOf[r]
          /\ out[q] \in {"ok", "refused"} /\ pc[q] = "done"
      <4>1. /\ KeyOf[r] \in Keys /\ Exists(KeyOf[r])
            /\ rec[KeyOf[r]].state = "completed" /\ rec[KeyOf[r]].fp = FpOf[r]
        BY <1>4, RequestsAssumption DEF Replay, Mismatched, Completed
      <4>2. rec[KeyOf[r]] \in Row /\ RowSound(KeyOf[r])
        BY <4>1 DEF SoundInv, RowsSound, Exists, TypeOK
      <4>3. QED
        BY <4>1, <4>2 DEF RowSound, Row
    <3>2. QED
      BY <1>4, <3>1
      DEF Replay, Finish, SoundInv, ReplaySound, ReplayFaithful, TypeOK
  <2>4. QED
    BY <2>1, <2>2, <2>3 DEF SoundInv
<1>5. ASSUME NEW r \in Requests, StoreAuth(r) PROVE SoundInv'
  <2>1. Fresh' /\ HolderFp'
    BY <1>5, RequestsAssumption
    DEF StoreAuth, Finish, SoundInv, Fresh, HolderFp, HitsRow, Active, Exists,
        TypeOK, NoRow
  <2>2. RowsSound'
    BY <1>5, RequestsAssumption
    DEF StoreAuth, Finish, SoundInv, RowsSound, RowSound, Exists, TypeOK, NoRow
  <2>3. ReplaySound'
    BY <1>5 DEF StoreAuth, Finish, SoundInv, ReplaySound, ReplayFaithful, TypeOK
  <2>4. QED
    BY <2>1, <2>2, <2>3 DEF SoundInv
<1>6. ASSUME NEW r \in Requests, StoreOutcome(r) PROVE SoundInv'
  <2>1. Fresh' /\ HolderFp'
    <3>1. \A k \in Keys : Exists(k)' =>
            Exists(k) /\ rec'[k].id = rec[k].id /\ rec'[k].fp = rec[k].fp
      BY <1>6, RequestsAssumption
      DEF StoreOutcome, HitsRow, SoundInv, Exists, TypeOK, NoRow, Row
    <3>2. Fresh'
      BY <1>6, <3>1 DEF StoreOutcome, SoundInv, Fresh
    <3>3. \A q \in Requests : Active(q)' => Active(q) /\ pc'[q] = pc[q]
      BY <1>6 DEF StoreOutcome, Finish, SoundInv, Active, TypeOK
    <3>4. ctx' = ctx /\ out' = out
      BY <1>6 DEF StoreOutcome
    <3>5. HolderFp'
      BY <3>1, <3>3, <3>4, RequestsAssumption
      DEF SoundInv, HolderFp, HitsRow, Active
    <3>6. QED
      BY <3>2, <3>5
  <2>2. RowsSound'
    BY <1>6, RequestsAssumption
    DEF StoreOutcome, StoredState, Finish, SoundInv, HolderFp, HitsRow, Active,
        Kinds, RowsSound, RowSound, Exists, TypeOK, NoRow, Row
  <2>3. ReplaySound'
    BY <1>6 DEF StoreOutcome, Finish, SoundInv, ReplaySound, ReplayFaithful, TypeOK
  <2>4. QED
    BY <2>1, <2>2, <2>3 DEF SoundInv
<1>7. ASSUME NEW r \in Requests, Handle(r) PROVE SoundInv'
  <2>1. Fresh' /\ HolderFp'
    BY <1>7
    DEF Handle, SoundInv, Fresh, HolderFp, HitsRow, Active, Exists, TypeOK
  <2>2. RowsSound'
    BY <1>7 DEF Handle, SoundInv, RowsSound, RowSound, Exists, TypeOK, Row
  <2>3. ReplaySound'
    BY <1>7 DEF Handle, SoundInv, ReplaySound, ReplayFaithful, TypeOK
  <2>4. QED
    BY <2>1, <2>2, <2>3 DEF SoundInv
<1>8. ASSUME NEW r \in Requests, NEW p \in {"select", "reinsert", "done"},
              pc[r] # "done", pc' = [pc EXCEPT ![r] = p],
              UNCHANGED <<rec, nextId, ctx, answers, effects, stale, doomed>>
       PROVE  SoundInv'
  <2>1. Fresh' /\ HolderFp'
    BY <1>8 DEF SoundInv, Fresh, HolderFp, HitsRow, Active, Exists, TypeOK
  <2>2. RowsSound'
    BY <1>8 DEF SoundInv, RowsSound, RowSound, Exists, TypeOK
  <2>3. ReplaySound'
    BY <1>8 DEF SoundInv, ReplaySound, ReplayFaithful, TypeOK
  <2>4. QED
    BY <2>1, <2>2, <2>3 DEF SoundInv
<1>9. ASSUME NEW r \in Requests, Step(r) PROVE SoundInv'
  <2> USE DEF Answers
  <2>1. CASE TryInsert(r)
    <3>1. CASE Exists(KeyOf[r])
      BY <1>8, <2>1, <3>1 DEF TryInsert
    <3>2. CASE ~Exists(KeyOf[r])
      BY <1>1, <2>1, <3>2 DEF TryInsert
    <3>3. QED
      BY <3>1, <3>2
  <2>2. CASE SelectFindsNothing(r) \/ Crash(r)
    BY <1>8, <2>2 DEF SelectFindsNothing, Crash, Active
  <2>3. CASE RetryInsert(r)
    BY <1>1, <1>3, <2>3 DEF RetryInsert
  <2>4. CASE AnswerMismatch(r) \/ AnswerIntegrityError(r) \/ AnswerInProgress(r)
             \/ CheckFails(r) \/ ReturnUnstored(r)
    BY <1>3, <2>4
    DEF AnswerMismatch, AnswerIntegrityError, AnswerInProgress, CheckFails,
        ReturnUnstored
  <2>5. QED
    BY <1>2, <1>4, <1>5, <1>6, <1>7, <1>9, <2>1, <2>2, <2>3, <2>4 DEF Step
<1>10. ASSUME NEW k \in Keys, Clock(k) PROVE SoundInv'
  <2>1. Fresh' /\ HolderFp'
    <3>1. \A j \in Keys : Exists(j)' =>
            Exists(j) /\ rec'[j].id = rec[j].id /\ rec'[j].fp = rec[j].fp
      BY <1>10 DEF Clock, LeaseLapses, RecordExpires, SoundInv, Exists, TypeOK,
        NoRow, Row
    <3>2. QED
      BY <1>10, <3>1, RequestsAssumption
      DEF Clock, LeaseLapses, RecordExpires, SoundInv, Fresh, HolderFp, HitsRow,
          Active, TypeOK
  <2>2. RowsSound'
    BY <1>10 DEF Clock, LeaseLapses, RecordExpires, SoundInv, RowsSound, RowSound,
      Exists, TypeOK, NoRow, Row
  <2>3. ReplaySound'
    BY <1>10 DEF Clock, LeaseLapses, RecordExpires, SoundInv, ReplaySound,
      ReplayFaithful
  <2>4. QED
    BY <2>1, <2>2, <2>3 DEF SoundInv
<1>11. CASE Maintenance
  <2>1. Fresh' /\ HolderFp'
    BY <1>11, RequestsAssumption DEF Maintenance, PurgeSelect, PurgeDelete,
      SoundInv, Fresh, HolderFp, HitsRow, Active, Exists, TypeOK
  <2>2. RowsSound'
    BY <1>11 DEF Maintenance, PurgeSelect, PurgeDelete, SoundInv, RowsSound,
      RowSound, Exists, TypeOK
  <2>3. ReplaySound'
    BY <1>11 DEF Maintenance, PurgeSelect, PurgeDelete, SoundInv, ReplaySound,
      ReplayFaithful
  <2>4. QED
    BY <2>1, <2>2, <2>3 DEF SoundInv
<1>12. CASE UNCHANGED vars
  BY <1>12 DEF vars, SoundInv, Fresh, HolderFp, HitsRow, Active, RowsSound,
    RowSound, ReplaySound, ReplayFaithful, Exists
<1>13. QED
  BY <1>9, <1>10, <1>11, <1>12 DEF Next

\* Whatever the interleaving of retries, late handlers, lapsed leases and
\* purges, a replayed response is the final answer that the same request,
\* with the same body, got from its handler.
THEOREM ReplaysAreFaithful == Spec => []ReplayFaithful
<1>1. Init => SoundInv
  BY SoundInit
<1>2. SoundInv /\ [Next]_vars => SoundInv'
  BY SoundStep
<1>3. SoundInv => ReplayFaithful
  BY DEF SoundInv, ReplaySound
<1>4. QED
  BY <1>1, <1>2, <1>3, PTL DEF Spec

\* A late store_idempotency never writes into a row that was inserted after
\* its own was deleted: the record id in the predicate is never reused.
THEOREM StoresHitTheirRow == Spec => []StoredByHolder
<1>1. Init => SoundInv
  BY SoundInit
<1>2. SoundInv /\ [Next]_vars => SoundInv'
  BY SoundStep
<1>3. SoundInv => StoredByHolder
  BY DEF SoundInv, RowsSound, RowSound, StoredByHolder
<1>4. QED
  BY <1>1, <1>2, <1>3, PTL DEF Spec

-----------------------------------------------------------------------------
(* Mutual exclusion of handlers, when handlers end within their lease and  *)
(* no record is taken over under a running purge.                          *)

UniqueIds ==
  /\ \A k, j \in Keys :
       Exists(k) /\ Exists(j) /\ rec[k].id = rec[j].id => k = j
  /\ \A r \in Requests, k \in Keys :
       Exists(k) /\ rec[k].id = ctx[r] => KeyOf[r] = k
  /\ \A r, q \in Requests :
       ctx[r] = ctx[q] /\ ctx[r] # 0 => KeyOf[r] = KeyOf[q]

\* The delivery that is in its handler holds the row, under a live lease.
Held ==
  \A r \in Requests : Active(r) =>
    /\ HitsRow(r)
    /\ rec[KeyOf[r]].lease_owner = r
    /\ rec[KeyOf[r]].lease = "live"
    /\ rec[KeyOf[r]].state = "in_progress"

\* A purge that is running has selected none but finished, expired rows.
DoomSound ==
  /\ \A i \in doomed : i < nextId
  /\ \A k \in Keys : Exists(k) /\ rec[k].id \in doomed =>
       rec[k].state # "in_progress" /\ rec[k].expired

Succeeded(r) == answer[r] = "created" /\ out[r] = "ok"

\* The record of a success stays completed as long as it is there.
SuccessSound ==
  /\ \A r \in Requests : answer[r] = "created" => pc[r] = "done" /\ ctx[r] # 0
  /\ \A r \in Requests : Succeeded(r) /\ HitsRow(r) => Completed(KeyOf[r])

PromptInv ==
  /\ SoundInv /\ UniqueIds /\ Held /\ DoomSound /\ SuccessSound
  /\ OneSuccessPerRecord

LEMMA PromptInit == Init => PromptInv
<1> SUFFICES ASSUME Init PROVE PromptInv
  OBVIOUS
<1>1. SoundInv
  BY SoundInit
<1>2. UniqueIds /\ Held /\ DoomSound /\ SuccessSound /\ OneSuccessPerRecord
  BY RequestsAssumption
  DEF Init, UniqueIds, Held, DoomSound, SuccessSound, Succeeded,
      OneSuccessPerRecord, Exists, Active, HitsRow
<1>3. QED
  BY <1>1, <1>2 DEF PromptInv

LEMMA UniqueStep == SoundInv /\ UniqueIds /\ [Next]_vars => UniqueIds'
<1> SUFFICES ASSUME SoundInv, UniqueIds, [Next]_vars PROVE UniqueIds'
  OBVIOUS
<1> USE DEF answers, effects
<1>1. ASSUME \A k \in Keys : Exists(k)' => Exists(k) /\ rec'[k].id = rec[k].id,
             ctx' = ctx
      PROVE  UniqueIds'
  BY <1>1 DEF UniqueIds
<1>2. ASSUME NEW r \in Requests, Step(r) PROVE UniqueIds'
  <2> KeyOf[r] \in Keys
    BY RequestsAssumption
  <2>1. CASE InsertRow(r)
    <3>1. \A k \in Keys \ {KeyOf[r]} : rec'[k] = rec[k]
      BY <2>1 DEF InsertRow, SoundInv, TypeOK
    <3>2. rec'[KeyOf[r]].id = nextId
      BY <2>1 DEF InsertRow, SoundInv, TypeOK
    <3>3. \A q \in Requests : ctx'[q] = IF q = r THEN nextId ELSE ctx[q]
      BY <2>1 DEF InsertRow, SoundInv, TypeOK
    <3>4. \A k \in Keys \ {KeyOf[r]} : Exists(k)' => Exists(k) /\ rec[k].id < nextId
      BY <3>1 DEF Exists, SoundInv, Fresh
    <3>5. nextId \in Nat /\ \A q \in Requests : ctx[q] \in Nat /\ ctx[q] < nextId
      BY DEF SoundInv, Fresh, TypeOK
    <3>6. QED
      BY <3>1, <3>2, <3>3, <3>4, <3>5 DEF UniqueIds
  <2>2. CASE TakeOver(r)
    <3>1. \A k \in Keys : Exists(k)' => Exists(k) /\ rec'[k].id = rec[k].id
      BY <2>2 DEF TakeOver, SoundInv, TypeOK, Exists, Row, NoRow
    <3>2. \A q \in Requests :
            ctx'[q] = IF q = r THEN rec[KeyOf[r]].id ELSE ctx[q]
      BY <2>2 DEF TakeOver, SoundInv, TypeOK
    <3>3. Exists(KeyOf[r])
      BY <2>2 DEF TakeOver
    <3>4. QED
      BY <3>1, <3>2, <3>3 DEF UniqueIds
  <2>3. CASE StoreAuth(r) \/ StoreOutcome(r)
    <3>1. \A k \in Keys : Exists(k)' => Exists(k) /\ rec'[k].id = rec[k].id
      BY <2>3
      DEF StoreAuth, StoreOutcome, HitsRow, SoundInv, TypeOK, Exists, Row, NoRow
    <3>2. QED
      BY <1>1, <2>3, <3>1 DEF StoreAuth, StoreOutcome
  <2>4. CASE UNCHANGED <<rec, ctx>>
    BY <1>1, <2>4 DEF Exists
  <2>5. QED
    BY <1>2, <2>1, <2>2, <2>3, <2>4
    DEF Step, TryInsert, SelectFindsNothing, RetryInsert, AnswerMismatch, Replay,
        AnswerIntegrityError, AnswerInProgress, CheckFails, Handle,
        ReturnUnstored, Crash
<1>3. ASSUME NEW k \in Keys, Clock(k) PROVE UniqueIds'
  <2>1. \A j \in Keys : Exists(j)' => Exists(j) /\ rec'[j].id = rec[j].id
    BY <1>3 DEF Clock, LeaseLapses, RecordExpires, SoundInv, TypeOK, Exists, Row,
      NoRow
  <2>2. QED
    BY <1>1, <1>3, <2>1 DEF Clock, LeaseLapses, RecordExpires
<1>4. CASE Maintenance \/ UNCHANGED vars
  BY <1>1, <1>4 DEF Maintenance, PurgeSelect, PurgeDelete, Exists, vars
<1>5. QED
  BY <1>2, <1>3, <1>4 DEF Next

\* While a delivery is in its handler, no other delivery of the scope is.
LEMMA HeldExcludes == Held => OneHandlerPerScope
  BY DEF Held, OneHandlerPerScope

LEMMA PromptStep ==
  ASSUME ~SlowHandlers, ~PurgeRaces, PromptInv, [Next]_vars
  PROVE  PromptInv'
<1> USE DEF answers, effects
<1>s. SoundInv' /\ UniqueIds'
  BY SoundStep, UniqueStep DEF PromptInv
<1>t. TypeOK /\ Fresh /\ UniqueIds /\ Held /\ DoomSound /\ SuccessSound
      /\ OneSuccessPerRecord
  BY DEF PromptInv, SoundInv
<1> DEFINE Goal == Held' /\ DoomSound' /\ SuccessSound' /\ OneSuccessPerRecord'
<1> SUFFICES Goal
  BY <1>s DEF PromptInv
<1> HIDE DEF Goal
\* Steps of a delivery that leave the table alone.
<1>1. ASSUME NEW r \in Requests, pc[r] # "done",
             UNCHANGED <<rec, nextId, ctx, doomed>>,
             \A q \in Requests \ {r} :
               pc'[q] = pc[q] /\ answer'[q] = answer[q] /\ out'[q] = out[q],
             Active(r)' => Active(r), answer'[r] # "created"
      PROVE  Goal
  <2>1. Held'
    BY <1>1, <1>t DEF Held, Active, HitsRow, Exists
  <2>2. DoomSound'
    BY <1>1, <1>t DEF DoomSound, Exists
  <2>3. SuccessSound'
    BY <1>1, <1>t DEF SuccessSound, Succeeded, HitsRow, Completed, Exists
  <2>4. OneSuccessPerRecord'
    BY <1>1, <1>t DEF OneSuccessPerRecord
  <2>5. QED
    BY <2>1, <2>2, <2>3, <2>4 DEF Goal
<1>2. ASSUME NEW r \in Requests, InsertRow(r), ~Exists(KeyOf[r]), pc[r] # "done"
      PROVE  Goal
  <2>1. /\ KeyOf[r] \in Keys
        /\ \A k \in Keys \ {KeyOf[r]} : rec'[k] = rec[k]
        /\ rec'[KeyOf[r]].id = nextId /\ rec'[KeyOf[r]].state = "in_progress"
        /\ rec'[KeyOf[r]].lease = "live" /\ rec'[KeyOf[r]].lease_owner = r
        /\ Exists(KeyOf[r])' /\ nextId' = nextId + 1 /\ nextId \in Nat
        /\ \A q \in Requests \ {r} : ctx'[q] = ctx[q] /\ pc'[q] = pc[q]
        /\ ctx'[r] = nextId /\ answer' = answer /\ out' = out
        /\ doomed' = doomed
    BY <1>2, <1>t, RequestsAssumption DEF InsertRow, TypeOK, Exists, NoRow
  <2>2. Held'
    BY <2>1, <1>2, <1>t, RequestsAssumption DEF Held, Active, HitsRow, Exists
  <2>3. DoomSound'
    BY <2>1, <1>t DEF DoomSound, Exists, TypeOK
  <2>4. SuccessSound'
    <3>1. \A q \in Requests : ctx[q] # nextId
      BY <1>t DEF Fresh, TypeOK
    <3>2. answer[r] # "created" /\ pc'[r] = "run"
      BY <1>2, <1>t DEF SuccessSound, InsertRow, TypeOK
    <3>3. \A q \in Requests : Succeeded(q)' => Succeeded(q) /\ q # r
      BY <2>1, <3>2 DEF Succeeded
    <3>4. \A q \in Requests \ {r} : HitsRow(q)' =>
            HitsRow(q) /\ rec'[KeyOf[q]] = rec[KeyOf[q]]
      BY <2>1, <3>1, RequestsAssumption DEF HitsRow, Exists
    <3>5. QED
      BY <2>1, <3>2, <3>3, <3>4, <1>t DEF SuccessSound, Completed, Exists
  <2>5. OneSuccessPerRecord'
    BY <2>1, <1>2, <1>t DEF OneSuccessPerRecord, SuccessSound
  <2>6. QED
    BY <2>2, <2>3, <2>4, <2>5 DEF Goal
<1>3. ASSUME NEW r \in Requests, TakeOver(r) PROVE Goal
  <2> DEFINE k == KeyOf[r]
  <2>1. /\ k \in Keys /\ Exists(k) /\ rec[k] \in Row /\ rec[k].lease # "live"
        /\ rec[k].state # "completed" /\ rec[k].id \notin doomed
    BY <1>3, <1>t, RequestsAssumption
    DEF TakeOver, SeesLiveLease, Completed, Exists, TypeOK
  <2>2. /\ \A j \in Keys \ {k} : rec'[j] = rec[j]
        /\ rec'[k].id = rec[k].id /\ rec'[k].state = "in_progress"
        /\ rec'[k].lease = "live" /\ rec'[k].lease_owner = r
        /\ rec'[k] # NoRow
        /\ nextId' = nextId /\ pc[r] = "select" /\ pc'[r] = "run"
        /\ \A q \in Requests \ {r} : ctx'[q] = ctx[q] /\ pc'[q] = pc[q]
        /\ ctx'[r] = rec[k].id /\ answer' = answer /\ out' = out
        /\ doomed' = doomed
    BY <2>1, <1>3, <1>t DEF TakeOver, TypeOK, Row, NoRow
  <2>3. Held'
    BY <2>1, <2>2, <1>t, RequestsAssumption DEF Held, Active, HitsRow, Exists
  <2>4. DoomSound'
    BY <2>1, <2>2, <1>t DEF DoomSound, Exists
  <2>5. SuccessSound'
    BY <2>1, <2>2, <1>t, RequestsAssumption
    DEF SuccessSound, Succeeded, HitsRow, Completed, Exists
  <2>6. OneSuccessPerRecord'
    BY <2>2, <1>t DEF OneSuccessPerRecord, SuccessSound
  <2>7. QED
    BY <2>3, <2>4, <2>5, <2>6 DEF Goal
\* The holder ends: nobody else is in a handler of the scope.
<1>4. ASSUME NEW r \in Requests, StoreAuth(r) \/ StoreOutcome(r) PROVE Goal
  <2> DEFINE k == KeyOf[r]
  <2>1. /\ k \in Keys /\ Exists(k) /\ rec[k] \in Row /\ rec[k].id = ctx[r]
        /\ HitsRow(r) /\ rec[k].state = "in_progress" /\ rec[k].lease_owner = r
        /\ ctx[r] # 0
    BY <1>4, <1>t, RequestsAssumption
    DEF StoreAuth, StoreOutcome, Held, Active, HitsRow, Exists, TypeOK, Row
  <2>2. /\ \A j \in Keys \ {k} : rec'[j] = rec[j]
        /\ nextId' = nextId /\ doomed' = doomed /\ ctx' = ctx /\ out' = out
        /\ \A q \in Requests \ {r} : pc'[q] = pc[q] /\ answer'[q] = answer[q]
        /\ pc'[r] = "done"
    BY <2>1, <1>4, <1>t DEF StoreAuth, StoreOutcome, Finish, TypeOK
  <2>3. \/ /\ ~Exists(k)' /\ answer'[r] # "created"
        \/ /\ rec'[k].id = rec[k].id /\ rec'[k].expired = rec[k].expired
           /\ rec'[k].state # "in_progress"
           /\ out[r] = "ok" => rec'[k].state = "completed"
    BY <2>1, <1>4, <1>t
    DEF StoreAuth, StoreOutcome, StoredState, Finish, TypeOK, Exists, Row
  <2>4. \A q \in Requests \ {r} : Active(q) => KeyOf[q] # k
    BY <2>1, <1>t DEF Held
  <2>5. \A q \in Requests : Succeeded(q) => ctx[q] # ctx[r]
    BY <2>1, <1>t
    DEF SuccessSound, UniqueIds, HitsRow, Completed, Exists
  <2>6. Held'
    BY <2>2, <2>4, <1>t, RequestsAssumption DEF Held, Active, HitsRow, Exists
  <2>7. DoomSound'
    BY <2>1, <2>2, <2>3, <1>t DEF DoomSound, Exists
  <2>8. SuccessSound'
    <3>1. \A q \in Requests \ {r} : Succeeded(q)' => Succeeded(q)
      BY <2>2 DEF Succeeded
    <3>2. ASSUME NEW q \in Requests \ {r}, Succeeded(q), HitsRow(q)'
          PROVE  Completed(KeyOf[q])'
      BY <2>1, <2>2, <2>3, <2>5, <3>2, <1>t, RequestsAssumption
      DEF SuccessSound, HitsRow, Completed, Exists
    <3>3. Succeeded(r)' /\ HitsRow(r)' => Completed(KeyOf[r])'
      BY <2>2, <2>3 DEF Succeeded, HitsRow, Completed, Exists
    <3>4. QED
      BY <2>1, <2>2, <3>1, <3>2, <3>3, <1>t DEF SuccessSound
  <2>9. OneSuccessPerRecord'
    BY <2>2, <2>5, <1>t DEF OneSuccessPerRecord, Succeeded
  <2>10. QED
    BY <2>6, <2>7, <2>8, <2>9 DEF Goal
<1>5. ASSUME NEW r \in Requests, Step(r) PROVE Goal
  <2>1. CASE TryInsert(r)
    <3>1. CASE Exists(KeyOf[r])
      BY <1>1, <2>1, <3>1, <1>t DEF TryInsert, Active, TypeOK, SuccessSound
    <3>2. CASE ~Exists(KeyOf[r])
      BY <1>2, <2>1, <3>2 DEF TryInsert
    <3>3. QED
      BY <3>1, <3>2
  <2>2. CASE SelectFindsNothing(r)
    BY <1>1, <2>2, <1>t DEF SelectFindsNothing, Active, TypeOK, SuccessSound
  <2>3. CASE RetryInsert(r)
    <3>1. CASE Exists(KeyOf[r])
      BY <1>1, <2>3, <3>1, <1>t DEF RetryInsert, Finish, Active, TypeOK
    <3>2. CASE ~Exists(KeyOf[r])
      BY <1>2, <2>3, <3>2 DEF RetryInsert
    <3>3. QED
      BY <3>1, <3>2
  <2>4. CASE AnswerMismatch(r) \/ Replay(r) \/ AnswerIntegrityError(r)
             \/ AnswerInProgress(r) \/ CheckFails(r) \/ ReturnUnstored(r)
    <3>1. PICK a \in Answers \ {"created"} : Finish(r, a)
      BY <2>4
      DEF AnswerMismatch, Replay, AnswerIntegrityError, AnswerInProgress,
          CheckFails, ReturnUnstored, Answers
    <3>2. UNCHANGED <<rec, nextId, ctx, doomed, out>> /\ pc[r] # "done"
      BY <2>4
      DEF AnswerMismatch, Replay, AnswerIntegrityError, AnswerInProgress,
          CheckFails, ReturnUnstored
    <3>3. QED
      BY <1>1, <3>1, <3>2, <1>t DEF Finish, Active, TypeOK
  <2>5. CASE Handle(r)
    BY <1>1, <2>5, <1>t DEF Handle, Active, TypeOK, SuccessSound
  <2>6. CASE Crash(r)
    BY <1>1, <2>6, <1>t DEF Crash, Active, TypeOK, SuccessSound
  <2>7. QED
    BY <1>3, <1>4, <1>5, <2>1, <2>2, <2>3, <2>4, <2>5, <2>6 DEF Step
<1>6. ASSUME NEW k \in Keys, Clock(k) PROVE Goal
  <2>1. /\ \A j \in Keys \ {k} : rec'[j] = rec[j]
        /\ UNCHANGED <<nextId, pc, ctx, answer, out, doomed>>
        /\ Exists(k) /\ rec[k] \in Row
    BY <1>6, <1>t DEF Clock, LeaseLapses, RecordExpires, Exists, TypeOK
  <2>2. /\ rec'[k].id = rec[k].id /\ rec'[k].state = rec[k].state
        /\ rec'[k].lease_owner = rec[k].lease_owner /\ Exists(k)'
        /\ rec[k].expired => rec'[k].expired
    BY <2>1, <1>6, <1>t
    DEF Clock, LeaseLapses, RecordExpires, Exists, TypeOK, Row, NoRow
  <2>3. rec'[k].lease = rec[k].lease \/ ~Active(rec[k].lease_owner)
    BY <2>1, <1>6, <1>t DEF Clock, LeaseLapses, RecordExpires, TypeOK, Row
  <2>4. Held'
    BY <2>1, <2>2, <2>3, <1>t, RequestsAssumption DEF Held, Active, HitsRow, Exists
  <2>5. DoomSound'
    BY <2>1, <2>2, <1>t DEF DoomSound, Exists
  <2>6. SuccessSound'
    BY <2>1, <2>2, <1>t, RequestsAssumption
    DEF SuccessSound, Succeeded, HitsRow, Completed, Exists
  <2>7. OneSuccessPerRecord'
    BY <2>1, <1>t DEF OneSuccessPerRecord
  <2>8. QED
    BY <2>4, <2>5, <2>6, <2>7 DEF Goal
<1>7. CASE PurgeSelect
  <2>1. UNCHANGED <<rec, nextId, pc, ctx, answer, out>>
    BY <1>7 DEF PurgeSelect
  <2>2. PICK batch \in SUBSET {k \in Keys : Purgeable(k)} :
          doomed' = {rec[k].id : k \in batch}
    BY <1>7 DEF PurgeSelect
  <2>3. DoomSound'
    BY <2>1, <2>2, <1>t DEF DoomSound, Purgeable, UniqueIds, Fresh, Exists
  <2>4. QED
    BY <2>1, <2>3, <1>t
    DEF Goal, Held, Active, SuccessSound, Succeeded, HitsRow, Completed, Exists,
        OneSuccessPerRecord
<1>8. CASE PurgeDelete
  <2>1. /\ UNCHANGED <<nextId, pc, ctx, answer, out>> /\ doomed' = {}
        /\ \A k \in Keys : rec'[k] = NoRow \/ rec'[k] = rec[k]
        /\ \A k \in Keys : Exists(k) /\ rec[k].state = "in_progress" =>
             rec'[k] = rec[k]
    BY <1>8, <1>t DEF PurgeDelete, DoomSound, Exists
  <2>2. Held'
    BY <2>1, <1>t, RequestsAssumption DEF Held, Active, HitsRow, Exists
  <2>3. DoomSound' /\ OneSuccessPerRecord'
    BY <2>1, <1>t DEF DoomSound, OneSuccessPerRecord
  <2>4. SuccessSound'
    BY <2>1, <1>t, RequestsAssumption
    DEF SuccessSound, Succeeded, HitsRow, Completed, Exists
  <2>5. QED
    BY <2>2, <2>3, <2>4 DEF Goal
<1>9. CASE UNCHANGED vars
  BY <1>9, <1>t
  DEF vars, Goal, Held, Active, DoomSound, SuccessSound, Succeeded, HitsRow,
      Completed, Exists, OneSuccessPerRecord
<1>10. QED
  BY <1>5, <1>6, <1>7, <1>8, <1>9 DEF Next, Maintenance

\* The step of CompletedIsFinal: only the holder writes a row, and the holder
\* of a completed row has left; a purge deletes it only after it expired.
LEMMA FinalStepLemma ==
  ASSUME ~SlowHandlers, ~PurgeRaces, PromptInv, [Next]_vars, NEW k \in Keys
  PROVE  FinalStep(k)
<1> USE DEF answers, effects
<1>t. TypeOK /\ Held /\ DoomSound
  BY DEF PromptInv, SoundInv
<1> SUFFICES ASSUME Completed(k)
             PROVE  \/ Completed(k)' /\ rec[k]'.response = rec[k].response
                    \/ ~Exists(k)' /\ rec[k].expired
  BY DEF FinalStep
<1>1. Exists(k) /\ rec[k] \in Row /\ rec[k].state = "completed"
  BY <1>t DEF Completed, Exists, TypeOK
<1>2. ASSUME rec'[k] = rec[k] PROVE Completed(k)' /\ rec'[k].response = rec[k].response
  BY <1>1, <1>2 DEF Completed, Exists
<1>3. ASSUME NEW r \in Requests, Step(r) PROVE rec'[k] = rec[k]
  <2>1. CASE UNCHANGED rec
    BY <2>1
  <2>2. CASE InsertRow(r) /\ ~Exists(KeyOf[r])
    BY <1>1, <2>2, <1>t DEF InsertRow, TypeOK
  <2>3. CASE TakeOver(r)
    BY <1>1, <2>3, <1>t DEF TakeOver, Completed, TypeOK
  <2>4. CASE StoreAuth(r) \/ StoreOutcome(r)
    <3>1. KeyOf[r] # k
      BY <1>1, <2>4, <1>t DEF StoreAuth, StoreOutcome, Held, Active
    <3>2. QED
      BY <3>1, <2>4, <1>t DEF StoreAuth, StoreOutcome, TypeOK
  <2>5. QED
    BY <1>3, <2>1, <2>2, <2>3, <2>4
    DEF Step, TryInsert, SelectFindsNothing, RetryInsert, AnswerMismatch, Replay,
        AnswerIntegrityError, AnswerInProgress, CheckFails, Handle,
        ReturnUnstored, Crash
<1>4. ASSUME NEW j \in Keys, Clock(j)
      PROVE  Completed(k)' /\ rec'[k].response = rec[k].response
  BY <1>1, <1>4, <1>t
  DEF Clock, LeaseLapses, RecordExpires, Completed, Exists, TypeOK, Row, NoRow
<1>5. CASE PurgeDelete
  BY <1>1, <1>2, <1>5, <1>t DEF PurgeDelete, DoomSound, Exists
<1>6. CASE PurgeSelect \/ UNCHANGED vars
  BY <1>2, <1>6 DEF PurgeSelect, vars
<1>7. QED
  BY <1>2, <1>3, <1>4, <1>5, <1>6 DEF Next, Maintenance

\* When handlers end within the 3-second lease, check_idempotency admits at
\* most one delivery of a scope into its handler at a time, for any number
\* of concurrent retries.
THEOREM HandlersExcludeEachOther ==
  ASSUME ~SlowHandlers, ~PurgeRaces
  PROVE  Spec => []OneHandlerPerScope
<1>1. Init => PromptInv
  BY PromptInit
<1>2. PromptInv /\ [Next]_vars => PromptInv'
  BY PromptStep
<1>3. PromptInv => OneHandlerPerScope
  BY HeldExcludes DEF PromptInv
<1>4. QED
  BY <1>1, <1>2, <1>3, PTL DEF Spec

\* Under the same assumption no record reports two successes.
THEOREM SuccessIsUnique ==
  ASSUME ~SlowHandlers, ~PurgeRaces
  PROVE  Spec => []OneSuccessPerRecord
<1>1. Init => PromptInv
  BY PromptInit
<1>2. PromptInv /\ [Next]_vars => PromptInv'
  BY PromptStep
<1>3. PromptInv => OneSuccessPerRecord
  BY DEF PromptInv
<1>4. QED
  BY <1>1, <1>2, <1>3, PTL DEF Spec

\* Under the same assumption a completed record keeps its response until it
\* has expired and the purge deletes it.
THEOREM CompletedStaysFinal ==
  ASSUME ~SlowHandlers, ~PurgeRaces
  PROVE  Spec => CompletedIsFinal
<1>1. Init => PromptInv
  BY PromptInit
<1>2. PromptInv /\ [Next]_vars => PromptInv'
  BY PromptStep
<1>3. PromptInv /\ [Next]_vars => [\A k \in Keys : FinalStep(k)]_vars
  BY FinalStepLemma
<1>4. QED
  BY <1>1, <1>2, <1>3, PTL DEF Spec, CompletedIsFinal

-----------------------------------------------------------------------------
(* The refinement of OnceOnly.                                             *)

LEMMA PromiseInit == Init => Promise!Init
  BY RequestsAssumption
  DEF Init, Promise!Init, Running, Result, Told, Active, Completed, Exists

\* A delivery that is not done was told nothing, and the key of one that is
\* in its handler has no result.
LEMMA ToldLate ==
  ASSUME PromptInv
  PROVE  /\ \A r \in Requests : pc[r] # "done" => Told[r] = NoReq
         /\ \A r \in Requests : Active(r) => Result[KeyOf[r]] = NoReq
         /\ \A r \in Requests : Active(r) <=> r \in Running
         /\ \A r, q \in Requests : Active(r) /\ Active(q) /\ KeyOf[r] = KeyOf[q] => r = q
<1>1. Held /\ SuccessSound /\ ReplaySound
  BY DEF PromptInv, SoundInv
<1>2. QED
  BY <1>1, HeldExcludes, RequestsAssumption
  DEF Held, SuccessSound, ReplaySound, Told, Result, Running, Completed,
      OneHandlerPerScope

\* A step of a delivery that answers without running it: nothing happens to
\* the promise.
LEMMA Silent ==
  ASSUME PromptInv, TypeOK', NEW r \in Requests, pc[r] # "done",
         rec' = rec, out' = out, replayOf' = replayOf,
         \A q \in Requests \ {r} : pc'[q] = pc[q] /\ answer'[q] = answer[q],
         Active(r)' <=> Active(r),
         answer'[r] \notin {"replayed", "created"}
  PROVE  UNCHANGED Promise!promise
<1>1. Running' = Running
  BY DEF Running, Active
<1>2. Result' = Result
  BY DEF Result, Completed, Exists
<1>3. Told'[r] = NoReq
  BY DEF Told
<1>4. \A q \in Requests \ {r} : Told'[q] = Told[q]
  BY DEF Told
<1>5. Told' = Told
  BY <1>3, <1>4, ToldLate DEF Told
<1>6. QED
  BY <1>1, <1>2, <1>5 DEF Promise!promise

\* InsertRow and TakeOver admit the delivery.
LEMMA Admits ==
  ASSUME PromptInv, TypeOK', NEW r \in Requests, pc[r] # "done", ~Active(r),
         Result[KeyOf[r]] = NoReq,
         \A q \in Requests : Active(q) => KeyOf[q] # KeyOf[r],
         pc' = [pc EXCEPT ![r] = "run"],
         answer' = answer, replayOf' = replayOf, out' = out,
         \A k \in Keys \ {KeyOf[r]} : rec'[k] = rec[k],
         ~Completed(KeyOf[r])'
  PROVE  Promise!Admit(r)
<1>0. pc \in [Requests -> PCs]
  BY DEF PromptInv, SoundInv, TypeOK
<1>1. Running' = Running \cup {r}
  BY <1>0 DEF Running, Active
<1>2. Told' = Told
  BY DEF Told
<1>3. \A k \in Keys : Result'[k] = Result[k]
  BY RequestsAssumption DEF Result, Completed, Exists
<1>4. Result' = Result
  BY <1>3 DEF Result
<1>5. \A q \in Running : KeyOf[q] # KeyOf[r]
  BY DEF Running
<1>6. Told[r] = NoReq
  BY ToldLate
<1>7. QED
  BY <1>1, <1>2, <1>4, <1>5, <1>6 DEF Promise!Admit

\* ReturnUnstored, Crash, StoreAuth and a stored 5xx abandon it.
LEMMA Abandons ==
  ASSUME PromptInv, TypeOK', NEW r \in Requests, Active(r),
         pc' = [pc EXCEPT ![r] = "done"], replayOf' = replayOf, out' = out,
         \A q \in Requests \ {r} : answer'[q] = answer[q],
         Told'[r] = NoReq,
         \A k \in Keys \ {KeyOf[r]} : rec'[k] = rec[k],
         ~Completed(KeyOf[r])'
  PROVE  Promise!Abandon(r)
<1>0. pc \in [Requests -> PCs]
  BY DEF PromptInv, SoundInv, TypeOK
<1>1. Running' = Running \ {r}
  BY <1>0 DEF Running, Active
<1>2. Told'[r] = Told[r]
  BY ToldLate DEF Active
<1>3. \A q \in Requests : Told'[q] = Told[q]
  BY <1>2 DEF Told
<1>4. Told' = Told
  BY <1>3 DEF Told
<1>5. \A k \in Keys : Result'[k] = Result[k]
  BY ToldLate, RequestsAssumption DEF Result, Completed, Exists
<1>6. Result' = Result
  BY <1>5 DEF Result
<1>7. QED
  BY <1>1, <1>4, <1>6, ToldLate DEF Promise!Abandon

LEMMA PromiseOfStep ==
  ASSUME ~PurgeRaces, PromptInv, TypeOK', NEW r \in Requests, Step(r)
  PROVE  Promise!Next \/ UNCHANGED Promise!promise
<1> USE DEF answers, effects
<1>t. TypeOK /\ Held /\ RowsSound /\ KeyOf[r] \in Keys
  BY RequestsAssumption DEF PromptInv, SoundInv
<1>i. ASSUME InsertRow(r), pc[r] \in {"idle", "reinsert"}, ~Exists(KeyOf[r])
      PROVE  Promise!Admit(r)
  <2>1. \A q \in Requests : Active(q) => KeyOf[q] # KeyOf[r]
    BY <1>i, <1>t DEF Held, HitsRow
  <2>2. ~Active(r) /\ pc[r] # "done" /\ Result[KeyOf[r]] = NoReq
    BY <1>i, <1>t DEF Active, Result, Completed
  <2>3. ~Completed(KeyOf[r])' /\ \A k \in Keys \ {KeyOf[r]} : rec'[k] = rec[k]
    BY <1>i, <1>t DEF InsertRow, Completed, Exists, TypeOK
  <2>4. QED
    BY <1>i, <2>1, <2>2, <2>3, Admits DEF InsertRow
<1>a. ASSUME pc[r] \in {"idle", "select", "reinsert"}, rec' = rec, out' = out,
             replayOf' = replayOf, NEW a \in Answers \ {"replayed", "created"},
             Finish(r, a)
      PROVE  UNCHANGED Promise!promise
  <2>1. \A q \in Requests \ {r} : pc'[q] = pc[q] /\ answer'[q] = answer[q]
    BY <1>a, <1>t DEF Finish, TypeOK
  <2>2. ~Active(r)' /\ ~Active(r) /\ answer'[r] = a
    BY <1>a, <1>t DEF Finish, TypeOK, Active
  <2>3. QED
    BY <1>a, <2>1, <2>2, Silent
<1>b. ASSUME pc[r] \in {"idle", "select", "reinsert"}, rec' = rec, out' = out,
             answer' = answer, replayOf' = replayOf,
             NEW p \in {"select", "reinsert"}, pc' = [pc EXCEPT ![r] = p]
      PROVE  UNCHANGED Promise!promise
  <2>1. \A q \in Requests \ {r} : pc'[q] = pc[q] /\ answer'[q] = answer[q]
    BY <1>b, <1>t DEF TypeOK
  <2>2. ~Active(r)' /\ ~Active(r)
    BY <1>b, <1>t DEF TypeOK, Active
  <2>3. answer[r] \notin {"replayed", "created"}
    BY <1>b DEF PromptInv, SoundInv, SuccessSound, ReplaySound
  <2>4. QED
    BY <1>b, <2>1, <2>2, <2>3, Silent
<1>1. CASE TryInsert(r)
  BY <1>1, <1>i, <1>b DEF TryInsert, Promise!Next
<1>2. CASE SelectFindsNothing(r)
  BY <1>2, <1>b DEF SelectFindsNothing
<1>3. CASE RetryInsert(r)
  BY <1>3, <1>i, <1>a DEF RetryInsert, Promise!Next, Answers
<1>4. CASE AnswerMismatch(r) \/ AnswerIntegrityError(r) \/ AnswerInProgress(r)
           \/ CheckFails(r)
  BY <1>4, <1>a
  DEF AnswerMismatch, AnswerIntegrityError, AnswerInProgress, CheckFails, Answers
<1>5. CASE Replay(r)
  <2>1. rec[KeyOf[r]] \in Row /\ rec[KeyOf[r]].response # NoReq
        /\ FpOf[rec[KeyOf[r]].response] = FpOf[r]
    BY <1>5, <1>t
    DEF Replay, Completed, Exists, TypeOK, RowsSound, RowSound, Mismatched
  <2>2. Result[KeyOf[r]] = rec[KeyOf[r]].response /\ Result' = Result
    BY <1>5, <1>t DEF Replay, Result, Completed, Exists
  <2>3. Told'[r] = Result[KeyOf[r]]
    BY <1>5, <1>t, <2>2 DEF Replay, Finish, Told, TypeOK
  <2>4. Told' = [Told EXCEPT ![r] = Result[KeyOf[r]]]
    <3>1. \A q \in Requests \ {r} : Told'[q] = Told[q]
      BY <1>5, <1>t DEF Replay, Finish, TypeOK, Told
    <3>2. Told = [q \in Requests |-> Told[q]] /\ Told' = [q \in Requests |-> Told'[q]]
      BY DEF Told
    <3>3. QED
      BY <3>1, <3>2, <2>3
  <2>5. Running' = Running /\ r \notin Running
    BY <1>5, <1>t DEF Replay, Finish, Running, Active, TypeOK
  <2>6. Told[r] = NoReq
    BY <1>5, ToldLate DEF Replay
  <2>7. Promise!Replay(r)
    BY <2>1, <2>2, <2>4, <2>5, <2>6 DEF Promise!Replay
  <2>8. QED
    BY <2>7 DEF Promise!Next
<1>6. CASE TakeOver(r)
  <2>1. ~Completed(KeyOf[r]) /\ Exists(KeyOf[r]) /\ rec[KeyOf[r]] \in Row
        /\ rec[KeyOf[r]].lease # "live" /\ pc[r] = "select"
    BY <1>6, <1>t DEF TakeOver, SeesLiveLease, TypeOK, Exists
  <2>2. \A q \in Requests : Active(q) => KeyOf[q] # KeyOf[r]
    BY <2>1, <1>t DEF Held
  <2>3. ~Active(r) /\ Result[KeyOf[r]] = NoReq
    BY <2>1, <1>t DEF Active, Result
  <2>4. rec'[KeyOf[r]].state = "in_progress"
        /\ \A k \in Keys \ {KeyOf[r]} : rec'[k] = rec[k]
    BY <1>6, <2>1, <1>t DEF TakeOver, TypeOK, Row
  <2>5. ~Completed(KeyOf[r])'
    BY <2>4 DEF Completed
  <2>6. Promise!Admit(r)
    BY <1>6, <2>1, <2>2, <2>3, <2>4, <2>5, Admits DEF TakeOver
  <2>7. QED
    BY <2>6 DEF Promise!Next
<1>7. CASE Handle(r)
  <2>1. Running' = Running
    BY <1>7, <1>t DEF Handle, Running, Active, TypeOK
  <2>2. Result' = Result
    BY <1>7 DEF Handle, Result, Completed, Exists
  <2>3. answer[r] # "created" /\ pc[r] = "run"
    BY <1>7 DEF Handle, PromptInv, SuccessSound
  <2>4. \A q \in Requests \ {r} : out'[q] = out[q]
    BY <1>7, <1>t DEF Handle, TypeOK
  <2>5. answer' = answer /\ replayOf' = replayOf
    BY <1>7 DEF Handle
  <2>6. Told' = Told
    BY <2>3, <2>4, <2>5 DEF Told
  <2>7. QED
    BY <2>1, <2>2, <2>6 DEF Promise!promise
<1>8. ASSUME ReturnUnstored(r) \/ Crash(r) PROVE Promise!Abandon(r)
  <2>1. Active(r) /\ pc' = [pc EXCEPT ![r] = "done"] /\ replayOf' = replayOf
        /\ out' = out /\ rec' = rec
    BY <1>8 DEF ReturnUnstored, Crash, Finish, Active
  <2>2. \A q \in Requests \ {r} : answer'[q] = answer[q]
    BY <1>8, <1>t DEF ReturnUnstored, Crash, Finish, TypeOK
  <2>3. answer'[r] \notin {"replayed", "created"}
    <3>1. answer[r] \notin {"replayed", "created"}
      BY <2>1 DEF PromptInv, SoundInv, SuccessSound, ReplaySound, Active
    <3>2. QED
      BY <1>8, <1>t, <3>1 DEF ReturnUnstored, Crash, Finish, TypeOK
  <2>4. Told'[r] = NoReq
    BY <2>3 DEF Told
  <2>5. ~Completed(KeyOf[r])'
    BY <2>1, <1>t DEF Held, Completed, Exists
  <2>6. QED
    BY <2>1, <2>2, <2>4, <2>5, Abandons
<1>9. ASSUME StoreAuth(r) PROVE Promise!Abandon(r)
  <2>1. Active(r) /\ pc' = [pc EXCEPT ![r] = "done"] /\ replayOf' = replayOf
        /\ out' = out
    BY <1>9 DEF StoreAuth, Finish, Active
  <2>2. Told'[r] = NoReq /\ \A q \in Requests \ {r} : answer'[q] = answer[q]
    BY <1>9, <1>t DEF StoreAuth, Finish, TypeOK, Told
  <2>3. rec'[KeyOf[r]] = NoRow /\ \A k \in Keys \ {KeyOf[r]} : rec'[k] = rec[k]
    BY <1>9, <1>t DEF StoreAuth, TypeOK
  <2>4. ~Completed(KeyOf[r])'
    BY <2>3 DEF Completed, Exists
  <2>5. QED
    BY <2>1, <2>2, <2>3, <2>4, Abandons
<1>10. CASE StoreOutcome(r)
  <2> DEFINE k == KeyOf[r]
  <2>1. Active(r) /\ pc[r] = "store" /\ pc' = [pc EXCEPT ![r] = "done"]
        /\ replayOf' = replayOf /\ out' = out
    BY <1>10 DEF StoreOutcome, Finish, Active
  <2>2. HitsRow(r) /\ rec[k] \in Row
    BY <2>1, <1>t DEF Held, HitsRow, Exists, TypeOK
  <2>3. rec'[k] = [rec[k] EXCEPT !.state = StoredState(r), !.response = r,
                                 !.lease = "null"]
        /\ \A j \in Keys \ {k} : rec'[j] = rec[j]
    BY <1>10, <2>2, <1>t DEF StoreOutcome, TypeOK
  <2>4. answer'[r] = "created" /\ \A q \in Requests \ {r} : answer'[q] = answer[q]
    BY <1>10, <1>t DEF StoreOutcome, Finish, TypeOK
  <2>5. CASE out[r] = "error"
    <3>1. Told'[r] = NoReq
      BY <2>1, <2>4, <2>5 DEF Told
    <3>2. ~Completed(k)'
      BY <2>2, <2>3, <2>5 DEF Completed, StoredState, Row
    <3>3. Promise!Abandon(r)
      BY <2>1, <2>3, <2>4, <3>1, <3>2, Abandons
    <3>4. QED
      BY <3>3 DEF Promise!Next
  <2>6. CASE out[r] # "error"
    <3>1. Told' = [Told EXCEPT ![r] = r]
      <4>1. Told'[r] = r
        BY <2>1, <2>4, <2>6 DEF Told
      <4>2. \A q \in Requests \ {r} : Told'[q] = Told[q]
        BY <2>1, <2>4 DEF Told
      <4>3. Told = [q \in Requests |-> Told[q]] /\ Told' = [q \in Requests |-> Told'[q]]
        BY DEF Told
      <4>4. QED
        BY <4>1, <4>2, <4>3
    <3>2. Result' = [Result EXCEPT ![k] = r]
      <4>0. rec'[k] \in Row /\ rec'[k].state = "completed" /\ rec'[k].response = r
        BY <2>2, <2>3, <2>6 DEF StoredState, Row, States, Leases
      <4>1. Result'[k] = r
        BY <4>0, <1>t DEF Result, Completed, Exists, Row, NoRow
      <4>2. \A j \in Keys \ {k} : Result'[j] = Result[j]
        BY <2>3 DEF Result, Completed, Exists
      <4>3. Result = [j \in Keys |-> Result[j]] /\ Result' = [j \in Keys |-> Result'[j]]
        BY DEF Result
      <4>4. QED
        BY <4>1, <4>2, <4>3
    <3>3. Running' = Running \ {r} /\ r \in Running
      BY <2>1, <1>t DEF Running, Active, TypeOK
    <3>4. Promise!Settle(r)
      BY <3>1, <3>2, <3>3 DEF Promise!Settle
    <3>5. QED
      BY <3>4 DEF Promise!Next
  <2>7. QED
    BY <2>5, <2>6
<1>11. QED
  BY <1>1, <1>2, <1>3, <1>4, <1>5, <1>6, <1>7, <1>8, <1>9, <1>10
  DEF Step, Promise!Next

LEMMA PromiseStep ==
  ASSUME ~SlowHandlers, ~PurgeRaces, PromptInv, [Next]_vars
  PROVE  [Promise!Next]_(Promise!promise)
<1> USE DEF answers, effects
<1>t. TypeOK /\ TypeOK' /\ Held /\ DoomSound
  BY TypeStep DEF PromptInv, SoundInv
<1>1. ASSUME NEW r \in Requests, Step(r)
      PROVE  Promise!Next \/ UNCHANGED Promise!promise
  BY <1>1, <1>t, PromiseOfStep
<1>2. ASSUME pc' = pc, answer' = answer, out' = out, replayOf' = replayOf
      PROVE  Running' = Running /\ Told' = Told
  BY <1>2 DEF Running, Active, Told
<1>3. ASSUME NEW k \in Keys, Clock(k) PROVE UNCHANGED Promise!promise
  <2>1. Exists(k) /\ rec[k] \in Row
    BY <1>3, <1>t DEF Clock, LeaseLapses, RecordExpires, Exists, TypeOK
  <2>2. rec'[k] \in Row /\ rec'[k].state = rec[k].state
        /\ rec'[k].response = rec[k].response
        /\ \A j \in Keys \ {k} : rec'[j] = rec[j]
    <3>1. CASE LeaseLapses(k)
      <4>1. rec'[k] = [rec[k] EXCEPT !.lease = "lapsed"]
            /\ \A j \in Keys \ {k} : rec'[j] = rec[j]
        BY <3>1, <1>t DEF LeaseLapses, TypeOK
      <4>2. QED
        BY <4>1, <2>1 DEF Row, Leases
    <3>2. CASE RecordExpires(k)
      <4>1. rec'[k] = [rec[k] EXCEPT !.expired = TRUE]
            /\ \A j \in Keys \ {k} : rec'[j] = rec[j]
        BY <3>2, <1>t DEF RecordExpires, TypeOK
      <4>2. QED
        BY <4>1, <2>1 DEF Row
    <3>3. QED
      BY <1>3, <3>1, <3>2 DEF Clock
  <2>3. Result' = Result
    BY <2>1, <2>2 DEF Result, Completed, Exists, Row, NoRow
  <2>4. Running' = Running /\ Told' = Told
    BY <1>3, <1>2 DEF Clock, LeaseLapses, RecordExpires
  <2>5. QED
    BY <2>3, <2>4 DEF Promise!promise
<1>4. CASE PurgeSelect
  <2>1. Result' = Result
    BY <1>4 DEF PurgeSelect, Result, Completed, Exists
  <2>2. Running' = Running /\ Told' = Told
    BY <1>4, <1>2 DEF PurgeSelect
  <2>3. QED
    BY <2>1, <2>2 DEF Promise!promise
<1>5. ASSUME PurgeDelete PROVE Promise!Next
  <2> DEFINE gone == {k \in Keys : Exists(k) /\ rec[k].id \in doomed}
  <2>1. \A r \in Running : KeyOf[r] \notin gone
    BY <1>t, RequestsAssumption DEF Running, Held, DoomSound
  <2>2. \A k \in Keys : rec'[k] = IF k \in gone THEN NoRow ELSE rec[k]
    BY <1>5 DEF PurgeDelete
  <2>3. Result' = [k \in Keys |-> IF k \in gone THEN NoReq ELSE Result[k]]
    BY <2>2 DEF Result, Completed, Exists
  <2>4. Running' = Running /\ Told' = Told
    BY <1>5, <1>2 DEF PurgeDelete
  <2>5. Promise!Forget(gone)
    BY <2>1, <2>3, <2>4 DEF Promise!Forget
  <2>6. gone \in SUBSET Keys
    OBVIOUS
  <2>7. QED
    BY <2>5, <2>6 DEF Promise!Next
<1>6. CASE UNCHANGED vars
  BY <1>6 DEF vars, Promise!promise, Running, Result, Told, Active, Completed,
              Exists
<1>7. QED
  BY <1>1, <1>3, <1>4, <1>5, <1>6 DEF Next, Maintenance

\* While handlers end within their lease and no takeover runs under a purge,
\* the engine with its rows, leases and purges implements OnceOnly: clients
\* cannot tell it from a table of results that is consulted atomically.
THEOREM EngineKeepsPromise ==
  ASSUME ~SlowHandlers, ~PurgeRaces
  PROVE  Spec => KeepsPromise
<1>1. Init => PromptInv /\ Promise!Init
  BY PromptInit, PromiseInit
<1>2. PromptInv /\ [Next]_vars => PromptInv'
  BY PromptStep
<1>3. PromptInv /\ [Next]_vars => [Promise!Next]_(Promise!promise)
  BY PromiseStep
<1>4. QED
  BY <1>1, <1>2, <1>3, PTL DEF Spec, KeepsPromise, Promise!Spec
=============================================================================
