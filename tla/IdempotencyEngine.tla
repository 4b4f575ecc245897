--------------------------- MODULE IdempotencyEngine ---------------------------
(***************************************************************************)
(* The Postgres-backed idempotency engine of the API server                *)
(* (server/api/idempotency_engine.py).  A write endpoint calls             *)
(* check_idempotency before its handler and store_idempotency after it;    *)
(* table api_idempotency_records is the only shared state.                 *)
(*                                                                         *)
(* One member of Requests is one HTTP delivery, handled by one server      *)
(* thread; a client retry is another member with the same key.  Time is    *)
(* abstracted to what the code asks of it: is lease_until in the past, is  *)
(* expires_at in the past.  The three request hashes are one fingerprint.  *)
(* The HMAC keyring is abstracted to whether the signature can be checked. *)
(***************************************************************************)
EXTENDS Naturals, FiniteSets

CONSTANTS
  Requests,      \* HTTP deliveries that carry an Idempotency-Key
  Keys,          \* IdempotencyScope: agency, route, method, key
  Fingerprints,  \* canonical body, query and semantic-header hashes
  KeyOf,         \* the scope of each delivery
  FpOf,          \* the fingerprint of each delivery
  NoReq,         \* SQL NULL in a column that names a delivery
  SlowHandlers,  \* may a handler outlive its 3-second lease?
  PurgeRaces,    \* may a record be taken over while a purge that has
                 \* already selected it is running?
  PurgeLimit     \* LIMIT of one purge batch

ASSUME RequestsAssumption ==
  /\ KeyOf \in [Requests -> Keys]
  /\ FpOf \in [Requests -> Fingerprints]
  /\ NoReq \notin Requests
ASSUME ModesAssumption == SlowHandlers \in BOOLEAN /\ PurgeRaces \in BOOLEAN
ASSUME PurgeAssumption == PurgeLimit \in Nat \ {0}

VARIABLES
  rec,       \* the row of each scope (NoRow when there is none)
  nextId,    \* the id sequence of the table
  pc,        \* where each delivery is
  ctx,       \* IdempotencyContext.record_id of each delivery (0: none)
  out,       \* what the handler of each delivery produced
  answer,    \* the kind of response each delivery got
  replayOf,  \* the delivery whose stored response was replayed to it
  effected,  \* deliveries whose business transaction committed
  stale,     \* deliveries whose `now' is older than the lapse of the lease
  doomed     \* ids selected by the purge statement that is running

\* What only the check, only the handler and only the maintenance touch.
answers == <<answer, replayOf>>
effects == <<out, effected>>
vars == <<rec, nextId, pc, ctx, answers, effects, stale, doomed>>

States   == {"in_progress", "completed", "failed_transient"}
Leases   == {"null", "live", "lapsed"}
Kinds    == {"ok", "refused", "error", "auth"}
PCs      == {"idle", "select", "reinsert", "run", "store", "done"}
Answers  == {"none", "replayed", "mismatch", "in_progress", "created",
             "skipped_auth_state", "unstored", "db_error", "integrity_error"}

\* response is the delivery whose outcome the response columns hold.
Row   == [id: Nat \ {0}, fp: Fingerprints, state: States, attempt: Nat,
          lease_owner: Requests, lease: Leases,
          response: Requests \cup {NoReq}, expired: BOOLEAN]
NoRow == [id |-> 0, state |-> "absent"]

Exists(k)    == rec[k] # NoRow
Active(r)    == pc[r] \in {"run", "store"}
Completed(k) == Exists(k) /\ rec[k].state = "completed"

TypeOK ==
  /\ rec \in [Keys -> Row \cup {NoRow}]
  /\ nextId \in Nat \ {0}
  /\ pc \in [Requests -> PCs]
  /\ ctx \in [Requests -> Nat]
  /\ out \in [Requests -> Kinds \cup {"none"}]
  /\ answer \in [Requests -> Answers]
  /\ replayOf \in [Requests -> Requests \cup {NoReq}]
  /\ effected \in SUBSET Requests
  /\ stale \in SUBSET Requests
  /\ doomed \in SUBSET Nat

Init ==
  /\ rec = [k \in Keys |-> NoRow]
  /\ nextId = 1
  /\ pc = [r \in Requests |-> "idle"]
  /\ ctx = [r \in Requests |-> 0]
  /\ out = [r \in Requests |-> "none"]
  /\ answer = [r \in Requests |-> "none"]
  /\ replayOf = [r \in Requests |-> NoReq]
  /\ effected = {}
  /\ stale = {}
  /\ doomed = {}

-----------------------------------------------------------------------------
(* check_idempotency: INSERT ... ON CONFLICT DO NOTHING, then SELECT ...   *)
(* FOR UPDATE, then the decision on the locked row.  The row can vanish    *)
(* between the two statements (READ COMMITTED), so each is a step.         *)

Finish(r, a) ==
  /\ pc' = [pc EXCEPT ![r] = "done"]
  /\ answer' = [answer EXCEPT ![r] = a]

InsertRow(r) ==
  /\ rec' = [rec EXCEPT ![KeyOf[r]] =
       [id |-> nextId, fp |-> FpOf[r], state |-> "in_progress", attempt |-> 1,
        lease_owner |-> r, lease |-> "live", response |-> NoReq,
        expired |-> FALSE]]
  /\ nextId' = nextId + 1
  /\ ctx' = [ctx EXCEPT ![r] = nextId]
  /\ pc' = [pc EXCEPT ![r] = "run"]
  /\ UNCHANGED <<answers, effects, stale, doomed>>

\* `now' is read before the transaction starts: r is not stale yet.
TryInsert(r) ==
  /\ pc[r] = "idle"
  /\ IF Exists(KeyOf[r])
       THEN /\ pc' = [pc EXCEPT ![r] = "select"]
            /\ UNCHANGED <<rec, nextId, ctx, answers, effects, stale, doomed>>
       ELSE InsertRow(r)

\* The locked SELECT found nothing: the row was deleted in between.
SelectFindsNothing(r) ==
  /\ pc[r] = "select"
  /\ ~Exists(KeyOf[r])
  /\ pc' = [pc EXCEPT ![r] = "reinsert"]
  /\ UNCHANGED <<rec, nextId, ctx, answers, effects, stale, doomed>>

\* The second INSERT; losing it too answers 202 without another look.
RetryInsert(r) ==
  /\ pc[r] = "reinsert"
  /\ IF Exists(KeyOf[r])
       THEN /\ Finish(r, "in_progress")
            /\ UNCHANGED <<rec, nextId, ctx, replayOf, effects, stale, doomed>>
       ELSE InsertRow(r)

\* Mutant: the three hashes are not compared.
NeverMismatched(r) == FpOf[r] # FpOf[r]

Mismatched(r) == rec[KeyOf[r]].fp # FpOf[r]

\* Mutant: lease_until is not looked at.
NeverLive(r) == ~Exists(KeyOf[r])

\* active_lease_until > now, where `now' was read before the row was locked.
SeesLiveLease(r) ==
  \/ rec[KeyOf[r]].lease = "live"
  \/ rec[KeyOf[r]].lease = "lapsed" /\ r \in stale

AnswerMismatch(r) ==
  /\ pc[r] = "select"
  /\ Exists(KeyOf[r])
  /\ Mismatched(r)
  /\ Finish(r, "mismatch")
  /\ UNCHANGED <<rec, nextId, ctx, replayOf, effects, stale, doomed>>

Replay(r) ==
  /\ pc[r] = "select"
  /\ Completed(KeyOf[r])
  /\ ~Mismatched(r)
  /\ Finish(r, "replayed")
  /\ replayOf' = [replayOf EXCEPT ![r] = rec[KeyOf[r]].response]
  /\ UNCHANGED <<rec, nextId, ctx, effects, stale, doomed>>

\* The signing key was retired or the payload version changed: 409.
AnswerIntegrityError(r) ==
  /\ pc[r] = "select"
  /\ Completed(KeyOf[r])
  /\ ~Mismatched(r)
  /\ Finish(r, "integrity_error")
  /\ UNCHANGED <<rec, nextId, ctx, replayOf, effects, stale, doomed>>

\* A live lease: _wait_for_completion reads the row this transaction has
\* locked, so it is still not completed and the answer is 202.
AnswerInProgress(r) ==
  /\ pc[r] = "select"
  /\ Exists(KeyOf[r])
  /\ ~Mismatched(r)
  /\ ~Completed(KeyOf[r])
  /\ SeesLiveLease(r)
  /\ Finish(r, "in_progress")
  /\ UNCHANGED <<rec, nextId, ctx, replayOf, effects, stale, doomed>>

\* No live lease: take the record over and run the handler again.
TakeOver(r) ==
  /\ pc[r] = "select"
  /\ Exists(KeyOf[r])
  /\ ~Mismatched(r)
  /\ ~Completed(KeyOf[r])
  /\ ~SeesLiveLease(r)
  /\ PurgeRaces \/ rec[KeyOf[r]].id \notin doomed
  /\ rec' = [rec EXCEPT ![KeyOf[r]].state = "in_progress",
                        ![KeyOf[r]].attempt = @ + 1,
                        ![KeyOf[r]].lease_owner = r,
                        ![KeyOf[r]].lease = "live"]
  /\ ctx' = [ctx EXCEPT ![r] = rec[KeyOf[r]].id]
  /\ pc' = [pc EXCEPT ![r] = "run"]
  /\ UNCHANGED <<nextId, answers, effects, stale, doomed>>

\* lock_timeout = 250ms, or any psycopg error: the exception becomes a 500.
CheckFails(r) ==
  /\ pc[r] \in {"idle", "select", "reinsert"}
  /\ Finish(r, "db_error")
  /\ UNCHANGED <<rec, nextId, ctx, replayOf, effects, stale, doomed>>

-----------------------------------------------------------------------------
(* The view between check and store.  Its business transaction is separate *)
(* from the idempotency transactions: a 5xx may come after the commit.     *)

Handle(r) ==
  /\ pc[r] = "run"
  /\ \E kind \in Kinds, committed \in BOOLEAN :
       /\ kind = "ok" => committed
       /\ committed => kind \in {"ok", "error"}
       /\ out' = [out EXCEPT ![r] = kind]
       /\ effected' = IF committed THEN effected \cup {r} ELSE effected
  /\ pc' = [pc EXCEPT ![r] = "store"]
  /\ UNCHANGED <<rec, nextId, ctx, answers, stale, doomed>>

\* Error paths of the views that return without store_idempotency.
ReturnUnstored(r) ==
  /\ pc[r] = "run"
  /\ Finish(r, "unstored")
  /\ UNCHANGED <<rec, nextId, ctx, replayOf, effects, stale, doomed>>

\* The worker dies, or store_idempotency itself raises.
Crash(r) ==
  /\ Active(r)
  /\ pc' = [pc EXCEPT ![r] = "done"]
  /\ UNCHANGED <<rec, nextId, ctx, answers, effects, stale, doomed>>

\* 401/403: DELETE by scope, not by record id.
StoreAuth(r) ==
  /\ pc[r] = "store"
  /\ out[r] = "auth"
  /\ rec' = [rec EXCEPT ![KeyOf[r]] = NoRow]
  /\ Finish(r, "skipped_auth_state")
  /\ UNCHANGED <<nextId, ctx, replayOf, effects, stale, doomed>>

\* Mutant: success is recorded as transient, a server error as final.
StateSwapped(r) == IF out[r] = "error" THEN "completed" ELSE "failed_transient"

StoredState(r) == IF out[r] = "error" THEN "failed_transient" ELSE "completed"

\* Mutant: the UPDATE finds the row by its scope alone.
HitsScope(r) == Exists(KeyOf[r])

\* WHERE id = record_id AND <scope>: no lease_owner in the predicate.
HitsRow(r) == Exists(KeyOf[r]) /\ rec[KeyOf[r]].id = ctx[r]

\* An UPDATE of zero rows is not noticed: the answer is the same.
StoreOutcome(r) ==
  /\ pc[r] = "store"
  /\ out[r] # "auth"
  /\ rec' = IF HitsRow(r)
              THEN [rec EXCEPT ![KeyOf[r]].state = StoredState(r),
                               ![KeyOf[r]].response = r,
                               ![KeyOf[r]].lease = "null"]
              ELSE rec
  /\ Finish(r, "created")
  /\ UNCHANGED <<nextId, ctx, replayOf, effects, stale, doomed>>

-----------------------------------------------------------------------------
(* The clock and the maintenance task.                                     *)

LeaseLapses(k) ==
  /\ Exists(k)
  /\ rec[k].lease = "live"
  /\ SlowHandlers \/ ~Active(rec[k].lease_owner)
  /\ rec' = [rec EXCEPT ![k].lease = "lapsed"]
  /\ stale' = stale \cup {r \in Requests : KeyOf[r] = k /\ pc[r] = "select"}
  /\ UNCHANGED <<nextId, pc, ctx, answers, effects, doomed>>

RecordExpires(k) ==
  /\ Exists(k)
  /\ ~rec[k].expired
  /\ rec' = [rec EXCEPT ![k].expired = TRUE]
  /\ UNCHANGED <<nextId, pc, ctx, answers, effects, stale, doomed>>

Purgeable(k) == Exists(k) /\ rec[k].expired /\ rec[k].state # "in_progress"

\* WITH doomed AS (SELECT ...): the snapshot of one batch, at most LIMIT rows.
PurgeSelect ==
  /\ doomed = {}
  /\ \E batch \in SUBSET {k \in Keys : Purgeable(k)} :
       /\ batch # {}
       /\ Cardinality(batch) <= PurgeLimit
       /\ \/ batch = {k \in Keys : Purgeable(k)}
          \/ Cardinality(batch) = PurgeLimit
       /\ doomed' = {rec[k].id : k \in batch}
  /\ UNCHANGED <<rec, nextId, pc, ctx, answers, effects, stale>>

\* DELETE ... WHERE id IN (doomed): a row that a taker updated meanwhile is
\* deleted too, for only its id is compared again after the lock.
PurgeDelete ==
  /\ doomed # {}
  /\ rec' = [k \in Keys |-> IF Exists(k) /\ rec[k].id \in doomed
                              THEN NoRow ELSE rec[k]]
  /\ doomed' = {}
  /\ UNCHANGED <<nextId, pc, ctx, answers, effects, stale>>

Step(r) ==
  \/ TryInsert(r) \/ SelectFindsNothing(r) \/ RetryInsert(r)
  \/ AnswerMismatch(r) \/ Replay(r) \/ AnswerIntegrityError(r)
  \/ AnswerInProgress(r) \/ TakeOver(r) \/ CheckFails(r)
  \/ Handle(r) \/ ReturnUnstored(r) \/ Crash(r)
  \/ StoreAuth(r) \/ StoreOutcome(r)

Clock(k) == LeaseLapses(k) \/ RecordExpires(k)
Maintenance == PurgeSelect \/ PurgeDelete

Next ==
  \/ \E r \in Requests : Step(r)
  \/ \E k \in Keys : Clock(k)
  \/ Maintenance

Spec == Init /\ [][Next]_vars

-----------------------------------------------------------------------------
(* Properties.                                                             *)

\* check_idempotency lets at most one delivery of a scope into its handler
\* at a time, while handlers end within their lease and no purge statement
\* overlaps a retry of an expired record.
OneHandlerPerScope ==
  \A r, q \in Requests :
    Active(r) /\ Active(q) /\ KeyOf[r] = KeyOf[q] => r = q

\* A response that is replayed was produced by the handler of a delivery
\* with the same scope and the same fingerprint, and was a final one: never
\* a 5xx and never an answer about the caller's authentication.
ReplayFaithful ==
  \A r \in Requests : answer[r] = "replayed" =>
    LET q == replayOf[r] IN
      /\ q \in Requests
      /\ KeyOf[q] = KeyOf[r] /\ FpOf[q] = FpOf[r]
      /\ out[q] \in {"ok", "refused"}

\* The response columns of a row were written by a delivery that held that
\* very row, also when rows of the scope were deleted and inserted again
\* while late handlers were still running.
StoredByHolder ==
  \A k \in Keys : Exists(k) /\ rec[k].response # NoReq =>
    LET q == rec[k].response IN KeyOf[q] = k /\ ctx[q] = rec[k].id

\* Two deliveries never both report success for the same record: once one
\* handler's success is stored, retries of it are replayed, not run again.
OneSuccessPerRecord ==
  \A r, q \in Requests :
    /\ answer[r] = "created" /\ out[r] = "ok"
    /\ answer[q] = "created" /\ out[q] = "ok"
    /\ ctx[r] = ctx[q]
    => r = q

\* A completed record is final: its response is what every later retry gets,
\* until the purge removes the record after its time to live.
FinalStep(k) ==
  Completed(k) =>
    \/ Completed(k)' /\ rec[k]'.response = rec[k].response
    \/ ~Exists(k)' /\ rec[k].expired
CompletedIsFinal == [][\A k \in Keys : FinalStep(k)]_vars

-----------------------------------------------------------------------------
(* The promise of a key, read off the table and the answers.               *)

Running == {r \in Requests : Active(r)}
Result  == [k \in Keys |-> IF Completed(k) THEN rec[k].response ELSE NoReq]
Told    == [r \in Requests |->
             IF answer[r] = "replayed" THEN replayOf[r]
             ELSE IF answer[r] = "created" /\ out[r] # "error" THEN r ELSE NoReq]

Promise == INSTANCE OnceOnly
             WITH running <- Running, result <- Result, told <- Told

\* check_idempotency and store_idempotency keep the promise of OnceOnly: one
\* delivery of a key at a time, the first definite outcome is the outcome of
\* the key, and a delivery with the same body is told exactly that outcome.
KeepsPromise == Promise!Spec
=============================================================================
