---------------------------- MODULE OfflineJournal ----------------------------
(***************************************************************************)
(* The desktop client's offline write journal and its replay:              *)
(* app/services/offline_op_log.py (the journal), offline_reconciler.py     *)
(* (the replay), offline_entity_mutations.py (the writes of the UI),       *)
(* offline_ids.py and offline_conflicts.py.                                *)
(*                                                                         *)
(* Two threads use the journal: "ui" runs the user's writes, "sync" is the *)
(* background flush.  Every journal call reads pending_snapshot.json,      *)
(* changes the list, replaces the file and then appends to op_log.jsonl;   *)
(* no lock is held across these steps, and nothing keeps the user from     *)
(* writing while a flush runs.  The log is represented by what             *)
(* _rebuild_pending_from_log would make of it.                             *)
(*                                                                         *)
(* A write is abstracted to the number of the call that made it: the body  *)
(* of an operation is the set of the user's writes it carries.  The server *)
(* is external: it applies bodies and answers a repeated Idempotency-Key   *)
(* as the idempotency engine does.  Projections (what the screens show)    *)
(* and generic operations are left out.                                    *)
(***************************************************************************)
EXTENDS Naturals, Sequences, FiniteSets

CONSTANTS
  Temps,       \* entities the user may create (they get a temporary id)
  Reals,       \* entities that exist on the server from the start
  NoParent,
  Parent,      \* the entity each of Temps refers to, or NoParent
  Outcomes,    \* what may happen to an exchange, beyond the server's answer
  BatchLimit,  \* _API_SYNC_BATCH_LIMIT
  MaxOps,      \* bound: writes and retries the user makes
  MaxDisturbances  \* bound: times the client dies or a call meets a flush

ASSUME EntitiesAssumption ==
  /\ Temps \cap Reals = {}
  /\ NoParent \notin Temps
  /\ Parent \in [Temps -> Temps \cup {NoParent}]
ASSUME BoundsAssumption ==
  MaxOps \in Nat /\ MaxDisturbances \in Nat /\ BatchLimit \in Nat \ {0}
ASSUME OutcomesAssumption ==
  Outcomes \subseteq {"answer", "lost", "down", "auth", "accepted"}

VARIABLES
  snapshot,   \* pending_snapshot.json
  journal,    \* what a rebuild from op_log.jsonl would give
  conflicts,  \* op ids in conflicts.json
  idmap,      \* entities whose server id is known: those in temp_id_map.json
              \* and those created online, which never had another id
  pc, jobs, after, buf,  \* per thread: step, calls to do, then, list read
  cur,        \* per thread: the operation in hand
  res,        \* per thread: the outcome of its exchange
  batch,      \* operations the flush has listed and not yet replayed
  cancelled,  \* entities whose dependent creates are being cancelled
  known,      \* the id under which the UI knows each entity
  writesOf,   \* writes to each entity that the UI has accepted
  dropped,    \* writes the user gave up by deleting or discarding
  alive, applied, keyed, created,  \* the server's data
  nextOp, crashes,
  overlaps,   \* history: how often a call of the user has met a flush
  raced       \* history: writes whose call met a flush that may drop them

client  == <<snapshot, journal, conflicts, idmap>>
local   == <<pc, jobs, after, buf, cur, res>>
screens == <<known, writesOf, dropped, cancelled, nextOp>>
server  == <<alive, applied, keyed, created>>
history == <<overlaps, raced>>
vars    == <<client, local, batch, screens, server, crashes, history>>

Entities == Temps \cup Reals
Actors   == {"ui", "sync"}
Statuses == {"pending", "syncing", "blocked", "needs_review"}
Errors   == {"", "net", "auth_required", "rejected"}
Ids      == 1 .. MaxOps

\* at: is local_id a temporary (negative) or a real id?
Op == [id: Ids, type: {"create", "update", "delete"}, ent: Entities,
       at: {"temp", "real"}, body: SUBSET Ids, status: Statuses,
       err: Errors]
NoOp == [id |-> 0]

PCs == {"idle", "direct", "receive", "queue", "cancel", "return",
        "list", "next", "send", "load", "store", "append",
        "write_conflicts"}

IdsOf(items) == {o.id : o \in items}
Quiet == pc["ui"] = "idle" /\ pc["sync"] = "idle"

Carried == UNION {o.body : o \in snapshot}
Relied  == UNION {writesOf[e] : e \in Entities}

TypeOK ==
  /\ snapshot \subseteq Op
  /\ journal \subseteq Op
  /\ conflicts \subseteq Ids
  /\ idmap \subseteq Temps
  /\ pc \in [Actors -> PCs]
  /\ after \in [Actors -> PCs]
  /\ \A a \in Actors :
       buf[a] \subseteq IF pc[a] = "write_conflicts" THEN Ids ELSE Op
  /\ cur \in [Actors -> Op \cup {NoOp}]
  /\ res \in [Actors -> {"none", "ok", "refused", "retryable", "auth"}]
  /\ batch \subseteq Op
  /\ known \in [Entities -> {"none", "calling", "temp", "real", "gone"}]
  /\ writesOf \in [Entities -> SUBSET Ids]
  /\ dropped \subseteq Ids
  /\ alive \subseteq Entities
  /\ applied \subseteq Ids
  /\ keyed \in [Ids -> SUBSET Ids]
  /\ created \in [Temps -> Nat]
  /\ cancelled \subseteq Temps
  /\ overlaps \in Nat /\ raced \subseteq Ids

Init ==
  /\ snapshot = {} /\ journal = {} /\ conflicts = {} /\ idmap = {}
  /\ pc = [a \in Actors |-> "idle"]
  /\ jobs = [a \in Actors |-> <<>>]
  /\ after = [a \in Actors |-> "idle"]
  /\ buf = [a \in Actors |-> {}]
  /\ cur = [a \in Actors |-> NoOp]
  /\ res = [a \in Actors |-> "none"]
  /\ batch = {}
  /\ known = [e \in Entities |-> IF e \in Reals THEN "real" ELSE "none"]
  /\ writesOf = [e \in Entities |-> {}]
  /\ dropped = {}
  /\ alive = Reals /\ applied = {} /\ keyed = [i \in Ids |-> {}]
  /\ created = [e \in Temps |-> 0]
  /\ cancelled = {} /\ nextOp = 1 /\ crashes = 0
  /\ overlaps = 0 /\ raced = {}

\* The write of the call the user is making, not yet relied on.
Open == IF cur["ui"] = NoOp THEN {} ELSE cur["ui"].body \ (Relied \cup dropped)
Together == pc["ui"] # "idle" /\ pc["sync"] # "idle"

\* The history variables; every action ends with this.  A write races while
\* its call is open during a flush; it does so no more if the snapshot has it
\* when both are over.
Recorded ==
  /\ overlaps' = IF ~Together /\ Together' THEN overlaps + 1 ELSE overlaps
  /\ crashes' + overlaps' <= MaxDisturbances
  /\ raced' = CASE Together' -> raced \cup Open'
                [] Quiet'    -> raced \ Carried'
                [] OTHER     -> raced

-----------------------------------------------------------------------------
(* offline_op_log.py.  A job is one journal call; Edited gives the list it *)
(* writes back, Touched the ids it appends events for.                     *)

Upsert(o)       == [kind |-> "upsert", op |-> o]
Remove(i)       == [kind |-> "remove", id |-> i]
DropUpdates(o)  == [kind |-> "drop_updates", op |-> o]
SetStatus(i, s, x) == [kind |-> "status", id |-> i, status |-> s, err |-> x]
NoteAttempt(i)  == [kind |-> "note", id |-> i]
Unblock         == [kind |-> "unblock"]
AddConflict(i)  == [kind |-> "conflict", id |-> i]
DropConflict(i) == [kind |-> "unconflict", id |-> i]

ParentResolved(o) ==
  o.type = "create" => Parent[o.ent] \in idmap \cup {NoParent}

\* _normalize_operation: only a block without an error is lifted.
Normalize(o) ==
  IF o.status = "blocked" /\ o.err = "" /\ ParentResolved(o)
    THEN [o EXCEPT !.status = "pending"] ELSE o

StaleUpdate(o, d) == o.type = "update" /\ o.ent = d.ent /\ o.at = d.at

Edited(j, items) ==
  CASE j.kind = "upsert" -> {o \in items : o.id # j.op.id} \cup {j.op}
    [] j.kind = "remove" -> {o \in items : o.id # j.id}
    [] j.kind = "drop_updates" -> {o \in items : ~StaleUpdate(o, j.op)}
    [] j.kind = "status" ->
         {IF o.id = j.id THEN [o EXCEPT !.status = j.status, !.err = j.err]
                         ELSE o : o \in {p \in items :
                                         p.id # j.id \/ j.status # "applied"}}
    [] j.kind = "note" ->
         {IF o.id = j.id THEN [o EXCEPT !.err = "net"] ELSE o : o \in items}
    [] j.kind = "unblock" -> {Normalize(o) : o \in items}

\* Mutant: queue_delete_operation does not log the updates it drops.
TouchedForgets(j, items) ==
  CASE j.kind = "upsert" -> {j.op.id}
    [] j.kind = "unblock" -> {o.id : o \in {p \in items : Normalize(p) # p}}
    [] j.kind \in {"status", "note", "remove"} -> IdsOf(items) \cap {j.id}
    [] OTHER -> {}

Touched(j, items) ==
  CASE j.kind = "upsert" -> {j.op.id}
    [] j.kind = "remove" -> {j.id}
    [] j.kind = "drop_updates" ->
         {o.id : o \in {p \in items : StaleUpdate(p, j.op)}}
    [] j.kind \in {"status", "note"} -> IdsOf(items) \cap {j.id}
    [] j.kind = "unblock" -> {o.id : o \in {p \in items : Normalize(p) # p}}

\* Run the calls js one after the other, then continue at p.
Run(a, js, p) ==
  /\ jobs' = [jobs EXCEPT ![a] = js]
  /\ after' = [after EXCEPT ![a] = p]
  /\ pc' = [pc EXCEPT ![a] = "load"]

\* The thread goes on at p; when it is done it forgets its locals.
Goto(a, p) ==
  /\ pc' = [pc EXCEPT ![a] = p]
  /\ cur' = IF p = "idle" THEN [cur EXCEPT ![a] = NoOp] ELSE cur
  /\ res' = [res EXCEPT ![a] = "none"]

JobDone(a) ==
  /\ jobs' = [jobs EXCEPT ![a] = Tail(@)]
  /\ IF Tail(jobs[a]) = <<>>
       THEN Goto(a, after[a]) /\ after' = [after EXCEPT ![a] = "idle"]
       ELSE Goto(a, "load") /\ UNCHANGED after

IsJournalCall(j) == j.kind \notin {"conflict", "unconflict"}

\* _load_ops; refresh_blocked_operations stops here if nothing changes.
Load(a) ==
  /\ pc[a] = "load"
  /\ IsJournalCall(Head(jobs[a]))
  /\ LET j == Head(jobs[a]) IN
       IF j.kind = "unblock" /\ Touched(j, snapshot) = {}
         THEN JobDone(a) /\ UNCHANGED buf
         ELSE /\ buf' = [buf EXCEPT ![a] = snapshot]
              /\ pc' = [pc EXCEPT ![a] = "store"]
              /\ UNCHANGED <<jobs, after, cur, res>>
  /\ UNCHANGED <<client, batch, screens, server, crashes>>
  /\ Recorded

\* _store_ops.
Store(a) ==
  /\ pc[a] = "store"
  /\ snapshot' = Edited(Head(jobs[a]), buf[a])
  /\ pc' = [pc EXCEPT ![a] = "append"]
  /\ UNCHANGED <<journal, conflicts, idmap, jobs, after, buf, cur, res, batch,
                 screens, server, crashes>>
  /\ Recorded

\* _append_event.
LogEvents(a) ==
  /\ pc[a] = "append"
  /\ LET j == Head(jobs[a])
         touched == Touched(j, buf[a]) IN
       journal' = {o \in journal : o.id \notin touched}
                  \cup {o \in Edited(j, buf[a]) : o.id \in touched}
  /\ buf' = [buf EXCEPT ![a] = {}]
  /\ JobDone(a)
  /\ UNCHANGED <<snapshot, conflicts, idmap, batch, screens, server, crashes>>
  /\ Recorded

\* add_conflict and remove_conflict: read conflicts.json, then replace it.
LoadConflicts(a) ==
  /\ pc[a] = "load"
  /\ ~IsJournalCall(Head(jobs[a]))
  /\ buf' = [buf EXCEPT ![a] = conflicts]
  /\ pc' = [pc EXCEPT ![a] = "write_conflicts"]
  /\ UNCHANGED <<client, jobs, after, cur, res, batch, screens, server, crashes>>
  /\ Recorded

WriteConflicts(a) ==
  /\ pc[a] = "write_conflicts"
  /\ LET j == Head(jobs[a]) IN
       conflicts' = IF j.kind = "conflict" THEN buf[a] \cup {j.id}
                                           ELSE buf[a] \ {j.id}
  /\ buf' = [buf EXCEPT ![a] = {}]
  /\ JobDone(a)
  /\ UNCHANGED <<snapshot, journal, idmap, batch, screens, server, crashes>>
  /\ Recorded

JournalStep(a) ==
  \/ Load(a) \/ Store(a) \/ LogEvents(a)
  \/ LoadConflicts(a) \/ WriteConflicts(a)

-----------------------------------------------------------------------------
(* The server, as far as the client can tell, and one exchange with it.    *)

\* A repeated key is answered from the record if the body is the same.
Served(o) ==
  IF o.type = "create"
    THEN \/ keyed[o.id] = o.body
         \/ keyed[o.id] = {} /\ Parent[o.ent] \in alive \cup {NoParent}
    ELSE o.at = "real" /\ o.ent \in alive

Process(o) ==
  /\ applied' = applied \cup o.body
  /\ IF o.type = "create"
       THEN IF keyed[o.id] # {}
              THEN UNCHANGED <<alive, keyed, created>>
              ELSE /\ alive' = alive \cup {o.ent}
                   /\ keyed' = [keyed EXCEPT ![o.id] = o.body]
                   /\ created' = [created EXCEPT ![o.ent] = @ + 1]
       ELSE /\ alive' = IF o.type = "delete" THEN alive \ {o.ent} ELSE alive
            /\ UNCHANGED <<keyed, created>>

\* _send_request: its outcome as the callers classify it.  accepted: a 202,
\* because an earlier delivery of the key is still running; it has no id,
\* which _apply_create_success refuses.  Only creates carry a key.
Exchange(a, outcomes) ==
  \E x \in outcomes :
    /\ x = "accepted" => a = "sync" /\ cur[a].type = "create"
    /\ IF x \in {"answer", "lost"} /\ Served(cur[a])
         THEN Process(cur[a]) ELSE UNCHANGED server
    /\ res' = [res EXCEPT ![a] =
         CASE x = "answer" -> IF Served(cur[a]) THEN "ok" ELSE "refused"
           [] x = "auth"   -> "auth"
           [] x = "accepted" -> "refused"
           [] OTHER        -> "retryable"]
    /\ pc' = [pc EXCEPT ![a] = "receive"]
    /\ UNCHANGED <<client, jobs, after, buf, cur, batch, screens, crashes>>
    /\ Recorded

-----------------------------------------------------------------------------
(* offline_entity_mutations.py: the user's writes.                         *)

\* create_entity, update_entity and delete_entity up to the first request:
\* a temporary id, or a parent without a server id, goes to the journal.
Begin(e, type, at) ==
  /\ pc["ui"] = "idle"
  /\ nextOp <= MaxOps
  /\ LET o == [id |-> nextOp, type |-> type, ent |-> e, at |-> at,
               body |-> IF type = "delete" THEN {} ELSE {nextOp},
               status |-> "pending", err |-> ""] IN
       /\ cur' = [cur EXCEPT !["ui"] = o]
       /\ pc' = [pc EXCEPT !["ui"] =
                   IF (IF type = "create" THEN ParentResolved(o) ELSE at = "real")
                     THEN "direct" ELSE "queue"]
  /\ nextOp' = nextOp + 1
  /\ known' = IF type = "create" THEN [known EXCEPT ![e] = "calling"] ELSE known
  /\ UNCHANGED <<client, jobs, after, buf, res, batch, writesOf, dropped,
                 cancelled, server, crashes>>
  /\ Recorded

UiCreate(e) ==
  /\ known[e] = "none"
  /\ Parent[e] # NoParent => known[Parent[e]] \in {"temp", "real"}
  /\ Begin(e, "create", "temp")

UiUpdate(e) == known[e] \in {"temp", "real"} /\ Begin(e, "update", known[e])
UiDelete(e) == known[e] \in {"temp", "real"} /\ Begin(e, "delete", known[e])

UiDirect == pc["ui"] = "direct" /\ Exchange("ui", Outcomes)

\* A retryable error queues the write; any other is shown to the user.
UiReceive ==
  /\ pc["ui"] = "receive"
  /\ LET o == cur["ui"] IN
       \/ /\ res["ui"] = "retryable"
          /\ Goto("ui", "queue")
          /\ UNCHANGED <<idmap, known, writesOf, dropped>>
       \/ /\ res["ui"] = "ok"
          /\ Goto("ui", "idle")
          /\ idmap' = IF o.type = "create" THEN idmap \cup {o.ent} ELSE idmap
          /\ known' = [known EXCEPT ![o.ent] =
                         IF o.type = "delete" THEN "gone" ELSE "real"]
          /\ writesOf' = [writesOf EXCEPT ![o.ent] = @ \cup o.body]
          /\ dropped' = IF o.type = "delete" THEN dropped \cup writesOf[o.ent]
                                             ELSE dropped
       \/ /\ res["ui"] \in {"refused", "auth"}
          /\ Goto("ui", "idle")
          /\ known' = IF o.type = "create" THEN [known EXCEPT ![o.ent] = "none"]
                                            ELSE known
          /\ UNCHANGED <<idmap, writesOf, dropped>>
  /\ UNCHANGED <<snapshot, journal, conflicts, jobs, after, buf, batch, cancelled,
                 nextOp, server, crashes>>
  /\ Recorded

Same(o, p)  == o.ent = p.ent /\ o.at = p.at
CreatesOf(o) == {p \in snapshot : p.type = "create" /\ Same(p, o)}
PendingOf(o, type) == {p \in snapshot : p.type = type /\ Same(p, o)}
First(S) == CHOOSE o \in S : \A p \in S : o.id <= p.id

\* Mutant: the journal entry gets an op_id, hence an Idempotency-Key, of its own.
QueueCreateFreshKey ==
  /\ pc["ui"] = "queue"
  /\ cur["ui"].type = "create"
  /\ nextOp' = IF nextOp <= MaxOps THEN nextOp + 1 ELSE nextOp
  /\ LET o == cur["ui"] IN
       Run("ui", <<Upsert([o EXCEPT !.id = IF nextOp <= MaxOps THEN nextOp ELSE @,
                             !.status = IF ParentResolved(o) THEN "pending"
                                        ELSE "blocked"])>>, "return")
  /\ UNCHANGED <<client, buf, cur, res, batch, known, writesOf, dropped, cancelled,
                 server, crashes>>
  /\ Recorded

\* queue_create_operation.
QueueCreate ==
  /\ pc["ui"] = "queue"
  /\ cur["ui"].type = "create"
  /\ LET o == cur["ui"] IN
       Run("ui", <<Upsert([o EXCEPT !.status = IF ParentResolved(o) THEN "pending"
                                                ELSE "blocked"])>>, "return")
  /\ UNCHANGED <<client, buf, cur, res, batch, screens, server, crashes>>
  /\ Recorded

\* queue_update_operation: merge into the pending create or update, refuse
\* after a pending delete (reported as a conflict), else a new operation.
QueueUpdate ==
  /\ pc["ui"] = "queue"
  /\ cur["ui"].type = "update"
  /\ LET o == cur["ui"]
         into == IF CreatesOf(o) # {} THEN CreatesOf(o) ELSE PendingOf(o, "update")
     IN CASE into # {} ->
               Run("ui", <<Upsert([First(into) EXCEPT !.body = @ \cup o.body])>>,
                   "return")
          [] into = {} /\ PendingOf(o, "delete") # {} ->
               Run("ui", <<AddConflict(First(PendingOf(o, "delete")).id)>>, "idle")
          [] OTHER -> Run("ui", <<Upsert(o)>>, "return")
  /\ UNCHANGED <<client, buf, cur, res, batch, screens, server, crashes>>
  /\ Recorded

\* queue_delete_operation: a create that was never sent is simply removed,
\* with the creates that depend on it.
QueueDelete ==
  /\ pc["ui"] = "queue"
  /\ cur["ui"].type = "delete"
  /\ LET o == cur["ui"] IN
       /\ IF CreatesOf(o) # {}
            THEN /\ Run("ui", <<Remove(First(CreatesOf(o)).id)>>, "cancel")
                 /\ cancelled' = {o.ent}
            ELSE /\ Run("ui", <<DropUpdates(o), Upsert(o)>>, "idle")
                 /\ UNCHANGED cancelled
       /\ known' = IF o.at = "temp" THEN [known EXCEPT ![o.ent] = "gone"] ELSE known
       /\ dropped' = dropped \cup writesOf[o.ent]
  /\ UNCHANGED <<client, buf, cur, res, batch, writesOf, nextOp, server, crashes>>
  /\ Recorded

Dependents == {o \in snapshot : o.type = "create" /\ Parent[o.ent] \in cancelled}

\* Mutant: only the operation itself is removed.
CancelNothing ==
  /\ pc["ui"] = "cancel"
  /\ Goto("ui", "idle")
  /\ cancelled' = {}
  /\ UNCHANGED <<client, jobs, after, buf, batch, known, writesOf, dropped, nextOp,
                 server, crashes>>
  /\ Recorded

\* _cancel_dependent_temp_creates; discard_operation then refreshes blocks.
UiCancel ==
  /\ pc["ui"] = "cancel"
  /\ \/ \E o \in Dependents :
          /\ Run("ui", <<Remove(o.id)>>, "cancel")
          /\ cancelled' = cancelled \cup {o.ent}
          /\ known' = [known EXCEPT ![o.ent] = "gone"]
          /\ dropped' = dropped \cup writesOf[o.ent]
          /\ UNCHANGED <<cur, res>>
     \/ /\ Dependents = {}
        /\ IF cur["ui"].type = "create"
             THEN Run("ui", <<Unblock>>, "idle") /\ UNCHANGED <<cur, res>>
             ELSE Goto("ui", "idle") /\ UNCHANGED <<jobs, after>>
        /\ cancelled' = {}
        /\ UNCHANGED <<known, dropped>>
  /\ UNCHANGED <<client, buf, batch, writesOf, nextOp, server, crashes>>
  /\ Recorded

\* The call returns: from here on the user relies on the write.
UiReturn ==
  /\ pc["ui"] = "return"
  /\ LET o == cur["ui"] IN
       /\ writesOf' = [writesOf EXCEPT ![o.ent] = @ \cup o.body]
       /\ known' = IF o.type = "create" THEN [known EXCEPT ![o.ent] = "temp"]
                                         ELSE known
  /\ Goto("ui", "idle")
  /\ UNCHANGED <<client, jobs, after, buf, batch, dropped, cancelled,
                 nextOp, server, crashes>>
  /\ Recorded

\* The screens reload and show the entity under its server id.
UiRefresh(e) ==
  /\ pc["ui"] = "idle"
  /\ e \in idmap /\ known[e] = "temp"
  /\ known' = [known EXCEPT ![e] = "real"]
  /\ UNCHANGED <<client, local, batch, writesOf, dropped, cancelled, nextOp,
                 server, crashes>>
  /\ Recorded

\* The sync-issues dialog: Retry.
UiRetry(i) ==
  /\ pc["ui"] = "idle"
  /\ nextOp <= MaxOps
  /\ i \in conflicts
  /\ nextOp' = nextOp + 1
  /\ Run("ui", <<DropConflict(i)>> \o (IF i \in IdsOf(snapshot)
                   THEN <<SetStatus(i, "pending", "")>> ELSE <<>>), "idle")
  /\ UNCHANGED <<client, buf, cur, res, batch, known, writesOf, dropped, cancelled,
                 server, crashes>>
  /\ Recorded

\* The sync-issues dialog: Discard (discard_operation).
UiDiscard(i) ==
  /\ pc["ui"] = "idle"
  /\ i \in conflicts
  /\ IF i \in IdsOf(snapshot)
       THEN LET o == CHOOSE p \in snapshot : p.id = i IN
              /\ dropped' = dropped \cup o.body
              /\ cur' = [cur EXCEPT !["ui"] = o]
              /\ IF o.type = "create"
                   THEN /\ Run("ui", <<DropConflict(i), Remove(i)>>, "cancel")
                        /\ cancelled' = {o.ent}
                        /\ known' = [known EXCEPT ![o.ent] = "gone"]
                   ELSE /\ Run("ui", <<DropConflict(i), Remove(i), Unblock>>, "idle")
                        /\ UNCHANGED <<cancelled, known>>
       ELSE /\ Run("ui", <<DropConflict(i)>>, "idle")
            /\ UNCHANGED <<dropped, cur, cancelled, known>>
  /\ UNCHANGED <<client, buf, res, batch, writesOf, nextOp, server, crashes>>
  /\ Recorded

UiBegins ==
  \/ \E e \in Temps : UiCreate(e) \/ UiRefresh(e)
  \/ \E e \in Entities : UiUpdate(e) \/ UiDelete(e)
  \/ \E i \in Ids : UiRetry(i) \/ UiDiscard(i)

UiContinues ==
  \/ UiDirect \/ UiReceive \/ UiCancel \/ UiReturn
  \/ QueueCreate \/ QueueUpdate \/ QueueDelete
  \/ JournalStep("ui")

-----------------------------------------------------------------------------
(* offline_reconciler.py: one flush.                                       *)

\* replay_offline_operations: refresh_blocked_operations first.
SyncStart ==
  /\ pc["sync"] = "idle"
  /\ Run("sync", <<Unblock>>, "list")
  /\ UNCHANGED <<client, buf, cur, res, batch, screens, server, crashes>>
  /\ Recorded

Priority(o) == CASE o.type = "create" -> 0 [] o.type = "update" -> 1
                 [] o.type = "delete" -> 2
Before(o, p) == \/ Priority(o) < Priority(p)
                \/ Priority(o) = Priority(p) /\ o.id < p.id

\* Mutant: blocked operations are listed as well.
ReadyAll(items) == {o \in items : o.status \in {"pending", "blocked"}}

Ready(items) == {o \in items : o.status = "pending"}

\* Mutant: the list is taken from the log, which may lag behind.
SyncListFromLog ==
  /\ pc["sync"] = "list"
  /\ LET ready == Ready({Normalize(o) : o \in journal}) IN
       batch' = {o \in ready :
                   Cardinality({p \in ready : Before(p, o)}) < BatchLimit}
  /\ pc' = [pc EXCEPT !["sync"] = "next"]
  /\ UNCHANGED <<client, jobs, after, buf, cur, res, screens, server, crashes>>
  /\ Recorded

\* list_ready_operations: copies that are not read again before sending.
SyncList ==
  /\ pc["sync"] = "list"
  /\ LET ready == Ready({Normalize(o) : o \in snapshot}) IN
       batch' = {o \in ready :
                   Cardinality({p \in ready : Before(p, o)}) < BatchLimit}
  /\ pc' = [pc EXCEPT !["sync"] = "next"]
  /\ UNCHANGED <<client, jobs, after, buf, cur, res, screens, server, crashes>>
  /\ Recorded

\* _replay_operation up to the request, or the end of the loop.
SyncNext ==
  /\ pc["sync"] = "next"
  /\ IF batch = {}
       THEN /\ Run("sync", <<Unblock>>, "idle")
            /\ UNCHANGED <<cur, batch>>
       ELSE \E o \in batch :
              /\ \A p \in batch \ {o} : Before(o, p)
              /\ Run("sync", <<SetStatus(o.id, "syncing", "")>>, "send")
              /\ cur' = [cur EXCEPT !["sync"] = o]
              /\ batch' = batch \ {o}
  /\ UNCHANGED <<client, buf, res, screens, server, crashes>>
  /\ Recorded

SyncSend == pc["sync"] = "send" /\ Exchange("sync", Outcomes)

\* Mutant: a refused operation is parked without a conflict entry.
ReviewSilently(o) == <<SetStatus(o.id, "needs_review", "rejected")>>

\* _handle_review_failure.
Review(o) == <<SetStatus(o.id, "needs_review", "rejected"), AddConflict(o.id)>>

\* Mutant: a retryable failure leaves the operation in "syncing".
RetryLaterStuck(o) == <<NoteAttempt(o.id)>>

\* _handle_retryable_failure.
RetryLater(o) == <<NoteAttempt(o.id), SetStatus(o.id, "pending", "net")>>

\* Mutant: the operation is cleared whatever the server answered.
ReceiveAlwaysApplied ==
  /\ pc["sync"] = "receive"
  /\ Run("sync", <<SetStatus(cur["sync"].id, "applied", "")>>, "next")
  /\ UNCHANGED <<client, buf, cur, res, batch, screens, server, crashes>>
  /\ Recorded

SyncReceive ==
  /\ pc["sync"] = "receive"
  /\ LET o == cur["sync"]
         done == <<SetStatus(o.id, "applied", ""), DropConflict(o.id)>> IN
       \/ /\ res["sync"] = "ok" /\ o.type = "create"
          /\ idmap' = idmap \cup {o.ent}
          /\ Run("sync", done \o <<Unblock>>, "next")
          /\ UNCHANGED batch
       \/ /\ res["sync"] = "ok" /\ o.type # "create"
          /\ Run("sync", done, "next")
          /\ UNCHANGED <<idmap, batch>>
       \/ /\ res["sync"] = "retryable"
          /\ Run("sync", RetryLater(o), "next")
          /\ batch' = {}
          /\ UNCHANGED idmap
       \/ /\ res["sync"] = "auth"
          /\ Run("sync", <<SetStatus(o.id, "blocked", "auth_required")>>, "next")
          /\ UNCHANGED <<idmap, batch>>
       \/ /\ res["sync"] = "refused"
          /\ Run("sync", Review(o), "next")
          /\ UNCHANGED <<idmap, batch>>
  /\ UNCHANGED <<snapshot, journal, conflicts, buf, cur, res, screens, server,
                 crashes>>
  /\ Recorded

SyncStep ==
  \/ SyncStart \/ SyncList \/ SyncNext \/ SyncSend \/ SyncReceive
  \/ JournalStep("sync")

-----------------------------------------------------------------------------
(* The environment.                                                        *)

\* The process dies; the files stay as they are.
Crash ==
  /\ crashes + overlaps < MaxDisturbances
  /\ ~Quiet
  /\ crashes' = crashes + 1
  /\ pc' = [a \in Actors |-> "idle"]
  /\ jobs' = [a \in Actors |-> <<>>]
  /\ after' = [a \in Actors |-> "idle"]
  /\ buf' = [a \in Actors |-> {}]
  /\ cur' = [a \in Actors |-> NoOp]
  /\ res' = [a \in Actors |-> "none"]
  /\ batch' = {}
  /\ cancelled' = {}
  /\ UNCHANGED <<client, known, writesOf, dropped, nextOp, server>>
  /\ Recorded

Next == UiBegins \/ UiContinues \/ SyncStep \/ Crash

Spec == Init /\ [][Next]_vars

\* The 15-second timer starts a flush, a call that has begun goes on, and
\* the network does not fail for ever.
Fairness ==
  /\ WF_vars(SyncStep)
  /\ WF_vars(UiContinues)
  /\ SF_vars(pc["sync"] = "send" /\ Exchange("sync", {"answer"}))

FairSpec == Spec /\ Fairness

-----------------------------------------------------------------------------
(* Properties.                                                             *)

\* The journal is durable: a write the client accepted from the user is on
\* the server or still in the snapshot, unless the user gave it up.  A write
\* whose call meets a flush may be lost, but only before both are over: no
\* earlier write is, and none that the flush has left in the snapshot.
NoLostWrite == Relied \subseteq applied \cup dropped \cup Carried \cup raced

\* However often a create is sent again (lost answers, crashes, merged
\* edits, a flush racing the user), the server creates the entity once.
CreateOnce == \A e \in Temps : created[e] <= 1

\* A create is only ever ready to be sent when the server id of its parent
\* is known: _resolve_request_payload never raises in the middle of a flush.
ParentsFirst ==
  \A o \in snapshot \cup batch :
    o.type = "create" /\ o.status \in {"pending", "syncing"} => ParentResolved(o)

\* Neither did the client die nor did a call meet a flush.
Undisturbed == crashes = 0 /\ overlaps = 0

\* Undisturbed, a rebuild from the log gives the snapshot again.
LogAgrees == Quiet /\ Undisturbed => journal = snapshot

\* Undisturbed, a create that waits for its parent has one to wait for.
NoOrphans ==
  Quiet /\ Undisturbed =>
    \A o \in snapshot : o.status = "blocked" /\ o.err = "" =>
      ParentResolved(o) \/ \E p \in snapshot :
        p.type = "create" /\ p.ent = Parent[o.ent]

\* Undisturbed, an operation that was parked for review is listed in the
\* sync-issues dialog.
ReviewListed ==
  Quiet /\ Undisturbed =>
    \A o \in snapshot : o.status = "needs_review" => o.id \in conflicts

\* When the network does not fail for ever, every operation that is ready is
\* settled: it is applied, or held for the user.  The exceptions are a crash
\* in the middle of an exchange and an edit merged into an operation that is
\* being sent: nothing takes an operation out of "syncing".
Unsettled(i) ==
  \E o \in snapshot : /\ o.id = i
                      /\ \/ o.status = "pending"
                         \/ o.status = "syncing" /\ Undisturbed
Settles == \A i \in Ids : Unsettled(i) ~> ~Unsettled(i)

-----------------------------------------------------------------------------
(* The promise of the journal, read off the snapshot, the screens and the  *)
(* server's data.                                                          *)

Leaving == UNION {o.body : o \in batch \cup ({cur["sync"]} \ {NoOp})}

Promise == INSTANCE Outbox
             WITH Things <- Temps, asked <- nextOp - 1, held <- Carried,
                  out <- Leaving, relied <- Relied \ raced, waived <- dropped \ raced,
                  done <- applied, made <- created

\* The journal and its replay keep the promise of Outbox, also while the user
\* writes during a flush: an operation leaves the snapshot only when its
\* writes are applied, given up or racing, the flush sends only what the
\* snapshot held when it was listed, and a create takes effect once.
KeepsPromise == Promise!Spec
=============================================================================
