----------------------------- MODULE ObjectStorage -----------------------------
(***************************************************************************)
(* Files in object storage: the storage_objects and storage_usage rows of   *)
(* one agency (core/data/storage_objects.py), the uploads that reserve and  *)
(* complete them, their deletion and the sweeps that expire them            *)
(* (server/services/storage_ops_*.py).                                      *)
(*                                                                         *)
(* An upload or a deletion reads the row in one transaction, works on the   *)
(* bucket with none open, and writes the row by id in a last transaction,   *)
(* whatever its status has become.  Each of these is a step.  Rows locked   *)
(* FOR UPDATE by the photo lifecycle (OfferPhotos) are in locked.           *)
(***************************************************************************)
EXTENDS Naturals, FiniteSets, FiniteSetsExt

CONSTANTS
  Objects,     \* storage ids, each created at most once
  Artifacts,   \* those with purpose import_artifact
  None,        \* no object
  Requests,    \* HTTP requests and import tasks in flight
  Sizes,       \* sizes of a file
  Quota,       \* STORAGE_AGENCY_QUOTA_MB
  MaxRequests, \* bound on the requests of one behaviour
  MaxCrashes   \* bound on the crashes of one behaviour

ASSUME SizesAssumption == Sizes \subseteq Nat \ {0} /\ Quota \in Nat
ASSUME BoundsAssumption == MaxRequests \in Nat /\ MaxCrashes \in Nat
ASSUME ObjectsAssumption ==
  IsFiniteSet(Objects) /\ Artifacts \subseteq Objects /\ None \notin Objects

VARIABLES
  row,      \* storage_objects
  bucket,   \* the size of the bytes under the object's key, 0 when absent
  link,     \* objects whose presigned POST is still accepted
  old,      \* rows past the cutoff of the sweep for their status
  usage,    \* storage_usage.total_bytes, 0 when there is no row
  locked,   \* rows held FOR UPDATE between two steps of another transaction
  op,       \* each request
  sweep,    \* the two beat tasks
  odd,      \* history: objects a step met in a status it is not meant for
  begun,    \* requests so far
  crashes   \* crashes so far

counters == <<begun, crashes>>
vars == <<row, bucket, link, old, usage, locked, op, sweep, odd, counters>>

Statuses == {"none", "pending", "ready", "failed", "deleted", "purged", "gone"}
Row   == [status: Statuses, size: Sizes \cup {0}]
\* size: the declared size, then the size head_object reports.
Op    == [pc: {"idle", "insert", "put", "head", "scan", "oversize", "reject",
               "ready", "failed", "delete", "purge", "drop"},
          obj: Objects \cup {None}, size: Sizes \cup {0}, was: Statuses]
Kinds == {"deleted", "pending"}
Sweep == [todo: SUBSET Objects, at: SUBSET Objects]

TypeOK ==
  /\ row \in [Objects -> Row]
  /\ bucket \in [Objects -> Sizes \cup {0}]
  /\ link \subseteq Objects /\ old \subseteq Objects /\ locked \subseteq Objects
  /\ usage \in Nat
  /\ op \in [Requests -> Op]
  /\ sweep \in [Kinds -> Sweep]
  /\ odd \subseteq Objects
  /\ begun \in 0 .. MaxRequests /\ crashes \in 0 .. MaxCrashes

Idle == [pc |-> "idle", obj |-> None, size |-> 0, was |-> "none"]
Done == [todo |-> {}, at |-> {}]

Init ==
  /\ row = [o \in Objects |-> [status |-> "none", size |-> 0]]
  /\ bucket = [o \in Objects |-> 0]
  /\ link = {} /\ old = {} /\ locked = {}
  /\ usage = 0
  /\ op = [p \in Requests |-> Idle]
  /\ sweep = [k \in Kinds |-> Done]
  /\ odd = {}
  /\ begun = 0 /\ crashes = 0

-----------------------------------------------------------------------------
Status(o) == row[o].status
Exists(o) == Status(o) \notin {"none", "gone"}
\* A request arrives and takes its first step.
Begin(p, r) == /\ op[p].pc = "idle" /\ begun < MaxRequests
               /\ begun' = begun + 1
               /\ op' = [op EXCEPT ![p] = r]

To(p, pc) == op' = [op EXCEPT ![p].pc = pc]
Leave(p)  == op' = [op EXCEPT ![p] = Idle]

\* The step is meant for rows in one of these statuses.
Meant(o, statuses) == odd' = IF Status(o) \in statuses THEN odd ELSE odd \cup {o}

\* UPDATE storage_objects SET status ... WHERE id.
SetStatus(o, s) ==
  row' = IF Exists(o) THEN [row EXCEPT ![o].status = s] ELSE row

\* Mutants: a conflict leaves the counter; the counter may fall below zero.
CreditOnce(n) == usage' = IF usage = 0 THEN n ELSE usage
DebitBelow(n) == usage' = usage - n

\* bump_storage_usage: GREATEST(total_bytes + delta, 0).
Credit(n) == usage' = usage + n
Debit(n)  == usage' = IF usage > n THEN usage - n ELSE 0

-----------------------------------------------------------------------------
(* Reserving: create_storage_record, one transaction under the advisory     *)
(* lock of the agency's quota.                                              *)

\* The sum of their sizes, counted in units of <<object, n>>.
Units(objs) == UNION {{o} \X (1 .. row[o].size) : o \in objs}
SumOf(objs) == Cardinality(Units(objs))
Reserved == {o \in Objects : Status(o) \in {"ready", "pending"}}

\* Mutant: no advisory lock.
QuotaUnlocked == TRUE

QuotaLockFree == \A q \in Requests : op[q].pc # "insert"

\* enforce_limits: the file fits in what the agency has left.
Admits(p, o, n) ==
  /\ Status(o) = "none" /\ \A q \in Requests : op[q].obj # o
  /\ QuotaLockFree
  /\ SumOf(Reserved) + n <= Quota
  /\ Begin(p, [Idle EXCEPT !.pc = "insert", !.obj = o, !.size = n])
  /\ UNCHANGED <<row, bucket, link, old, usage, locked, sweep, odd, crashes>>

\* create_storage_object.  store_bytes and store_fileobj go on with the bytes
\* (here: import artifacts), generate_presigned_upload signs a POST for them.
Insert(p) ==
  LET o == op[p].obj IN
  /\ op[p].pc = "insert"
  /\ row' = [row EXCEPT ![o] = [status |-> "pending", size |-> op[p].size]]
  /\ IF o \in Artifacts
       THEN To(p, "put") /\ UNCHANGED link
       ELSE Leave(p) /\ link' = link \cup {o}
  /\ UNCHANGED <<bucket, old, usage, locked, sweep, odd, counters>>

\* The client posts to the presigned link, once or again.
Posted(o) ==
  /\ o \in link
  /\ \E n \in Sizes : bucket' = [bucket EXCEPT ![o] = n]
  /\ UNCHANGED <<row, link, old, usage, locked, op, sweep, odd, counters>>

LinkExpires(o) ==
  /\ o \in link
  /\ link' = link \ {o}
  /\ UNCHANGED <<row, bucket, old, usage, locked, op, sweep, odd, counters>>

\* store_bytes and store_fileobj: the upload, a bucket error, or a file that
\* does not pass the scan, which leaves the row pending.
Put(p) ==
  /\ op[p].pc = "put"
  /\ \/ /\ bucket' = [bucket EXCEPT ![op[p].obj] = op[p].size]
        /\ To(p, "ready")
     \/ To(p, "failed") /\ UNCHANGED bucket
     \/ Leave(p) /\ UNCHANGED bucket
  /\ UNCHANGED <<row, link, old, usage, locked, sweep, odd, counters>>

-----------------------------------------------------------------------------
(* complete_presigned_upload.                                              *)

Complete(p, o) ==
  /\ Exists(o)
  /\ Begin(p, [Idle EXCEPT !.pc = "head", !.obj = o, !.size = row[o].size])
  /\ UNCHANGED <<row, bucket, link, old, usage, locked, sweep, odd, crashes>>

\* head_object, the size checks and validate_purpose.
Head(p) ==
  LET n == bucket[op[p].obj] IN
  /\ op[p].pc = "head"
  /\ \/ n = 0 /\ Leave(p)
     \/ /\ n > op[p].size
        /\ op' = [op EXCEPT ![p].pc = "oversize", ![p].size = 0]
     \/ /\ 0 < n /\ n <= op[p].size
        /\ \/ op' = [op EXCEPT ![p].pc = "scan", ![p].size = n]
           \/ Leave(p)
  /\ UNCHANGED <<row, bucket, link, old, usage, locked, sweep, odd, counters>>

\* download_to_temp, the file's validation and the virus scan.
Scan(p) ==
  /\ op[p].pc = "scan"
  /\ \/ bucket[op[p].obj] # 0 /\ To(p, "ready")
     \/ op' = [op EXCEPT ![p].pc = "reject", ![p].size = 0]
  /\ UNCHANGED <<row, bucket, link, old, usage, locked, sweep, odd, counters>>

\* delete_object: its failure is caught after a rejected scan only.
Discard(p) ==
  LET o == op[p].obj IN
  /\ op[p].pc \in {"oversize", "reject"}
  /\ \/ bucket' = [bucket EXCEPT ![o] = 0] /\ To(p, "failed")
                                           /\ Meant(o, {"pending"})
     \/ /\ IF op[p].pc = "reject" THEN To(p, "failed") ELSE Leave(p)
        /\ UNCHANGED <<bucket, odd>>
  /\ UNCHANGED <<row, link, old, usage, locked, sweep, counters>>

\* mark_storage_failed.  On a row that is gone it has no effect, or fails
\* with the event's foreign key.
MarkFailed(p) ==
  LET o == op[p].obj IN
  /\ op[p].pc = "failed" /\ o \notin locked
  /\ SetStatus(o, "failed") /\ Meant(o, {"pending", "gone"})
  /\ Leave(p)
  /\ UNCHANGED <<bucket, link, old, usage, locked, sweep, counters>>

\* mark_storage_ready.  The usage is credited whether or not a row was
\* updated: an import artifact writes no event whose foreign key would fail.
MarkReady(p) ==
  LET o == op[p].obj IN
  /\ op[p].pc = "ready" /\ o \notin locked
  /\ row' = IF Exists(o)
              THEN [row EXCEPT ![o] = [status |-> "ready", size |-> op[p].size]]
              ELSE row
  /\ Credit(op[p].size)
  /\ odd' = IF Status(o) = "pending" /\ bucket[o] # 0 THEN odd ELSE odd \cup {o}
  /\ Leave(p)
  /\ UNCHANGED <<bucket, link, old, locked, sweep, counters>>

-----------------------------------------------------------------------------
(* Deletion.                                                               *)

\* mark_storage_deleted, for storage/delete/ and agency media: the status is
\* read without a lock ...
Delete(p, o) ==
  /\ Exists(o) /\ Status(o) # "deleted"
  /\ Begin(p, [Idle EXCEPT !.pc = "delete", !.obj = o])
  /\ UNCHANGED <<row, bucket, link, old, usage, locked, sweep, odd, crashes>>

\* ... and the row's size is debited whatever the status is by then.
MarkDeleted(p) ==
  LET o == op[p].obj IN
  /\ op[p].pc = "delete" /\ o \notin locked
  /\ IF Exists(o)
       THEN /\ SetStatus(o, "deleted") /\ Debit(row[o].size)
            /\ old' = old \ {o} /\ Meant(o, {"ready"})
       ELSE UNCHANGED <<row, usage, old, odd>>
  /\ Leave(p)
  /\ UNCHANGED <<bucket, link, locked, sweep, counters>>

\* purge_storage_object_now, for import artifacts.
PurgeNow(p, o) ==
  /\ o \in Artifacts /\ Exists(o)
  /\ Begin(p, [Idle EXCEPT !.pc = "purge", !.obj = o, !.was = Status(o)])
  /\ UNCHANGED <<row, bucket, link, old, usage, locked, sweep, odd, crashes>>

PurgeBytes(p) ==
  LET o == op[p].obj IN
  /\ op[p].pc = "purge"
  /\ To(p, "drop")
  /\ bucket' = [bucket EXCEPT ![o] = 0] \/ UNCHANGED bucket
  /\ UNCHANGED <<row, link, old, usage, locked, sweep, odd, counters>>

\* The row's size is debited when it was ready at the first read.
Drop(p) ==
  LET o == op[p].obj IN
  /\ op[p].pc = "drop" /\ o \notin locked
  /\ row' = IF Exists(o) THEN [row EXCEPT ![o].status = "gone"] ELSE row
  /\ IF Exists(o) /\ op[p].was = "ready" THEN Debit(row[o].size)
                                         ELSE UNCHANGED usage
  /\ odd' = IF (Status(o) = "ready") = (op[p].was = "ready")
              THEN odd ELSE odd \cup {o}
  /\ Leave(p)
  /\ UNCHANGED <<bucket, link, old, locked, sweep, counters>>

-----------------------------------------------------------------------------
(* The daily sweeps: purge_deleted_objects and purge_pending_objects.       *)

\* A pending row passes 24 hours, a deleted one 30 days, by when no link is
\* accepted any more.
Ages(o) ==
  /\ o \notin old
  /\ \/ Status(o) = "pending"
     \/ Status(o) = "deleted" /\ o \notin link
  /\ old' = old \cup {o}
  /\ UNCHANGED <<row, bucket, link, usage, locked, op, sweep, odd, counters>>

SweepLists(k) ==
  LET rows == {o \in old : Status(o) = k} IN
  /\ sweep[k] = Done /\ rows # {}
  /\ sweep' = [sweep EXCEPT ![k].todo = rows]
  /\ UNCHANGED <<row, bucket, link, old, usage, locked, op, odd, counters>>

\* Mutant: a failure skips the row in both sweeps.
SkipsOnError(k) == TRUE

SkipsRow(k) == k = "deleted"

\* delete_object.  When it fails, the sweep of deleted rows skips the row.
SweepDiscards(k, o) ==
  /\ o \in sweep[k].todo /\ sweep[k].at = {}
  /\ \/ /\ bucket' = [bucket EXCEPT ![o] = 0]
        /\ sweep' = [sweep EXCEPT ![k].at = {o}]
        /\ Meant(o, {k})
     \/ /\ sweep' = IF SkipsRow(k) THEN [sweep EXCEPT ![k].todo = @ \ {o}]
                                  ELSE [sweep EXCEPT ![k].at = {o}]
        /\ UNCHANGED <<bucket, odd>>
  /\ UNCHANGED <<row, link, old, usage, locked, op, counters>>

\* mark_storage_purged or mark_storage_failed.  When the row is gone, the
\* event's foreign key fails and the task with it.
SweepMarks(k, o) ==
  /\ o \in sweep[k].at /\ o \notin locked
  /\ SetStatus(o, IF k = "pending" THEN "failed" ELSE "purged")
  /\ sweep' = [sweep EXCEPT ![k] = IF Exists(o)
                 THEN [todo |-> @.todo \ {o}, at |-> {}] ELSE Done]
  /\ Meant(o, {k, "gone"})
  /\ UNCHANGED <<bucket, link, old, usage, locked, op, counters>>

\* The process running a request or a sweep stops.
Crash ==
  /\ crashes < MaxCrashes /\ crashes' = crashes + 1
  /\ \/ \E p \in Requests : op[p].pc # "idle" /\ Leave(p) /\ UNCHANGED sweep
     \/ \E k \in Kinds : /\ sweep[k] # Done
                         /\ sweep' = [sweep EXCEPT ![k] = Done]
                         /\ UNCHANGED op
  /\ UNCHANGED <<row, bucket, link, old, usage, locked, odd, begun>>

-----------------------------------------------------------------------------
Starts(p, o) ==
  \/ \E n \in Sizes : Admits(p, o, n)
  \/ Complete(p, o) \/ Delete(p, o) \/ PurgeNow(p, o)

Proceeds(p) ==
  \/ Insert(p) \/ Put(p) \/ Head(p) \/ Scan(p) \/ Discard(p)
  \/ MarkFailed(p) \/ MarkReady(p) \/ MarkDeleted(p) \/ PurgeBytes(p) \/ Drop(p)

Sweeps(k) ==
  SweepLists(k) \/ \E o \in Objects : SweepDiscards(k, o) \/ SweepMarks(k, o)

StorageNext ==
  \/ \E p \in Requests : Proceeds(p) \/ \E o \in Objects : Starts(p, o)
  \/ \E k \in Kinds : Sweeps(k)
  \/ \E o \in Objects : Posted(o) \/ LinkExpires(o) \/ Ages(o)
  \/ Crash

Spec == Init /\ [][StorageNext]_vars

\* Time passes and beat runs the sweep of pending rows daily; once started it
\* goes on, its writes waiting for row locks in PostgreSQL's queue.
SweepFairness ==
  /\ WF_vars(SweepLists("pending"))
  /\ \A o \in Objects : /\ WF_vars(Ages(o))
                        /\ WF_vars(SweepDiscards("pending", o))
                        /\ SF_vars(SweepMarks("pending", o))

FairSpec == Spec /\ SweepFairness

-----------------------------------------------------------------------------
\* Ready and pending objects stay within the quota, however many uploads are
\* admitted at once ("to prevent parallel-upload bypasses"), except for those
\* a step met in another status: a second completion may bring back a
\* reservation, or enlarge one that the first had reduced.
QuotaHolds == SumOf(Reserved \ odd) <= Quota

\* As long as every step met the row in the status it is meant for, the usage
\* counter is the sum of the ready sizes (bump_storage_usage).
UsageExact == odd = {} => usage = SumOf({o \in Objects : Status(o) = "ready"})

\* A reservation does not outlive its upload: every pending row is completed,
\* deleted or expired (purge_pending_objects), whatever the bucket does.
ReservationsEnd ==
  \A o \in Objects : Status(o) = "pending" ~> Status(o) # "pending"
=============================================================================
