---------------------------- MODULE JournalProofs ----------------------------
(***************************************************************************)
(* Safety of OfflineJournal for any entities, outcomes, batch limit and     *)
(* number of writes and crashes.                                            *)
(***************************************************************************)
EXTENDS OfflineJournal, SequenceTheorems, WellFoundedInduction, TLAPS

-----------------------------------------------------------------------------
(* Types, with the calls each thread still has to make.                    *)

\* An operation as the client builds it: only entities with a temporary id
\* are created, and a create carries at least the write that made it.
Ops == {o \in Op : o.type = "create" =>
                     o.ent \in Temps /\ o.at = "temp" /\ o.body # {}}

Job == [kind: {"upsert", "drop_updates"}, op: Ops]
       \cup [kind: {"remove", "note", "conflict", "unconflict"}, id: Ids]
       \cup [kind: {"status"}, id: Ids, status: Statuses \cup {"applied"},
             err: Errors]
       \cup {Unblock}

Working == {"load", "store", "append", "write_conflicts"}
UiSteps == {"idle", "direct", "receive", "queue", "cancel", "return"}
SyncSteps == {"idle", "list", "next", "send", "receive"}

CallsIn(s) == {s[k] : k \in 1 .. Len(s)}

Places ==
  /\ pc["ui"] \in UiSteps \cup Working
  /\ pc["sync"] \in SyncSteps \cup Working
  /\ after["ui"] \in {"idle", "return", "cancel"}
  /\ after["sync"] \in {"idle", "list", "next", "send"}

\* A thread has calls to make exactly while it works on the journal, and an
\* operation in hand wherever it will look at it.
Jobbed(a) ==
  /\ pc[a] \in Working <=> jobs[a] # <<>>
  /\ pc[a] \notin Working => after[a] = "idle"
  /\ pc[a] \in {"store", "append"} => IsJournalCall(Head(jobs[a]))
  /\ pc[a] = "write_conflicts" => ~IsJournalCall(Head(jobs[a]))
  /\ pc[a] \in {"direct", "receive", "queue", "cancel", "return", "send"}
       => cur[a] # NoOp
  /\ after[a] \in {"cancel", "return", "send"} => cur[a] # NoOp
  /\ pc[a] = "idle" => cur[a] = NoOp

Locals ==
  /\ pc \in [Actors -> PCs]
  /\ after \in [Actors -> PCs]
  /\ jobs \in [Actors -> Seq(Job)]
  /\ cur \in [Actors -> Ops \cup {NoOp}]
  /\ res \in [Actors -> {"none", "ok", "refused", "retryable", "auth"}]
  /\ Places
  /\ \A a \in Actors : Jobbed(a)

Buffers ==
  /\ buf \in [Actors -> SUBSET (Ids \cup Ops)]
  /\ \A a \in Actors :
       buf[a] \subseteq IF pc[a] = "write_conflicts" THEN Ids ELSE Ops

Data ==
  /\ snapshot \subseteq Ops
  /\ journal \subseteq Ops
  /\ conflicts \subseteq Ids
  /\ idmap \subseteq Temps
  /\ batch \subseteq Ops
  /\ known \in [Entities -> {"none", "calling", "temp", "real", "gone"}]
  /\ writesOf \in [Entities -> SUBSET Ids]
  /\ dropped \subseteq Ids
  /\ alive \subseteq Entities
  /\ applied \subseteq Ids
  /\ keyed \in [Ids -> SUBSET Ids]
  /\ created \in [Temps -> Nat]
  /\ cancelled \subseteq Temps
  /\ nextOp \in Nat /\ 1 <= nextOp /\ nextOp <= MaxOps + 1
  /\ crashes \in Nat

Typed == Data /\ Locals /\ Buffers

-----------------------------------------------------------------------------
(* Lists of calls.                                                         *)

LEMMA CallsSplit ==
  ASSUME NEW S, NEW s \in Seq(S), s # <<>>
  PROVE  /\ Head(s) \in S /\ Tail(s) \in Seq(S)
         /\ CallsIn(s) = {Head(s)} \cup CallsIn(Tail(s))
<1>1. /\ Head(s) \in S /\ Tail(s) \in Seq(S) /\ Len(s) \in Nat \ {0}
      /\ Head(s) = s[1] /\ Len(Tail(s)) = Len(s) - 1
      /\ \A k \in 1 .. Len(Tail(s)) : Tail(s)[k] = s[k + 1]
  OBVIOUS
<1>2. \A x \in CallsIn(s) : x \in {Head(s)} \cup CallsIn(Tail(s))
  <2>1. SUFFICES ASSUME NEW k \in 1 .. Len(s), k # 1
                 PROVE  s[k] \in CallsIn(Tail(s))
    BY <1>1 DEF CallsIn
  <2>. DEFINE m == k - 1
  <2>1a. \A n \in Nat : k \in 1 .. n => k - 1 \in 1 .. (n - 1) /\ (k - 1) + 1 = k
    BY <2>1, SMT
  <2>2. m \in 1 .. Len(Tail(s)) /\ m + 1 = k
    BY <1>1, <2>1a
  <2>4. m \in 1 .. Len(Tail(s)) /\ Tail(s)[m] = s[k]
    BY <1>1, <2>2
  <2>3. QED
    BY <2>4 DEF CallsIn
<1>3. \A x \in CallsIn(Tail(s)) : x \in CallsIn(s)
  <2>1. SUFFICES ASSUME NEW k \in 1 .. Len(Tail(s))
                 PROVE  Tail(s)[k] \in CallsIn(s)
    BY DEF CallsIn
  <2>2. k + 1 \in 1 .. Len(s) /\ Tail(s)[k] = s[k + 1]
    BY <1>1
  <2>3. QED
    BY <2>2 DEF CallsIn
<1>4. Head(s) \in CallsIn(s)
  BY <1>1 DEF CallsIn
<1>5. QED
  BY <1>1, <1>2, <1>3, <1>4

LEMMA CallsTyped ==
  ASSUME NEW S, NEW s \in Seq(S)
  PROVE  CallsIn(s) \subseteq S
  BY DEF CallsIn

LEMMA NoCalls == CallsIn(<<>>) = {}
  BY DEF CallsIn

LEMMA OneCall ==
  ASSUME NEW S, NEW x \in S
  PROVE  <<x>> \in Seq(S) /\ <<x>> # <<>> /\ CallsIn(<<x>>) = {x} /\ Tail(<<x>>) = <<>>
  BY DEF CallsIn

LEMMA TwoCalls ==
  ASSUME NEW S, NEW x \in S, NEW y \in S
  PROVE  <<x, y>> \in Seq(S) /\ <<x, y>> # <<>> /\ CallsIn(<<x, y>>) = {x, y}
<1>1. Len(<<x, y>>) = 2 /\ <<x, y>>[1] = x /\ <<x, y>>[2] = y /\ <<x, y>> \in Seq(S)
  OBVIOUS
<1>2. CallsIn(<<x, y>>) = {<<x, y>>[k] : k \in {1, 2}}
  BY <1>1 DEF CallsIn
<1>3. QED
  BY <1>1, <1>2

LEMMA ThreeCalls ==
  ASSUME NEW S, NEW x \in S, NEW y \in S, NEW z \in S
  PROVE  /\ <<x, y, z>> \in Seq(S) /\ <<x, y, z>> # <<>>
         /\ CallsIn(<<x, y, z>>) = {x, y, z}
<1>1. /\ Len(<<x, y, z>>) = 3 /\ <<x, y, z>> \in Seq(S)
      /\ <<x, y, z>>[1] = x /\ <<x, y, z>>[2] = y /\ <<x, y, z>>[3] = z
  OBVIOUS
<1>2. CallsIn(<<x, y, z>>) = {<<x, y, z>>[k] : k \in {1, 2, 3}}
  BY <1>1 DEF CallsIn
<1>3. QED
  BY <1>1, <1>2

LEMMA JoinedCalls ==
  /\ \A x, y : <<x>> \o <<y>> = <<x, y>>
  /\ \A x : <<x>> \o <<>> = <<x>>
  /\ \A x, y, z : <<x, y>> \o <<z>> = <<x, y, z>>
<1>1. ASSUME NEW x, NEW y PROVE <<x>> \o <<y>> = <<x, y>>
  <2>. DEFINE s == <<x>> \o <<y>>
  <2>1. /\ s \in Seq({x, y}) /\ Len(s) = 2 /\ s[1] = x /\ s[2] = y
        /\ <<x, y>> \in Seq({x, y}) /\ Len(<<x, y>>) = 2
        /\ <<x, y>>[1] = x /\ <<x, y>>[2] = y
    OBVIOUS
  <2>. DEFINE t == <<x, y>>
  <2>. HIDE DEF s, t
  <2>2. \A i \in 1 .. Len(s) : s[i] = t[i]
    BY <2>1 DEF t
  <2>3. s = t
    BY <2>1, <2>2, SeqEqual, Zenon DEF t
  <2>4. QED
    BY <2>3 DEF s, t
<1>2. ASSUME NEW x PROVE <<x>> \o <<>> = <<x>>
  OBVIOUS
<1>3. ASSUME NEW x, NEW y, NEW z PROVE <<x, y>> \o <<z>> = <<x, y, z>>
  <2>. DEFINE s == <<x, y>> \o <<z>>
  <2>1. /\ s \in Seq({x, y, z}) /\ Len(s) = 3
        /\ s[1] = x /\ s[2] = y /\ s[3] = z
    OBVIOUS
  <2>2. /\ <<x, y, z>> \in Seq({x, y, z}) /\ Len(<<x, y, z>>) = 3
        /\ <<x, y, z>>[1] = x /\ <<x, y, z>>[2] = y /\ <<x, y, z>>[3] = z
    OBVIOUS
  <2>. DEFINE t == <<x, y, z>>
  <2>. HIDE DEF s, t
  <2>3. \A i \in 1 .. Len(s) : s[i] = t[i]
    BY <2>1, <2>2 DEF t
  <2>4. s = t
    BY <2>1, <2>2, <2>3, SeqEqual, Zenon DEF t
  <2>5. QED
    BY <2>4 DEF s, t
<1>4. QED
  BY <1>1, <1>2, <1>3

-----------------------------------------------------------------------------
(* Operations and the list a call writes back.                             *)

\* The same write, whatever its status.
Alike(o, p) == /\ o.id = p.id /\ o.type = p.type /\ o.ent = p.ent
               /\ o.at = p.at /\ o.body = p.body

LEMMA OpsFields ==
  ASSUME NEW o \in Ops
  PROVE  /\ o \in Op /\ o # NoOp /\ o.id \in Ids /\ o.ent \in Entities
         /\ o.type \in {"create", "update", "delete"} /\ o.body \subseteq Ids
         /\ o.type = "create" => o.ent \in Temps /\ o.at = "temp" /\ o.body # {}
         /\ o.at \in {"temp", "real"} /\ o.status \in Statuses /\ o.err \in Errors
<1>1. o \in Op
  BY DEF Ops
<1>2. o.id # 0
  BY <1>1, BoundsAssumption DEF Op, Ids
<1>3. NoOp.id = 0
  BY DEF NoOp
<1>4. QED
  BY <1>1, <1>2, <1>3 DEF Ops, Op

LEMMA Noted ==
  ASSUME NEW o \in Ops, NEW x \in Errors,
         NEW r, r = [o EXCEPT !.err = x]
  PROVE  r \in Ops /\ Alike(r, o) /\ r.status = o.status /\ r.err = x
  BY DEF Ops, Op, Alike

LEMMA Unheld ==
  ASSUME NEW o \in Ops, NEW s \in Statuses,
         NEW r, r = [o EXCEPT !.status = s]
  PROVE  r \in Ops /\ Alike(r, o) /\ r.status = s /\ r.err = o.err
  BY DEF Ops, Op, Alike

LEMMA Merged ==
  ASSUME NEW o \in Ops, NEW b \in SUBSET Ids,
         NEW r, r = [o EXCEPT !.body = @ \cup b]
  PROVE  /\ r \in Ops /\ r.id = o.id /\ r.type = o.type /\ r.ent = o.ent
         /\ r.at = o.at /\ r.body = o.body \cup b
         /\ r.status = o.status /\ r.err = o.err
  BY DEF Ops, Op

LEMMA Normalized ==
  ASSUME NEW o \in Ops
  PROVE  /\ Normalize(o) \in Ops /\ Alike(Normalize(o), o)
         /\ Normalize(o).err = o.err
         /\ \/ Normalize(o) = o
            \/ /\ o.status = "blocked" /\ o.err = "" /\ ParentResolved(o)
               /\ Normalize(o).status = "pending"
<1>1. "pending" \in Statuses
  BY DEF Statuses
<1>2. CASE o.status = "blocked" /\ o.err = "" /\ ParentResolved(o)
  <2>1. Normalize(o) = [o EXCEPT !.status = "pending"]
    BY <1>2 DEF Normalize
  <2>. DEFINE r == [o EXCEPT !.status = "pending"]
  <2>2. r \in Ops /\ Alike(r, o) /\ r.status = "pending" /\ r.err = o.err
    BY <1>1, Unheld, Zenon
  <2>. HIDE DEF r
  <2>3. Normalize(o) = r
    BY <2>1 DEF r
  <2>4. QED
    BY <1>2, <2>2, <2>3
<1>3. CASE ~(o.status = "blocked" /\ o.err = "" /\ ParentResolved(o))
  <2>1. Normalize(o) = o
    BY <1>3, Zenon DEF Normalize
  <2>2. QED
    BY <2>1 DEF Alike
<1>4. QED
  BY <1>2, <1>3

LEMMA JobFields ==
  ASSUME NEW j \in Job
  PROVE  /\ j.kind \in {"upsert", "drop_updates", "remove", "note", "conflict",
                        "unconflict", "status", "unblock"}
         /\ j.kind \in {"upsert", "drop_updates"} => j.op \in Ops
         /\ j.kind \in {"remove", "note", "conflict", "unconflict", "status"}
              => j.id \in Ids
         /\ j.kind = "status" => j.status \in Statuses \cup {"applied"} /\ j.err \in Errors
         /\ j.kind = "upsert" => j = Upsert(j.op)
         /\ j.kind = "drop_updates" => j = DropUpdates(j.op)
         /\ j.kind = "remove" => j = Remove(j.id)
         /\ j.kind = "conflict" => j = AddConflict(j.id)
         /\ j.kind = "unconflict" => j = DropConflict(j.id)
         /\ j.kind = "status" => j = SetStatus(j.id, j.status, j.err)
  BY DEF Job, Unblock, Upsert, DropUpdates, Remove, AddConflict, DropConflict,
         SetStatus

LEMMA JobMade ==
  /\ \A o \in Ops : Upsert(o) \in Job /\ DropUpdates(o) \in Job
  /\ \A i \in Ids : /\ Remove(i) \in Job /\ NoteAttempt(i) \in Job
                    /\ AddConflict(i) \in Job /\ DropConflict(i) \in Job
                    /\ \A s \in Statuses \cup {"applied"} : \A x \in Errors :
                         SetStatus(i, s, x) \in Job
  /\ Unblock \in Job
  BY DEF Job, Unblock, Upsert, DropUpdates, Remove, AddConflict, DropConflict,
         SetStatus, NoteAttempt

LEMMA MadeFields ==
  /\ \A o : Upsert(o).kind = "upsert" /\ Upsert(o).op = o
  /\ \A o : DropUpdates(o).kind = "drop_updates" /\ DropUpdates(o).op = o
  /\ \A i : Remove(i).kind = "remove" /\ Remove(i).id = i
  /\ \A i : NoteAttempt(i).kind = "note" /\ NoteAttempt(i).id = i
  /\ \A i : AddConflict(i).kind = "conflict" /\ AddConflict(i).id = i
  /\ \A i : DropConflict(i).kind = "unconflict" /\ DropConflict(i).id = i
  /\ \A i, s, x : /\ SetStatus(i, s, x).kind = "status" /\ SetStatus(i, s, x).id = i
                  /\ SetStatus(i, s, x).status = s /\ SetStatus(i, s, x).err = x
  /\ Unblock.kind = "unblock"
  BY DEF Unblock, Upsert, DropUpdates, Remove, AddConflict, DropConflict,
         SetStatus, NoteAttempt

JournalKinds == {"upsert", "remove", "drop_updates", "status", "note", "unblock"}

\* Where an operation of the list written back comes from.
Origin(j, items, o, p) ==
  /\ p \in items \/ (j.kind = "upsert" /\ p = j.op)
  /\ o \in Ops /\ Alike(o, p)
  /\ \/ o = p /\ ~(j.kind = "status" /\ p.id = j.id)
     \/ /\ j.kind = "status" /\ p.id = j.id /\ j.status # "applied"
        /\ o.status = j.status /\ o.err = j.err
     \/ /\ j.kind = "note" /\ p.id = j.id
        /\ o.status = p.status /\ o.err = "net"
     \/ /\ j.kind = "unblock" /\ o = Normalize(p)
        /\ p.status = "blocked" /\ p.err = "" /\ ParentResolved(p)
        /\ o.status = "pending" /\ o.err = ""

LEMMA EditedFrom ==
  ASSUME NEW j \in Job, IsJournalCall(j), NEW items, items \subseteq Ops,
         NEW o \in Edited(j, items)
  PROVE  \E p \in Ops : Origin(j, items, o, p)
<1>0. j.kind \in JournalKinds
  BY JobFields DEF IsJournalCall, JournalKinds
<1>1. CASE j.kind = "upsert"
  <2>1. o \in items \/ o = j.op
    BY <1>1 DEF Edited
  <2>2. o \in Ops
    BY <1>1, <2>1, JobFields
  <2>3. QED
    BY <1>1, <2>1, <2>2 DEF Origin, Alike
<1>2. CASE j.kind \in {"remove", "drop_updates"}
  <2>1. o \in items
    BY <1>2 DEF Edited
  <2>2. QED
    BY <1>2, <2>1 DEF Origin, Alike
<1>3. CASE j.kind = "status"
  <2>1. PICK p \in items :
          /\ p.id # j.id \/ j.status # "applied"
          /\ o = IF p.id = j.id THEN [p EXCEPT !.status = j.status, !.err = j.err]
                                ELSE p
    BY <1>3 DEF Edited
  <2>2. CASE p.id # j.id
    BY <1>3, <2>1, <2>2 DEF Origin, Alike
  <2>3. CASE p.id = j.id
    <3>1. j.status \in Statuses /\ j.err \in Errors /\ p \in Ops
      BY <1>3, <2>1, <2>3, JobFields
    <3>2. o = [p EXCEPT !.status = j.status, !.err = j.err]
      BY <2>1, <2>3
    <3>3. o \in Ops /\ Alike(o, p) /\ o.status = j.status /\ o.err = j.err
      BY <3>1, <3>2 DEF Ops, Op, Alike
    <3>4. QED
      BY <1>3, <2>1, <2>3, <3>1, <3>3 DEF Origin
  <2>4. QED
    BY <2>2, <2>3
<1>4. CASE j.kind = "note"
  <2>1. PICK p \in items : o = IF p.id = j.id THEN [p EXCEPT !.err = "net"] ELSE p
    BY <1>4 DEF Edited
  <2>2. CASE p.id # j.id
    BY <1>4, <2>1, <2>2 DEF Origin, Alike
  <2>3. CASE p.id = j.id
    <3>1. p \in Ops /\ "net" \in Errors
      BY <2>1 DEF Errors
    <3>2. o = [p EXCEPT !.err = "net"]
      BY <2>1, <2>3
    <3>3. o \in Ops /\ Alike(o, p) /\ o.status = p.status /\ o.err = "net"
      BY <3>1, <3>2, Noted
    <3>4. QED
      BY <1>4, <2>1, <2>3, <3>1, <3>3 DEF Origin
  <2>4. QED
    BY <2>2, <2>3
<1>5. CASE j.kind = "unblock"
  <2>1. PICK p \in items : o = Normalize(p)
    BY <1>5 DEF Edited
  <2>2. p \in Ops
    BY <2>1
  <2>3. /\ o \in Ops /\ Alike(o, p) /\ o.err = p.err
        /\ \/ o = p
           \/ /\ p.status = "blocked" /\ p.err = "" /\ ParentResolved(p)
              /\ o.status = "pending"
    BY <2>1, <2>2, Normalized
  <2>4. QED
    BY <1>5, <2>1, <2>2, <2>3 DEF Origin
<1>6. QED
  BY <1>0, <1>1, <1>2, <1>3, <1>4, <1>5 DEF JournalKinds

LEMMA EditedOps ==
  ASSUME NEW j \in Job, IsJournalCall(j), NEW items, items \subseteq Ops
  PROVE  Edited(j, items) \subseteq Ops
  BY EditedFrom DEF Origin

\* What becomes of an operation that was in the list.
LEMMA EditedKeeps ==
  ASSUME NEW j \in Job, IsJournalCall(j), NEW items, items \subseteq Ops,
         NEW p \in items
  PROVE  \/ j.kind = "upsert" /\ p.id = j.op.id /\ j.op \in Edited(j, items)
         \/ j.kind = "remove" /\ p.id = j.id
         \/ j.kind = "drop_updates" /\ StaleUpdate(p, j.op)
         \/ j.kind = "status" /\ j.status = "applied" /\ p.id = j.id
         \/ \E o \in Edited(j, items) : Alike(o, p)
<1>0. j.kind \in JournalKinds
  BY JobFields DEF IsJournalCall, JournalKinds
<1>a. Alike(p, p)
  BY DEF Alike
<1>1. CASE j.kind = "upsert"
  BY <1>1, <1>a DEF Edited
<1>2. CASE j.kind = "remove"
  BY <1>2, <1>a DEF Edited
<1>3. CASE j.kind = "drop_updates"
  BY <1>3, <1>a DEF Edited
<1>4. CASE j.kind = "status"
  <2>1. SUFFICES ASSUME p.id # j.id \/ j.status # "applied"
                 PROVE  \E o \in Edited(j, items) : Alike(o, p)
    BY <1>4
  <2>. DEFINE o == IF p.id = j.id THEN [p EXCEPT !.status = j.status, !.err = j.err]
                                  ELSE p
  <2>2. o \in Edited(j, items)
    BY <1>4, <2>1 DEF Edited
  <2>3. Alike(o, p)
    <3>1. p \in Op
      BY DEF Ops
    <3>2. QED
      BY <3>1 DEF Alike, Op
  <2>. HIDE DEF o
  <2>4. QED
    BY <2>2, <2>3
<1>5. CASE j.kind = "note"
  <2>. DEFINE o == IF p.id = j.id THEN [p EXCEPT !.err = "net"] ELSE p
  <2>2. o \in Edited(j, items)
    BY <1>5 DEF Edited
  <2>3. Alike(o, p)
    <3>1. p \in Op
      BY DEF Ops
    <3>2. QED
      BY <3>1 DEF Alike, Op
  <2>. HIDE DEF o
  <2>4. QED
    BY <2>2, <2>3
<1>6. CASE j.kind = "unblock"
  <2>1. Normalize(p) \in Edited(j, items)
    BY <1>6 DEF Edited
  <2>2. Alike(Normalize(p), p)
    BY Normalized
  <2>3. QED
    BY <2>1, <2>2
<1>7. QED
  BY <1>0, <1>1, <1>2, <1>3, <1>4, <1>5, <1>6 DEF JournalKinds

-----------------------------------------------------------------------------
(* Types are kept.                                                         *)

ActorSteps(a) == IF a = "ui" THEN {"idle", "return", "cancel"}
                             ELSE {"idle", "list", "next", "send"}

LEMMA RunLocals ==
  ASSUME Locals, NEW a \in Actors, NEW js \in Seq(Job), js # <<>>,
         NEW p \in ActorSteps(a), Run(a, js, p),
         cur' \in [Actors -> Ops \cup {NoOp}],
         \A b \in Actors \ {a} : cur'[b] = cur[b],
         p \in {"return", "cancel", "send"} => cur'[a] # NoOp,
         res' = res
  PROVE  Locals'
<1>1. /\ pc' \in [Actors -> PCs] /\ after' \in [Actors -> PCs]
      /\ jobs' \in [Actors -> Seq(Job)]
      /\ pc'[a] = "load" /\ after'[a] = p /\ jobs'[a] = js
      /\ \A b \in Actors \ {a} : pc'[b] = pc[b] /\ after'[b] = after[b] /\ jobs'[b] = jobs[b]
  BY DEF Locals, Run, ActorSteps, PCs
<1>2. Places'
  BY <1>1 DEF Locals, Places, Working, Actors, ActorSteps
<1>3. ASSUME NEW b \in Actors PROVE Jobbed(b)'
  <2>1. CASE b = a
    BY <1>1, <2>1 DEF Jobbed, Working, ActorSteps
  <2>2. CASE b # a
    <3>1. Jobbed(b)
      BY DEF Locals
    <3>2. cur'[b] = cur[b] /\ pc'[b] = pc[b] /\ after'[b] = after[b] /\ jobs'[b] = jobs[b]
      BY <1>1, <2>2
    <3>3. QED
      BY <3>1, <3>2 DEF Jobbed
  <2>3. QED
    BY <2>1, <2>2
<1>4. QED
  BY <1>1, <1>2, <1>3 DEF Locals

LEMMA GotoLocals ==
  ASSUME Locals, NEW a \in Actors, pc[a] \notin Working,
         NEW p, p = "idle" \/ (a = "ui" /\ p = "queue" /\ cur[a] # NoOp),
         Goto(a, p), jobs' = jobs, after' = after
  PROVE  Locals'
<1>1. /\ pc' \in [Actors -> PCs] /\ res' \in [Actors -> {"none", "ok", "refused", "retryable", "auth"}]
      /\ cur' \in [Actors -> Ops \cup {NoOp}]
      /\ pc'[a] = p /\ (p = "idle" => cur'[a] = NoOp) /\ (p # "idle" => cur' = cur)
      /\ \A b \in Actors \ {a} : pc'[b] = pc[b] /\ cur'[b] = cur[b]
  BY DEF Locals, Goto, PCs
<1>2. Places'
  BY <1>1 DEF Locals, Places, UiSteps, SyncSteps, Actors
<1>3. ASSUME NEW b \in Actors PROVE Jobbed(b)'
  <2>0. Jobbed(b)
    BY DEF Locals
  <2>1. CASE b = a
    BY <1>1, <2>0, <2>1 DEF Jobbed, Working
  <2>2. CASE b # a
    <3>2. cur'[b] = cur[b] /\ pc'[b] = pc[b]
      BY <1>1, <2>2
    <3>3. QED
      BY <2>0, <3>2 DEF Jobbed
  <2>3. QED
    BY <2>1, <2>2
<1>4. QED
  BY <1>1, <1>2, <1>3 DEF Locals

LEMMA JobDoneLocals ==
  ASSUME Locals, NEW a \in Actors, pc[a] \in Working, JobDone(a)
  PROVE  /\ Locals'
         /\ CallsIn(jobs[a]) = {Head(jobs[a])} \cup CallsIn(jobs'[a])
         /\ jobs'[a] = Tail(jobs[a])
         /\ pc'[a] = IF Tail(jobs[a]) = <<>> THEN after[a] ELSE "load"
         /\ pc'[a] \notin {"store", "append", "write_conflicts"}
         /\ cur'[a] = IF pc'[a] = "idle" THEN NoOp ELSE cur[a]
         /\ \A b \in Actors \ {a} : /\ pc'[b] = pc[b] /\ cur'[b] = cur[b]
                                    /\ jobs'[b] = jobs[b] /\ after'[b] = after[b]
<1>0. jobs[a] \in Seq(Job) /\ jobs[a] # <<>>
  BY DEF Locals, Jobbed
<1>1. /\ Tail(jobs[a]) \in Seq(Job)
      /\ CallsIn(jobs[a]) = {Head(jobs[a])} \cup CallsIn(Tail(jobs[a]))
  BY <1>0, CallsSplit
<1>2. /\ jobs' \in [Actors -> Seq(Job)] /\ jobs'[a] = Tail(jobs[a])
      /\ \A b \in Actors \ {a} : jobs'[b] = jobs[b]
  BY <1>1 DEF JobDone, Locals
<1>3. after[a] \in {"idle", "return", "cancel", "list", "next", "send"}
  BY DEF Locals, Places, Actors
<1>4. /\ pc' \in [Actors -> PCs] /\ res' \in [Actors -> {"none", "ok", "refused", "retryable", "auth"}]
      /\ cur' \in [Actors -> Ops \cup {NoOp}] /\ after' \in [Actors -> PCs]
      /\ pc'[a] = IF Tail(jobs[a]) = <<>> THEN after[a] ELSE "load"
      /\ after'[a] = IF Tail(jobs[a]) = <<>> THEN "idle" ELSE after[a]
      /\ cur'[a] = IF pc'[a] = "idle" THEN NoOp ELSE cur[a]
      /\ \A b \in Actors \ {a} : pc'[b] = pc[b] /\ cur'[b] = cur[b] /\ after'[b] = after[b]
  <2>1. CASE Tail(jobs[a]) = <<>>
    BY <1>3, <2>1 DEF JobDone, Locals, Goto, PCs
  <2>2. CASE Tail(jobs[a]) # <<>>
    BY <1>3, <2>2 DEF JobDone, Locals, Goto, PCs
  <2>3. QED
    BY <2>1, <2>2
<1>5. Places'
  <2>1. CASE a = "ui"
    BY <1>4, <2>1 DEF Locals, Places, UiSteps, SyncSteps, Actors, Working
  <2>2. CASE a = "sync"
    BY <1>4, <2>2 DEF Locals, Places, UiSteps, SyncSteps, Actors, Working
  <2>3. QED
    BY <2>1, <2>2 DEF Actors
<1>6. ASSUME NEW b \in Actors PROVE Jobbed(b)'
  <2>0. Jobbed(b)
    BY DEF Locals
  <2>1. CASE b = a
    <3>1. pc'[a] \in Working <=> jobs'[a] # <<>>
      BY <1>2, <1>3, <1>4 DEF Working
    <3>2. QED
      BY <1>2, <1>3, <1>4, <2>0, <2>1, <3>1 DEF Jobbed, Working
  <2>2. CASE b # a
    <3>2. cur'[b] = cur[b] /\ pc'[b] = pc[b] /\ jobs'[b] = jobs[b] /\ after'[b] = after[b]
      BY <1>2, <1>4, <2>2
    <3>3. QED
      BY <2>0, <3>2 DEF Jobbed
  <2>3. QED
    BY <2>1, <2>2
<1>7. QED
  BY <1>1, <1>2, <1>3, <1>4, <1>5, <1>6 DEF Locals

LEMMA LeastNumber ==
  ASSUME NEW S \in SUBSET Nat, S # {}
  PROVE  \E i \in S : \A j \in S : i <= j
<1>1. PICK i \in S : \A j \in S : <<j, i>> \notin OpToRel(<, Nat)
  BY WFMin, NatLessThanWellFounded, Zenon
<1>2. \A j \in S : ~(j < i)
  BY <1>1, Zenon DEF OpToRel
<1>3. \A j \in S : i <= j
  BY <1>2
<1>4. QED
  BY <1>3

\* The operation the journal merges a write into is one of the candidates.
LEMMA FirstOf ==
  ASSUME NEW S, S \subseteq Ops, S # {}
  PROVE  First(S) \in S
<1>1. IdsOf(S) \in SUBSET Nat /\ IdsOf(S) # {}
  <2>1. \A o \in S : o.id \in Nat
    BY OpsFields, BoundsAssumption DEF Ids
  <2>2. QED
    BY <2>1 DEF IdsOf
<1>2. PICK i \in IdsOf(S) : \A k \in IdsOf(S) : i <= k
  BY <1>1, LeastNumber
<1>3. PICK o \in S : o.id = i
  BY DEF IdsOf
<1>4. \A q \in S : o.id <= q.id
  BY <1>2, <1>3 DEF IdsOf
<1>5. QED
  BY <1>4, Zenon DEF First

LEMMA LoadTyped ==
  ASSUME Typed, NEW a \in Actors, Load(a)
  PROVE  Typed'
<1>0. Data' /\ pc[a] = "load" /\ a \in Actors
  BY DEF Typed, Data, Load, client, screens, server
<1>1. CASE JobDone(a) /\ UNCHANGED buf
  <2>1. /\ Locals' /\ pc'[a] # "write_conflicts"
        /\ \A b \in Actors \ {a} : pc'[b] = pc[b]
    BY <1>0, <1>1, JobDoneLocals DEF Typed, Working
  <2>2. Buffers'
    BY <1>0, <1>1, <2>1 DEF Typed, Buffers
  <2>3. QED
    BY <1>0, <2>1, <2>2 DEF Typed
<1>2. CASE /\ buf' = [buf EXCEPT ![a] = snapshot]
           /\ pc' = [pc EXCEPT ![a] = "store"]
           /\ UNCHANGED <<jobs, after, cur, res>>
  <2>1. /\ pc' \in [Actors -> PCs] /\ pc'[a] = "store"
        /\ \A b \in Actors \ {a} : pc'[b] = pc[b]
    BY <1>2 DEF Typed, Locals, PCs
  <2>2. Places'
    BY <1>2, <2>1 DEF Typed, Locals, Places, Working, Actors
  <2>3. ASSUME NEW b \in Actors PROVE Jobbed(b)'
    BY <1>0, <1>2, <2>1 DEF Typed, Locals, Jobbed, Load, Working
  <2>4. Buffers'
    BY <1>2, <2>1 DEF Typed, Data, Buffers
  <2>5. Locals'
    BY <1>2, <2>1, <2>2, <2>3 DEF Typed, Locals
  <2>6. QED
    BY <1>0, <2>4, <2>5 DEF Typed
<1>3. QED
  BY <1>1, <1>2 DEF Load

LEMMA StoreTyped ==
  ASSUME Typed, NEW a \in Actors, Store(a)
  PROVE  Typed'
<1>0. /\ pc[a] = "store" /\ jobs[a] \in Seq(Job) /\ jobs[a] # <<>>
      /\ IsJournalCall(Head(jobs[a])) /\ buf[a] \subseteq Ops
  BY DEF Typed, Locals, Buffers, Jobbed, Working, Store
<1>1. Head(jobs[a]) \in Job
  BY <1>0, CallsSplit
<1>2. snapshot' \subseteq Ops
  BY <1>0, <1>1, EditedOps DEF Store
<1>3. Data'
  BY <1>2 DEF Typed, Data, Store, screens, server
<1>4. /\ pc' \in [Actors -> PCs] /\ pc'[a] = "append"
      /\ \A b \in Actors \ {a} : pc'[b] = pc[b]
      /\ UNCHANGED <<jobs, after, cur, res, buf>>
  BY DEF Typed, Locals, PCs, Store
<1>5. Places'
  BY <1>4 DEF Typed, Locals, Places, Working, Actors
<1>6. ASSUME NEW b \in Actors PROVE Jobbed(b)'
  BY <1>0, <1>4 DEF Typed, Locals, Jobbed, Working
<1>7. Buffers'
  BY <1>0, <1>4 DEF Typed, Buffers
<1>8. Locals'
  BY <1>4, <1>5, <1>6 DEF Typed, Locals
<1>9. QED
  BY <1>3, <1>7, <1>8 DEF Typed

LEMMA LogEventsTyped ==
  ASSUME Typed, NEW a \in Actors, LogEvents(a)
  PROVE  Typed'
<1>0. /\ pc[a] = "append" /\ jobs[a] \in Seq(Job) /\ jobs[a] # <<>>
      /\ IsJournalCall(Head(jobs[a])) /\ buf[a] \subseteq Ops
  BY DEF Typed, Locals, Buffers, Jobbed, Working, LogEvents
<1>1. Head(jobs[a]) \in Job
  BY <1>0, CallsSplit
<1>2. Edited(Head(jobs[a]), buf[a]) \subseteq Ops
  BY <1>0, <1>1, EditedOps
<1>3. journal' \subseteq journal \cup Edited(Head(jobs[a]), buf[a])
  BY DEF LogEvents
<1>4. Data'
  BY <1>2, <1>3 DEF Typed, Data, LogEvents, screens, server
<1>5. /\ Locals' /\ pc'[a] # "write_conflicts"
      /\ \A b \in Actors \ {a} : pc'[b] = pc[b]
  BY <1>0, JobDoneLocals DEF Typed, Working, LogEvents
<1>6. Buffers'
  BY <1>5 DEF Typed, Buffers, LogEvents
<1>7. QED
  BY <1>4, <1>5, <1>6 DEF Typed

LEMMA LoadConflictsTyped ==
  ASSUME Typed, NEW a \in Actors, LoadConflicts(a)
  PROVE  Typed'
<1>0. pc[a] = "load" /\ ~IsJournalCall(Head(jobs[a]))
  BY DEF LoadConflicts
<1>1. Data'
  BY DEF Typed, Data, LoadConflicts, client, screens, server
<1>4. /\ pc' \in [Actors -> PCs] /\ pc'[a] = "write_conflicts"
      /\ \A b \in Actors \ {a} : pc'[b] = pc[b]
      /\ UNCHANGED <<jobs, after, cur, res>>
  BY DEF Typed, Locals, PCs, LoadConflicts
<1>5. Places'
  BY <1>4 DEF Typed, Locals, Places, Working, Actors
<1>6. ASSUME NEW b \in Actors PROVE Jobbed(b)'
  BY <1>0, <1>4 DEF Typed, Locals, Jobbed, Working
<1>7. Buffers'
  BY <1>0, <1>4 DEF Typed, Buffers, Data, LoadConflicts
<1>8. Locals'
  BY <1>4, <1>5, <1>6 DEF Typed, Locals
<1>9. QED
  BY <1>1, <1>7, <1>8 DEF Typed

LEMMA WriteConflictsTyped ==
  ASSUME Typed, NEW a \in Actors, WriteConflicts(a)
  PROVE  Typed'
<1>0. /\ pc[a] = "write_conflicts" /\ jobs[a] \in Seq(Job) /\ jobs[a] # <<>>
      /\ ~IsJournalCall(Head(jobs[a])) /\ buf[a] \subseteq Ids
  BY DEF Typed, Locals, Buffers, Jobbed, Working, WriteConflicts
<1>1. Head(jobs[a]) \in Job
  BY <1>0, CallsSplit
<1>2. Head(jobs[a]).id \in Ids
  BY <1>0, <1>1, JobFields DEF IsJournalCall
<1>3. conflicts' \subseteq Ids
  BY <1>0, <1>2 DEF WriteConflicts
<1>4. Data'
  BY <1>3 DEF Typed, Data, WriteConflicts, screens, server
<1>5. /\ Locals' /\ pc'[a] # "write_conflicts"
      /\ \A b \in Actors \ {a} : pc'[b] = pc[b]
  BY <1>0, JobDoneLocals DEF Typed, Working, WriteConflicts
<1>6. Buffers'
  BY <1>5 DEF Typed, Buffers, WriteConflicts
<1>7. QED
  BY <1>4, <1>5, <1>6 DEF Typed

\* The operation a write of the user begins with.
NewOp(e, type, at) ==
  [id |-> nextOp, type |-> type, ent |-> e, at |-> at,
   body |-> IF type = "delete" THEN {} ELSE {nextOp},
   status |-> "pending", err |-> ""]

\* The three writes a user may begin.
Begins(e, type, at) ==
  /\ Begin(e, type, at)
  /\ e \in Entities /\ at \in {"temp", "real"}
  /\ \/ /\ type = "create" /\ e \in Temps /\ at = "temp" /\ known[e] = "none"
        /\ Parent[e] # NoParent => known[Parent[e]] \in {"temp", "real"}
     \/ type \in {"update", "delete"} /\ known[e] = at

LEMMA BeginCases ==
  ASSUME \/ \E e \in Temps : UiCreate(e)
         \/ \E e \in Entities : UiUpdate(e) \/ UiDelete(e)
  PROVE  \E e \in Entities, type \in {"create", "update", "delete"},
            at \in {"temp", "real"} : Begins(e, type, at)
<1>1. ASSUME NEW e \in Temps, UiCreate(e)
      PROVE  e \in Entities /\ Begins(e, "create", "temp")
  BY <1>1 DEF UiCreate, Begins, Entities
<1>2. ASSUME NEW e \in Entities, UiUpdate(e)
      PROVE  known[e] \in {"temp", "real"} /\ Begins(e, "update", known[e])
  BY <1>2 DEF UiUpdate, Begins
<1>3. ASSUME NEW e \in Entities, UiDelete(e)
      PROVE  known[e] \in {"temp", "real"} /\ Begins(e, "delete", known[e])
  BY <1>3 DEF UiDelete, Begins
<1>4. QED
  BY <1>1, <1>2, <1>3

LEMMA NewOpFields ==
  ASSUME Typed, NEW e, NEW type, NEW at, Begins(e, type, at)
  PROVE  /\ NewOp(e, type, at) \in Ops /\ nextOp \in Ids
         /\ NewOp(e, type, at).id = nextOp /\ NewOp(e, type, at).type = type
         /\ NewOp(e, type, at).ent = e /\ NewOp(e, type, at).at = at
         /\ NewOp(e, type, at).body = IF type = "delete" THEN {} ELSE {nextOp}
         /\ NewOp(e, type, at).status = "pending" /\ NewOp(e, type, at).err = ""
<1>0. nextOp <= MaxOps /\ nextOp \in Nat /\ 1 <= nextOp
  BY Zenon DEF Typed, Data, Begins, Begin
<1>1. nextOp \in Ids
  BY <1>0, BoundsAssumption DEF Ids
<1>2. QED
  BY <1>1 DEF NewOp, Ops, Op, Begins, Statuses, Errors

LEMMA BeginEffect ==
  ASSUME Typed, NEW e, NEW type, NEW at, Begins(e, type, at)
  PROVE  /\ pc["ui"] = "idle" /\ pc'["sync"] = pc["sync"]
         /\ pc'["ui"] = IF (IF type = "create" THEN ParentResolved(NewOp(e, type, at))
                                               ELSE at = "real")
                          THEN "direct" ELSE "queue"
         /\ cur'["ui"] = NewOp(e, type, at) /\ cur'["sync"] = cur["sync"]
         /\ nextOp' = nextOp + 1
         /\ known' = IF type = "create" THEN [known EXCEPT ![e] = "calling"] ELSE known
         /\ pc' \in [Actors -> PCs] /\ cur' \in [Actors -> Ops \cup {NoOp}]
         /\ UNCHANGED <<client, jobs, after, buf, res, batch, writesOf, dropped,
                        cancelled, server, crashes>>
<1>1. NewOp(e, type, at) \in Ops
  BY NewOpFields
<1>2. Begin(e, type, at)
  BY DEF Begins
<1>3. /\ cur' = [cur EXCEPT !["ui"] = NewOp(e, type, at)]
      /\ pc' = [pc EXCEPT !["ui"] =
                   IF (IF type = "create" THEN ParentResolved(NewOp(e, type, at))
                                          ELSE at = "real")
                     THEN "direct" ELSE "queue"]
  BY <1>2, Zenon DEF Begin, NewOp
<1>4. /\ cur'["ui"] = NewOp(e, type, at) /\ cur'["sync"] = cur["sync"]
      /\ cur' \in [Actors -> Ops \cup {NoOp}]
  BY <1>1, <1>3 DEF Typed, Locals, Actors
<1>. DEFINE P == IF type = "create" THEN ParentResolved(NewOp(e, type, at)) ELSE at = "real"
<1>. HIDE DEF P
<1>5. pc' = [pc EXCEPT !["ui"] = IF P THEN "direct" ELSE "queue"]
  BY <1>3, Zenon DEF P
<1>6. /\ pc'["ui"] = (IF P THEN "direct" ELSE "queue") /\ pc'["sync"] = pc["sync"]
      /\ pc' \in [Actors -> PCs]
  BY <1>5 DEF Typed, Locals, Actors, PCs
<1>7. QED
  BY <1>2, <1>4, <1>6, Zenon DEF Begin, P

LEMMA BeginTyped ==
  ASSUME Typed, NEW e, NEW type, NEW at, Begins(e, type, at)
  PROVE  Typed'
<1>a. NewOp(e, type, at) # NoOp
  BY NewOpFields, OpsFields, Zenon
<1>b. pc'["ui"] \in {"direct", "queue"}
  BY BeginEffect
<1>c. UNCHANGED <<client, jobs, after, buf, res, batch, writesOf, dropped,
                  cancelled, server, crashes>>
  BY BeginEffect, Zenon
<1>d. /\ pc["ui"] = "idle" /\ pc'["sync"] = pc["sync"]
      /\ cur'["ui"] = NewOp(e, type, at) /\ cur'["sync"] = cur["sync"]
      /\ nextOp' = nextOp + 1
      /\ pc' \in [Actors -> PCs] /\ cur' \in [Actors -> Ops \cup {NoOp}]
  BY BeginEffect
<1>0. /\ pc["ui"] = "idle" /\ pc'["sync"] = pc["sync"] /\ pc'["ui"] \in {"direct", "queue"}
      /\ cur'["ui"] # NoOp /\ cur'["sync"] = cur["sync"]
      /\ nextOp' = nextOp + 1
      /\ pc' \in [Actors -> PCs] /\ cur' \in [Actors -> Ops \cup {NoOp}]
      /\ UNCHANGED <<client, jobs, after, buf, res, batch, writesOf, dropped,
                     cancelled, server, crashes>>
  BY <1>a, <1>b, <1>c, <1>d, Zenon
<1>1. Data'
  <2>1. nextOp <= MaxOps /\ e \in Entities
    BY DEF Begins, Begin
  <2>2. known' \in [Entities -> {"none", "calling", "temp", "real", "gone"}]
    BY <2>1, BeginEffect DEF Typed, Data
  <2>3. nextOp' \in Nat /\ 1 <= nextOp' /\ nextOp' <= MaxOps + 1
    BY <1>0, <2>1, BoundsAssumption DEF Typed, Data
  <2>4. QED
    BY <1>0, <2>2, <2>3 DEF Typed, Data, client, server
<1>2. Places'
  BY <1>0 DEF Typed, Locals, Places, UiSteps
<1>3. ASSUME NEW b \in Actors PROVE Jobbed(b)'
  <2>1. Jobbed(b)
    BY DEF Typed, Locals
  <2>2. QED
    BY <1>0, <2>1 DEF Jobbed, Working, Actors
<1>4. Locals'
  BY <1>0, <1>2, <1>3 DEF Typed, Locals
<1>5. Buffers'
  BY <1>0 DEF Typed, Buffers, Actors
<1>6. QED
  BY <1>1, <1>4, <1>5 DEF Typed

LEMMA ExchangeTyped ==
  ASSUME Typed, NEW a \in Actors, pc[a] \in {"direct", "send"}, Exchange(a, Outcomes)
  PROVE  Typed'
<1>1. PICK x \in Outcomes :
        /\ x = "accepted" => a = "sync" /\ cur[a].type = "create"
        /\ IF x \in {"answer", "lost"} /\ Served(cur[a])
             THEN Process(cur[a]) ELSE UNCHANGED server
        /\ res' = [res EXCEPT ![a] =
             CASE x = "answer" -> IF Served(cur[a]) THEN "ok" ELSE "refused"
               [] x = "auth"   -> "auth"
               [] x = "accepted" -> "refused"
               [] OTHER        -> "retryable"]
        /\ pc' = [pc EXCEPT ![a] = "receive"]
        /\ UNCHANGED <<client, jobs, after, buf, cur, batch, screens, crashes>>
  BY DEF Exchange
<1>2. cur[a] \in Ops
  BY DEF Typed, Locals, Jobbed
<1>3. alive' \subseteq Entities /\ applied' \subseteq Ids
      /\ keyed' \in [Ids -> SUBSET Ids] /\ created' \in [Temps -> Nat]
  <2>1. CASE Process(cur[a])
    <3>1. cur[a].id \in Ids /\ cur[a].ent \in Entities /\ cur[a].body \subseteq Ids
      BY <1>2, OpsFields
    <3>2. QED
      BY <2>1, <3>1 DEF Process, Typed, Data
  <2>2. CASE UNCHANGED server
    BY <2>2 DEF server, Typed, Data
  <2>3. QED
    BY <1>1, <2>1, <2>2
<1>4. Data'
  BY <1>1, <1>3 DEF Typed, Data, client, screens
<1>5. /\ pc' \in [Actors -> PCs] /\ pc'[a] = "receive"
      /\ \A b \in Actors \ {a} : pc'[b] = pc[b]
  BY <1>1 DEF Typed, Locals, PCs
<1>6. res' \in [Actors -> {"none", "ok", "refused", "retryable", "auth"}]
  BY <1>1 DEF Typed, Locals
<1>7. Places'
  BY <1>1, <1>5 DEF Typed, Locals, Places, UiSteps, SyncSteps, Actors
<1>8. ASSUME NEW b \in Actors PROVE Jobbed(b)'
  <2>1. Jobbed(b)
    BY DEF Typed, Locals
  <2>2. QED
    BY <1>1, <1>5, <2>1 DEF Jobbed, Working
<1>9. Locals'
  BY <1>1, <1>5, <1>6, <1>7, <1>8 DEF Typed, Locals
<1>10. Buffers'
  BY <1>1, <1>5 DEF Typed, Buffers
<1>11. QED
  BY <1>4, <1>9, <1>10 DEF Typed

LEMMA UiReceiveTyped ==
  ASSUME Typed, UiReceive
  PROVE  Typed'
<1>0. cur["ui"] \in Ops /\ pc["ui"] = "receive" /\ cur["ui"] # NoOp
  BY OpsFields DEF Typed, Locals, Jobbed, Actors, UiReceive
<1>1. /\ cur["ui"].ent \in Entities /\ cur["ui"].body \subseteq Ids
      /\ cur["ui"].type = "create" => cur["ui"].ent \in Temps
  BY <1>0, OpsFields
<1>2. (Goto("ui", "queue") \/ Goto("ui", "idle")) /\ UNCHANGED <<jobs, after, buf>>
  BY DEF UiReceive
<1>3. Locals'
  BY <1>0, <1>2, GotoLocals DEF Typed, Working, Actors
<1>4. pc'["ui"] \in {"queue", "idle"} /\ pc'["sync"] = pc["sync"]
  BY <1>2 DEF Goto, Typed, Locals, Actors
<1>5. Buffers'
  BY <1>0, <1>2, <1>4 DEF Typed, Buffers, Actors
<1>6. /\ idmap' \subseteq Temps /\ dropped' \subseteq Ids
      /\ known' \in [Entities -> {"none", "calling", "temp", "real", "gone"}]
      /\ writesOf' \in [Entities -> SUBSET Ids]
  BY <1>1 DEF UiReceive, Typed, Data
<1>7. Data'
  BY <1>6 DEF UiReceive, Typed, Data, server
<1>8. QED
  BY <1>3, <1>5, <1>7 DEF Typed

\* A thread that starts calls leaves its buffer alone.
LEMMA RunBuffers ==
  ASSUME Typed, NEW a \in Actors, pc[a] \notin Working, NEW js, NEW p, Run(a, js, p),
         UNCHANGED buf
  PROVE  /\ Buffers' /\ pc'[a] = "load" /\ jobs'[a] = js /\ after'[a] = p
         /\ \A b \in Actors \ {a} : /\ pc'[b] = pc[b] /\ jobs'[b] = jobs[b]
                                    /\ after'[b] = after[b]
<1>1. /\ pc'[a] = "load" /\ jobs'[a] = js /\ after'[a] = p
      /\ \A b \in Actors \ {a} : /\ pc'[b] = pc[b] /\ jobs'[b] = jobs[b]
                                 /\ after'[b] = after[b]
  BY DEF Run, Typed, Locals
<1>2. \A b \in Actors : pc'[b] = "write_conflicts" <=> pc[b] = "write_conflicts"
  BY <1>1 DEF Working
<1>3. Buffers'
  BY <1>2 DEF Typed, Buffers
<1>4. QED
  BY <1>1, <1>3

LEMMA RunTyped ==
  ASSUME Typed, NEW a \in Actors, pc[a] \notin Working,
         NEW js \in Seq(Job), js # <<>>, NEW p \in ActorSteps(a), Run(a, js, p),
         cur' \in [Actors -> Ops \cup {NoOp}],
         \A b \in Actors \ {a} : cur'[b] = cur[b],
         p \in {"return", "cancel", "send"} => cur'[a] # NoOp,
         UNCHANGED <<res, buf>>, Data'
  PROVE  Typed'
<1>1. Locals'
  BY RunLocals DEF Typed
<1>2. Buffers'
  BY RunBuffers
<1>3. QED
  BY <1>1, <1>2 DEF Typed

LEMMA QueueCreateTyped ==
  ASSUME Typed, QueueCreate
  PROVE  Typed'
<1>0. "ui" \in Actors /\ pc["ui"] = "queue" /\ cur["ui"] \in Ops /\ cur["ui"] # NoOp
  BY OpsFields DEF Typed, Locals, Jobbed, Actors, QueueCreate
<1>. DEFINE s == IF ParentResolved(cur["ui"]) THEN "pending" ELSE "blocked"
            r == [cur["ui"] EXCEPT !.status = s]
<1>1. s \in Statuses
  BY DEF Statuses
<1>. HIDE DEF s
<1>2. r \in Ops
  BY <1>0, <1>1, Unheld, Zenon
<1>. HIDE DEF r
<1>3. Upsert(r) \in Job
  BY <1>2, JobMade
<1>4. Run("ui", <<Upsert(r)>>, "return")
  BY Zenon DEF QueueCreate, r, s
<1>5. Data' /\ cur' = cur /\ UNCHANGED <<res, buf>>
  BY DEF QueueCreate, Typed, Data, client, screens, server
<1>6. <<Upsert(r)>> \in Seq(Job) /\ <<Upsert(r)>> # <<>>
  BY <1>3, OneCall
<1>7. pc["ui"] \notin Working /\ "return" \in ActorSteps("ui")
  BY <1>0 DEF Working, ActorSteps
<1>8. cur \in [Actors -> Ops \cup {NoOp}]
  BY DEF Typed, Locals
<1>9. QED
  BY <1>0, <1>4, <1>5, <1>6, <1>7, <1>8, RunTyped

\* The pending operations of an entity are among those of the snapshot.
LEMMA PendingIn ==
  ASSUME Typed, NEW o, NEW type
  PROVE  /\ CreatesOf(o) \subseteq snapshot /\ PendingOf(o, type) \subseteq snapshot
         /\ CreatesOf(o) \subseteq Ops /\ PendingOf(o, type) \subseteq Ops
         /\ \A q \in CreatesOf(o) : q.type = "create" /\ q.ent = o.ent /\ q.at = o.at
         /\ \A q \in PendingOf(o, type) : q.type = type /\ q.ent = o.ent /\ q.at = o.at
  BY DEF Typed, Data, CreatesOf, PendingOf, Same

Target(o) == IF CreatesOf(o) # {} THEN CreatesOf(o) ELSE PendingOf(o, "update")

\* queue_update_operation, outcome by outcome.
LEMMA QueueUpdateCases ==
  ASSUME Typed, QueueUpdate
  PROVE  /\ pc["ui"] = "queue" /\ cur["ui"] \in Ops /\ cur["ui"].type = "update"
         /\ UNCHANGED <<client, buf, cur, res, batch, screens, server, crashes>>
         /\ \/ \E f \in Target(cur["ui"]), r \in Ops :
                 /\ f \in snapshot /\ f \in Ops /\ f.ent = cur["ui"].ent
                 /\ f.at = cur["ui"].at /\ f.type \in {"create", "update"}
                 /\ r.id = f.id /\ r.type = f.type /\ r.ent = f.ent /\ r.at = f.at
                 /\ r.body = f.body \cup cur["ui"].body
                 /\ r.status = f.status /\ r.err = f.err
                 /\ Run("ui", <<Upsert(r)>>, "return")
            \/ \E d \in snapshot :
                 /\ d \in Ops /\ d.type = "delete" /\ d.ent = cur["ui"].ent
                 /\ Run("ui", <<AddConflict(d.id)>>, "idle")
            \/ Run("ui", <<Upsert(cur["ui"])>>, "return")
<1>0. pc["ui"] = "queue" /\ cur["ui"] \in Ops /\ cur["ui"].type = "update"
  BY DEF Typed, Locals, Jobbed, Actors, QueueUpdate
<1>u. UNCHANGED <<client, buf, cur, res, batch, screens, server, crashes>>
  BY Zenon DEF QueueUpdate
<1>. DEFINE o == cur["ui"]
<1>1. Target(o) \subseteq Ops /\ Target(o) \subseteq snapshot
      /\ \A q \in Target(o) : q.ent = o.ent /\ q.at = o.at /\ q.type \in {"create", "update"}
  BY DEF Target, Typed, Data, CreatesOf, PendingOf, Same
<1>2. \/ Target(o) # {} /\ Run("ui", <<Upsert([First(Target(o)) EXCEPT !.body = @ \cup o.body])>>, "return")
      \/ PendingOf(o, "delete") # {} /\ Run("ui", <<AddConflict(First(PendingOf(o, "delete")).id)>>, "idle")
      \/ Run("ui", <<Upsert(o)>>, "return")
  <2>. DEFINE into == IF CreatesOf(o) # {} THEN CreatesOf(o) ELSE PendingOf(o, "update")
  <2>1. (CASE into # {} ->
               Run("ui", <<Upsert([First(into) EXCEPT !.body = @ \cup o.body])>>,
                   "return")
          [] into = {} /\ PendingOf(o, "delete") # {} ->
               Run("ui", <<AddConflict(First(PendingOf(o, "delete")).id)>>, "idle")
          [] OTHER -> Run("ui", <<Upsert(o)>>, "return"))
    BY Zenon DEF QueueUpdate
  <2>2. into = Target(o)
    BY DEF Target
  <2>. HIDE DEF into
  <2>3. QED
    BY <2>1, <2>2
<1>3. CASE Target(o) # {} /\ Run("ui", <<Upsert([First(Target(o)) EXCEPT !.body = @ \cup o.body])>>, "return")
  <2>. DEFINE f == First(Target(o))
              r == [f EXCEPT !.body = @ \cup o.body]
  <2>1. f \in Target(o)
    BY <1>1, <1>3, FirstOf
  <2>2. f \in Ops /\ f \in snapshot /\ o.body \in SUBSET Ids
    BY <1>0, <1>1, <2>1, OpsFields
  <2>. HIDE DEF f
  <2>3. /\ r \in Ops /\ r.id = f.id /\ r.type = f.type /\ r.ent = f.ent
        /\ r.at = f.at /\ r.body = f.body \cup o.body
        /\ r.status = f.status /\ r.err = f.err
    BY <2>2, Merged
  <2>4. Run("ui", <<Upsert(r)>>, "return")
    BY <1>3 DEF f
  <2>. HIDE DEF r
  <2>5. QED
    BY <1>0, <1>u, <1>1, <2>1, <2>2, <2>3, <2>4
<1>4. CASE PendingOf(o, "delete") # {} /\ Run("ui", <<AddConflict(First(PendingOf(o, "delete")).id)>>, "idle")
  <2>1. First(PendingOf(o, "delete")) \in PendingOf(o, "delete")
    BY <1>4, PendingIn, FirstOf
  <2>2. QED
    BY <1>0, <1>u, <1>4, <2>1, PendingIn
<1>5. CASE Run("ui", <<Upsert(o)>>, "return")
  BY <1>0, <1>u, <1>5
<1>6. QED
  BY <1>2, <1>3, <1>4, <1>5

LEMMA QueueUpdateTyped ==
  ASSUME Typed, QueueUpdate
  PROVE  Typed'
<1>0. /\ "ui" \in Actors /\ pc["ui"] \notin Working /\ cur["ui"] \in Ops /\ cur["ui"] # NoOp
      /\ cur \in [Actors -> Ops \cup {NoOp}]
  BY QueueUpdateCases, OpsFields DEF Typed, Locals, Actors, Working
<1>1. cur' = cur /\ UNCHANGED <<res, buf>>
  BY DEF QueueUpdate
<1>2. Data'
  BY DEF QueueUpdate, Typed, Data, client, screens, server
<1>3. \E j \in Job, p \in ActorSteps("ui") : Run("ui", <<j>>, p)
  <2>1. "return" \in ActorSteps("ui") /\ "idle" \in ActorSteps("ui")
    BY DEF ActorSteps
  <2>2. \/ \E r \in Ops : Run("ui", <<Upsert(r)>>, "return")
        \/ \E d \in Ops : Run("ui", <<AddConflict(d.id)>>, "idle")
    BY <1>0, QueueUpdateCases
  <2>3. CASE \E r \in Ops : Run("ui", <<Upsert(r)>>, "return")
    BY <2>1, <2>3, JobMade
  <2>4. CASE \E d \in Ops : Run("ui", <<AddConflict(d.id)>>, "idle")
    <3>1. PICK d \in Ops : Run("ui", <<AddConflict(d.id)>>, "idle")
      BY <2>4
    <3>2. AddConflict(d.id) \in Job
      BY JobMade, OpsFields
    <3>3. QED
      BY <2>1, <3>1, <3>2
  <2>5. QED
    BY <2>2, <2>3, <2>4
<1>4. PICK j \in Job, p \in ActorSteps("ui") : Run("ui", <<j>>, p)
  BY <1>3
<1>5. <<j>> \in Seq(Job) /\ <<j>> # <<>>
  BY OneCall
<1>6. QED
  BY <1>0, <1>1, <1>2, <1>4, <1>5, RunTyped

\* queue_delete_operation, outcome by outcome.
LEMMA QueueDeleteCases ==
  ASSUME Typed, QueueDelete
  PROVE  /\ pc["ui"] = "queue" /\ cur["ui"] \in Ops /\ cur["ui"].type = "delete"
         /\ UNCHANGED <<client, buf, cur, res, batch, writesOf, nextOp, server, crashes>>
         /\ known' = IF cur["ui"].at = "temp" THEN [known EXCEPT ![cur["ui"].ent] = "gone"]
                                              ELSE known
         /\ dropped' = dropped \cup writesOf[cur["ui"].ent]
         /\ \/ /\ \E c \in snapshot :
                    /\ c \in Ops /\ c.type = "create" /\ c.ent = cur["ui"].ent
                    /\ Run("ui", <<Remove(c.id)>>, "cancel")
               /\ cancelled' = {cur["ui"].ent} /\ cur["ui"].at = "temp"
               /\ cur["ui"].ent \in Temps
            \/ /\ Run("ui", <<DropUpdates(cur["ui"]), Upsert(cur["ui"])>>, "idle")
               /\ UNCHANGED cancelled
<1>0. pc["ui"] = "queue" /\ cur["ui"] \in Ops /\ cur["ui"].type = "delete"
  BY DEF Typed, Locals, Jobbed, Actors, QueueDelete
<1>. DEFINE o == cur["ui"]
<1>1. /\ UNCHANGED <<client, buf, cur, res, batch, writesOf, nextOp, server, crashes>>
      /\ known' = IF o.at = "temp" THEN [known EXCEPT ![o.ent] = "gone"] ELSE known
      /\ dropped' = dropped \cup writesOf[o.ent]
  BY DEF QueueDelete
<1>2. CASE CreatesOf(o) # {}
  <2>. DEFINE c == First(CreatesOf(o))
  <2>1. c \in CreatesOf(o)
    BY <1>2, PendingIn, FirstOf
  <2>2. Run("ui", <<Remove(c.id)>>, "cancel") /\ cancelled' = {o.ent}
    BY <1>2 DEF QueueDelete
  <2>. HIDE DEF c
  <2>3. c \in snapshot /\ c \in Ops /\ c.type = "create" /\ c.ent = o.ent /\ c.at = o.at
    BY <2>1 DEF Typed, Data, CreatesOf, Same
  <2>4. c.at = "temp" /\ c.ent \in Temps
    BY <2>3, OpsFields
  <2>5. QED
    BY <1>0, <1>1, <2>2, <2>3, <2>4
<1>3. CASE CreatesOf(o) = {}
  BY <1>0, <1>1, <1>3 DEF QueueDelete
<1>4. QED
  BY <1>2, <1>3

LEMMA QueueDeleteTyped ==
  ASSUME Typed, QueueDelete
  PROVE  Typed'
<1>0. /\ "ui" \in Actors /\ pc["ui"] \notin Working /\ cur["ui"] \in Ops /\ cur["ui"] # NoOp
      /\ cur \in [Actors -> Ops \cup {NoOp}]
  BY QueueDeleteCases, OpsFields DEF Typed, Locals, Actors, Working
<1>1. cur' = cur /\ UNCHANGED <<res, buf>>
  BY DEF QueueDelete
<1>2. Data'
  <2>1. cur["ui"].ent \in Entities
    BY <1>0, OpsFields
  <2>2. known' \in [Entities -> {"none", "calling", "temp", "real", "gone"}]
    BY <2>1, QueueDeleteCases DEF Typed, Data
  <2>3. dropped' \subseteq Ids
    BY <2>1, QueueDeleteCases DEF Typed, Data
  <2>4. cancelled' \subseteq Temps
    BY QueueDeleteCases DEF Typed, Data
  <2>5. QED
    BY <2>2, <2>3, <2>4 DEF QueueDelete, Typed, Data, client, server
<1>3. CASE \E c \in snapshot : c \in Ops /\ Run("ui", <<Remove(c.id)>>, "cancel")
  <2>1. PICK c \in Ops : Run("ui", <<Remove(c.id)>>, "cancel")
    BY <1>3
  <2>2. <<Remove(c.id)>> \in Seq(Job) /\ <<Remove(c.id)>> # <<>> /\ "cancel" \in ActorSteps("ui")
    BY OpsFields, JobMade, OneCall DEF ActorSteps
  <2>3. QED
    BY <1>0, <1>1, <1>2, <2>1, <2>2, RunTyped
<1>4. CASE Run("ui", <<DropUpdates(cur["ui"]), Upsert(cur["ui"])>>, "idle")
  <2>2. /\ <<DropUpdates(cur["ui"]), Upsert(cur["ui"])>> \in Seq(Job)
        /\ <<DropUpdates(cur["ui"]), Upsert(cur["ui"])>> # <<>> /\ "idle" \in ActorSteps("ui")
    BY <1>0, JobMade, TwoCalls DEF ActorSteps
  <2>3. QED
    BY <1>0, <1>1, <1>2, <1>4, <2>2, RunTyped
<1>5. QED
  BY <1>3, <1>4, QueueDeleteCases

LEMMA UiCancelTyped ==
  ASSUME Typed, UiCancel
  PROVE  Typed'
<1>0. /\ "ui" \in Actors /\ pc["ui"] = "cancel" /\ pc["ui"] \notin Working
      /\ cur["ui"] # NoOp /\ cur \in [Actors -> Ops \cup {NoOp}]
  BY DEF UiCancel, Typed, Locals, Actors, Working, Jobbed
<1>1. CASE \E o \in Dependents :
          /\ Run("ui", <<Remove(o.id)>>, "cancel")
          /\ cancelled' = cancelled \cup {o.ent}
          /\ known' = [known EXCEPT ![o.ent] = "gone"]
          /\ dropped' = dropped \cup writesOf[o.ent]
          /\ UNCHANGED <<cur, res>>
  <2>1. PICK o \in Dependents :
          /\ Run("ui", <<Remove(o.id)>>, "cancel")
          /\ cancelled' = cancelled \cup {o.ent}
          /\ known' = [known EXCEPT ![o.ent] = "gone"]
          /\ dropped' = dropped \cup writesOf[o.ent]
          /\ UNCHANGED <<cur, res>>
    BY <1>1
  <2>2. o \in Ops /\ o.type = "create"
    BY DEF Dependents, Typed, Data
  <2>3. o.ent \in Temps /\ o.ent \in Entities
    BY <2>2, OpsFields
  <2>4. Data'
    BY <2>1, <2>3 DEF UiCancel, Typed, Data, client, server
  <2>5. <<Remove(o.id)>> \in Seq(Job) /\ <<Remove(o.id)>> # <<>> /\ "cancel" \in ActorSteps("ui")
    BY <2>2, OpsFields, JobMade, OneCall DEF ActorSteps
  <2>6. UNCHANGED buf
    BY DEF UiCancel
  <2>7. QED
    BY <1>0, <2>1, <2>4, <2>5, <2>6, RunTyped
<1>2. CASE Run("ui", <<Unblock>>, "idle") /\ UNCHANGED <<cur, res, known, dropped>> /\ cancelled' = {}
  <2>1. Data' /\ UNCHANGED buf
    BY <1>2 DEF UiCancel, Typed, Data, client, server
  <2>2. <<Unblock>> \in Seq(Job) /\ <<Unblock>> # <<>> /\ "idle" \in ActorSteps("ui")
    BY JobMade, OneCall DEF ActorSteps
  <2>3. QED
    BY <1>0, <1>2, <2>1, <2>2, RunTyped
<1>3. CASE Goto("ui", "idle") /\ UNCHANGED <<jobs, after, known, dropped>> /\ cancelled' = {}
  <2>1. Data' /\ UNCHANGED buf
    BY <1>3 DEF UiCancel, Typed, Data, client, server
  <2>2. Locals'
    BY <1>0, <1>3, GotoLocals DEF Typed
  <2>3. pc'["ui"] = "idle" /\ pc'["sync"] = pc["sync"]
    BY <1>3 DEF Goto, Typed, Locals, Actors
  <2>4. Buffers'
    BY <1>0, <2>1, <2>3 DEF Typed, Buffers, Actors
  <2>5. QED
    BY <2>1, <2>2, <2>4 DEF Typed
<1>4. QED
  BY <1>1, <1>2, <1>3 DEF UiCancel

LEMMA UiReturnTyped ==
  ASSUME Typed, UiReturn
  PROVE  Typed'
<1>0. pc["ui"] = "return" /\ cur["ui"] \in Ops /\ "ui" \in Actors /\ pc["ui"] \notin Working
  BY DEF Typed, Locals, Jobbed, Actors, UiReturn, Working
<1>1. cur["ui"].ent \in Entities /\ cur["ui"].body \subseteq Ids
  BY <1>0, OpsFields
<1>2. Data'
  BY <1>1 DEF UiReturn, Typed, Data, client, server
<1>3. Locals'
  BY <1>0, GotoLocals DEF Typed, UiReturn
<1>4. pc'["ui"] = "idle" /\ pc'["sync"] = pc["sync"] /\ buf' = buf
  BY DEF UiReturn, Goto, Typed, Locals, Actors
<1>5. Buffers'
  BY <1>0, <1>4 DEF Typed, Buffers, Actors
<1>6. QED
  BY <1>2, <1>3, <1>5 DEF Typed

LEMMA UiRefreshTyped ==
  ASSUME Typed, NEW e \in Temps, UiRefresh(e)
  PROVE  Typed'
<1>1. Data'
  BY DEF UiRefresh, Typed, Data, client, server, Entities
<1>2. UNCHANGED local
  BY DEF UiRefresh
<1>3. Locals' /\ Buffers'
  BY <1>2 DEF local, Typed, Locals, Buffers, Places, Jobbed
<1>4. QED
  BY <1>1, <1>3 DEF Typed

LEMMA UiRetryCases ==
  ASSUME Typed, NEW i \in Ids, UiRetry(i)
  PROVE  /\ pc["ui"] = "idle" /\ i \in conflicts /\ nextOp' = nextOp + 1 /\ nextOp <= MaxOps
         /\ UNCHANGED <<client, buf, cur, res, batch, known, writesOf, dropped,
                        cancelled, server, crashes>>
         /\ \/ /\ i \in IdsOf(snapshot)
               /\ Run("ui", <<DropConflict(i), SetStatus(i, "pending", "")>>, "idle")
            \/ /\ i \notin IdsOf(snapshot)
               /\ Run("ui", <<DropConflict(i)>>, "idle")
<1>1. CASE i \in IdsOf(snapshot)
  <2>1. Run("ui", <<DropConflict(i)>> \o <<SetStatus(i, "pending", "")>>, "idle")
    BY <1>1, Zenon DEF UiRetry
  <2>2. QED
    BY <1>1, <2>1, JoinedCalls DEF UiRetry
<1>2. CASE i \notin IdsOf(snapshot)
  <2>1. Run("ui", <<DropConflict(i)>> \o <<>>, "idle")
    BY <1>2, Zenon DEF UiRetry
  <2>2. QED
    BY <1>2, <2>1, JoinedCalls DEF UiRetry
<1>3. QED
  BY <1>1, <1>2

LEMMA UiRetryTyped ==
  ASSUME Typed, NEW i \in Ids, UiRetry(i)
  PROVE  Typed'
<1>0. /\ "ui" \in Actors /\ pc["ui"] \notin Working /\ cur \in [Actors -> Ops \cup {NoOp}]
      /\ cur' = cur /\ UNCHANGED <<res, buf>> /\ "idle" \in ActorSteps("ui")
  BY DEF Typed, Locals, Actors, Working, UiRetry, ActorSteps
<1>1. Data'
  <2>1. nextOp' = nextOp + 1 /\ nextOp <= MaxOps
    BY DEF UiRetry
  <2>2. nextOp' \in Nat /\ 1 <= nextOp' /\ nextOp' <= MaxOps + 1
    BY <2>1, BoundsAssumption DEF Typed, Data
  <2>3. QED
    BY <2>2 DEF UiRetry, Typed, Data, client, server
<1>2. /\ DropConflict(i) \in Job /\ SetStatus(i, "pending", "") \in Job
  BY JobMade DEF Statuses, Errors
<1>3. PICK js \in Seq(Job) : js # <<>> /\ Run("ui", js, "idle")
  BY <1>2, UiRetryCases, OneCall, TwoCalls
<1>4. QED
  BY <1>0, <1>1, <1>3, RunTyped

LEMMA UiDiscardCases ==
  ASSUME Typed, NEW i \in Ids, UiDiscard(i)
  PROVE  /\ pc["ui"] = "idle" /\ i \in conflicts
         /\ UNCHANGED <<client, buf, res, batch, writesOf, nextOp, server, crashes>>
         /\ \/ \E o \in snapshot :
                 /\ o \in Ops /\ o.id = i
                 /\ dropped' = dropped \cup o.body
                 /\ cur' = [cur EXCEPT !["ui"] = o]
                 /\ \/ /\ o.type = "create"
                       /\ Run("ui", <<DropConflict(i), Remove(i)>>, "cancel")
                       /\ cancelled' = {o.ent}
                       /\ known' = [known EXCEPT ![o.ent] = "gone"]
                    \/ /\ o.type # "create"
                       /\ Run("ui", <<DropConflict(i), Remove(i), Unblock>>, "idle")
                       /\ UNCHANGED <<cancelled, known>>
            \/ /\ i \notin IdsOf(snapshot)
               /\ Run("ui", <<DropConflict(i)>>, "idle")
               /\ UNCHANGED <<dropped, cur, cancelled, known>>
<1>0. /\ pc["ui"] = "idle" /\ i \in conflicts
      /\ UNCHANGED <<client, buf, res, batch, writesOf, nextOp, server, crashes>>
  BY DEF UiDiscard
<1>1. CASE i \in IdsOf(snapshot)
  <2>. DEFINE o == CHOOSE q \in snapshot : q.id = i
  <2>1. \E q \in snapshot : q.id = i
    BY <1>1 DEF IdsOf
  <2>2. o \in snapshot /\ o.id = i
    BY <2>1
  <2>3. /\ dropped' = dropped \cup o.body
        /\ cur' = [cur EXCEPT !["ui"] = o]
        /\ IF o.type = "create"
             THEN /\ Run("ui", <<DropConflict(i), Remove(i)>>, "cancel")
                  /\ cancelled' = {o.ent}
                  /\ known' = [known EXCEPT ![o.ent] = "gone"]
             ELSE /\ Run("ui", <<DropConflict(i), Remove(i), Unblock>>, "idle")
                  /\ UNCHANGED <<cancelled, known>>
    BY <1>1, Zenon DEF UiDiscard
  <2>. HIDE DEF o
  <2>4. o \in Ops
    BY <2>2 DEF Typed, Data
  <2>5. QED
    BY <1>0, <2>2, <2>3, <2>4
<1>2. CASE i \notin IdsOf(snapshot)
  <2>1. /\ Run("ui", <<DropConflict(i)>>, "idle")
        /\ UNCHANGED <<dropped, cur, cancelled, known>>
    BY <1>2, Zenon DEF UiDiscard
  <2>2. QED
    BY <1>0, <1>2, <2>1
<1>3. QED
  BY <1>1, <1>2

LEMMA UiDiscardTyped ==
  ASSUME Typed, NEW i \in Ids, UiDiscard(i)
  PROVE  Typed'
<1>0. /\ "ui" \in Actors /\ pc["ui"] \notin Working /\ cur \in [Actors -> Ops \cup {NoOp}]
      /\ UNCHANGED <<res, buf>> /\ "idle" \in ActorSteps("ui") /\ "cancel" \in ActorSteps("ui")
  BY DEF Typed, Locals, Actors, Working, UiDiscard, ActorSteps
<1>1. /\ DropConflict(i) \in Job /\ Remove(i) \in Job /\ Unblock \in Job
  BY JobMade
<1>2. ASSUME NEW o \in snapshot,
             /\ o \in Ops /\ o.id = i
             /\ dropped' = dropped \cup o.body
             /\ cur' = [cur EXCEPT !["ui"] = o],
             \/ /\ o.type = "create"
                /\ Run("ui", <<DropConflict(i), Remove(i)>>, "cancel")
                /\ cancelled' = {o.ent}
                /\ known' = [known EXCEPT ![o.ent] = "gone"]
             \/ /\ o.type # "create"
                /\ Run("ui", <<DropConflict(i), Remove(i), Unblock>>, "idle")
                /\ UNCHANGED <<cancelled, known>>
      PROVE  Typed'
  <2>1. /\ o # NoOp /\ o.body \subseteq Ids /\ o.ent \in Entities
        /\ o.type = "create" => o.ent \in Temps
    BY <1>2, OpsFields
  <2>2. Data'
    BY <1>2, <2>1 DEF UiDiscard, Typed, Data, client, server
  <2>3. /\ cur' \in [Actors -> Ops \cup {NoOp}] /\ cur'["ui"] # NoOp
        /\ \A b \in Actors \ {"ui"} : cur'[b] = cur[b]
    BY <1>0, <1>2, <2>1
  <2>4. \E js \in Seq(Job), p \in ActorSteps("ui") : js # <<>> /\ Run("ui", js, p)
    BY <1>0, <1>1, <1>2, TwoCalls, ThreeCalls
  <2>5. QED
    BY <1>0, <2>2, <2>3, <2>4, RunTyped
<1>3. ASSUME Run("ui", <<DropConflict(i)>>, "idle"), UNCHANGED <<dropped, cur, cancelled, known>>
      PROVE  Typed'
  <2>1. Data'
    BY <1>3 DEF UiDiscard, Typed, Data, client, server
  <2>2. <<DropConflict(i)>> \in Seq(Job) /\ <<DropConflict(i)>> # <<>>
    BY <1>1, OneCall
  <2>3. QED
    BY <1>0, <1>3, <2>1, <2>2, RunTyped
<1>4. QED
  BY <1>2, <1>3, UiDiscardCases

LEMMA SyncStartTyped ==
  ASSUME Typed, SyncStart
  PROVE  Typed'
<1>0. /\ "sync" \in Actors /\ pc["sync"] \notin Working /\ cur \in [Actors -> Ops \cup {NoOp}]
      /\ cur' = cur /\ UNCHANGED <<res, buf>> /\ "list" \in ActorSteps("sync")
  BY DEF Typed, Locals, Actors, Working, SyncStart, ActorSteps
<1>1. Data'
  BY DEF SyncStart, Typed, Data, client, screens, server
<1>2. <<Unblock>> \in Seq(Job) /\ <<Unblock>> # <<>>
  BY JobMade, OneCall
<1>3. Run("sync", <<Unblock>>, "list")
  BY DEF SyncStart
<1>4. QED
  BY <1>0, <1>1, <1>2, <1>3, RunTyped

\* The listed operations are those of the snapshot that are ready.
LEMMA SyncListEffect ==
  ASSUME Typed, SyncList
  PROVE  /\ pc["sync"] = "list" /\ pc'["sync"] = "next" /\ pc'["ui"] = pc["ui"]
         /\ pc' \in [Actors -> PCs]
         /\ UNCHANGED <<client, jobs, after, buf, cur, res, screens, server, crashes>>
         /\ \A o \in batch' : /\ o \in Ops /\ o.status = "pending"
                              /\ \E p \in snapshot : p \in Ops /\ o = Normalize(p)
<1>1. /\ pc["sync"] = "list" /\ pc'["sync"] = "next" /\ pc'["ui"] = pc["ui"]
      /\ pc' \in [Actors -> PCs]
      /\ UNCHANGED <<client, jobs, after, buf, cur, res, screens, server, crashes>>
  BY DEF SyncList, Typed, Locals, Actors, PCs
<1>2. ASSUME NEW o \in batch'
      PROVE  /\ o \in Ops /\ o.status = "pending"
             /\ \E p \in snapshot : p \in Ops /\ o = Normalize(p)
  <2>1. o \in Ready({Normalize(p) : p \in snapshot})
    BY <1>2, Zenon DEF SyncList
  <2>2. PICK p \in snapshot : o = Normalize(p) /\ o.status = "pending"
    BY <2>1 DEF Ready
  <2>3. p \in Ops
    BY DEF Typed, Data
  <2>4. QED
    BY <2>2, <2>3, Normalized
<1>3. QED
  BY <1>1, <1>2

LEMMA SyncListTyped ==
  ASSUME Typed, SyncList
  PROVE  Typed'
<1>0. /\ pc["sync"] = "list" /\ pc'["sync"] = "next" /\ pc'["ui"] = pc["ui"]
      /\ pc' \in [Actors -> PCs]
      /\ UNCHANGED <<client, jobs, after, buf, cur, res, screens, server, crashes>>
  BY SyncListEffect
<1>1. batch' \subseteq Ops
  BY SyncListEffect
<1>2. Data'
  BY <1>0, <1>1 DEF Typed, Data, client, screens, server
<1>3. Places'
  BY <1>0 DEF Typed, Locals, Places, SyncSteps
<1>4. ASSUME NEW b \in Actors PROVE Jobbed(b)'
  <2>1. Jobbed(b)
    BY DEF Typed, Locals
  <2>2. QED
    BY <1>0, <2>1 DEF Jobbed, Actors, Working
<1>5. Locals'
  BY <1>0, <1>3, <1>4 DEF Typed, Locals
<1>6. Buffers'
  BY <1>0 DEF Typed, Buffers, Actors
<1>7. QED
  BY <1>2, <1>5, <1>6 DEF Typed

LEMMA SyncNextTyped ==
  ASSUME Typed, SyncNext
  PROVE  Typed'
<1>0. /\ "sync" \in Actors /\ pc["sync"] \notin Working /\ cur \in [Actors -> Ops \cup {NoOp}]
      /\ UNCHANGED <<res, buf>> /\ "idle" \in ActorSteps("sync") /\ "send" \in ActorSteps("sync")
  BY DEF Typed, Locals, Actors, Working, SyncNext, ActorSteps
<1>1. CASE Run("sync", <<Unblock>>, "idle") /\ UNCHANGED <<cur, batch>>
  <2>1. Data'
    BY <1>1 DEF SyncNext, Typed, Data, client, screens, server
  <2>2. <<Unblock>> \in Seq(Job) /\ <<Unblock>> # <<>>
    BY JobMade, OneCall
  <2>3. QED
    BY <1>0, <1>1, <2>1, <2>2, RunTyped
<1>2. CASE \E o \in batch :
              /\ \A p \in batch \ {o} : Before(o, p)
              /\ Run("sync", <<SetStatus(o.id, "syncing", "")>>, "send")
              /\ cur' = [cur EXCEPT !["sync"] = o]
              /\ batch' = batch \ {o}
  <2>1. PICK o \in batch :
              /\ Run("sync", <<SetStatus(o.id, "syncing", "")>>, "send")
              /\ cur' = [cur EXCEPT !["sync"] = o]
              /\ batch' = batch \ {o}
    BY <1>2
  <2>2. o \in Ops
    BY DEF Typed, Data
  <2>3. o # NoOp /\ o.id \in Ids
    BY <2>2, OpsFields
  <2>4. Data'
    BY <2>1 DEF SyncNext, Typed, Data, client, screens, server
  <2>5. SetStatus(o.id, "syncing", "") \in Job
    BY <2>3, JobMade DEF Statuses, Errors
  <2>6. <<SetStatus(o.id, "syncing", "")>> \in Seq(Job) /\ <<SetStatus(o.id, "syncing", "")>> # <<>>
    BY <2>5, OneCall
  <2>7. /\ cur' \in [Actors -> Ops \cup {NoOp}] /\ cur'["sync"] # NoOp
        /\ \A b \in Actors \ {"sync"} : cur'[b] = cur[b]
    BY <1>0, <2>1, <2>2, <2>3
  <2>8. QED
    BY <1>0, <2>1, <2>4, <2>6, <2>7, RunTyped
<1>3. QED
  BY <1>1, <1>2 DEF SyncNext

Applied(i) == SetStatus(i, "applied", "")

\* What _replay_operation does with the answer.
LEMMA SyncReceiveCases ==
  ASSUME Typed, SyncReceive
  PROVE  /\ pc["sync"] = "receive" /\ cur["sync"] \in Ops
         /\ UNCHANGED <<snapshot, journal, conflicts, buf, cur, res, screens, server,
                        crashes>>
         /\ LET i == cur["sync"].id IN
            \/ /\ res["sync"] = "ok" /\ cur["sync"].type = "create"
               /\ idmap' = idmap \cup {cur["sync"].ent}
               /\ Run("sync", <<Applied(i), DropConflict(i), Unblock>>, "next")
               /\ UNCHANGED batch
            \/ /\ res["sync"] = "ok" /\ cur["sync"].type # "create"
               /\ Run("sync", <<Applied(i), DropConflict(i)>>, "next")
               /\ UNCHANGED <<idmap, batch>>
            \/ /\ res["sync"] = "retryable"
               /\ Run("sync", <<NoteAttempt(i), SetStatus(i, "pending", "net")>>, "next")
               /\ batch' = {}
               /\ UNCHANGED idmap
            \/ /\ res["sync"] = "auth"
               /\ Run("sync", <<SetStatus(i, "blocked", "auth_required")>>, "next")
               /\ UNCHANGED <<idmap, batch>>
            \/ /\ res["sync"] = "refused"
               /\ Run("sync", <<SetStatus(i, "needs_review", "rejected"),
                                AddConflict(i)>>, "next")
               /\ UNCHANGED <<idmap, batch>>
<1>1. pc["sync"] = "receive" /\ cur["sync"] \in Ops
  BY DEF Typed, Locals, Jobbed, Actors, SyncReceive
<1>2. UNCHANGED <<snapshot, journal, conflicts, buf, cur, res, screens, server, crashes>>
  BY DEF SyncReceive
<1>. DEFINE i == cur["sync"].id
<1>3. <<Applied(i), DropConflict(i)>> \o <<Unblock>> = <<Applied(i), DropConflict(i), Unblock>>
  BY JoinedCalls
<1>4. QED
  BY <1>1, <1>2, <1>3, Zenon DEF SyncReceive, Applied, RetryLater, Review

LEMMA SyncReceiveTyped ==
  ASSUME Typed, SyncReceive
  PROVE  Typed'
<1>0. /\ "sync" \in Actors /\ pc["sync"] \notin Working /\ cur \in [Actors -> Ops \cup {NoOp}]
      /\ UNCHANGED <<res, buf, cur>> /\ "next" \in ActorSteps("sync")
      /\ cur["sync"] \in Ops
  BY DEF Typed, Locals, Actors, Working, SyncReceive, ActorSteps, Jobbed
<1>1. /\ cur["sync"].id \in Ids
      /\ cur["sync"].type = "create" => cur["sync"].ent \in Temps
  BY <1>0, OpsFields
<1>2. idmap' \subseteq Temps /\ batch' \subseteq Ops
  BY <1>1, SyncReceiveCases DEF Typed, Data
<1>3. Data'
  BY <1>2 DEF SyncReceive, Typed, Data, screens, server
<1>. DEFINE i == cur["sync"].id
<1>4. /\ Applied(i) \in Job /\ DropConflict(i) \in Job /\ Unblock \in Job
      /\ NoteAttempt(i) \in Job /\ SetStatus(i, "pending", "net") \in Job
      /\ SetStatus(i, "blocked", "auth_required") \in Job
      /\ SetStatus(i, "needs_review", "rejected") \in Job /\ AddConflict(i) \in Job
  BY <1>1, JobMade DEF Applied, Statuses, Errors
<1>5. \E js \in Seq(Job) : js # <<>> /\ Run("sync", js, "next")
  BY <1>4, SyncReceiveCases, OneCall, TwoCalls, ThreeCalls
<1>6. QED
  BY <1>0, <1>3, <1>5, RunTyped

LEMMA CrashTyped ==
  ASSUME Typed, Crash
  PROVE  Typed'
<1>1. Data'
  BY DEF Crash, Typed, Data, client, server
<1>2. Buffers'
  BY DEF Crash, Buffers
<1>3. Places'
  BY DEF Crash, Places, UiSteps, SyncSteps, Actors
<1>4. ASSUME NEW a \in Actors PROVE Jobbed(a)'
  BY DEF Crash, Jobbed, Working
<1>5. Locals'
  <2>1. jobs' \in [Actors -> Seq(Job)]
    BY DEF Crash
  <2>2. QED
    BY <1>3, <1>4, <2>1 DEF Crash, Locals, PCs
<1>6. QED
  BY <1>1, <1>2, <1>5 DEF Typed

LEMMA InitTyped == Init => Typed
<1>. SUFFICES ASSUME Init PROVE Typed
  OBVIOUS
<1>1. Data
  BY BoundsAssumption, EntitiesAssumption DEF Init, Data, Entities
<1>2. Buffers
  BY DEF Init, Buffers
<1>3. Places
  BY DEF Init, Places, UiSteps, SyncSteps, Actors
<1>4. ASSUME NEW a \in Actors PROVE Jobbed(a)
  BY DEF Init, Jobbed, Working
<1>5. Locals
  <2>1. jobs \in [Actors -> Seq(Job)]
    BY DEF Init
  <2>2. QED
    BY <1>3, <1>4, <2>1 DEF Init, Locals, PCs
<1>6. QED
  BY <1>1, <1>2, <1>5 DEF Typed

\* A step, action by action.
Stepped ==
  \/ \E a \in Actors : \/ Load(a) \/ Store(a) \/ LogEvents(a)
                       \/ LoadConflicts(a) \/ WriteConflicts(a)
  \/ \E e \in Entities, type \in {"create", "update", "delete"},
        at \in {"temp", "real"} : Begins(e, type, at)
  \/ \E a \in Actors : /\ (a = "ui" /\ pc[a] = "direct") \/ (a = "sync" /\ pc[a] = "send")
                       /\ Exchange(a, Outcomes)
  \/ UiReceive \/ QueueCreate \/ QueueUpdate \/ QueueDelete \/ UiCancel \/ UiReturn
  \/ \E e \in Temps : UiRefresh(e)
  \/ \E i \in Ids : UiRetry(i) \/ UiDiscard(i)
  \/ SyncStart \/ SyncList \/ SyncNext \/ SyncReceive \/ Crash

LEMMA NextCases == Next => Stepped
<1>. SUFFICES ASSUME Next PROVE Stepped
  OBVIOUS
<1>1. CASE UiBegins
  <2>1. CASE \/ \E e \in Temps : UiCreate(e)
             \/ \E e \in Entities : UiUpdate(e) \/ UiDelete(e)
    BY <2>1, BeginCases, Zenon DEF Stepped
  <2>2. QED
    BY <1>1, <2>1, Zenon DEF UiBegins, Stepped
<1>2. CASE UiContinues
  <2>1. "ui" \in Actors
    BY DEF Actors
  <2>2. QED
    BY <1>2, <2>1, Zenon DEF UiContinues, JournalStep, UiDirect, Stepped
<1>3. CASE SyncStep
  <2>1. "sync" \in Actors
    BY DEF Actors
  <2>2. QED
    BY <1>3, <2>1, Zenon DEF SyncStep, JournalStep, SyncSend, Stepped
<1>4. CASE Crash
  BY <1>4, Zenon DEF Stepped
<1>5. QED
  BY <1>1, <1>2, <1>3, <1>4 DEF Next

LEMMA TypedStep == Typed /\ [Next]_vars => Typed'
<1>. SUFFICES ASSUME Typed, [Next]_vars PROVE Typed'
  OBVIOUS
<1>1. CASE UNCHANGED vars
  BY <1>1 DEF vars, client, local, screens, server, Typed, Data, Locals, Buffers,
              Places, Jobbed
<1>2. CASE Next
  <2>1. Stepped
    BY <1>2, NextCases
  <2>2. ASSUME NEW a \in Actors,
               \/ Load(a) \/ Store(a) \/ LogEvents(a)
               \/ LoadConflicts(a) \/ WriteConflicts(a)
        PROVE  Typed'
    BY <2>2, LoadTyped, StoreTyped, LogEventsTyped, LoadConflictsTyped,
       WriteConflictsTyped
  <2>3. ASSUME NEW a \in Actors,
               (a = "ui" /\ pc[a] = "direct") \/ (a = "sync" /\ pc[a] = "send"),
               Exchange(a, Outcomes)
        PROVE  Typed'
    BY <2>3, ExchangeTyped
  <2>4. ASSUME NEW i \in Ids, UiRetry(i) \/ UiDiscard(i)
        PROVE  Typed'
    BY <2>4, UiRetryTyped, UiDiscardTyped
  <2>5. QED
    BY <2>1, <2>2, <2>3, <2>4, BeginTyped, UiReceiveTyped, QueueCreateTyped,
       QueueUpdateTyped, QueueDeleteTyped, UiCancelTyped, UiReturnTyped,
       UiRefreshTyped, SyncStartTyped, SyncListTyped, SyncNextTyped,
       SyncReceiveTyped, CrashTyped DEF Stepped
<1>3. QED
  BY <1>1, <1>2

\* Every step keeps the history of the overlaps.
LEMMA StepRecorded ==
  ASSUME Stepped
  PROVE  Recorded
<1>1. ASSUME NEW a \in Actors,
             \/ Load(a) \/ Store(a) \/ LogEvents(a)
             \/ LoadConflicts(a) \/ WriteConflicts(a)
      PROVE  Recorded
  BY <1>1, Zenon DEF Load, Store, LogEvents, LoadConflicts, WriteConflicts
<1>2. ASSUME NEW e, NEW type, NEW at, Begins(e, type, at) PROVE Recorded
  BY <1>2, Zenon DEF Begins, Begin
<1>3. ASSUME NEW a \in Actors, Exchange(a, Outcomes) PROVE Recorded
  BY <1>3, Zenon DEF Exchange
<1>4. CASE \/ UiReceive \/ QueueCreate \/ QueueUpdate \/ QueueDelete \/ UiCancel
           \/ UiReturn \/ \E e \in Temps : UiRefresh(e)
           \/ \E i \in Ids : UiRetry(i) \/ UiDiscard(i)
  BY <1>4, Zenon DEF UiReceive, QueueCreate, QueueUpdate, QueueDelete, UiCancel, UiReturn,
     UiRefresh, UiRetry, UiDiscard
<1>5. CASE SyncStart \/ SyncList \/ SyncNext \/ SyncReceive \/ Crash
  BY <1>5, Zenon DEF SyncStart, SyncList, SyncNext, SyncReceive, Crash
<1>6. QED
  BY <1>1, <1>2, <1>3, <1>4, <1>5, Zenon DEF Stepped

Recording == overlaps \in Nat /\ raced \subseteq Ids

LEMMA RecordingStep == Typed' /\ Recording /\ [Next]_vars => Recording'
<1>. SUFFICES ASSUME Typed', Recording, [Next]_vars PROVE Recording'
  OBVIOUS
<1>1. CASE UNCHANGED vars
  BY <1>1 DEF vars, history, Recording
<1>2. CASE Next
  <2>1. Recorded
    BY <1>2, NextCases, StepRecorded
  <2>2. cur'["ui"] = NoOp \/ cur'["ui"].body \subseteq Ids
    BY DEF Typed, Locals, Actors, Ops, Op
  <2>3. Open' \subseteq Ids
    BY <2>2 DEF Open
  <2>4. QED
    BY <2>1, <2>3 DEF Recorded, Recording
<1>3. QED
  BY <1>1, <1>2

LEMMA AlwaysTyped == Spec => [](Typed /\ Recording)
<1>1. Init => Typed /\ Recording
  BY InitTyped DEF Init, Recording
<1>2. (Typed /\ Recording) /\ [Next]_vars => (Typed /\ Recording)'
  BY TypedStep, RecordingStep
<1>3. QED
  BY <1>1, <1>2, PTL DEF Spec

LEMMA TypedTypeOK == Typed /\ Recording => TypeOK
<1>1. Ops \subseteq Op
  BY DEF Ops
<1>2. QED
  BY <1>1 DEF Typed, Data, Locals, Buffers, TypeOK, Recording

\* The variables keep their types, on both threads and across crashes: the
\* journal, the lists read from it and every operation in hand hold whole
\* operations, and a thread that reads its operation has one.
THEOREM JournalTyped == Spec => []TypeOK
  BY AlwaysTyped, TypedTypeOK, PTL

-----------------------------------------------------------------------------
(* The operations in play: held by the client, by a thread or by a call.   *)

Read(a) == IF pc[a] \in {"store", "append"} THEN buf[a] ELSE {}
Queued(a) == {j.op : j \in {c \in CallsIn(jobs[a]) : c.kind = "upsert"}}
InHand(a) == {cur[a]} \ {NoOp}
HeldOps == snapshot \cup batch \cup Read("ui") \cup Read("sync")
             \cup Queued("ui") \cup Queued("sync") \cup InHand("sync")
PlayOps == HeldOps \cup InHand("ui")

\* Ids whose status a call, or a Retry of the user, may set.
Named(a) ==
  {j.id : j \in {c \in CallsIn(jobs[a]) :
                   c.kind \in {"status", "note", "conflict"}}}
  \cup (IF pc[a] = "write_conflicts" THEN buf[a] ELSE {})
NamedIds == conflicts \cup Named("ui") \cup Named("sync")
              \cup {o.id : o \in InHand("sync")}

\* Ids are given out in order.
Issued == /\ \A o \in PlayOps : o.id < nextOp
          /\ \A i \in NamedIds : i < nextOp

\* An id stands for one operation, however many copies of it there are.
IdsAgree == \A o, p \in PlayOps :
  o.id = p.id => o.type = p.type /\ o.ent = p.ent

\* A write on its way to the journal is not yet there.
NewId == pc["ui"] \in {"direct", "receive", "queue"} =>
           /\ \A o \in HeldOps : o.id # cur["ui"].id
           /\ cur["ui"].status = "pending" /\ cur["ui"].err = ""

\* Only a block without an error keeps a create from being sent.
Waits(o) == ParentResolved(o) \/ (o.status = "blocked" /\ o.err = "")
Waiting == /\ \A o \in HeldOps : Waits(o)
           /\ \A o \in batch : o.status = "pending"

\* An id that has been sent, or reported, waits for no parent.
Cleared == \A i \in NamedIds : \A o \in PlayOps :
             o.id = i => ParentResolved(o)

PlayInv == Issued /\ IdsAgree /\ NewId /\ Waiting /\ Cleared

LEMMA PlayTyped ==
  ASSUME Typed
  PROVE  /\ PlayOps \subseteq Ops /\ HeldOps \subseteq PlayOps
         /\ snapshot \subseteq HeldOps /\ batch \subseteq HeldOps
         /\ NamedIds \subseteq Ids
         /\ \A a \in Actors : CallsIn(jobs[a]) \subseteq Job
<1>1. \A a \in Actors : CallsIn(jobs[a]) \subseteq Job
  BY CallsTyped DEF Typed, Locals
<1>2. \A a \in Actors : Queued(a) \subseteq Ops
  BY <1>1, JobFields DEF Queued
<1>3. \A a \in Actors : Read(a) \subseteq Ops
  BY DEF Read, Typed, Buffers
<1>4. \A a \in Actors : InHand(a) \subseteq Ops
  BY DEF InHand, Typed, Locals
<1>5. HeldOps \subseteq Ops
  BY <1>2, <1>3, <1>4 DEF HeldOps, Actors, Typed, Data
<1>6. PlayOps \subseteq Ops
  BY <1>4, <1>5 DEF PlayOps, Actors
<1>7. \A a \in Actors : Named(a) \subseteq Ids
  <2>1. ASSUME NEW a \in Actors, NEW j \in CallsIn(jobs[a]),
               j.kind \in {"status", "note", "conflict"}
        PROVE  j.id \in Ids
    BY <1>1, <2>1, JobFields
  <2>2. QED
    BY <2>1 DEF Named, Typed, Buffers
<1>8. \A o \in InHand("sync") : o.id \in Ids
  BY <1>4, OpsFields DEF Actors
<1>9. NamedIds \subseteq Ids
  BY <1>7, <1>8 DEF NamedIds, Actors, Typed, Data
<1>10. QED
  BY <1>1, <1>6, <1>9 DEF HeldOps, PlayOps

\* o is a later copy of p.
Kin(o, p) == /\ o.id = p.id /\ o.type = p.type /\ o.ent = p.ent
             /\ p.body \subseteq o.body
             /\ \A x \in o.body : x \in p.body \/ (/\ pc["ui"] = "queue"
                                                  /\ cur["ui"].ent = o.ent
                                                  /\ x \in cur["ui"].body)
Stems(o, p) == /\ Kin(o, p)
               /\ \/ o.status = p.status /\ o.err = p.err
                  \/ ParentResolved(p)
                  \/ p.id \in NamedIds

\* What every step but the beginning of a write does to the operations.
HeldFrom ==
  \A o \in HeldOps' :
    \/ \E p \in HeldOps : Stems(o, p)
    \/ /\ pc["ui"] = "queue" /\ pc'["ui"] = "load"
       /\ Kin(o, cur["ui"]) /\ Waits(o)
HandFrom ==
  cur'["ui"] # NoOp => cur'["ui"] = cur["ui"] \/ cur'["ui"] \in snapshot
NamedFrom ==
  \A i \in NamedIds' : i \in NamedIds \/ \E p \in HeldOps : p.id = i /\ ParentResolved(p)
Stays ==
  pc'["ui"] \in {"direct", "receive", "queue"} =>
    pc["ui"] \in {"direct", "receive", "queue"} /\ cur'["ui"] = cur["ui"]
Grows == idmap \subseteq idmap' /\ nextOp <= nextOp'
BatchReady == \A o \in batch' : o.status = "pending"
Effect == HeldFrom /\ HandFrom /\ NamedFrom /\ Stays /\ Grows /\ BatchReady

LEMMA SelfStems == \A o : Kin(o, o) /\ Stems(o, o)
  BY DEF Stems, Kin

LEMMA HandInPlay ==
  ASSUME Typed, NEW a \in Actors, cur[a] # NoOp
  PROVE  cur[a] \in PlayOps /\ (a = "sync" => cur[a] \in HeldOps /\ cur[a].id \in NamedIds)
  BY DEF PlayOps, HeldOps, InHand, NamedIds, Actors

LEMMA PlayFrom ==
  ASSUME Typed, Effect, NEW o \in PlayOps'
  PROVE  \E p \in PlayOps : Kin(o, p)
<1>1. CASE o \in HeldOps'
  <2>1. CASE \E p \in HeldOps : Stems(o, p)
    BY <2>1 DEF PlayOps, Stems
  <2>2. CASE pc["ui"] = "queue" /\ Kin(o, cur["ui"])
    <3>1. cur["ui"] # NoOp
      BY <2>2 DEF Typed, Locals, Jobbed, Actors
    <3>2. cur["ui"] \in PlayOps
      BY <3>1 DEF PlayOps, InHand
    <3>3. QED
      BY <2>2, <3>2
  <2>3. QED
    BY <1>1, <2>1, <2>2 DEF Effect, HeldFrom
<1>2. CASE o \in InHand("ui")'
  <2>1. o = cur'["ui"] /\ o # NoOp
    BY <1>2 DEF InHand
  <2>2. o = cur["ui"] \/ o \in snapshot
    BY <2>1 DEF Effect, HandFrom
  <2>3. o \in PlayOps
    BY <2>1, <2>2 DEF PlayOps, HeldOps, InHand
  <2>4. QED
    BY <2>3, SelfStems
<1>3. QED
  BY <1>1, <1>2 DEF PlayOps

LEMMA KinResolved ==
  ASSUME NEW o, NEW p, Kin(o, p), ParentResolved(p), idmap \subseteq idmap'
  PROVE  ParentResolved(o) /\ ParentResolved(o)'
  BY DEF Kin, ParentResolved

\* The operations in play stay what they are.
LEMMA PlayKept ==
  ASSUME Typed, Typed', PlayInv, Effect
  PROVE  PlayInv'
<1>1. ASSUME NEW o \in PlayOps' PROVE \E p \in PlayOps : Kin(o, p)
  BY PlayFrom
<1>2. Issued'
  <2>1. ASSUME NEW o \in PlayOps' PROVE o.id < nextOp'
    <3>1. PICK p \in PlayOps : Kin(o, p)
      BY <1>1
    <3>2. p.id < nextOp /\ o.id = p.id /\ p.id \in Ids
      BY <3>1, PlayTyped, OpsFields DEF PlayInv, Issued, Kin
    <3>3. QED
      BY <3>2, BoundsAssumption DEF Effect, Grows, Typed, Data, Ids
  <2>2. ASSUME NEW i \in NamedIds' PROVE i < nextOp'
    <3>1. i \in NamedIds \/ \E p \in HeldOps : p.id = i
      BY DEF Effect, NamedFrom
    <3>2. i < nextOp
      BY <3>1 DEF PlayInv, Issued, PlayOps
    <3>3. i \in Ids
      BY <3>1, PlayTyped, OpsFields
    <3>4. QED
      BY <3>2, <3>3, BoundsAssumption DEF Effect, Grows, Typed, Data, Ids
  <2>3. QED
    BY <2>1, <2>2 DEF Issued
<1>3. IdsAgree'
  <2>1. SUFFICES ASSUME NEW o \in PlayOps', NEW p \in PlayOps', o.id = p.id
                 PROVE  o.type = p.type /\ o.ent = p.ent
    BY DEF IdsAgree
  <2>2. PICK q \in PlayOps : Kin(o, q)
    BY <1>1
  <2>3. PICK r \in PlayOps : Kin(p, r)
    BY <1>1
  <2>4. q.id = r.id
    BY <2>1, <2>2, <2>3 DEF Kin
  <2>5. QED
    BY <2>2, <2>3, <2>4 DEF Kin, PlayInv, IdsAgree
<1>4. NewId'
  <2>1. SUFFICES ASSUME pc'["ui"] \in {"direct", "receive", "queue"}
                 PROVE  /\ \A o \in HeldOps' : o.id # cur'["ui"].id
                        /\ cur'["ui"].status = "pending" /\ cur'["ui"].err = ""
    BY DEF NewId
  <2>2. pc["ui"] \in {"direct", "receive", "queue"} /\ cur'["ui"] = cur["ui"]
    BY <2>1 DEF Effect, Stays
  <2>3. ASSUME NEW o \in HeldOps' PROVE o.id # cur["ui"].id
    <3>1. \E p \in HeldOps : Stems(o, p)
      BY <2>1 DEF Effect, HeldFrom
    <3>2. QED
      BY <2>2, <3>1 DEF Stems, Kin, PlayInv, NewId
  <2>4. QED
    BY <2>2, <2>3 DEF PlayInv, NewId
<1>5. Waiting'
  <2>1. ASSUME NEW o \in HeldOps' PROVE Waits(o)'
    <3>1. CASE \E p \in HeldOps : Stems(o, p)
      <4>1. PICK p \in HeldOps : Stems(o, p)
        BY <3>1
      <4>2. Waits(p)
        BY DEF PlayInv, Waiting
      <4>3. p.id \in NamedIds => ParentResolved(p)
        BY DEF PlayInv, Cleared, PlayOps
      <4>4. ParentResolved(p) \/ (o.status = "blocked" /\ o.err = "")
        BY <4>1, <4>2, <4>3 DEF Stems, Waits
      <4>5. QED
        BY <4>1, <4>4, KinResolved DEF Stems, Waits, Effect, Grows
    <3>2. CASE Waits(o)
      BY <3>2 DEF Waits, ParentResolved, Effect, Grows
    <3>3. QED
      BY <3>1, <3>2 DEF Effect, HeldFrom
  <2>2. QED
    BY <2>1 DEF Waiting, Effect, BatchReady
<1>6. Cleared'
  <2>1. SUFFICES ASSUME NEW i \in NamedIds', NEW o \in PlayOps', o.id = i
                 PROVE  ParentResolved(o)'
    BY DEF Cleared
  <2>2. PICK q \in PlayOps : Kin(o, q)
    BY <1>1
  <2>3. q.id = i
    BY <2>1, <2>2 DEF Kin
  <2>4. ParentResolved(q)
    <3>1. CASE i \in NamedIds
      BY <2>3, <3>1 DEF PlayInv, Cleared
    <3>2. CASE \E p \in HeldOps : p.id = i /\ ParentResolved(p)
      <4>1. PICK p \in HeldOps : p.id = i /\ ParentResolved(p)
        BY <3>2
      <4>2. q.type = p.type /\ q.ent = p.ent
        BY <2>3, <4>1 DEF PlayInv, IdsAgree, PlayOps
      <4>3. QED
        BY <4>1, <4>2 DEF ParentResolved
    <3>3. QED
      BY <3>1, <3>2 DEF Effect, NamedFrom
  <2>5. QED
    BY <2>2, <2>4, KinResolved DEF Effect, Grows
<1>7. QED
  BY <1>2, <1>3, <1>4, <1>5, <1>6 DEF PlayInv

-----------------------------------------------------------------------------
(* The effect of each action on the operations in play.                    *)

UpsertsIn(s) == {j.op : j \in {c \in CallsIn(s) : c.kind = "upsert"}}
NamesIn(s) == {j.id : j \in {c \in CallsIn(s) : c.kind \in {"status", "note", "conflict"}}}

LEMMA SingleCall ==
  ASSUME NEW x
  PROVE  /\ UpsertsIn(<<x>>) = IF x.kind = "upsert" THEN {x.op} ELSE {}
         /\ NamesIn(<<x>>) = IF x.kind \in {"status", "note", "conflict"} THEN {x.id} ELSE {}
<1>. DEFINE S == CallsIn(<<x>>)
<1>1. S = {x}
  BY DEF CallsIn
<1>. HIDE DEF S
<1>2. /\ UpsertsIn(<<x>>) = {j.op : j \in {c \in S : c.kind = "upsert"}}
      /\ NamesIn(<<x>>) = {j.id : j \in {c \in S : c.kind \in {"status", "note", "conflict"}}}
  BY DEF UpsertsIn, NamesIn, S
<1>3. QED
  BY <1>1, <1>2

LEMMA SingleCalls ==
  /\ \A r : UpsertsIn(<<Upsert(r)>>) = {r} /\ NamesIn(<<Upsert(r)>>) = {}
  /\ \A i : UpsertsIn(<<AddConflict(i)>>) = {} /\ NamesIn(<<AddConflict(i)>>) = {i}
  /\ \A i : UpsertsIn(<<Remove(i)>>) = {} /\ NamesIn(<<Remove(i)>>) = {}
  /\ \A i : UpsertsIn(<<DropConflict(i)>>) = {} /\ NamesIn(<<DropConflict(i)>>) = {}
  /\ \A i, s, x : /\ UpsertsIn(<<SetStatus(i, s, x)>>) = {}
                  /\ NamesIn(<<SetStatus(i, s, x)>>) = {i}
  /\ UpsertsIn(<<Unblock>>) = {} /\ NamesIn(<<Unblock>>) = {}
<1>3. ASSUME NEW r
      PROVE  UpsertsIn(<<Upsert(r)>>) = {r} /\ NamesIn(<<Upsert(r)>>) = {}
  <2>. DEFINE y == Upsert(r)
  <2>1. y.kind = "upsert" /\ y.op = r
    BY MadeFields
  <2>. HIDE DEF y
  <2>2. QED
    BY <2>1, SingleCall DEF y
<1>4. ASSUME NEW i
      PROVE  UpsertsIn(<<AddConflict(i)>>) = {} /\ NamesIn(<<AddConflict(i)>>) = {i}
  <2>. DEFINE y == AddConflict(i)
  <2>1. y.kind \in {"status", "note", "conflict"} /\ y.id = i
    BY MadeFields
  <2>. HIDE DEF y
  <2>2. QED
    BY <2>1, SingleCall DEF y
<1>5. ASSUME NEW i
      PROVE  UpsertsIn(<<Remove(i)>>) = {} /\ NamesIn(<<Remove(i)>>) = {}
  <2>. DEFINE y == Remove(i)
  <2>1. y.kind \notin {"upsert", "status", "note", "conflict"}
    BY MadeFields
  <2>. HIDE DEF y
  <2>2. QED
    BY <2>1, SingleCall DEF y
<1>6. ASSUME NEW i
      PROVE  UpsertsIn(<<DropConflict(i)>>) = {} /\ NamesIn(<<DropConflict(i)>>) = {}
  <2>. DEFINE y == DropConflict(i)
  <2>1. y.kind \notin {"upsert", "status", "note", "conflict"}
    BY MadeFields
  <2>. HIDE DEF y
  <2>2. QED
    BY <2>1, SingleCall DEF y
<1>7. ASSUME NEW i, NEW s, NEW x
      PROVE  UpsertsIn(<<SetStatus(i, s, x)>>) = {} /\ NamesIn(<<SetStatus(i, s, x)>>) = {i}
  <2>. DEFINE y == SetStatus(i, s, x)
  <2>1. y.kind \in {"status", "note", "conflict"} /\ y.id = i
    BY MadeFields
  <2>. HIDE DEF y
  <2>2. QED
    BY <2>1, SingleCall DEF y
<1>8. UpsertsIn(<<Unblock>>) = {} /\ NamesIn(<<Unblock>>) = {}
  <2>. DEFINE y == Unblock
  <2>1. y.kind \notin {"upsert", "status", "note", "conflict"}
    BY MadeFields
  <2>. HIDE DEF y
  <2>2. QED
    BY <2>1, SingleCall DEF y
<1>9. QED
  BY <1>3, <1>4, <1>5, <1>6, <1>7, <1>8

LEMMA RunPlay ==
  ASSUME Typed, NEW a \in Actors, pc[a] \notin Working, NEW js, NEW p, Run(a, js, p),
         UNCHANGED buf
  PROVE  /\ \A b \in Actors : Read(b)' = Read(b)
         /\ Queued(a)' = UpsertsIn(js) /\ Named(a)' = NamesIn(js)
         /\ \A b \in Actors \ {a} : Queued(b)' = Queued(b) /\ Named(b)' = Named(b)
         /\ pc'[a] = "load" /\ \A b \in Actors \ {a} : pc'[b] = pc[b]
<1>1. /\ pc'[a] = "load" /\ jobs'[a] = js
      /\ \A b \in Actors \ {a} : pc'[b] = pc[b] /\ jobs'[b] = jobs[b]
  BY RunBuffers
<1>2. \A b \in Actors : Read(b)' = Read(b)
  BY <1>1 DEF Read, Working
<1>3. Queued(a)' = UpsertsIn(js)
  BY <1>1 DEF Queued, UpsertsIn
<1>4. Named(a)' = NamesIn(js)
  BY <1>1 DEF Named, NamesIn
<1>5. ASSUME NEW b \in Actors \ {a} PROVE Queued(b)' = Queued(b) /\ Named(b)' = Named(b)
  BY <1>1 DEF Queued, Named
<1>6. QED
  BY <1>1, <1>2, <1>3, <1>4, <1>5

LEMMA JobDonePlay ==
  ASSUME Typed, NEW a \in Actors, pc[a] \in Working, JobDone(a),
         \A b \in Actors \ {a} : buf'[b] = buf[b]
  PROVE  /\ Read(a)' = {} /\ Queued(a)' \subseteq Queued(a)
         /\ Named(a)' \subseteq Named(a)
         /\ \A b \in Actors \ {a} : /\ Read(b)' = Read(b) /\ Queued(b)' = Queued(b)
                                    /\ Named(b)' = Named(b)
         /\ \A b \in Actors : cur'[b] = cur[b] \/ cur'[b] = NoOp
         /\ Stays
<1>1. /\ CallsIn(jobs[a]) = {Head(jobs[a])} \cup CallsIn(jobs'[a])
      /\ pc'[a] \notin {"store", "append", "write_conflicts"}
      /\ \A b \in Actors \ {a} : pc'[b] = pc[b] /\ cur'[b] = cur[b] /\ jobs'[b] = jobs[b]
      /\ cur'[a] = IF pc'[a] = "idle" THEN NoOp ELSE cur[a]
      /\ pc'[a] = IF Tail(jobs[a]) = <<>> THEN after[a] ELSE "load"
  BY JobDoneLocals DEF Typed
<1>2. Read(a)' = {}
  BY <1>1 DEF Read
<1>3. Queued(a)' \subseteq Queued(a) /\ Named(a)' \subseteq Named(a)
  BY <1>1 DEF Queued, Named
<1>4. ASSUME NEW b \in Actors \ {a}
      PROVE  Read(b)' = Read(b) /\ Queued(b)' = Queued(b) /\ Named(b)' = Named(b)
  BY <1>1 DEF Read, Queued, Named
<1>5. \A b \in Actors : cur'[b] = cur[b] \/ cur'[b] = NoOp
  BY <1>1
<1>6. Stays
  <2>1. after["ui"] \in {"idle", "return", "cancel"}
    BY DEF Typed, Locals, Places
  <2>2. QED
    BY <1>1, <2>1 DEF Stays, Actors
<1>7. QED
  BY <1>2, <1>3, <1>4, <1>5, <1>6

\* Nothing new is held.
LEMMA FewerHeld ==
  ASSUME Typed, HeldOps' \subseteq HeldOps, NamedIds' \subseteq NamedIds,
         HandFrom, Stays, Grows, BatchReady
  PROVE  Effect
<1>1. HeldFrom
  BY SelfStems DEF HeldFrom
<1>2. NamedFrom
  BY DEF NamedFrom
<1>3. QED
  BY <1>1, <1>2 DEF Effect

LEMMA LoadEffect ==
  ASSUME Typed, PlayInv, NEW a \in Actors, Load(a)
  PROVE  Effect
<1>0. /\ pc[a] = "load" /\ pc[a] \in Working
      /\ UNCHANGED <<snapshot, conflicts, idmap, batch, nextOp>>
  BY DEF Load, client, screens, Working
<1>1. Grows /\ BatchReady
  BY <1>0 DEF Grows, BatchReady, PlayInv, Waiting, Typed, Data
<1>2. CASE JobDone(a) /\ UNCHANGED buf
  <2>1. /\ Read(a)' = {} /\ Queued(a)' \subseteq Queued(a)
        /\ Named(a)' \subseteq Named(a)
        /\ \A b \in Actors \ {a} : /\ Read(b)' = Read(b) /\ Queued(b)' = Queued(b)
                                   /\ Named(b)' = Named(b)
        /\ \A b \in Actors : cur'[b] = cur[b] \/ cur'[b] = NoOp
        /\ Stays
    BY <1>0, <1>2, JobDonePlay
  <2>2. HeldOps' \subseteq HeldOps /\ NamedIds' \subseteq NamedIds
    BY <1>0, <2>1 DEF HeldOps, NamedIds, InHand, Actors
  <2>3. HandFrom
    BY <2>1 DEF HandFrom, Actors
  <2>4. QED
    BY <1>1, <2>1, <2>2, <2>3, FewerHeld
<1>3. CASE /\ buf' = [buf EXCEPT ![a] = snapshot]
           /\ pc' = [pc EXCEPT ![a] = "store"]
           /\ UNCHANGED <<jobs, after, cur, res>>
  <2>1. /\ pc'[a] = "store" /\ buf'[a] = snapshot
        /\ \A b \in Actors \ {a} : pc'[b] = pc[b] /\ buf'[b] = buf[b]
    BY <1>3 DEF Typed, Locals, Buffers
  <2>2. /\ \A b \in Actors : Read(b)' \subseteq Read(b) \cup snapshot
        /\ \A b \in Actors : Queued(b)' = Queued(b)
        /\ \A b \in Actors : Named(b)' \subseteq Named(b)
    BY <1>3, <2>1 DEF Read, Queued, Named
  <2>3. HeldOps' \subseteq HeldOps /\ NamedIds' \subseteq NamedIds
    BY <1>0, <1>3, <2>2 DEF HeldOps, NamedIds, InHand, Actors
  <2>4. HandFrom /\ Stays
    BY <1>3, <2>1 DEF HandFrom, Stays, Actors
  <2>5. QED
    BY <1>1, <2>3, <2>4, FewerHeld
<1>4. QED
  BY <1>2, <1>3 DEF Load

LEMMA StoreEffect ==
  ASSUME Typed, PlayInv, NEW a \in Actors, Store(a)
  PROVE  Effect
<1>0. /\ pc[a] = "store" /\ snapshot' = Edited(Head(jobs[a]), buf[a])
      /\ UNCHANGED <<conflicts, idmap, batch, nextOp, jobs, buf, cur>>
      /\ pc' = [pc EXCEPT ![a] = "append"]
  BY DEF Store, screens
<1>1. Grows /\ BatchReady
  BY <1>0 DEF Grows, BatchReady, PlayInv, Waiting, Typed, Data
<1>2. /\ pc'[a] = "append" /\ \A b \in Actors \ {a} : pc'[b] = pc[b]
  BY <1>0 DEF Typed, Locals
<1>3. /\ \A b \in Actors : Read(b)' = Read(b) /\ Queued(b)' = Queued(b) /\ Named(b)' = Named(b)
  BY <1>0, <1>2 DEF Read, Queued, Named
<1>4. HandFrom /\ Stays
  BY <1>0, <1>2 DEF HandFrom, Stays, Actors
<1>5. NamedFrom
  BY <1>0, <1>3 DEF NamedFrom, NamedIds, InHand, Actors
<1>6. /\ jobs[a] \in Seq(Job) /\ jobs[a] # <<>> /\ IsJournalCall(Head(jobs[a]))
      /\ buf[a] \subseteq Ops /\ Head(jobs[a]) \in Job
      /\ Head(jobs[a]) \in CallsIn(jobs[a])
  <2>1. /\ jobs[a] \in Seq(Job) /\ jobs[a] # <<>> /\ IsJournalCall(Head(jobs[a]))
        /\ buf[a] \subseteq Ops
    BY <1>0 DEF Typed, Locals, Buffers, Jobbed, Working
  <2>2. QED
    BY <2>1, CallsSplit
<1>7. ASSUME NEW o \in snapshot' PROVE \E p \in HeldOps : Stems(o, p)
  <2>. DEFINE j == Head(jobs[a])
  <2>1. PICK p \in Ops : Origin(j, buf[a], o, p)
    BY <1>0, <1>6, EditedFrom
  <2>2. p \in HeldOps
    <3>1. p \in buf[a] => p \in Read(a)
      BY <1>0 DEF Read
    <3>2. j.kind = "upsert" /\ p = j.op => p \in Queued(a)
      BY <1>6 DEF Queued
    <3>3. p \in Read(a) \/ p \in Queued(a)
      BY <2>1, <3>1, <3>2 DEF Origin
    <3>4. QED
      BY <3>3 DEF HeldOps, Actors
  <2>3. Kin(o, p)
    BY <2>1 DEF Origin, Alike, Kin
  <2>4. j.kind \in {"status", "note"} => j.id \in NamedIds
    <3>1. j.kind \in {"status", "note"} => j.id \in Named(a)
      BY <1>6 DEF Named
    <3>2. QED
      BY <3>1 DEF NamedIds, Actors
  <2>5. (o.status = p.status /\ o.err = p.err) \/ ParentResolved(p) \/ p.id \in NamedIds
    BY <2>1, <2>4 DEF Origin
  <2>6. QED
    BY <2>2, <2>3, <2>5 DEF Stems
<1>8. HeldFrom
  <2>1. ASSUME NEW o \in HeldOps' PROVE o \in HeldOps \/ o \in snapshot'
    BY <1>0, <1>3 DEF HeldOps, InHand, Actors
  <2>2. QED
    BY <1>7, <2>1, SelfStems DEF HeldFrom
<1>9. QED
  BY <1>1, <1>4, <1>5, <1>8 DEF Effect

LEMMA FinishEffect ==
  ASSUME Typed, PlayInv, NEW a \in Actors, LogEvents(a) \/ WriteConflicts(a)
  PROVE  Effect
<1>0. /\ pc[a] \in Working /\ JobDone(a) /\ buf' = [buf EXCEPT ![a] = {}]
      /\ UNCHANGED <<snapshot, idmap, batch, nextOp>>
  BY DEF LogEvents, WriteConflicts, screens, Working
<1>1. Grows /\ BatchReady
  BY <1>0 DEF Grows, BatchReady, PlayInv, Waiting, Typed, Data
<1>2. \A b \in Actors \ {a} : buf'[b] = buf[b]
  BY <1>0 DEF Typed, Buffers
<1>3. /\ Read(a)' = {} /\ Queued(a)' \subseteq Queued(a)
      /\ Named(a)' \subseteq Named(a)
      /\ \A b \in Actors \ {a} : /\ Read(b)' = Read(b) /\ Queued(b)' = Queued(b)
                                 /\ Named(b)' = Named(b)
      /\ \A b \in Actors : cur'[b] = cur[b] \/ cur'[b] = NoOp
      /\ Stays
  BY <1>0, <1>2, JobDonePlay
<1>4. conflicts' \subseteq conflicts \cup Named(a)
  <2>1. CASE LogEvents(a)
    BY <2>1 DEF LogEvents
  <2>2. CASE WriteConflicts(a)
    <3>1. pc[a] = "write_conflicts" /\ jobs[a] \in Seq(Job) /\ jobs[a] # <<>>
      BY <2>2 DEF WriteConflicts, Typed, Locals, Jobbed, Working
    <3>2. Head(jobs[a]) \in CallsIn(jobs[a])
      BY <3>1, CallsSplit
    <3>3. Head(jobs[a]).kind = "conflict" => Head(jobs[a]).id \in Named(a)
      BY <3>2 DEF Named
    <3>4. buf[a] \subseteq Named(a)
      BY <3>1 DEF Named
    <3>5. QED
      BY <2>2, <3>3, <3>4 DEF WriteConflicts
  <2>3. QED
    BY <2>1, <2>2
<1>5. HeldOps' \subseteq HeldOps /\ NamedIds' \subseteq NamedIds
  BY <1>0, <1>3, <1>4 DEF HeldOps, NamedIds, InHand, Actors
<1>6. HandFrom
  BY <1>3 DEF HandFrom, Actors
<1>7. QED
  BY <1>1, <1>3, <1>5, <1>6, FewerHeld

LEMMA LoadConflictsEffect ==
  ASSUME Typed, PlayInv, NEW a \in Actors, LoadConflicts(a)
  PROVE  Effect
<1>0. /\ pc[a] = "load" /\ buf' = [buf EXCEPT ![a] = conflicts]
      /\ pc' = [pc EXCEPT ![a] = "write_conflicts"]
      /\ UNCHANGED <<snapshot, conflicts, idmap, batch, nextOp, jobs, cur>>
  BY DEF LoadConflicts, client, screens
<1>1. Grows /\ BatchReady
  BY <1>0 DEF Grows, BatchReady, PlayInv, Waiting, Typed, Data
<1>2. /\ pc'[a] = "write_conflicts" /\ buf'[a] = conflicts
      /\ \A b \in Actors \ {a} : pc'[b] = pc[b] /\ buf'[b] = buf[b]
  BY <1>0 DEF Typed, Locals, Buffers
<1>3. /\ \A b \in Actors : Read(b)' = Read(b) /\ Queued(b)' = Queued(b)
      /\ \A b \in Actors : Named(b)' \subseteq Named(b) \cup conflicts
  BY <1>0, <1>2 DEF Read, Queued, Named
<1>4. HeldOps' \subseteq HeldOps /\ NamedIds' \subseteq NamedIds
  BY <1>0, <1>3 DEF HeldOps, NamedIds, InHand, Actors
<1>5. HandFrom /\ Stays
  BY <1>0, <1>2 DEF HandFrom, Stays, Actors
<1>6. QED
  BY <1>1, <1>4, <1>5, FewerHeld

LEMMA FrameEffect ==
  ASSUME Typed, PlayInv, UNCHANGED <<snapshot, conflicts, batch, jobs, buf>>,
         \A b \in Actors : \/ pc'[b] = pc[b]
                           \/ pc'[b] \notin {"store", "append", "write_conflicts"},
         cur'["sync"] \in {cur["sync"], NoOp}, HandFrom, Stays, Grows
  PROVE  Effect
<1>1. \A b \in Actors : /\ Read(b)' \subseteq Read(b) /\ Queued(b)' = Queued(b)
                        /\ Named(b)' \subseteq Named(b)
  BY DEF Read, Queued, Named
<1>2. HeldOps' \subseteq HeldOps /\ NamedIds' \subseteq NamedIds
  BY <1>1 DEF HeldOps, NamedIds, InHand, Actors
<1>3. BatchReady
  BY DEF BatchReady, PlayInv, Waiting
<1>4. QED
  BY <1>2, <1>3, FewerHeld

LEMMA RunEffect ==
  ASSUME Typed, PlayInv, NEW a \in Actors, pc[a] \notin Working, NEW js, NEW p,
         Run(a, js, p), UNCHANGED <<snapshot, conflicts, buf>>, batch' \subseteq batch,
         UpsertsIn(js) = {}, NamesIn(js) \subseteq NamedIds,
         cur'["sync"] = cur["sync"], a = "sync" => cur'["ui"] = cur["ui"],
         HandFrom, Grows
  PROVE  Effect
<1>1. /\ \A b \in Actors : Read(b)' = Read(b)
      /\ Queued(a)' = UpsertsIn(js) /\ Named(a)' = NamesIn(js)
      /\ \A b \in Actors \ {a} : Queued(b)' = Queued(b) /\ Named(b)' = Named(b)
      /\ pc'[a] = "load" /\ \A b \in Actors \ {a} : pc'[b] = pc[b]
  BY RunPlay
<1>2. \A b \in Actors : Queued(b)' \subseteq Queued(b) /\ Named(b)' \subseteq NamedIds
  BY <1>1 DEF NamedIds, Actors
<1>3. HeldOps' \subseteq HeldOps /\ NamedIds' \subseteq NamedIds
  <2>1. HeldOps' \subseteq HeldOps
    BY <1>1, <1>2 DEF HeldOps, InHand, Actors
  <2>2. InHand("sync")' = InHand("sync")
    BY DEF InHand
  <2>3. NamedIds' = conflicts \cup Named("ui")' \cup Named("sync")' \cup {o.id : o \in InHand("sync")}
    BY <2>2 DEF NamedIds
  <2>4. conflicts \subseteq NamedIds /\ {o.id : o \in InHand("sync")} \subseteq NamedIds
    BY DEF NamedIds
  <2>5. QED
    BY <1>2, <2>1, <2>3, <2>4 DEF Actors
<1>4. BatchReady
  BY DEF BatchReady, PlayInv, Waiting
<1>5. Stays
  <2>1. a = "ui" \/ (a = "sync" /\ pc'["ui"] = pc["ui"])
    BY <1>1 DEF Actors
  <2>2. CASE a = "ui"
    BY <1>1, <2>2 DEF Stays
  <2>3. CASE a = "sync" /\ pc'["ui"] = pc["ui"]
    BY <2>3 DEF Stays
  <2>4. QED
    BY <2>1, <2>2, <2>3
<1>6. QED
  BY <1>3, <1>4, <1>5, FewerHeld

LEMMA ExchangeEffect ==
  ASSUME Typed, PlayInv, NEW a \in Actors,
         (a = "ui" /\ pc[a] = "direct") \/ (a = "sync" /\ pc[a] = "send"),
         Exchange(a, Outcomes)
  PROVE  Effect
<1>0. /\ UNCHANGED <<snapshot, conflicts, idmap, batch, jobs, buf, cur, nextOp>>
      /\ pc' = [pc EXCEPT ![a] = "receive"]
  BY DEF Exchange, client, screens
<1>1. pc'[a] = "receive" /\ \A b \in Actors \ {a} : pc'[b] = pc[b]
  BY <1>0 DEF Typed, Locals
<1>2. HandFrom /\ Grows
  BY <1>0 DEF HandFrom, Grows, Typed, Data
<1>3. Stays
  BY <1>0, <1>1 DEF Stays, Actors
<1>4. QED
  BY <1>0, <1>1, <1>2, <1>3, FrameEffect

LEMMA UiReceiveEffect ==
  ASSUME Typed, PlayInv, UiReceive
  PROVE  Effect
<1>0. /\ UNCHANGED <<snapshot, conflicts, batch, jobs, buf, nextOp>>
      /\ pc["ui"] = "receive" /\ idmap \subseteq idmap'
      /\ Goto("ui", "queue") \/ Goto("ui", "idle")
  BY DEF UiReceive
<1>1. /\ pc'["ui"] \in {"queue", "idle"} /\ pc'["sync"] = pc["sync"] /\ cur'["sync"] = cur["sync"]
      /\ cur'["ui"] \in {cur["ui"], NoOp} /\ (pc'["ui"] = "queue" => cur' = cur)
  BY <1>0 DEF Goto, Typed, Locals, Actors
<1>2. HandFrom /\ Grows /\ Stays
  BY <1>0, <1>1 DEF HandFrom, Grows, Stays, Typed, Data
<1>3. QED
  BY <1>0, <1>1, <1>2, FrameEffect DEF Actors

LEMMA UiReturnEffect ==
  ASSUME Typed, PlayInv, UiReturn
  PROVE  Effect
<1>0. /\ UNCHANGED <<snapshot, conflicts, idmap, batch, jobs, buf, nextOp>>
      /\ Goto("ui", "idle")
  BY DEF UiReturn, client
<1>1. /\ pc'["ui"] = "idle" /\ pc'["sync"] = pc["sync"] /\ cur'["sync"] = cur["sync"]
      /\ cur'["ui"] = NoOp
  BY <1>0 DEF Goto, Typed, Locals, Actors
<1>2. HandFrom /\ Grows /\ Stays
  BY <1>0, <1>1 DEF HandFrom, Grows, Stays, Typed, Data
<1>3. QED
  BY <1>0, <1>1, <1>2, FrameEffect DEF Actors

LEMMA UiRefreshEffect ==
  ASSUME Typed, PlayInv, NEW e \in Temps, UiRefresh(e)
  PROVE  Effect
<1>0. UNCHANGED <<snapshot, conflicts, idmap, batch, jobs, buf, nextOp, pc, cur>>
  BY DEF UiRefresh, client, local
<1>1. HandFrom /\ Grows /\ Stays
  BY <1>0 DEF HandFrom, Grows, Stays, Typed, Data
<1>2. QED
  BY <1>0, <1>1, FrameEffect DEF Actors

LEMMA QueueCreateEffect ==
  ASSUME Typed, PlayInv, QueueCreate
  PROVE  Effect
<1>0. /\ "ui" \in Actors /\ pc["ui"] = "queue" /\ pc["ui"] \notin Working /\ cur["ui"] \in Ops
      /\ UNCHANGED <<snapshot, conflicts, idmap, batch, buf, nextOp, cur>>
  BY DEF Typed, Locals, Jobbed, Actors, QueueCreate, client, screens, Working
<1>. DEFINE s == IF ParentResolved(cur["ui"]) THEN "pending" ELSE "blocked"
            r == [cur["ui"] EXCEPT !.status = s]
<1>1. s \in Statuses
  BY DEF Statuses
<1>2. ParentResolved(cur["ui"]) \/ s = "blocked"
  OBVIOUS
<1>3. Run("ui", <<Upsert(r)>>, "return")
  BY Zenon DEF QueueCreate
<1>. HIDE DEF s
<1>4. r \in Ops /\ Alike(r, cur["ui"]) /\ r.status = s /\ r.err = cur["ui"].err
  BY <1>0, <1>1 DEF Ops, Op, Alike
<1>. HIDE DEF r
<1>5. Kin(r, cur["ui"]) /\ Waits(r)
  <2>1. cur["ui"].err = ""
    BY <1>0 DEF PlayInv, NewId
  <2>2. QED
    BY <1>2, <1>4, <2>1 DEF Alike, Kin, Waits, ParentResolved
<1>6. UpsertsIn(<<Upsert(r)>>) = {r} /\ NamesIn(<<Upsert(r)>>) = {}
  BY SingleCalls
<1>7. /\ \A b \in Actors : Read(b)' = Read(b)
      /\ Queued("ui")' = {r} /\ Named("ui")' = {}
      /\ Queued("sync")' = Queued("sync") /\ Named("sync")' = Named("sync")
      /\ pc'["ui"] = "load"
  BY <1>0, <1>3, <1>6, RunPlay DEF Actors
<1>8. HeldFrom
  <2>1. ASSUME NEW o \in HeldOps' PROVE o \in HeldOps \/ o = r
    BY <1>0, <1>7 DEF HeldOps, InHand, Actors
  <2>2. QED
    BY <1>0, <1>5, <1>7, <2>1, SelfStems DEF HeldFrom
<1>9. NamedFrom
  BY <1>0, <1>7 DEF NamedFrom, NamedIds, InHand
<1>10. HandFrom /\ Stays /\ Grows /\ BatchReady
  BY <1>0, <1>7 DEF HandFrom, Stays, Grows, BatchReady, PlayInv, Waiting, Typed, Data
<1>11. QED
  BY <1>8, <1>9, <1>10 DEF Effect

LEMMA QueueUpdateEffect ==
  ASSUME Typed, PlayInv, QueueUpdate
  PROVE  Effect
<1>0. /\ "ui" \in Actors /\ pc["ui"] = "queue" /\ pc["ui"] \notin Working /\ cur["ui"] \in Ops
      /\ cur["ui"].type = "update"
      /\ UNCHANGED <<snapshot, conflicts, idmap, batch, buf, nextOp, cur>>
  BY DEF Typed, Locals, Jobbed, Actors, QueueUpdate, client, screens, Working
<1>1. HandFrom /\ Grows /\ BatchReady
  BY <1>0 DEF HandFrom, Grows, BatchReady, PlayInv, Waiting, Typed, Data
<1>2. ASSUME NEW r \in Ops, Run("ui", <<Upsert(r)>>, "return"),
             \/ \E f \in snapshot : Stems(r, f)
             \/ Kin(r, cur["ui"]) /\ Waits(r)
      PROVE  Effect
  <2>1. UpsertsIn(<<Upsert(r)>>) = {r} /\ NamesIn(<<Upsert(r)>>) = {}
    BY SingleCalls
  <2>2. /\ \A b \in Actors : Read(b)' = Read(b)
        /\ Queued("ui")' = {r} /\ Named("ui")' = {}
        /\ Queued("sync")' = Queued("sync") /\ Named("sync")' = Named("sync")
        /\ pc'["ui"] = "load"
    BY <1>0, <1>2, <2>1, RunPlay DEF Actors
  <2>3. HeldFrom
    <3>1. ASSUME NEW o \in HeldOps' PROVE o \in HeldOps \/ o = r
      BY <1>0, <2>2 DEF HeldOps, InHand, Actors
    <3>2. snapshot \subseteq HeldOps
      BY DEF HeldOps
    <3>3. QED
      BY <1>0, <1>2, <2>2, <3>1, <3>2, SelfStems DEF HeldFrom
  <2>4. NamedFrom
    BY <1>0, <2>2 DEF NamedFrom, NamedIds, InHand
  <2>5. Stays
    BY <2>2 DEF Stays
  <2>6. QED
    BY <1>1, <2>3, <2>4, <2>5 DEF Effect
<1>3. ASSUME NEW d \in snapshot, d \in Ops, d.type = "delete",
             Run("ui", <<AddConflict(d.id)>>, "idle")
      PROVE  Effect
  <2>1. UpsertsIn(<<AddConflict(d.id)>>) = {} /\ NamesIn(<<AddConflict(d.id)>>) = {d.id}
    BY SingleCalls
  <2>2. /\ \A b \in Actors : Read(b)' = Read(b)
        /\ Queued("ui")' = {} /\ Named("ui")' = {d.id}
        /\ Queued("sync")' = Queued("sync") /\ Named("sync")' = Named("sync")
        /\ pc'["ui"] = "load"
    BY <1>0, <1>3, <2>1, RunPlay DEF Actors
  <2>3. HeldFrom
    <3>1. ASSUME NEW o \in HeldOps' PROVE o \in HeldOps
      BY <1>0, <2>2 DEF HeldOps, InHand, Actors
    <3>2. QED
      BY <3>1, SelfStems DEF HeldFrom
  <2>4. NamedFrom
    <3>1. d \in HeldOps /\ ParentResolved(d)
      BY <1>3 DEF HeldOps, ParentResolved
    <3>2. \A i \in NamedIds' : i \in NamedIds \/ i = d.id
      BY <1>0, <2>2 DEF NamedIds, InHand
    <3>3. QED
      BY <3>1, <3>2 DEF NamedFrom
  <2>5. Stays
    BY <2>2 DEF Stays
  <2>6. QED
    BY <1>1, <2>3, <2>4, <2>5 DEF Effect
<1>4. CASE \E f \in Target(cur["ui"]), r \in Ops :
                 /\ f \in snapshot /\ f \in Ops /\ f.ent = cur["ui"].ent
                 /\ f.at = cur["ui"].at /\ f.type \in {"create", "update"}
                 /\ r.id = f.id /\ r.type = f.type /\ r.ent = f.ent /\ r.at = f.at
                 /\ r.body = f.body \cup cur["ui"].body
                 /\ r.status = f.status /\ r.err = f.err
                 /\ Run("ui", <<Upsert(r)>>, "return")
  <2>1. PICK r \in Ops, f \in snapshot :
                 /\ r.id = f.id /\ r.type = f.type /\ r.ent = f.ent
                 /\ r.ent = cur["ui"].ent
                 /\ r.body = f.body \cup cur["ui"].body
                 /\ r.status = f.status /\ r.err = f.err
                 /\ Run("ui", <<Upsert(r)>>, "return")
    BY <1>4
  <2>2. Stems(r, f)
    BY <1>0, <2>1 DEF Stems, Kin
  <2>3. QED
    BY <1>2, <2>1, <2>2
<1>5. CASE Run("ui", <<Upsert(cur["ui"])>>, "return")
  <2>1. Kin(cur["ui"], cur["ui"]) /\ Waits(cur["ui"])
    BY <1>0 DEF Kin, Waits, ParentResolved
  <2>2. QED
    BY <1>0, <1>2, <1>5, <2>1
<1>6. QED
  BY <1>3, <1>4, <1>5, QueueUpdateCases

LEMMA QueueDeleteEffect ==
  ASSUME Typed, PlayInv, QueueDelete
  PROVE  Effect
<1>0. /\ "ui" \in Actors /\ pc["ui"] = "queue" /\ pc["ui"] \notin Working /\ cur["ui"] \in Ops
      /\ cur["ui"].type = "delete"
      /\ UNCHANGED <<snapshot, conflicts, idmap, batch, buf, nextOp, cur>>
  BY DEF Typed, Locals, Jobbed, Actors, QueueDelete, client, screens, Working
<1>1. HandFrom /\ Grows /\ BatchReady
  BY <1>0 DEF HandFrom, Grows, BatchReady, PlayInv, Waiting, Typed, Data
<1>2. ASSUME NEW c \in Ops, Run("ui", <<Remove(c.id)>>, "cancel")
      PROVE  Effect
  <2>1. UpsertsIn(<<Remove(c.id)>>) = {} /\ NamesIn(<<Remove(c.id)>>) = {}
    BY SingleCalls
  <2>2. QED
    BY <1>0, <1>1, <1>2, <2>1, RunEffect
<1>3. CASE Run("ui", <<DropUpdates(cur["ui"]), Upsert(cur["ui"])>>, "idle")
  <2>. DEFINE js == <<DropUpdates(cur["ui"]), Upsert(cur["ui"])>>
  <2>0. CallsIn(js) = {DropUpdates(cur["ui"]), Upsert(cur["ui"])}
    BY <1>0, JobMade, TwoCalls
  <2>. HIDE DEF js
  <2>1. UpsertsIn(js) = {cur["ui"]} /\ NamesIn(js) = {}
    BY <2>0, MadeFields DEF UpsertsIn, NamesIn
  <2>a. Run("ui", js, "idle")
    BY <1>3 DEF js
  <2>2. /\ \A b \in Actors : Read(b)' = Read(b)
        /\ Queued("ui")' = {cur["ui"]} /\ Named("ui")' = {}
        /\ Queued("sync")' = Queued("sync") /\ Named("sync")' = Named("sync")
        /\ pc'["ui"] = "load"
    BY <1>0, <2>a, <2>1, RunPlay DEF Actors
  <2>3. HeldFrom
    <3>1. ASSUME NEW o \in HeldOps' PROVE o \in HeldOps \/ o = cur["ui"]
      BY <1>0, <2>2 DEF HeldOps, InHand, Actors
    <3>2. Kin(cur["ui"], cur["ui"]) /\ Waits(cur["ui"])
      BY <1>0 DEF Kin, Waits, ParentResolved
    <3>3. QED
      BY <1>0, <2>2, <3>1, <3>2, SelfStems DEF HeldFrom
  <2>4. NamedFrom
    BY <1>0, <2>2 DEF NamedFrom, NamedIds, InHand
  <2>5. Stays
    BY <2>2 DEF Stays
  <2>6. QED
    BY <1>1, <2>3, <2>4, <2>5 DEF Effect
<1>4. QED
  BY <1>2, <1>3, QueueDeleteCases

LEMMA UiCancelEffect ==
  ASSUME Typed, PlayInv, UiCancel
  PROVE  Effect
<1>0. /\ "ui" \in Actors /\ pc["ui"] = "cancel" /\ pc["ui"] \notin Working
      /\ UNCHANGED <<snapshot, conflicts, idmap, batch, buf, nextOp>>
  BY DEF Typed, Locals, Actors, UiCancel, client, Working
<1>1. Grows
  BY <1>0 DEF Grows, Typed, Data
<1>2. ASSUME NEW o, Run("ui", <<Remove(o.id)>>, "cancel"), UNCHANGED cur
      PROVE  Effect
  <2>1. HandFrom
    BY <1>2 DEF HandFrom
  <2>2. UpsertsIn(<<Remove(o.id)>>) = {} /\ NamesIn(<<Remove(o.id)>>) = {}
    BY SingleCalls
  <2>3. QED
    BY <1>0, <1>1, <1>2, <2>1, <2>2, RunEffect
<1>3. ASSUME Run("ui", <<Unblock>>, "idle"), UNCHANGED cur
      PROVE  Effect
  <2>1. HandFrom
    BY <1>3 DEF HandFrom
  <2>2. UpsertsIn(<<Unblock>>) = {} /\ NamesIn(<<Unblock>>) = {}
    BY SingleCalls
  <2>3. QED
    BY <1>0, <1>1, <1>3, <2>1, <2>2, RunEffect
<1>4. ASSUME Goto("ui", "idle"), UNCHANGED jobs
      PROVE  Effect
  <2>1. /\ pc'["ui"] = "idle" /\ pc'["sync"] = pc["sync"] /\ cur'["sync"] = cur["sync"]
        /\ cur'["ui"] = NoOp
    BY <1>4 DEF Goto, Typed, Locals, Actors
  <2>2. HandFrom /\ Stays
    BY <2>1 DEF HandFrom, Stays
  <2>3. QED
    BY <1>0, <1>1, <1>4, <2>1, <2>2, FrameEffect DEF Actors
<1>5. QED
  BY <1>2, <1>3, <1>4 DEF UiCancel

LEMMA UiRetryEffect ==
  ASSUME Typed, PlayInv, NEW i \in Ids, UiRetry(i)
  PROVE  Effect
<1>0. /\ "ui" \in Actors /\ pc["ui"] \notin Working /\ i \in NamedIds
      /\ UNCHANGED <<snapshot, conflicts, idmap, batch, buf, cur>>
  BY DEF UiRetry, client, Working, Actors, NamedIds
<1>a. nextOp' = nextOp + 1
  BY DEF UiRetry
<1>1. HandFrom /\ Grows
  BY <1>0, <1>a DEF HandFrom, Grows, Typed, Data
<1>2. CASE Run("ui", <<DropConflict(i), SetStatus(i, "pending", "")>>, "idle")
  <2>. DEFINE js == <<DropConflict(i), SetStatus(i, "pending", "")>>
  <2>1. CallsIn(js) = {DropConflict(i), SetStatus(i, "pending", "")}
    BY JobMade, TwoCalls DEF Statuses, Errors
  <2>2. Run("ui", js, "idle")
    BY <1>2
  <2>. HIDE DEF js
  <2>a. /\ DropConflict(i).kind = "unconflict"
        /\ SetStatus(i, "pending", "").kind = "status" /\ SetStatus(i, "pending", "").id = i
    BY DEF DropConflict, SetStatus
  <2>3. UpsertsIn(js) = {} /\ NamesIn(js) \subseteq {i}
    BY <2>1, <2>a DEF UpsertsIn, NamesIn
  <2>4. QED
    BY <1>0, <1>1, <2>2, <2>3, RunEffect
<1>3. CASE Run("ui", <<DropConflict(i)>>, "idle")
  <2>1. UpsertsIn(<<DropConflict(i)>>) = {} /\ NamesIn(<<DropConflict(i)>>) = {}
    BY SingleCalls
  <2>2. QED
    BY <1>0, <1>1, <1>3, <2>1, RunEffect
<1>4. QED
  BY <1>2, <1>3, UiRetryCases

LEMMA UiDiscardEffect ==
  ASSUME Typed, PlayInv, NEW i \in Ids, UiDiscard(i)
  PROVE  Effect
<1>0. /\ "ui" \in Actors /\ pc["ui"] \notin Working
      /\ UNCHANGED <<snapshot, conflicts, idmap, batch, buf, nextOp>>
  BY DEF UiDiscard, client, Working, Actors
<1>1. Grows
  BY <1>0 DEF Grows, Typed, Data
<1>2. HandFrom /\ cur'["sync"] = cur["sync"]
  BY UiDiscardCases DEF HandFrom, Typed, Locals, Actors
<1>3. ASSUME NEW js, NEW p, Run("ui", js, p),
             CallsIn(js) \subseteq {DropConflict(i), Remove(i), Unblock}
      PROVE  Effect
  <2>1. UpsertsIn(js) = {} /\ NamesIn(js) = {}
    BY <1>3, MadeFields DEF UpsertsIn, NamesIn
  <2>2. QED
    BY <1>0, <1>1, <1>2, <1>3, <2>1, RunEffect
<1>4. /\ CallsIn(<<DropConflict(i), Remove(i)>>) \subseteq {DropConflict(i), Remove(i), Unblock}
      /\ CallsIn(<<DropConflict(i), Remove(i), Unblock>>)
           \subseteq {DropConflict(i), Remove(i), Unblock}
      /\ CallsIn(<<DropConflict(i)>>) \subseteq {DropConflict(i), Remove(i), Unblock}
  BY JobMade, OneCall, TwoCalls, ThreeCalls
<1>5. QED
  BY <1>3, <1>4, UiDiscardCases

LEMMA SyncStartEffect ==
  ASSUME Typed, PlayInv, SyncStart
  PROVE  Effect
<1>0. /\ "sync" \in Actors /\ pc["sync"] \notin Working /\ Run("sync", <<Unblock>>, "list")
      /\ UNCHANGED <<snapshot, conflicts, idmap, batch, buf, nextOp, cur>>
  BY DEF SyncStart, client, screens, Working, Actors
<1>1. HandFrom /\ Grows
  BY <1>0 DEF HandFrom, Grows, Typed, Data
<1>2. UpsertsIn(<<Unblock>>) = {} /\ NamesIn(<<Unblock>>) = {}
  BY SingleCalls
<1>3. QED
  BY <1>0, <1>1, <1>2, RunEffect

LEMMA SyncListEffects ==
  ASSUME Typed, PlayInv, SyncList
  PROVE  Effect
<1>0. /\ pc["sync"] = "list" /\ pc'["sync"] = "next" /\ pc'["ui"] = pc["ui"]
      /\ UNCHANGED <<client, jobs, after, buf, cur, res, screens, server, crashes>>
      /\ \A o \in batch' : /\ o \in Ops /\ o.status = "pending"
                           /\ \E p \in snapshot : p \in Ops /\ o = Normalize(p)
  BY SyncListEffect
<1>1. UNCHANGED <<snapshot, conflicts, idmap, nextOp>>
  BY <1>0 DEF client, screens
<1>2. \A b \in Actors : Read(b)' = Read(b) /\ Queued(b)' = Queued(b) /\ Named(b)' = Named(b)
  BY <1>0 DEF Read, Queued, Named, Actors
<1>3. HeldFrom
  <2>1. ASSUME NEW o \in batch' PROVE \E p \in HeldOps : Stems(o, p)
    <3>1. PICK p \in snapshot : p \in Ops /\ o = Normalize(p)
      BY <1>0
    <3>2. /\ Alike(o, p) /\ o.err = p.err
          /\ o = p \/ ParentResolved(p)
      BY <3>1, Normalized
    <3>3. Stems(o, p)
      BY <3>2 DEF Stems, Kin, Alike
    <3>4. QED
      BY <3>3 DEF HeldOps
  <2>2. ASSUME NEW o \in HeldOps' PROVE o \in HeldOps \/ o \in batch'
    BY <1>0, <1>1, <1>2 DEF HeldOps, InHand, Actors
  <2>3. QED
    BY <2>1, <2>2, SelfStems DEF HeldFrom
<1>4. NamedFrom
  BY <1>0, <1>1, <1>2 DEF NamedFrom, NamedIds, InHand, Actors
<1>5. HandFrom /\ Stays /\ Grows /\ BatchReady
  BY <1>0, <1>1 DEF HandFrom, Stays, Grows, BatchReady, Typed, Data
<1>6. QED
  BY <1>3, <1>4, <1>5 DEF Effect

LEMMA SyncNextEffect ==
  ASSUME Typed, PlayInv, SyncNext
  PROVE  Effect
<1>0. /\ "sync" \in Actors /\ pc["sync"] \notin Working
      /\ UNCHANGED <<snapshot, conflicts, idmap, buf, nextOp>>
  BY DEF SyncNext, client, screens, Working, Actors
<1>1. Grows
  BY <1>0 DEF Grows, Typed, Data
<1>2. CASE Run("sync", <<Unblock>>, "idle") /\ UNCHANGED <<cur, batch>>
  <2>1. HandFrom
    BY <1>2 DEF HandFrom
  <2>2. UpsertsIn(<<Unblock>>) = {} /\ NamesIn(<<Unblock>>) = {}
    BY SingleCalls
  <2>3. QED
    BY <1>0, <1>1, <1>2, <2>1, <2>2, RunEffect
<1>3. CASE \E o \in batch :
              /\ \A p \in batch \ {o} : Before(o, p)
              /\ Run("sync", <<SetStatus(o.id, "syncing", "")>>, "send")
              /\ cur' = [cur EXCEPT !["sync"] = o]
              /\ batch' = batch \ {o}
  <2>1. PICK o \in batch :
              /\ Run("sync", <<SetStatus(o.id, "syncing", "")>>, "send")
              /\ cur' = [cur EXCEPT !["sync"] = o]
              /\ batch' = batch \ {o}
    BY <1>3
  <2>2. /\ UpsertsIn(<<SetStatus(o.id, "syncing", "")>>) = {}
        /\ NamesIn(<<SetStatus(o.id, "syncing", "")>>) = {o.id}
    <3>. DEFINE x == SetStatus(o.id, "syncing", "")
    <3>1. x.kind = "status" /\ x.id = o.id
      BY DEF SetStatus
    <3>. HIDE DEF x
    <3>2. UpsertsIn(<<x>>) = {} /\ NamesIn(<<x>>) = {o.id}
      BY <3>1, SingleCall
    <3>3. QED
      BY <3>2 DEF x
  <2>3. /\ \A b \in Actors : Read(b)' = Read(b)
        /\ Queued("sync")' = {} /\ Named("sync")' = {o.id}
        /\ Queued("ui")' = Queued("ui") /\ Named("ui")' = Named("ui")
        /\ pc'["sync"] = "load" /\ pc'["ui"] = pc["ui"]
    BY <1>0, <2>1, <2>2, RunPlay DEF Actors
  <2>4. cur'["sync"] = o /\ cur'["ui"] = cur["ui"]
    BY <2>1 DEF Typed, Locals, Actors
  <2>5. o \in HeldOps /\ ParentResolved(o)
    BY DEF HeldOps, PlayInv, Waiting, Waits
  <2>6. HeldFrom
    <3>1. \A q \in HeldOps' : q \in HeldOps
      BY <1>0, <2>1, <2>3, <2>4, <2>5 DEF HeldOps, InHand, Actors
    <3>2. QED
      BY <3>1, SelfStems DEF HeldFrom
  <2>7. NamedFrom
    <3>1. \A i \in NamedIds' : i \in NamedIds \/ i = o.id
      BY <1>0, <2>3, <2>4 DEF NamedIds, InHand
    <3>2. QED
      BY <2>5, <3>1 DEF NamedFrom
  <2>8. HandFrom /\ Stays /\ BatchReady
    BY <2>1, <2>3, <2>4 DEF HandFrom, Stays, BatchReady, PlayInv, Waiting
  <2>9. QED
    BY <1>1, <2>6, <2>7, <2>8 DEF Effect
<1>4. QED
  BY <1>2, <1>3 DEF SyncNext

LEMMA SyncReceiveEffect ==
  ASSUME Typed, PlayInv, SyncReceive
  PROVE  Effect
<1>0. /\ "sync" \in Actors /\ pc["sync"] \notin Working /\ cur["sync"] \in Ops
      /\ UNCHANGED <<snapshot, conflicts, buf, nextOp, cur>>
      /\ idmap \subseteq idmap' /\ batch' \subseteq batch
  BY SyncReceiveCases DEF screens, Working, Actors
<1>1. HandFrom /\ Grows
  BY <1>0 DEF HandFrom, Grows, Typed, Data
<1>. DEFINE i == cur["sync"].id
            Js == {Applied(i), DropConflict(i), Unblock, NoteAttempt(i),
                   SetStatus(i, "pending", "net"), SetStatus(i, "blocked", "auth_required"),
                   SetStatus(i, "needs_review", "rejected"), AddConflict(i)}
<1>2. cur["sync"] # NoOp /\ i \in Ids
  BY <1>0, OpsFields
<1>3. i \in NamedIds
  BY <1>2 DEF NamedIds, InHand
<1>4. Js \subseteq Job
  BY <1>2, JobMade DEF Applied, Statuses, Errors
<1>5. ASSUME NEW js, Run("sync", js, "next"), CallsIn(js) \subseteq Js
      PROVE  Effect
  <2>a. /\ Applied(i).kind = "status" /\ Applied(i).id = i
        /\ SetStatus(i, "pending", "net").kind = "status"
        /\ SetStatus(i, "pending", "net").id = i
        /\ SetStatus(i, "blocked", "auth_required").kind = "status"
        /\ SetStatus(i, "blocked", "auth_required").id = i
        /\ SetStatus(i, "needs_review", "rejected").kind = "status"
        /\ SetStatus(i, "needs_review", "rejected").id = i
    BY DEF Applied, SetStatus
  <2>b. /\ DropConflict(i).kind = "unconflict" /\ Unblock.kind = "unblock"
        /\ NoteAttempt(i).kind = "note" /\ NoteAttempt(i).id = i
        /\ AddConflict(i).kind = "conflict" /\ AddConflict(i).id = i
    BY MadeFields, Zenon
  <2>1. \A c \in Js : c.kind # "upsert" /\ (c.kind \in {"status", "note", "conflict"} => c.id = i)
    BY <2>a, <2>b
  <2>. HIDE DEF Js
  <2>2. UpsertsIn(js) = {} /\ NamesIn(js) \subseteq {i}
    BY <1>5, <2>1 DEF UpsertsIn, NamesIn
  <2>3. QED
    BY <1>0, <1>1, <1>3, <1>5, <2>2, RunEffect
<1>6. \E js : Run("sync", js, "next") /\ CallsIn(js) \subseteq Js
  <2>1. /\ CallsIn(<<Applied(i), DropConflict(i), Unblock>>) \subseteq Js
        /\ CallsIn(<<Applied(i), DropConflict(i)>>) \subseteq Js
        /\ CallsIn(<<NoteAttempt(i), SetStatus(i, "pending", "net")>>) \subseteq Js
        /\ CallsIn(<<SetStatus(i, "blocked", "auth_required")>>) \subseteq Js
        /\ CallsIn(<<SetStatus(i, "needs_review", "rejected"), AddConflict(i)>>) \subseteq Js
    BY <1>4, OneCall, TwoCalls, ThreeCalls
  <2>2. QED
    BY <2>1, SyncReceiveCases
<1>7. QED
  BY <1>5, <1>6

LEMMA CrashEffect ==
  ASSUME Typed, PlayInv, Crash
  PROVE  Effect
<1>0. UNCHANGED <<snapshot, conflicts, idmap, nextOp>> /\ batch' = {}
  BY DEF Crash, client
<1>1. \A b \in Actors : /\ pc'[b] = "idle" /\ jobs'[b] = <<>> /\ cur'[b] = NoOp
  BY DEF Crash
<1>2. \A b \in Actors : Read(b)' = {} /\ Queued(b)' = {} /\ Named(b)' = {}
  BY <1>1, NoCalls DEF Read, Queued, Named
<1>3. HeldOps' \subseteq HeldOps /\ NamedIds' \subseteq NamedIds
  BY <1>0, <1>1, <1>2 DEF HeldOps, NamedIds, InHand, Actors
<1>4. HandFrom /\ Stays /\ Grows /\ BatchReady
  BY <1>0, <1>1 DEF HandFrom, Stays, Grows, BatchReady, Typed, Data, Actors
<1>5. QED
  BY <1>3, <1>4, FewerHeld

\* A write that begins adds one operation, with a new id, and nothing else.
LEMMA BeginPlay ==
  ASSUME Typed, NEW e, NEW type, NEW at, Begins(e, type, at)
  PROVE  /\ HeldOps' = HeldOps /\ PlayOps = HeldOps
         /\ PlayOps' = HeldOps \cup {NewOp(e, type, at)}
         /\ NamedIds' = NamedIds /\ UNCHANGED <<snapshot, batch, idmap>>
<1>0. /\ pc["ui"] = "idle" /\ pc'["sync"] = pc["sync"] /\ pc'["ui"] \in {"direct", "queue"}
      /\ cur'["ui"] = NewOp(e, type, at) /\ cur'["sync"] = cur["sync"]
  BY BeginEffect
<1>1. UNCHANGED <<snapshot, conflicts, idmap, jobs, buf, batch>>
  <2>1. UNCHANGED <<client, jobs, buf, batch>>
    BY BeginEffect, Zenon
  <2>2. QED
    BY <2>1 DEF client
<1>2. \A b \in Actors : Read(b)' = Read(b) /\ Queued(b)' = Queued(b) /\ Named(b)' = Named(b)
  BY <1>0, <1>1 DEF Read, Queued, Named, Actors
<1>3. HeldOps' = HeldOps /\ NamedIds' = NamedIds
  BY <1>0, <1>1, <1>2 DEF HeldOps, NamedIds, InHand, Actors
<1>4. cur["ui"] = NoOp
  BY <1>0 DEF Typed, Locals, Jobbed, Actors
<1>5. NewOp(e, type, at) # NoOp
  BY NewOpFields, OpsFields, Zenon
<1>6. InHand("ui") = {} /\ InHand("ui")' = {NewOp(e, type, at)}
  BY <1>0, <1>4, <1>5 DEF InHand
<1>7. QED
  BY <1>1, <1>3, <1>6 DEF PlayOps

LEMMA BeginKeepsPlay ==
  ASSUME Typed, PlayInv, NEW e, NEW type, NEW at, Begins(e, type, at)
  PROVE  PlayInv'
<1>. DEFINE n == NewOp(e, type, at)
<1>a. n \in Ops
  BY NewOpFields, Zenon
<1>b. n.id = nextOp /\ n.status = "pending" /\ n.err = ""
  BY DEF NewOp
<1>0. n \in Ops /\ n.id = nextOp /\ n.status = "pending" /\ n.err = ""
  BY <1>a, <1>b
<1>1. /\ HeldOps' = HeldOps /\ PlayOps = HeldOps /\ PlayOps' = HeldOps \cup {n}
      /\ NamedIds' = NamedIds /\ UNCHANGED <<snapshot, batch, idmap>>
  BY BeginPlay
<1>2. cur'["ui"] = n /\ nextOp' = nextOp + 1
  BY BeginEffect
<1>. HIDE DEF n
<1>3. \A o \in HeldOps : o.id < nextOp /\ o.id # nextOp /\ o.id \in Ids
  BY <1>1, PlayTyped, OpsFields, BoundsAssumption DEF PlayInv, Issued, Typed, Data, Ids
<1>4. \A i \in NamedIds : i < nextOp /\ i # nextOp /\ i \in Ids
  BY PlayTyped, BoundsAssumption DEF PlayInv, Issued, Typed, Data, Ids
<1>5. Issued'
  <2>1. /\ \A k \in Ids : k < nextOp => k < nextOp + 1
        /\ nextOp < nextOp + 1
    BY BoundsAssumption DEF Typed, Data, Ids
  <2>2. \A o \in PlayOps' : o.id < nextOp'
    BY <1>0, <1>1, <1>2, <1>3, <2>1
  <2>3. \A i \in NamedIds' : i < nextOp'
    BY <1>1, <1>2, <1>4, <2>1
  <2>4. QED
    BY <2>2, <2>3 DEF Issued
<1>6. IdsAgree'
  BY <1>0, <1>1, <1>3 DEF PlayInv, IdsAgree
<1>7. NewId'
  BY <1>0, <1>1, <1>2, <1>3 DEF NewId
<1>8. Waiting'
  BY <1>1 DEF PlayInv, Waiting, Waits, ParentResolved
<1>9. Cleared'
  BY <1>0, <1>1, <1>4 DEF PlayInv, Cleared, ParentResolved
<1>10. QED
  BY <1>5, <1>6, <1>7, <1>8, <1>9 DEF PlayInv

LEMMA InitPlay == Init => PlayInv
<1>. SUFFICES ASSUME Init PROVE PlayInv
  OBVIOUS
<1>1. \A a \in Actors : jobs[a] = <<>> /\ pc[a] = "idle" /\ cur[a] = NoOp
  BY DEF Init
<1>2. \A a \in Actors : Read(a) = {} /\ Queued(a) = {} /\ Named(a) = {} /\ InHand(a) = {}
  BY <1>1, NoCalls DEF Read, Queued, Named, InHand
<1>3. HeldOps = {} /\ PlayOps = {} /\ NamedIds = {}
  BY <1>2 DEF Init, HeldOps, PlayOps, NamedIds, Actors
<1>4. QED
  BY <1>1, <1>3 DEF Init, PlayInv, Issued, IdsAgree, NewId, Waiting, Cleared, Actors

\* Every step but the beginning of a write has the effect above.
LEMMA StepEffect ==
  ASSUME Typed, PlayInv, Stepped,
         ~\E e \in Entities, type \in {"create", "update", "delete"},
             at \in {"temp", "real"} : Begins(e, type, at)
  PROVE  Effect
<1>1. ASSUME NEW a \in Actors,
             \/ Load(a) \/ Store(a) \/ LogEvents(a)
             \/ LoadConflicts(a) \/ WriteConflicts(a)
      PROVE  Effect
  BY <1>1, LoadEffect, StoreEffect, FinishEffect, LoadConflictsEffect
<1>2. ASSUME NEW a \in Actors,
             (a = "ui" /\ pc[a] = "direct") \/ (a = "sync" /\ pc[a] = "send"),
             Exchange(a, Outcomes)
      PROVE  Effect
  BY <1>2, ExchangeEffect
<1>3. ASSUME NEW i \in Ids, UiRetry(i) \/ UiDiscard(i)
      PROVE  Effect
  BY <1>3, UiRetryEffect, UiDiscardEffect
<1>4. QED
  BY <1>1, <1>2, <1>3, UiReceiveEffect, QueueCreateEffect, QueueUpdateEffect,
     QueueDeleteEffect, UiCancelEffect, UiReturnEffect, UiRefreshEffect,
     SyncStartEffect, SyncListEffects, SyncNextEffect, SyncReceiveEffect,
     CrashEffect DEF Stepped

LEMMA SamePlay ==
  ASSUME UNCHANGED vars
  PROVE  HeldOps' = HeldOps /\ PlayOps' = PlayOps /\ NamedIds' = NamedIds
  BY DEF vars, client, local, HeldOps, PlayOps, NamedIds, Read, Queued, Named, InHand

LEMMA PlayStep == Typed /\ PlayInv /\ [Next]_vars => PlayInv'
<1>. SUFFICES ASSUME Typed, PlayInv, [Next]_vars PROVE PlayInv'
  OBVIOUS
<1>1. CASE UNCHANGED vars
  <2>1. UNCHANGED <<pc, cur, batch, nextOp, idmap>>
    BY <1>1 DEF vars, client, local, screens
  <2>2. QED
    BY <1>1, <2>1, SamePlay DEF PlayInv, Issued, IdsAgree, NewId, Waiting, Waits,
                                Cleared, ParentResolved
<1>2. CASE Next
  <2>0. Stepped /\ Typed'
    BY <1>2, NextCases, TypedStep
  <2>1. CASE \E e \in Entities, type \in {"create", "update", "delete"},
                at \in {"temp", "real"} : Begins(e, type, at)
    BY <2>1, BeginKeepsPlay
  <2>2. CASE ~\E e \in Entities, type \in {"create", "update", "delete"},
                 at \in {"temp", "real"} : Begins(e, type, at)
    <3>1. Effect
      BY <2>0, <2>2, StepEffect
    <3>2. QED
      BY <2>0, <3>1, PlayKept
  <2>3. QED
    BY <2>1, <2>2
<1>3. QED
  BY <1>1, <1>2

LEMMA AlwaysPlay == Spec => [](Typed /\ PlayInv)
<1>1. Init => Typed /\ PlayInv
  BY InitTyped, InitPlay
<1>2. (Typed /\ PlayInv) /\ [Next]_vars => (Typed /\ PlayInv)'
  BY TypedStep, PlayStep
<1>3. QED
  BY <1>1, <1>2, PTL DEF Spec

LEMMA WaitingParents == Typed /\ PlayInv => ParentsFirst
<1>. SUFFICES ASSUME Typed, PlayInv, NEW o \in snapshot \cup batch,
                     o.type = "create" /\ o.status \in {"pending", "syncing"}
              PROVE  ParentResolved(o)
  BY DEF ParentsFirst
<1>1. Waits(o)
  BY DEF PlayInv, Waiting, HeldOps
<1>2. QED
  BY <1>1 DEF Waits

\* Whatever the user and the flush do to the snapshot at the same time, and
\* wherever the client dies, a create is ready to be sent only once the
\* server id of its parent is known: _resolve_request_payload finds it.
THEOREM ParentsGoFirst == Spec => []ParentsFirst
  BY AlwaysPlay, WaitingParents, PTL

-----------------------------------------------------------------------------
(* One create per entity.                                                  *)

\* All copies of the create of an entity carry one Idempotency-Key.
OneKey == \A o, p \in PlayOps :
  o.type = "create" /\ p.type = "create" /\ o.ent = p.ent => o.id = p.id

\* The server creates an entity when it first sees the key.
KeyedOnce == \A o \in PlayOps :
  o.type = "create" /\ keyed[o.id] = {} => created[o.ent] = 0

\* An entity the user does not know has no create anywhere.
Unborn == \A e \in Temps : known[e] = "none" =>
  created[e] = 0 /\ \A o \in PlayOps : o.type = "create" => o.ent # e

\* A create the user is sending is known to that call alone, and one the
\* server refused was not made.
Sole ==
  pc["ui"] \in {"direct", "receive"} /\ cur["ui"].type = "create" =>
    /\ \A o \in HeldOps : o.type = "create" => o.ent # cur["ui"].ent
    /\ pc["ui"] = "direct" \/ res["ui"] \in {"refused", "auth"}
         => created[cur["ui"].ent] = 0

OnceInv == OneKey /\ KeyedOnce /\ Unborn /\ Sole /\ CreateOnce

Steady ==
  /\ pc'["ui"] \in {"direct", "receive"} =>
       pc'["ui"] = pc["ui"] /\ res'["ui"] = res["ui"]
  /\ UNCHANGED <<keyed, created>>

NoneStays == \A e \in Temps : known'[e] = "none" => known[e] = "none"

LEMMA KnownMoves ==
  ASSUME Typed, NEW e, NEW v, v # "none", known' = [known EXCEPT ![e] = v]
  PROVE  NoneStays
  BY DEF NoneStays, Typed, Data, Entities

LEMMA OneKeyKept ==
  ASSUME Typed, Effect, OneKey
  PROVE  OneKey'
<1>. SUFFICES ASSUME NEW o \in PlayOps', NEW p \in PlayOps',
                     o.type = "create" /\ p.type = "create" /\ o.ent = p.ent
              PROVE  o.id = p.id
  BY DEF OneKey
<1>1. PICK q \in PlayOps : Kin(o, q)
  BY PlayFrom
<1>2. PICK r \in PlayOps : Kin(p, r)
  BY PlayFrom
<1>3. QED
  BY <1>1, <1>2 DEF Kin, OneKey

LEMMA OnceKept ==
  ASSUME Typed, PlayInv, Effect, OnceInv, Steady
  PROVE  /\ OneKey' /\ KeyedOnce' /\ Sole' /\ CreateOnce'
         /\ NoneStays => Unborn'
<1>1. OneKey'
  BY OneKeyKept DEF OnceInv
<1>2. KeyedOnce'
  <2>. SUFFICES ASSUME NEW o \in PlayOps', o.type = "create", keyed[o.id] = {}
                PROVE  created[o.ent] = 0
    BY DEF KeyedOnce, Steady
  <2>1. PICK q \in PlayOps : Kin(o, q)
    BY PlayFrom
  <2>2. QED
    BY <2>1 DEF Kin, OnceInv, KeyedOnce
<1>3. Sole'
  <2>. SUFFICES ASSUME pc'["ui"] \in {"direct", "receive"}, cur'["ui"].type = "create"
                PROVE  /\ \A o \in HeldOps' : o.type = "create" => o.ent # cur'["ui"].ent
                       /\ pc'["ui"] = "direct" \/ res'["ui"] \in {"refused", "auth"}
                            => created[cur'["ui"].ent] = 0
    BY DEF Sole, Steady
  <2>1. cur'["ui"] = cur["ui"] /\ pc'["ui"] = pc["ui"] /\ res'["ui"] = res["ui"]
    BY DEF Effect, Stays, Steady
  <2>2. ASSUME NEW o \in HeldOps', o.type = "create" PROVE o.ent # cur["ui"].ent
    <3>1. PICK p \in HeldOps : Stems(o, p)
      BY DEF Effect, HeldFrom
    <3>2. QED
      BY <2>1, <2>2, <3>1 DEF Stems, Kin, OnceInv, Sole
  <2>3. QED
    BY <2>1, <2>2 DEF OnceInv, Sole
<1>4. CreateOnce'
  BY DEF OnceInv, CreateOnce, Steady
<1>5. ASSUME NoneStays PROVE Unborn'
  <2>. SUFFICES ASSUME NEW e \in Temps, known'[e] = "none"
                PROVE  created[e] = 0 /\ \A o \in PlayOps' : o.type = "create" => o.ent # e
    BY DEF Unborn, Steady
  <2>1. known[e] = "none"
    BY <1>5 DEF NoneStays
  <2>2. created[e] = 0 /\ \A o \in PlayOps : o.type = "create" => o.ent # e
    BY <2>1 DEF OnceInv, Unborn
  <2>3. ASSUME NEW o \in PlayOps', o.type = "create" PROVE o.ent # e
    <3>1. PICK q \in PlayOps : Kin(o, q)
      BY PlayFrom
    <3>2. QED
      BY <2>2, <2>3, <3>1 DEF Kin
  <2>4. QED
    BY <2>2, <2>3
<1>6. QED
  BY <1>1, <1>2, <1>3, <1>4, <1>5

LEMMA RunSteady ==
  ASSUME Typed, NEW a \in Actors, NEW js, NEW p, Run(a, js, p), UNCHANGED <<res, keyed, created>>
  PROVE  Steady
  BY DEF Run, Steady, Typed, Locals, Actors

LEMMA JobDoneSteady ==
  ASSUME Typed, NEW a \in Actors, pc[a] \in Working, JobDone(a), UNCHANGED <<keyed, created>>
  PROVE  Steady
<1>1. /\ \A b \in Actors \ {a} : pc'[b] = pc[b]
      /\ pc'[a] = IF Tail(jobs[a]) = <<>> THEN after[a] ELSE "load"
  BY JobDoneLocals DEF Typed
<1>2. \A b \in Actors \ {a} : res'[b] = res[b]
  BY DEF JobDone, Goto, Typed, Locals
<1>3. after["ui"] \in {"idle", "return", "cancel"}
  BY DEF Typed, Locals, Places
<1>4. QED
  BY <1>1, <1>2, <1>3 DEF Steady, Actors

LEMMA JournalSteady ==
  ASSUME Typed, NEW a \in Actors,
         \/ Load(a) \/ Store(a) \/ LogEvents(a) \/ LoadConflicts(a) \/ WriteConflicts(a)
  PROVE  Steady /\ NoneStays
<1>1. UNCHANGED <<keyed, created, known>>
  BY DEF Load, Store, LogEvents, LoadConflicts, WriteConflicts, screens, server
<1>2. NoneStays
  BY <1>1 DEF NoneStays
<1>3. pc[a] \in Working
  BY DEF Load, Store, LogEvents, LoadConflicts, WriteConflicts, Working
<1>4. CASE JobDone(a)
  BY <1>1, <1>2, <1>3, <1>4, JobDoneSteady
<1>5. CASE /\ pc' \in {[pc EXCEPT ![a] = "store"], [pc EXCEPT ![a] = "append"],
                       [pc EXCEPT ![a] = "write_conflicts"]}
           /\ UNCHANGED res
  BY <1>1, <1>2, <1>5 DEF Steady, Typed, Locals, Actors
<1>6. QED
  BY <1>4, <1>5 DEF Load, Store, LogEvents, LoadConflicts, WriteConflicts

\* Only a refused create makes an entity unknown again.
LEMMA StepSteady ==
  ASSUME Typed, Stepped,
         ~\E e \in Entities, type \in {"create", "update", "delete"},
             at \in {"temp", "real"} : Begins(e, type, at),
         ~\E a \in Actors : /\ (a = "ui" /\ pc[a] = "direct") \/ (a = "sync" /\ pc[a] = "send")
                            /\ Exchange(a, Outcomes)
  PROVE  Steady /\ (UiReceive \/ NoneStays)
<1>1. ASSUME NEW a \in Actors,
             \/ Load(a) \/ Store(a) \/ LogEvents(a)
             \/ LoadConflicts(a) \/ WriteConflicts(a)
      PROVE  Steady /\ NoneStays
  BY <1>1, JournalSteady
<1>2. CASE UiReceive
  <2>1. UNCHANGED <<keyed, created>> /\ (Goto("ui", "queue") \/ Goto("ui", "idle"))
    BY <1>2 DEF UiReceive, server
  <2>2. Steady
    BY <2>1 DEF Goto, Steady, Typed, Locals, Actors
  <2>3. QED
    BY <1>2, <2>2
<1>3. CASE QueueCreate \/ QueueUpdate \/ SyncStart \/ SyncReceive \/ SyncNext
  <2>1. UNCHANGED <<res, keyed, created, known>>
    BY <1>3 DEF QueueCreate, QueueUpdate, SyncStart, SyncReceive, SyncNext, screens, server
  <2>2. \E a \in Actors : \E js, p : Run(a, js, p)
    <3>1. CASE QueueCreate \/ SyncStart
      BY <3>1 DEF QueueCreate, SyncStart, Actors
    <3>2. CASE QueueUpdate
      BY <3>2, QueueUpdateCases DEF Actors
    <3>3. CASE SyncReceive
      BY <3>3 DEF SyncReceive, Actors
    <3>4. CASE SyncNext
      BY <3>4 DEF SyncNext, Actors
    <3>5. QED
      BY <1>3, <3>1, <3>2, <3>3, <3>4
  <2>3. QED
    BY <2>1, <2>2, RunSteady DEF NoneStays
<1>4. CASE QueueDelete
  <2>1. UNCHANGED <<res, keyed, created>> /\ \E js, p : Run("ui", js, p)
    BY <1>4 DEF QueueDelete, server
  <2>2. NoneStays
    <3>1. known' = known \/ known' = [known EXCEPT ![cur["ui"].ent] = "gone"]
      BY <1>4 DEF QueueDelete
    <3>2. CASE known' = known
      BY <3>2 DEF NoneStays
    <3>3. QED
      BY <3>1, <3>2, KnownMoves
  <2>3. QED
    BY <2>1, <2>2, RunSteady DEF Actors
<1>5. CASE UiCancel
  <2>1. UNCHANGED <<keyed, created>> /\ (known' = known \/ \E o : known' = [known EXCEPT ![o.ent] = "gone"])
    BY <1>5 DEF UiCancel, server
  <2>2. NoneStays
    <3>1. CASE known' = known
      BY <3>1 DEF NoneStays
    <3>2. QED
      BY <2>1, <3>1, KnownMoves
  <2>3. \/ UNCHANGED res /\ \E js, p : Run("ui", js, p)
        \/ Goto("ui", "idle")
    BY <1>5 DEF UiCancel
  <2>4. Steady
    <3>1. CASE UNCHANGED res /\ \E js, p : Run("ui", js, p)
      BY <2>1, <3>1, RunSteady DEF Actors
    <3>2. CASE Goto("ui", "idle")
      BY <2>1, <3>2 DEF Goto, Steady, Typed, Locals, Actors
    <3>3. QED
      BY <2>3, <3>1, <3>2
  <2>5. QED
    BY <2>2, <2>4
<1>6. CASE UiReturn
  <2>1. UNCHANGED <<keyed, created>> /\ Goto("ui", "idle")
    BY <1>6 DEF UiReturn, server
  <2>2. known' = known \/ known' = [known EXCEPT ![cur["ui"].ent] = "temp"]
    BY <1>6 DEF UiReturn
  <2>3. NoneStays
    <3>1. CASE known' = known
      BY <3>1 DEF NoneStays
    <3>2. QED
      BY <2>2, <3>1, KnownMoves
  <2>4. Steady
    BY <2>1 DEF Goto, Steady, Typed, Locals, Actors
  <2>5. QED
    BY <2>3, <2>4
<1>7. CASE \E e \in Temps : UiRefresh(e)
  <2>1. /\ UNCHANGED <<keyed, created, pc, res>>
        /\ \E e \in Temps : known' = [known EXCEPT ![e] = "real"]
    BY <1>7 DEF UiRefresh, server, local
  <2>2. NoneStays
    BY <2>1, KnownMoves
  <2>3. QED
    BY <2>1, <2>2 DEF Steady
<1>8. ASSUME NEW i \in Ids, UiRetry(i) PROVE Steady /\ NoneStays
  <2>1. UNCHANGED <<res, keyed, created, known>> /\ \E js, p : Run("ui", js, p)
    BY <1>8 DEF UiRetry, server
  <2>2. QED
    BY <2>1, RunSteady DEF NoneStays, Actors
<1>9. ASSUME NEW i \in Ids, UiDiscard(i) PROVE Steady /\ NoneStays
  <2>1. UNCHANGED <<res, keyed, created>>
    BY <1>9 DEF UiDiscard, server
  <2>2. \E js, p : Run("ui", js, p)
    BY <1>9, UiDiscardCases
  <2>3. NoneStays
    <3>1. known' = known \/ \E e : known' = [known EXCEPT ![e] = "gone"]
      BY <1>9 DEF UiDiscard
    <3>2. CASE known' = known
      BY <3>2 DEF NoneStays
    <3>3. QED
      BY <3>1, <3>2, KnownMoves
  <2>4. QED
    BY <2>1, <2>2, <2>3, RunSteady DEF Actors
<1>10. CASE SyncList
  BY <1>10, SyncListEffect DEF SyncList, Steady, NoneStays, server, screens
<1>11. CASE Crash
  BY <1>11 DEF Crash, Steady, NoneStays, server, Actors
<1>12. QED
  BY <1>1, <1>2, <1>3, <1>4, <1>5, <1>6, <1>7, <1>8, <1>9, <1>10, <1>11 DEF Stepped

LEMMA ExchangeOnce ==
  ASSUME Typed, OnceInv, NEW a \in Actors,
         (a = "ui" /\ pc[a] = "direct") \/ (a = "sync" /\ pc[a] = "send"),
         Exchange(a, Outcomes)
  PROVE  OnceInv'
<1>. DEFINE o == cur[a]
            first == o.type = "create" /\ keyed[o.id] = {}
<1>0. /\ UNCHANGED <<snapshot, batch, jobs, buf, cur, known>>
      /\ pc' = [pc EXCEPT ![a] = "receive"]
  BY DEF Exchange, client, screens
<1>1. pc'[a] = "receive" /\ \A b \in Actors \ {a} : pc'[b] = pc[b]
  BY <1>0 DEF Typed, Locals
<1>2. HeldOps' = HeldOps /\ PlayOps' = PlayOps
  BY <1>0, <1>1 DEF HeldOps, PlayOps, Read, Queued, InHand, Actors
<1>3. o # NoOp /\ o \in Ops
  BY DEF Typed, Locals, Jobbed, Actors
<1>4. o \in PlayOps /\ (a = "sync" => o \in HeldOps)
  BY <1>3, HandInPlay
<1>5. \A b \in Actors \ {a} : res'[b] = res[b]
  BY DEF Exchange, Typed, Locals
<1>6. \/ UNCHANGED <<keyed, created>>
      \/ /\ first
         /\ keyed' = [keyed EXCEPT ![o.id] = o.body]
         /\ created' = [created EXCEPT ![o.ent] = @ + 1]
         /\ res'[a] \in {"ok", "retryable"}
  <2>1. PICK x \in Outcomes :
          /\ IF x \in {"answer", "lost"} /\ Served(o)
               THEN Process(o) ELSE UNCHANGED server
          /\ res' = [res EXCEPT ![a] =
               CASE x = "answer" -> IF Served(o) THEN "ok" ELSE "refused"
                 [] x = "auth"   -> "auth"
                 [] x = "accepted" -> "refused"
                 [] OTHER        -> "retryable"]
    BY DEF Exchange
  <2>2. CASE x \in {"answer", "lost"} /\ Served(o)
    <3>1. res'[a] \in {"ok", "retryable"}
      BY <2>1, <2>2 DEF Typed, Locals
    <3>2. Process(o)
      BY <2>1, <2>2
    <3>3. QED
      BY <3>1, <3>2 DEF Process
  <2>3. CASE ~(x \in {"answer", "lost"} /\ Served(o))
    BY <2>1, <2>3 DEF server
  <2>4. QED
    BY <2>2, <2>3
<1>7. OneKey'
  BY <1>2 DEF OnceInv, OneKey
<1>. HIDE DEF o, first
<1>8. CASE UNCHANGED <<keyed, created>>
  <2>1. KeyedOnce' /\ Unborn' /\ CreateOnce'
    BY <1>0, <1>2, <1>8 DEF OnceInv, KeyedOnce, Unborn, CreateOnce
  <2>2. Sole'
    BY <1>0, <1>1, <1>2, <1>5, <1>8 DEF OnceInv, Sole, Actors
  <2>3. QED
    BY <1>7, <2>1, <2>2 DEF OnceInv
<1>9. CASE /\ first
           /\ keyed' = [keyed EXCEPT ![o.id] = o.body]
           /\ created' = [created EXCEPT ![o.ent] = @ + 1]
           /\ res'[a] \in {"ok", "retryable"}
  <2>1. o.ent \in Temps /\ o.body # {} /\ o.id \in Ids /\ o.type = "create"
    BY <1>3, <1>9 DEF first, Ops, Op
  <2>2. created[o.ent] = 0
    BY <1>4, <1>9 DEF first, OnceInv, KeyedOnce
  <2>3. /\ created'[o.ent] = 1
        /\ \A e \in Temps \ {o.ent} : created'[e] = created[e]
    BY <1>9, <2>1, <2>2 DEF Typed, Data
  <2>4. /\ keyed'[o.id] # {}
        /\ \A i \in Ids \ {o.id} : keyed'[i] = keyed[i]
    BY <1>9, <2>1 DEF Typed, Data
  <2>5. CreateOnce'
    BY <2>3 DEF OnceInv, CreateOnce
  <2>6. KeyedOnce'
    <3>. SUFFICES ASSUME NEW p \in PlayOps, p.type = "create", keyed'[p.id] = {}
                  PROVE  created'[p.ent] = 0
      BY <1>2 DEF KeyedOnce
    <3>1. p \in Ops /\ p.ent \in Temps /\ p.id \in Ids
      BY PlayTyped DEF Ops, Op
    <3>2. p.id # o.id /\ keyed[p.id] = {}
      BY <2>4, <3>1
    <3>3. p.ent # o.ent
      BY <1>4, <2>1, <3>2 DEF OnceInv, OneKey
    <3>4. QED
      BY <2>3, <3>1, <3>2, <3>3 DEF OnceInv, KeyedOnce
  <2>7. Unborn'
    <3>. SUFFICES ASSUME NEW e \in Temps, known[e] = "none"
                  PROVE  created'[e] = 0 /\ \A p \in PlayOps : p.type = "create" => p.ent # e
      BY <1>0, <1>2 DEF Unborn
    <3>1. created[e] = 0 /\ \A p \in PlayOps : p.type = "create" => p.ent # e
      BY DEF OnceInv, Unborn
    <3>2. QED
      BY <1>4, <2>1, <2>3, <3>1
  <2>8. Sole'
    <3>1. CASE a = "ui"
      BY <1>0, <1>1, <1>2, <1>9, <3>1 DEF OnceInv, Sole
    <3>2. CASE a = "sync"
      <4>. SUFFICES ASSUME pc["ui"] \in {"direct", "receive"}, cur["ui"].type = "create"
                    PROVE  /\ \A p \in HeldOps : p.type = "create" => p.ent # cur["ui"].ent
                           /\ pc["ui"] = "direct" \/ res["ui"] \in {"refused", "auth"}
                                => created'[cur["ui"].ent] = 0
        BY <1>0, <1>1, <1>2, <1>5, <3>2 DEF Sole, Actors
      <4>1. cur["ui"] # NoOp /\ cur["ui"] \in Ops
        BY DEF Typed, Locals, Jobbed, Actors
      <4>2. cur["ui"].ent \in Temps
        BY <4>1 DEF Ops, Op
      <4>3. cur["ui"].ent # o.ent
        BY <1>4, <2>1, <3>2 DEF OnceInv, Sole
      <4>4. QED
        BY <2>3, <4>2, <4>3 DEF OnceInv, Sole
    <3>3. QED
      BY <3>1, <3>2 DEF Actors
  <2>9. QED
    BY <1>7, <2>5, <2>6, <2>7, <2>8 DEF OnceInv
<1>10. QED
  BY <1>6, <1>8, <1>9

LEMMA UiReceiveOnce ==
  ASSUME Typed, OnceInv, Effect, Steady, UiReceive
  PROVE  Unborn'
<1>. DEFINE o == cur["ui"]
<1>1. /\ pc["ui"] = "receive"
      /\ \/ known' = known \/ known' = [known EXCEPT ![o.ent] = "gone"]
         \/ known' = [known EXCEPT ![o.ent] = "real"]
         \/ /\ o.type = "create" /\ res["ui"] \in {"refused", "auth"}
            /\ Goto("ui", "idle")
            /\ known' = [known EXCEPT ![o.ent] = "none"]
  BY DEF UiReceive
<1>. SUFFICES ASSUME NEW e \in Temps, known'[e] = "none"
              PROVE  created[e] = 0 /\ \A p \in PlayOps' : p.type = "create" => p.ent # e
  BY DEF Unborn, Steady
<1>2. known[e] = "none" \/ (/\ e = o.ent /\ o.type = "create" /\ Goto("ui", "idle")
                            /\ res["ui"] \in {"refused", "auth"})
  BY <1>1 DEF Typed, Data, Entities
<1>3. CASE known[e] = "none"
  <2>1. created[e] = 0 /\ \A p \in PlayOps : p.type = "create" => p.ent # e
    BY <1>3 DEF OnceInv, Unborn
  <2>2. ASSUME NEW p \in PlayOps', p.type = "create" PROVE p.ent # e
    <3>1. PICK q \in PlayOps : Kin(p, q)
      BY PlayFrom
    <3>2. QED
      BY <2>1, <2>2, <3>1 DEF Kin
  <2>3. QED
    BY <2>1, <2>2
<1>4. CASE /\ e = o.ent /\ o.type = "create" /\ Goto("ui", "idle")
           /\ res["ui"] \in {"refused", "auth"}
  <2>1. created[e] = 0 /\ \A p \in HeldOps : p.type = "create" => p.ent # e
    BY <1>1, <1>4 DEF OnceInv, Sole
  <2>2. cur'["ui"] = NoOp
    BY <1>4 DEF Goto, Typed, Locals, Actors
  <2>3. ASSUME NEW p \in PlayOps', p.type = "create" PROVE p.ent # e
    <3>1. p \in HeldOps'
      BY <2>2 DEF PlayOps, InHand
    <3>2. PICK q \in HeldOps : Stems(p, q)
      BY <1>1, <3>1 DEF Effect, HeldFrom
    <3>3. QED
      BY <2>1, <2>3, <3>2 DEF Stems, Kin
  <2>4. QED
    BY <2>1, <2>3
<1>5. QED
  BY <1>2, <1>3, <1>4

LEMMA BeginOnce ==
  ASSUME Typed, OnceInv, NEW e, NEW type, NEW at, Begins(e, type, at)
  PROVE  OnceInv'
<1>. DEFINE n == NewOp(e, type, at)
<1>0. n.type = type /\ n.ent = e
  BY DEF NewOp
<1>1. HeldOps' = HeldOps /\ PlayOps = HeldOps /\ PlayOps' = HeldOps \cup {n}
  BY BeginPlay
<1>2. /\ cur'["ui"] = n
      /\ known' = IF type = "create" THEN [known EXCEPT ![e] = "calling"] ELSE known
      /\ pc'["ui"] \in {"direct", "queue"}
  BY BeginEffect
<1>. HIDE DEF n
<1>3. UNCHANGED <<keyed, created>>
  <2>1. UNCHANGED server
    BY BeginEffect, Zenon
  <2>2. QED
    BY <2>1 DEF server
<1>4. type = "create" => e \in Temps /\ known[e] = "none"
  BY DEF Begins
<1>5. type = "create" => created[e] = 0 /\ \A o \in HeldOps : o.type = "create" => o.ent # e
  BY <1>1, <1>4 DEF OnceInv, Unborn
<1>6. OneKey'
  BY <1>0, <1>1, <1>5 DEF OnceInv, OneKey
<1>7. KeyedOnce'
  BY <1>0, <1>1, <1>3, <1>5 DEF OnceInv, KeyedOnce
<1>8. Unborn'
  <2>. SUFFICES ASSUME NEW f \in Temps, known'[f] = "none"
                PROVE  created[f] = 0 /\ \A o \in HeldOps \cup {n} : o.type = "create" => o.ent # f
    BY <1>1, <1>3 DEF Unborn
  <2>1. known[f] = "none" /\ (type = "create" => f # e)
    BY <1>2, <1>4 DEF Typed, Data, Entities
  <2>2. QED
    BY <1>0, <1>1, <2>1 DEF OnceInv, Unborn
<1>9. Sole'
  BY <1>0, <1>1, <1>2, <1>3, <1>5 DEF Sole
<1>10. CreateOnce'
  BY <1>3 DEF OnceInv, CreateOnce
<1>11. QED
  BY <1>6, <1>7, <1>8, <1>9, <1>10 DEF OnceInv

LEMMA InitOnce == Init => OnceInv
<1>. SUFFICES ASSUME Init PROVE OnceInv
  OBVIOUS
<1>1. \A a \in Actors : jobs[a] = <<>> /\ pc[a] = "idle" /\ cur[a] = NoOp
  BY DEF Init
<1>2. \A a \in Actors : Read(a) = {} /\ Queued(a) = {} /\ InHand(a) = {}
  BY <1>1, NoCalls DEF Read, Queued, InHand
<1>3. HeldOps = {} /\ PlayOps = {}
  BY <1>2 DEF Init, HeldOps, PlayOps, Actors
<1>4. created = [e \in Temps |-> 0]
  BY DEF Init
<1>5. QED
  BY <1>1, <1>3, <1>4 DEF OnceInv, OneKey, KeyedOnce, Unborn, Sole, CreateOnce, Actors

LEMMA OnceStep == Typed /\ PlayInv /\ OnceInv /\ [Next]_vars => OnceInv'
<1>. SUFFICES ASSUME Typed, PlayInv, OnceInv, [Next]_vars PROVE OnceInv'
  OBVIOUS
<1>1. CASE UNCHANGED vars
  <2>1. UNCHANGED <<pc, cur, res, known, keyed, created>>
    BY <1>1 DEF vars, local, screens, server
  <2>2. QED
    BY <1>1, <2>1, SamePlay DEF OnceInv, OneKey, KeyedOnce, Unborn, Sole, CreateOnce
<1>2. CASE Next
  <2>0. Stepped
    BY <1>2, NextCases
  <2>1. CASE \E e \in Entities, type \in {"create", "update", "delete"},
                at \in {"temp", "real"} : Begins(e, type, at)
    BY <2>1, BeginOnce
  <2>2. CASE \E a \in Actors :
               /\ (a = "ui" /\ pc[a] = "direct") \/ (a = "sync" /\ pc[a] = "send")
               /\ Exchange(a, Outcomes)
    BY <2>2, ExchangeOnce
  <2>3. CASE /\ ~\E e \in Entities, type \in {"create", "update", "delete"},
                    at \in {"temp", "real"} : Begins(e, type, at)
             /\ ~\E a \in Actors :
                   /\ (a = "ui" /\ pc[a] = "direct") \/ (a = "sync" /\ pc[a] = "send")
                   /\ Exchange(a, Outcomes)
    <3>1. Effect
      BY <2>0, <2>3, StepEffect
    <3>2. Steady /\ (UiReceive \/ NoneStays)
      BY <2>0, <2>3, StepSteady
    <3>3. OneKey' /\ KeyedOnce' /\ Sole' /\ CreateOnce' /\ (NoneStays => Unborn')
      BY <3>1, <3>2, OnceKept
    <3>4. Unborn'
      BY <3>1, <3>2, <3>3, UiReceiveOnce
    <3>5. QED
      BY <3>3, <3>4 DEF OnceInv
  <2>4. QED
    BY <2>1, <2>2, <2>3
<1>3. QED
  BY <1>1, <1>2

\* However often a create is sent again (lost answers, crashes, merged edits,
\* a flush that races the user), the server creates the entity once: every
\* copy of the create carries the op_id of the first as its Idempotency-Key.
THEOREM CreatedOnce == Spec => []CreateOnce
<1>1. Init => Typed /\ PlayInv /\ OnceInv
  BY InitTyped, InitPlay, InitOnce
<1>2. (Typed /\ PlayInv /\ OnceInv) /\ [Next]_vars => (Typed /\ PlayInv /\ OnceInv)'
  BY TypedStep, PlayStep, OnceStep
<1>3. Typed /\ PlayInv /\ OnceInv => CreateOnce
  BY DEF OnceInv
<1>4. QED
  BY <1>1, <1>2, <1>3, PTL DEF Spec

-----------------------------------------------------------------------------
(* As long as no call of the user meets a flush, one thread at a time uses *)
(* the files.                                                              *)

Busy == {"store", "append", "write_conflicts"}

Alone == pc["ui"] = "idle" \/ pc["sync"] = "idle"

\* The list a thread has read is the one it is about to replace.
Current(a) ==
  /\ pc[a] = "store" => buf[a] = snapshot
  /\ pc[a] = "append" => snapshot = Edited(Head(jobs[a]), buf[a])
  /\ pc[a] = "write_conflicts" => buf[a] = conflicts

\* The log lags behind the snapshot by at most the call being made.
Logged == crashes = 0 =>
  /\ \A a \in Actors : pc[a] = "append" => journal = buf[a]
  /\ (\A a \in Actors : pc[a] # "append") => journal = snapshot

SerialInv == Alone /\ (\A a \in Actors : Current(a)) /\ Logged

\* Thread a moves outside of a journal call.
Moves(a) == /\ pc[a] \notin Busy /\ pc'[a] \notin Busy
            /\ \A b \in Actors \ {a} : pc[b] = "idle" /\ pc'[b] = "idle"

LEMMA MovesTo ==
  ASSUME Typed, NEW a \in Actors, pc[a] \notin Busy, NEW v, v \notin Busy,
         pc' = [pc EXCEPT ![a] = v], \A b \in Actors \ {a} : pc[b] = "idle"
  PROVE  Moves(a)
  BY DEF Moves, Typed, Locals

LEMMA OthersIdle ==
  ASSUME Alone, NEW a \in Actors, pc[a] # "idle"
  PROVE  \A b \in Actors \ {a} : pc[b] = "idle"
  BY DEF Alone, Actors

LEMMA RunMoves ==
  ASSUME Typed, NEW a \in Actors, pc[a] \notin Busy,
         \A b \in Actors \ {a} : pc[b] = "idle", NEW js, NEW p, Run(a, js, p)
  PROVE  Moves(a)
<1>1. pc' = [pc EXCEPT ![a] = "load"] /\ "load" \notin Busy
  BY DEF Run, Busy
<1>2. QED
  BY <1>1, MovesTo

\* A step after which no call has met a flush began that way.
LEMMA Apartness ==
  ASSUME Recording, Recorded, overlaps' = 0
  PROVE  overlaps = 0 /\ (Alone => Alone')
  BY DEF Recording, Recorded, Together, Alone

\* Outside of a journal call the three files stay as they are.
LEMMA Aside ==
  ASSUME Typed, Alone, Alone', Stepped, ~Crash,
         ~\E a \in Actors : \/ Load(a) \/ Store(a) \/ LogEvents(a)
                            \/ LoadConflicts(a) \/ WriteConflicts(a)
  PROVE  /\ (\E a \in Actors : Moves(a)) \/ UNCHANGED <<pc, jobs, buf, idmap>>
         /\ UNCHANGED <<snapshot, journal, conflicts, crashes>>
<1>0. "ui" \in Actors /\ "sync" \in Actors
  BY DEF Actors
<1>1. ASSUME NEW e, NEW type, NEW at, Begins(e, type, at)
      PROVE  Moves("ui") /\ UNCHANGED <<snapshot, journal, conflicts, crashes>>
  <2>1. UNCHANGED <<client, crashes>>
    BY <1>1, BeginEffect, Zenon
  <2>2. /\ pc["ui"] = "idle" /\ pc'["sync"] = pc["sync"]
        /\ pc'["ui"] \in {"direct", "queue"}
    BY <1>1, BeginEffect
  <2>4. pc["sync"] = "idle" /\ pc'["sync"] = "idle"
    BY <2>2 DEF Alone
  <2>3. QED
    BY <2>1, <2>2, <2>4 DEF client, Moves, Busy, Actors
<1>2. ASSUME NEW a \in Actors,
             (a = "ui" /\ pc[a] = "direct") \/ (a = "sync" /\ pc[a] = "send"),
             Exchange(a, Outcomes)
      PROVE  Moves(a) /\ UNCHANGED <<snapshot, journal, conflicts, crashes>>
  <2>1. pc' = [pc EXCEPT ![a] = "receive"] /\ UNCHANGED <<client, crashes>>
    BY <1>2 DEF Exchange
  <2>2. pc[a] \notin Busy /\ pc[a] # "idle" /\ "receive" \notin Busy
    BY <1>2 DEF Busy
  <2>3. Moves(a)
    BY <2>1, <2>2, MovesTo, OthersIdle
  <2>4. QED
    BY <2>1, <2>3 DEF client
<1>3. CASE UiReceive
  <2>1. /\ UNCHANGED <<snapshot, journal, conflicts, crashes>>
        /\ pc["ui"] = "receive" /\ (Goto("ui", "idle") \/ Goto("ui", "queue"))
    BY <1>3 DEF UiReceive
  <2>2. \E v : v \notin Busy /\ pc' = [pc EXCEPT !["ui"] = v]
    BY <2>1 DEF Goto, Busy
  <2>3. pc["ui"] \notin Busy /\ pc["ui"] # "idle"
    BY <2>1 DEF Busy
  <2>4. QED
    BY <1>0, <2>1, <2>2, <2>3, MovesTo, OthersIdle
<1>4. CASE QueueCreate \/ QueueUpdate \/ QueueDelete
  <2>1. pc["ui"] = "queue" /\ UNCHANGED <<client, crashes>> /\ \E js, p : Run("ui", js, p)
    <3>1. CASE QueueCreate
      BY <3>1 DEF QueueCreate
    <3>2. CASE QueueUpdate
      BY <3>2, QueueUpdateCases
    <3>3. CASE QueueDelete
      BY <3>3 DEF QueueDelete
    <3>4. QED
      BY <1>4, <3>1, <3>2, <3>3
  <2>2. pc["ui"] \notin Busy /\ pc["ui"] # "idle"
    BY <2>1 DEF Busy
  <2>3. Moves("ui")
    BY <1>0, <2>1, <2>2, RunMoves, OthersIdle
  <2>4. QED
    BY <1>0, <2>1, <2>3 DEF client
<1>5. CASE UiCancel \/ UiReturn
  <2>1. /\ pc["ui"] \in {"cancel", "return"} /\ UNCHANGED <<client, crashes>>
        /\ Goto("ui", "idle") \/ \E js, p : Run("ui", js, p)
    BY <1>5 DEF UiCancel, UiReturn
  <2>2. \E v : v \notin Busy /\ pc' = [pc EXCEPT !["ui"] = v]
    BY <2>1 DEF Goto, Run, Busy
  <2>3. pc["ui"] \notin Busy /\ pc["ui"] # "idle"
    BY <2>1 DEF Busy
  <2>4. Moves("ui")
    BY <1>0, <2>2, <2>3, MovesTo, OthersIdle
  <2>5. QED
    BY <1>0, <2>1, <2>4 DEF client
<1>6. ASSUME NEW e \in Temps, UiRefresh(e)
      PROVE  /\ UNCHANGED <<pc, jobs, buf, idmap>>
             /\ UNCHANGED <<snapshot, journal, conflicts, crashes>>
  BY <1>6 DEF UiRefresh, client, local
<1>7. ASSUME NEW i \in Ids, UiRetry(i) \/ UiDiscard(i)
      PROVE  Moves("ui") /\ UNCHANGED <<snapshot, journal, conflicts, crashes>>
  <2>0. pc["ui"] = "idle" /\ UNCHANGED <<client, crashes>>
    BY <1>7 DEF UiRetry, UiDiscard
  <2>2. \E js, p : Run("ui", js, p)
    BY <1>7, UiRetryCases, UiDiscardCases
  <2>1. /\ pc["ui"] = "idle" /\ pc["sync"] = "idle"
        /\ UNCHANGED <<client, crashes>>
    BY <2>0, <2>2 DEF Run, Alone, Typed, Locals, Actors
  <2>3. pc["ui"] \notin Busy /\ \A b \in Actors \ {"ui"} : pc[b] = "idle"
    BY <2>1 DEF Busy, Actors
  <2>4. Moves("ui")
    BY <1>0, <2>2, <2>3, RunMoves
  <2>5. QED
    BY <2>1, <2>4 DEF client
<1>8. CASE SyncStart
  <2>0. /\ pc["sync"] = "idle" /\ UNCHANGED <<client, crashes>>
        /\ \E js, p : Run("sync", js, p)
    BY <1>8 DEF SyncStart
  <2>1. /\ pc["sync"] = "idle" /\ pc["ui"] = "idle" /\ UNCHANGED <<client, crashes>>
        /\ \E js, p : Run("sync", js, p)
    BY <2>0 DEF Run, Alone, Typed, Locals, Actors
  <2>2. pc["sync"] \notin Busy /\ \A b \in Actors \ {"sync"} : pc[b] = "idle"
    BY <2>1 DEF Busy, Actors
  <2>3. Moves("sync")
    BY <1>0, <2>1, <2>2, RunMoves
  <2>4. QED
    BY <1>0, <2>1, <2>3 DEF client
<1>9. CASE SyncList
  <2>1. pc["sync"] = "list" /\ pc' = [pc EXCEPT !["sync"] = "next"]
        /\ UNCHANGED <<client, crashes>>
    BY <1>9 DEF SyncList
  <2>2. pc["sync"] \notin Busy /\ pc["sync"] # "idle" /\ "next" \notin Busy
    BY <2>1 DEF Busy
  <2>3. Moves("sync")
    BY <1>0, <2>1, <2>2, MovesTo, OthersIdle
  <2>4. QED
    BY <1>0, <2>1, <2>3 DEF client
<1>10. CASE SyncNext \/ SyncReceive
  <2>1. /\ pc["sync"] \in {"next", "receive"}
        /\ UNCHANGED <<snapshot, journal, conflicts, crashes>>
        /\ \E js, p : Run("sync", js, p)
    BY <1>10 DEF SyncNext, SyncReceive, client
  <2>2. pc["sync"] \notin Busy /\ pc["sync"] # "idle"
    BY <2>1 DEF Busy
  <2>3. Moves("sync")
    BY <1>0, <2>1, <2>2, RunMoves, OthersIdle
  <2>4. QED
    BY <1>0, <2>1, <2>3
<1>11. QED
  BY <1>0, <1>1, <1>2, <1>3, <1>4, <1>5, <1>6, <1>7, <1>8, <1>9, <1>10 DEF Stepped

\* The events a call appends say exactly how the list changed.
LEMMA EditedLogged ==
  ASSUME NEW j \in Job, IsJournalCall(j), NEW items, items \subseteq Ops
  PROVE  {o \in items : o.id \notin Touched(j, items)}
           \cup {o \in Edited(j, items) : o.id \in Touched(j, items)} = Edited(j, items)
<1>0. j.kind \in JournalKinds
  BY JobFields DEF IsJournalCall, JournalKinds
<1>. SUFFICES ASSUME NEW o, o.id \notin Touched(j, items)
              PROVE  o \in items <=> o \in Edited(j, items)
  OBVIOUS
<1>1. CASE j.kind \in {"upsert", "remove"}
  BY <1>1 DEF Edited, Touched
<1>2. CASE j.kind = "drop_updates"
  BY <1>2 DEF Edited, Touched
<1>3. CASE j.kind = "status"
  <2>1. /\ Touched(j, items) = IdsOf(items) \cap {j.id}
        /\ Edited(j, items) =
             {IF q.id = j.id THEN [q EXCEPT !.status = j.status, !.err = j.err]
                         ELSE q : q \in {p \in items : p.id # j.id \/ j.status # "applied"}}
    BY <1>3 DEF Edited, Touched
  <2>2. ASSUME o \in items PROVE o \in Edited(j, items)
    BY <2>1, <2>2 DEF IdsOf
  <2>3. ASSUME o \in Edited(j, items) PROVE o \in items
    <3>1. PICK p \in Ops : Origin(j, items, o, p)
      BY <2>3, EditedFrom
    <3>2. p \in items /\ o.id = p.id
      BY <1>3, <3>1 DEF Origin, Alike
    <3>3. p.id # j.id
      BY <2>1, <3>2 DEF IdsOf
    <3>4. o = p
      BY <1>3, <3>1, <3>3 DEF Origin
    <3>5. QED
      BY <3>2, <3>4
  <2>4. QED
    BY <2>2, <2>3
<1>4. CASE j.kind = "note"
  <2>1. /\ Touched(j, items) = IdsOf(items) \cap {j.id}
        /\ Edited(j, items) =
             {IF q.id = j.id THEN [q EXCEPT !.err = "net"] ELSE q : q \in items}
    BY <1>4 DEF Edited, Touched
  <2>2. ASSUME o \in items PROVE o \in Edited(j, items)
    BY <2>1, <2>2 DEF IdsOf
  <2>3. ASSUME o \in Edited(j, items) PROVE o \in items
    <3>1. PICK p \in Ops : Origin(j, items, o, p)
      BY <2>3, EditedFrom
    <3>2. p \in items /\ o.id = p.id
      BY <1>4, <3>1 DEF Origin, Alike
    <3>3. p.id # j.id
      BY <2>1, <3>2 DEF IdsOf
    <3>4. o = p
      BY <1>4, <3>1, <3>3 DEF Origin
    <3>5. QED
      BY <3>2, <3>4
  <2>4. QED
    BY <2>2, <2>3
<1>5. CASE j.kind = "unblock"
  <2>1. /\ Touched(j, items) = {p.id : p \in {q \in items : Normalize(q) # q}}
        /\ Edited(j, items) = {Normalize(p) : p \in items}
    BY <1>5 DEF Edited, Touched
  <2>2. ASSUME o \in items PROVE o \in Edited(j, items)
    BY <2>1, <2>2
  <2>3. ASSUME o \in Edited(j, items) PROVE o \in items
    <3>1. PICK p \in items : o = Normalize(p)
      BY <2>1, <2>3
    <3>2. o.id = p.id
      BY <3>1, Normalized DEF Alike
    <3>3. Normalize(p) = p
      BY <2>1, <3>1, <3>2
    <3>4. QED
      BY <3>1, <3>3
  <2>4. QED
    BY <2>2, <2>3
<1>6. QED
  BY <1>0, <1>1, <1>2, <1>3, <1>4, <1>5 DEF JournalKinds

LEMMA SerialKept ==
  ASSUME SerialInv, Typed, NEW a \in Actors, Moves(a),
         UNCHANGED <<snapshot, journal, conflicts, crashes>>
  PROVE  SerialInv'
<1>1. Alone'
  BY DEF Moves, Alone, Actors
<1>2. \A b \in Actors : pc[b] \notin Busy /\ pc'[b] \notin Busy
  BY DEF Moves, Busy
<1>3. ASSUME NEW b \in Actors PROVE Current(b)'
  BY <1>2 DEF Current, Busy
<1>4. Logged'
  BY <1>2 DEF SerialInv, Logged, Busy
<1>5. QED
  BY <1>1, <1>3, <1>4 DEF SerialInv

LEMMA JournalSerial ==
  ASSUME SerialInv, Typed, NEW a \in Actors,
         \/ Load(a) \/ Store(a) \/ LogEvents(a) \/ LoadConflicts(a) \/ WriteConflicts(a)
  PROVE  SerialInv'
<1>0. pc[a] \in Working /\ pc[a] # "idle"
  BY DEF Load, Store, LogEvents, LoadConflicts, WriteConflicts, Working
<1>1. \A b \in Actors \ {a} : pc[b] = "idle"
  BY <1>0, OthersIdle DEF SerialInv
<1>2. crashes' = crashes
  BY DEF Load, Store, LogEvents, LoadConflicts, WriteConflicts
<1>3. ASSUME JobDone(a)
      PROVE  Alone' /\ \A b \in Actors : pc'[b] \notin Busy
  BY <1>0, <1>1, <1>3, JobDoneLocals DEF Typed, Busy, Alone, Actors
<1>4. CASE Load(a)
  <2>0. UNCHANGED <<snapshot, journal, conflicts>> /\ pc[a] = "load"
    BY <1>4 DEF Load, client
  <2>1. CASE JobDone(a)
    <3>1. Moves(a)
      BY <1>1, <1>3, <2>0, <2>1, JobDoneLocals DEF Moves, Busy, Typed, Working
    <3>2. QED
      BY <1>2, <2>0, <3>1, SerialKept
  <2>2. CASE buf' = [buf EXCEPT ![a] = snapshot] /\ pc' = [pc EXCEPT ![a] = "store"]
    <3>1. /\ buf'[a] = snapshot /\ pc'[a] = "store"
          /\ \A b \in Actors \ {a} : pc'[b] = "idle"
      BY <1>1, <2>2 DEF Typed, Locals, Buffers
    <3>2. Alone'
      BY <3>1 DEF Alone, Actors
    <3>3. ASSUME NEW b \in Actors PROVE Current(b)'
      BY <2>0, <3>1 DEF Current
    <3>4. Logged'
      BY <1>1, <1>2, <2>0, <3>1 DEF SerialInv, Logged
    <3>5. QED
      BY <3>2, <3>3, <3>4 DEF SerialInv
  <2>3. QED
    BY <1>4, <2>1, <2>2 DEF Load
<1>5. CASE Store(a)
  <2>1. /\ UNCHANGED <<journal, jobs, buf>> /\ pc[a] = "store"
        /\ snapshot' = Edited(Head(jobs[a]), buf[a]) /\ pc' = [pc EXCEPT ![a] = "append"]
        /\ UNCHANGED idmap
    BY <1>5 DEF Store
  <2>2. pc'[a] = "append" /\ \A b \in Actors \ {a} : pc'[b] = "idle"
    BY <1>1, <2>1 DEF Typed, Locals
  <2>3. Alone'
    BY <2>2 DEF Alone, Actors
  <2>4. ASSUME NEW b \in Actors PROVE Current(b)'
    <3>1. CASE b = a
      <4>1. Edited(Head(jobs[a]), buf[a])' = Edited(Head(jobs[a]), buf[a])
        BY <2>1 DEF Edited, Normalize, ParentResolved
      <4>2. QED
        BY <2>1, <2>2, <3>1, <4>1 DEF Current
    <3>2. CASE b # a
      BY <2>2, <3>2 DEF Current
    <3>3. QED
      BY <3>1, <3>2
  <2>5. buf[a] = snapshot
    BY <2>1 DEF SerialInv, Current
  <2>6. Logged'
    BY <1>1, <1>2, <2>1, <2>2, <2>5 DEF SerialInv, Logged
  <2>7. QED
    BY <2>3, <2>4, <2>6 DEF SerialInv
<1>6. CASE LogEvents(a)
  <2>. DEFINE j == Head(jobs[a])
  <2>0. /\ pc[a] = "append" /\ UNCHANGED <<snapshot, conflicts>> /\ JobDone(a)
        /\ journal' = {o \in journal : o.id \notin Touched(j, buf[a])}
                      \cup {o \in Edited(j, buf[a]) : o.id \in Touched(j, buf[a])}
    BY <1>6 DEF LogEvents
  <2>1. Alone' /\ \A b \in Actors : pc'[b] \notin Busy
    BY <1>3, <2>0
  <2>2. ASSUME NEW b \in Actors PROVE Current(b)'
    BY <2>1 DEF Current, Busy
  <2>3. j \in Job /\ IsJournalCall(j) /\ buf[a] \subseteq Ops
    <3>1. jobs[a] \in Seq(Job) /\ jobs[a] # <<>> /\ IsJournalCall(j) /\ buf[a] \subseteq Ops
      BY <1>0, <2>0 DEF Typed, Locals, Buffers, Jobbed
    <3>2. QED
      BY <3>1, CallsSplit
  <2>4. snapshot = Edited(j, buf[a])
    BY <2>0 DEF SerialInv, Current
  <2>5. ASSUME crashes = 0 PROVE journal' = snapshot
    <3>1. journal = buf[a]
      BY <2>0, <2>5 DEF SerialInv, Logged
    <3>2. QED
      BY <2>0, <2>3, <2>4, <3>1, EditedLogged
  <2>6. Logged'
    BY <1>2, <2>0, <2>1, <2>5 DEF Logged, Busy
  <2>7. QED
    BY <2>1, <2>2, <2>6 DEF SerialInv
<1>7. CASE LoadConflicts(a)
  <2>1. /\ UNCHANGED <<snapshot, journal, conflicts>> /\ pc[a] = "load"
        /\ buf' = [buf EXCEPT ![a] = conflicts] /\ pc' = [pc EXCEPT ![a] = "write_conflicts"]
    BY <1>7 DEF LoadConflicts, client
  <2>2. /\ buf'[a] = conflicts /\ pc'[a] = "write_conflicts"
        /\ \A b \in Actors \ {a} : pc'[b] = "idle"
    BY <1>1, <2>1 DEF Typed, Locals, Buffers
  <2>3. Alone'
    BY <2>2 DEF Alone, Actors
  <2>4. ASSUME NEW b \in Actors PROVE Current(b)'
    BY <2>1, <2>2 DEF Current
  <2>5. Logged'
    BY <1>1, <1>2, <2>1, <2>2 DEF SerialInv, Logged
  <2>6. QED
    BY <2>3, <2>4, <2>5 DEF SerialInv
<1>8. CASE WriteConflicts(a)
  <2>1. /\ UNCHANGED <<snapshot, journal>> /\ pc[a] = "write_conflicts" /\ JobDone(a)
    BY <1>8 DEF WriteConflicts
  <2>2. Alone' /\ \A b \in Actors : pc'[b] \notin Busy
    BY <1>3, <2>1
  <2>3. ASSUME NEW b \in Actors PROVE Current(b)'
    BY <2>2 DEF Current, Busy
  <2>4. Logged'
    BY <1>1, <1>2, <2>1, <2>2 DEF SerialInv, Logged, Busy
  <2>5. QED
    BY <2>2, <2>3, <2>4 DEF SerialInv
<1>9. QED
  BY <1>4, <1>5, <1>6, <1>7, <1>8

LEMMA SerialSame ==
  ASSUME SerialInv, UNCHANGED <<snapshot, journal, conflicts, idmap, pc, jobs, buf, crashes>>
  PROVE  SerialInv'
<1>1. ASSUME NEW a \in Actors PROVE Current(a)'
  <2>1. Current(a)
    BY DEF SerialInv
  <2>2. Edited(Head(jobs[a]), buf[a])' = Edited(Head(jobs[a]), buf[a])
    BY DEF Edited, Normalize, ParentResolved
  <2>3. QED
    BY <2>1, <2>2 DEF Current
<1>2. QED
  BY <1>1 DEF SerialInv, Alone, Logged

\* No call of the user has met a flush, so that one thread uses the files.
Uncrossed == overlaps = 0 => SerialInv

\* A step before which no call has met a flush, and after which none has.
LEMMA SerialStep ==
  ASSUME Typed, SerialInv, Alone', Next
  PROVE  SerialInv'
<1>0. Stepped
  BY NextCases
<1>1. CASE Crash
  <2>1. crashes' # 0 /\ \A a \in Actors : pc'[a] = "idle"
    BY <1>1 DEF Crash, Typed, Data
  <2>2. QED
    BY <2>1 DEF SerialInv, Alone, Current, Logged, Actors
<1>2. ASSUME NEW a \in Actors,
             \/ Load(a) \/ Store(a) \/ LogEvents(a)
             \/ LoadConflicts(a) \/ WriteConflicts(a)
      PROVE  SerialInv'
  BY <1>2, JournalSerial
<1>3. CASE /\ ~Crash
           /\ ~\E a \in Actors : \/ Load(a) \/ Store(a) \/ LogEvents(a)
                                 \/ LoadConflicts(a) \/ WriteConflicts(a)
  <2>1. /\ (\E a \in Actors : Moves(a)) \/ UNCHANGED <<pc, jobs, buf, idmap>>
        /\ UNCHANGED <<snapshot, journal, conflicts, crashes>>
    BY <1>0, <1>3, Aside DEF SerialInv
  <2>2. CASE \E a \in Actors : Moves(a)
    BY <2>1, <2>2, SerialKept
  <2>3. CASE UNCHANGED <<pc, jobs, buf, idmap>>
    BY <2>1, <2>3, SerialSame
  <2>4. QED
    BY <2>1, <2>2, <2>3
<1>4. QED
  BY <1>1, <1>2, <1>3

\* The two ways a step can be one among those no call has met a flush in.
LEMMA Uncrossing ==
  ASSUME Typed, Recording, Uncrossed, [Next]_vars, overlaps' = 0
  PROVE  /\ overlaps = 0 /\ SerialInv /\ SerialInv'
         /\ UNCHANGED vars \/ (Next /\ Alone')
<1>1. CASE UNCHANGED vars
  <2>1. UNCHANGED <<snapshot, journal, conflicts, idmap, pc, jobs, buf, crashes, overlaps>>
    BY <1>1 DEF vars, client, local, history
  <2>2. SerialInv
    BY <2>1 DEF Uncrossed
  <2>3. QED
    BY <1>1, <2>1, <2>2, SerialSame
<1>2. CASE Next
  <2>1. Recorded
    BY <1>2, NextCases, StepRecorded
  <2>2. overlaps = 0 /\ (Alone => Alone')
    BY <2>1, Apartness
  <2>3. SerialInv
    BY <2>2 DEF Uncrossed
  <2>4. Alone'
    BY <2>2, <2>3 DEF SerialInv
  <2>5. QED
    BY <1>2, <2>2, <2>3, <2>4, SerialStep
<1>3. QED
  BY <1>1, <1>2

LEMMA UncrossedStep == Typed /\ Recording /\ Uncrossed /\ [Next]_vars => Uncrossed'
  BY Uncrossing DEF Uncrossed

LEMMA InitSerial == Init => SerialInv
<1>. SUFFICES ASSUME Init PROVE SerialInv
  OBVIOUS
<1>1. \A a \in Actors : pc[a] = "idle"
  BY DEF Init
<1>2. snapshot = {} /\ journal = {}
  BY DEF Init
<1>3. QED
  BY <1>1, <1>2 DEF SerialInv, Alone, Current, Logged, Actors

\* The invariants of both threads, and of a time without meetings.
Ground == Typed /\ Recording /\ PlayInv /\ Uncrossed

LEMMA GroundInit == Init => Ground
  BY InitTyped, InitPlay, InitSerial DEF Init, Ground, Recording, Uncrossed

LEMMA GroundStep == Ground /\ [Next]_vars => Ground'
  BY TypedStep, RecordingStep, PlayStep, UncrossedStep DEF Ground

LEMMA AlwaysGround == Spec => []Ground
  BY GroundInit, GroundStep, PTL DEF Spec

\* As long as the client does not die, and no call of the user meets a flush,
\* a rebuild from op_log.jsonl gives the snapshot again: the events a journal
\* call appends say exactly how it changed the list.
THEOREM LogKept == Spec => []LogAgrees
<1>1. Ground => LogAgrees
  BY DEF Ground, Uncrossed, SerialInv, Logged, LogAgrees, Undisturbed, Quiet, Actors
<1>2. QED
  BY <1>1, AlwaysGround, PTL

-----------------------------------------------------------------------------
(* The calls to make, thread by thread and step by step.                   *)

Calls == CallsIn(jobs["ui"]) \cup CallsIn(jobs["sync"])

\* What a journal step leaves alone.
Kept == UNCHANGED <<idmap, batch, known, writesOf, dropped, cancelled, nextOp,
                    applied, created, crashes>>

\* Thread a has read the file; it replaces the list; it is done with a call.
Reads(a) ==
  /\ pc[a] \in Working /\ pc'[a] \in Working
  /\ \A b \in Actors \ {a} : pc[b] = "idle" /\ pc'[b] = "idle"
  /\ UNCHANGED <<snapshot, conflicts, jobs, after, cur, res>>
Edits(a, j) ==
  /\ pc[a] \in Working /\ pc'[a] \in Working
  /\ \A b \in Actors \ {a} : pc[b] = "idle" /\ pc'[b] = "idle"
  /\ IsJournalCall(j) /\ j \in CallsIn(jobs[a])
  /\ snapshot' = Edited(j, snapshot)
  /\ UNCHANGED <<conflicts, jobs, after, cur, res>>
Finishes(a, j) ==
  /\ pc[a] \in Working /\ JobDone(a)
  /\ \A b \in Actors \ {a} : pc[b] = "idle" /\ pc'[b] = "idle"
  /\ j \in CallsIn(jobs[a]) /\ Calls = Calls' \cup {j}
  /\ UNCHANGED snapshot
  /\ \/ j.kind = "conflict" /\ conflicts' = conflicts \cup {j.id}
     \/ j.kind = "unconflict" /\ conflicts' = conflicts \ {j.id}
     \/ j.kind = "unblock" /\ UNCHANGED conflicts
     \/ /\ IsJournalCall(j) /\ UNCHANGED conflicts
        /\ \E items \in SUBSET Ops : snapshot = Edited(j, items)

LEMMA CallsOf ==
  ASSUME Typed
  PROVE  /\ Calls \subseteq Job
         /\ \A a \in Actors : pc[a] \notin Working => CallsIn(jobs[a]) = {}
<1>1. ASSUME NEW a \in Actors PROVE CallsIn(jobs[a]) \subseteq Job
  BY CallsTyped DEF Typed, Locals
<1>2. ASSUME NEW a \in Actors, pc[a] \notin Working PROVE CallsIn(jobs[a]) = {}
  BY <1>2, NoCalls DEF Typed, Locals, Jobbed
<1>3. QED
  BY <1>1, <1>2 DEF Calls, Actors

LEMMA Progress ==
  ASSUME Typed, SerialInv, NEW a \in Actors,
         \/ Load(a) \/ Store(a) \/ LogEvents(a) \/ LoadConflicts(a) \/ WriteConflicts(a)
  PROVE  /\ Kept
         /\ Reads(a) \/ \E j \in Job : Edits(a, j) \/ Finishes(a, j)
<1>0. pc[a] \in Working /\ pc[a] # "idle"
  BY DEF Load, Store, LogEvents, LoadConflicts, WriteConflicts, Working
<1>1. \A b \in Actors \ {a} : pc[b] = "idle"
  BY <1>0, OthersIdle DEF SerialInv
<1>2. Kept
  BY DEF Kept, Load, Store, LogEvents, LoadConflicts, WriteConflicts, client, screens, server
<1>. DEFINE j == Head(jobs[a])
<1>3. jobs[a] \in Seq(Job) /\ jobs[a] # <<>>
  BY <1>0 DEF Typed, Locals, Jobbed
<1>4. j \in Job /\ j \in CallsIn(jobs[a])
  BY <1>3, CallsSplit
<1>5. ASSUME JobDone(a)
      PROVE  /\ \A b \in Actors \ {a} : pc'[b] = "idle"
             /\ Calls = Calls' \cup {j}
  <2>1. /\ CallsIn(jobs[a]) = {j} \cup CallsIn(jobs'[a])
        /\ \A b \in Actors \ {a} : pc'[b] = pc[b] /\ jobs'[b] = jobs[b]
    BY <1>0, <1>5, JobDoneLocals DEF Typed
  <2>2. QED
    BY <1>1, <2>1 DEF Calls, Actors
<1>6. ASSUME NEW v \in Working, pc' = [pc EXCEPT ![a] = v]
      PROVE  pc'[a] \in Working /\ \A b \in Actors \ {a} : pc'[b] = "idle"
  BY <1>1, <1>6 DEF Typed, Locals
<1>. HIDE DEF j
<1>7. CASE Load(a)
  <2>0. UNCHANGED <<snapshot, conflicts>>
    BY <1>7 DEF Load, client
  <2>1. CASE JobDone(a) /\ j.kind = "unblock"
    <3>1. Finishes(a, j)
      BY <1>0, <1>1, <1>4, <1>5, <2>0, <2>1 DEF Finishes
    <3>2. QED
      BY <1>2, <1>4, <3>1
  <2>2. CASE pc' = [pc EXCEPT ![a] = "store"] /\ UNCHANGED <<jobs, after, cur, res>>
    <3>1. pc'[a] \in Working /\ \A b \in Actors \ {a} : pc'[b] = "idle"
      BY <1>6, <2>2 DEF Working
    <3>2. QED
      BY <1>0, <1>1, <1>2, <2>0, <2>2, <3>1 DEF Reads
  <2>3. QED
    BY <1>7, <2>1, <2>2 DEF Load, j
<1>8. CASE LoadConflicts(a)
  <2>1. /\ UNCHANGED <<snapshot, conflicts, jobs, after, cur, res>>
        /\ pc' = [pc EXCEPT ![a] = "write_conflicts"]
    BY <1>8 DEF LoadConflicts, client
  <2>2. pc'[a] \in Working /\ \A b \in Actors \ {a} : pc'[b] = "idle"
    BY <1>6, <2>1 DEF Working
  <2>3. QED
    BY <1>0, <1>1, <1>2, <2>1, <2>2 DEF Reads
<1>9. CASE Store(a)
  <2>1. /\ pc[a] = "store" /\ pc' = [pc EXCEPT ![a] = "append"]
        /\ snapshot' = Edited(j, buf[a]) /\ UNCHANGED <<conflicts, jobs, after, cur, res>>
    BY <1>9 DEF Store, j
  <2>2. pc'[a] \in Working /\ \A b \in Actors \ {a} : pc'[b] = "idle"
    BY <1>6, <2>1 DEF Working
  <2>3. buf[a] = snapshot
    BY <2>1 DEF SerialInv, Current
  <2>4. IsJournalCall(j)
    BY <2>1 DEF Typed, Locals, Jobbed, j
  <2>5. Edits(a, j)
    BY <1>0, <1>1, <1>4, <2>1, <2>2, <2>3, <2>4 DEF Edits
  <2>6. QED
    BY <1>2, <1>4, <2>5
<1>10. CASE LogEvents(a)
  <2>1. pc[a] = "append" /\ UNCHANGED <<snapshot, conflicts>> /\ JobDone(a)
    BY <1>10 DEF LogEvents
  <2>2. snapshot = Edited(j, buf[a])
    BY <2>1 DEF SerialInv, Current, j
  <2>3. IsJournalCall(j) /\ buf[a] \in SUBSET Ops
    BY <2>1 DEF Typed, Locals, Jobbed, Buffers, j
  <2>4. Finishes(a, j)
    BY <1>0, <1>1, <1>4, <1>5, <2>1, <2>2, <2>3 DEF Finishes
  <2>5. QED
    BY <1>2, <1>4, <2>4
<1>11. CASE WriteConflicts(a)
  <2>1. /\ pc[a] = "write_conflicts" /\ UNCHANGED snapshot /\ JobDone(a)
        /\ conflicts' = IF j.kind = "conflict" THEN buf[a] \cup {j.id} ELSE buf[a] \ {j.id}
    BY <1>11 DEF WriteConflicts, j
  <2>2. buf[a] = conflicts
    BY <2>1 DEF SerialInv, Current
  <2>3. j.kind \in {"conflict", "unconflict"}
    BY <2>1 DEF Typed, Locals, Jobbed, IsJournalCall, j
  <2>4. Finishes(a, j)
    BY <1>0, <1>1, <1>4, <1>5, <2>1, <2>2, <2>3 DEF Finishes
  <2>5. QED
    BY <1>2, <1>4, <2>4
<1>12. QED
  BY <1>7, <1>8, <1>9, <1>10, <1>11

\* What a call that has been made leaves in the snapshot.
LEMMA Achieved ==
  ASSUME NEW j \in Job, IsJournalCall(j), NEW items \in SUBSET Ops,
         snapshot = Edited(j, items)
  PROVE  /\ j.kind = "upsert" => j.op \in snapshot
         /\ j.kind = "remove" => \A o \in snapshot : o.id # j.id
         /\ j.kind = "drop_updates" => \A o \in snapshot : ~StaleUpdate(o, j.op)
         /\ j.kind = "status" => \A o \in snapshot :
              o.id = j.id => j.status # "applied" /\ o.status = j.status /\ o.err = j.err
<1>1. ASSUME j.kind = "status", NEW o \in snapshot, o.id = j.id
      PROVE  j.status # "applied" /\ o.status = j.status /\ o.err = j.err
  <2>1. PICK p \in Ops : Origin(j, items, o, p)
    BY EditedFrom
  <2>2. p.id = j.id
    BY <1>1, <2>1 DEF Origin, Alike
  <2>3. QED
    BY <1>1, <2>1, <2>2 DEF Origin
<1>2. QED
  BY <1>1 DEF Edited

\* Thread a starts the calls C, to go on at p.  If the other thread is idle,
\* they are all the calls there are.
Starts(a, p, C) ==
  /\ pc[a] \notin Working /\ pc'[a] = "load" /\ after'[a] = p
  /\ CallsIn(jobs'[a]) = C
  /\ \A b \in Actors \ {a} :
       pc'[b] = pc[b] /\ after'[b] = after[b] /\ jobs'[b] = jobs[b]
  /\ Alone' => /\ \A b \in Actors \ {a} : pc[b] = "idle" /\ pc'[b] = "idle"
               /\ Calls = {} /\ Calls' = C

\* The calls of each step that makes any.
UiScript ==
  \/ QueueCreate /\ \E r \in Ops :
       /\ Alike(r, cur["ui"]) /\ r.err = "" /\ r.status \in {"pending", "blocked"}
       /\ Starts("ui", "return", {Upsert(r)})
  \/ QueueUpdate /\ \E f \in snapshot, r \in Ops :
       /\ r.id = f.id /\ r.type = f.type /\ r.ent = f.ent /\ r.ent = cur["ui"].ent
       /\ r.body = f.body \cup cur["ui"].body
       /\ r.status = f.status /\ r.err = f.err
       /\ Starts("ui", "return", {Upsert(r)})
  \/ QueueUpdate /\ \E d \in snapshot :
       d \in Ops /\ Starts("ui", "idle", {AddConflict(d.id)})
  \/ QueueUpdate /\ Starts("ui", "return", {Upsert(cur["ui"])})
  \/ QueueDelete /\ \E c \in snapshot :
       /\ c \in Ops /\ c.type = "create" /\ c.ent = cur["ui"].ent
       /\ cancelled' = {c.ent} /\ known' = [known EXCEPT ![c.ent] = "gone"]
       /\ Starts("ui", "cancel", {Remove(c.id)})
  \/ QueueDelete /\ UNCHANGED cancelled
       /\ Starts("ui", "idle", {DropUpdates(cur["ui"]), Upsert(cur["ui"])})
  \/ UiCancel /\ \E o \in Dependents :
       /\ o \in Ops /\ cancelled' = cancelled \cup {o.ent} /\ cur' = cur
       /\ known' = [known EXCEPT ![o.ent] = "gone"] /\ dropped' = dropped \cup writesOf[o.ent]
       /\ Starts("ui", "cancel", {Remove(o.id)})
  \/ UiCancel /\ Dependents = {} /\ cancelled' = {} /\ UNCHANGED <<known, dropped>>
       /\ Starts("ui", "idle", {Unblock})
  \/ \E i \in Ids : UiRetry(i) /\ i \in IdsOf(snapshot)
       /\ Starts("ui", "idle", {DropConflict(i), SetStatus(i, "pending", "")})
  \/ \E i \in Ids : (UiRetry(i) \/ UiDiscard(i)) /\ i \notin IdsOf(snapshot)
       /\ UNCHANGED <<cancelled, known, dropped>>
       /\ Starts("ui", "idle", {DropConflict(i)})
  \/ \E i \in Ids, o \in snapshot : UiDiscard(i) /\ o.id = i /\ o \in Ops
       /\ dropped' = dropped \cup o.body
       /\ \/ /\ o.type = "create" /\ cancelled' = {o.ent}
             /\ known' = [known EXCEPT ![o.ent] = "gone"]
             /\ Starts("ui", "cancel", {DropConflict(i), Remove(i)})
          \/ /\ o.type # "create" /\ UNCHANGED <<cancelled, known>>
             /\ Starts("ui", "idle", {DropConflict(i), Remove(i), Unblock})

SyncScript ==
  \/ SyncStart /\ Starts("sync", "list", {Unblock})
  \/ SyncNext /\ batch = {} /\ UNCHANGED <<cur, batch>> /\ Starts("sync", "idle", {Unblock})
  \/ SyncNext /\ \E o \in batch :
       /\ o \in Ops /\ cur' = [cur EXCEPT !["sync"] = o] /\ batch' = batch \ {o}
       /\ Starts("sync", "send", {SetStatus(o.id, "syncing", "")})
  \/ SyncReceive /\ cur["sync"] \in Ops /\ LET i == cur["sync"].id IN
     \/ /\ res["sync"] = "ok" /\ (cur["sync"].type = "create" => cur["sync"].ent \in idmap')
        /\ \/ Starts("sync", "next", {Applied(i), DropConflict(i), Unblock})
           \/ Starts("sync", "next", {Applied(i), DropConflict(i)})
     \/ Starts("sync", "next", {NoteAttempt(i), SetStatus(i, "pending", "net")})
     \/ Starts("sync", "next", {SetStatus(i, "blocked", "auth_required")})
     \/ Starts("sync", "next", {SetStatus(i, "needs_review", "rejected"), AddConflict(i)})

LEMMA StartsOf ==
  ASSUME Typed, NEW a \in Actors, pc[a] \notin Working, NEW js, NEW p, Run(a, js, p)
  PROVE  Starts(a, p, CallsIn(js))
<1>1. /\ pc'[a] = "load" /\ after'[a] = p /\ jobs'[a] = js
      /\ \A b \in Actors \ {a} : pc'[b] = pc[b] /\ after'[b] = after[b] /\ jobs'[b] = jobs[b]
  BY DEF Run, Typed, Locals
<1>2. ASSUME Alone'
      PROVE  /\ \A b \in Actors \ {a} : pc[b] = "idle" /\ pc'[b] = "idle"
             /\ Calls = {} /\ Calls' = CallsIn(js)
  <2>1. \A b \in Actors \ {a} : pc[b] = "idle"
    BY <1>1, <1>2 DEF Alone, Actors
  <2>2. \A b \in Actors : CallsIn(jobs[b]) = {}
    BY <2>1, CallsOf DEF Working
  <2>3. QED
    BY <1>1, <2>1, <2>2 DEF Calls, Actors
<1>3. QED
  BY <1>1, <1>2 DEF Starts

LEMMA UiScripts ==
  ASSUME Typed, PlayInv,
         \/ QueueCreate \/ QueueUpdate \/ QueueDelete
         \/ (UiCancel /\ ~UNCHANGED jobs) \/ \E i \in Ids : UiRetry(i) \/ UiDiscard(i)
  PROVE  UiScript
<1>0. pc["ui"] \in {"queue", "cancel", "idle"}
  BY DEF QueueCreate, QueueUpdate, QueueDelete, UiCancel, UiRetry, UiDiscard
<1>1. "ui" \in Actors /\ pc["ui"] \notin Working
  BY <1>0 DEF Working, Actors
<1>2. ASSUME NEW js, NEW p, Run("ui", js, p) PROVE Starts("ui", p, CallsIn(js))
  BY <1>1, <1>2, StartsOf
<1>3. CASE QueueCreate
  <2>. DEFINE r == [cur["ui"] EXCEPT !.status = IF ParentResolved(cur["ui"]) THEN "pending"
                                                 ELSE "blocked"]
  <2>1. /\ pc["ui"] = "queue" /\ cur["ui"] \in Ops
        /\ Run("ui", <<Upsert(r)>>, "return")
    BY <1>3 DEF Typed, Locals, Jobbed, Actors, QueueCreate
  <2>2. cur["ui"].err = ""
    BY <2>1 DEF PlayInv, NewId
  <2>3. PICK s \in {"pending", "blocked"} : r = [cur["ui"] EXCEPT !.status = s]
    OBVIOUS
  <2>4. s \in Statuses
    BY DEF Statuses
  <2>. HIDE DEF r
  <2>5. r \in Ops /\ Alike(r, cur["ui"]) /\ r.status = s /\ r.err = cur["ui"].err
    BY <2>1, <2>3, <2>4, Unheld
  <2>6. CallsIn(<<Upsert(r)>>) = {Upsert(r)}
    BY OneCall
  <2>7. Starts("ui", "return", {Upsert(r)})
    BY <1>2, <2>1, <2>6
  <2>8. QED
    BY <1>3, <2>2, <2>5, <2>7 DEF UiScript
<1>4. CASE QueueUpdate
  <2>1. CASE \E f \in Target(cur["ui"]), r \in Ops :
                 /\ f \in snapshot /\ f \in Ops /\ f.ent = cur["ui"].ent
                 /\ f.at = cur["ui"].at /\ f.type \in {"create", "update"}
                 /\ r.id = f.id /\ r.type = f.type /\ r.ent = f.ent /\ r.at = f.at
                 /\ r.body = f.body \cup cur["ui"].body
                 /\ r.status = f.status /\ r.err = f.err
                 /\ Run("ui", <<Upsert(r)>>, "return")
    <3>1. PICK f \in snapshot, r \in Ops :
                 /\ r.id = f.id /\ r.type = f.type /\ r.ent = f.ent /\ r.ent = cur["ui"].ent
                 /\ r.body = f.body \cup cur["ui"].body
                 /\ r.status = f.status /\ r.err = f.err
                 /\ Run("ui", <<Upsert(r)>>, "return")
      BY <2>1
    <3>2. CallsIn(<<Upsert(r)>>) = {Upsert(r)}
      BY OneCall
    <3>3. Starts("ui", "return", {Upsert(r)})
      BY <1>2, <3>1, <3>2
    <3>4. QED
      BY <1>4, <3>1, <3>3 DEF UiScript
  <2>2. CASE \E d \in snapshot :
               /\ d \in Ops /\ d.type = "delete" /\ d.ent = cur["ui"].ent
               /\ Run("ui", <<AddConflict(d.id)>>, "idle")
    <3>1. PICK d \in snapshot : d \in Ops /\ Run("ui", <<AddConflict(d.id)>>, "idle")
      BY <2>2
    <3>2. CallsIn(<<AddConflict(d.id)>>) = {AddConflict(d.id)}
      BY OneCall
    <3>3. Starts("ui", "idle", {AddConflict(d.id)})
      BY <1>2, <3>1, <3>2
    <3>4. QED
      BY <1>4, <3>1, <3>3 DEF UiScript
  <2>3. CASE Run("ui", <<Upsert(cur["ui"])>>, "return")
    <3>2. CallsIn(<<Upsert(cur["ui"])>>) = {Upsert(cur["ui"])}
      BY OneCall
    <3>3. Starts("ui", "return", {Upsert(cur["ui"])})
      BY <1>2, <2>3, <3>2
    <3>4. QED
      BY <1>4, <3>3 DEF UiScript
  <2>4. QED
    BY <1>4, <2>1, <2>2, <2>3, QueueUpdateCases
<1>5. CASE QueueDelete
  <2>. DEFINE o == cur["ui"]
  <2>0. known' = IF o.at = "temp" THEN [known EXCEPT ![o.ent] = "gone"] ELSE known
    BY <1>5, QueueDeleteCases
  <2>1. CASE /\ \E c \in snapshot :
                  /\ c \in Ops /\ c.type = "create" /\ c.ent = o.ent
                  /\ Run("ui", <<Remove(c.id)>>, "cancel")
             /\ cancelled' = {o.ent} /\ o.at = "temp"
    <3>1. PICK c \in snapshot : /\ c \in Ops /\ c.type = "create" /\ c.ent = o.ent
                                /\ Run("ui", <<Remove(c.id)>>, "cancel")
      BY <2>1
    <3>2. CallsIn(<<Remove(c.id)>>) = {Remove(c.id)}
      BY OneCall
    <3>3. Starts("ui", "cancel", {Remove(c.id)})
      BY <1>2, <3>1, <3>2
    <3>4. QED
      BY <1>5, <2>0, <2>1, <3>1, <3>3 DEF UiScript
  <2>2. CASE Run("ui", <<DropUpdates(o), Upsert(o)>>, "idle") /\ UNCHANGED cancelled
    <3>1. CallsIn(<<DropUpdates(o), Upsert(o)>>) = {DropUpdates(o), Upsert(o)}
      BY TwoCalls
    <3>2. Starts("ui", "idle", {DropUpdates(o), Upsert(o)})
      BY <1>2, <2>2, <3>1
    <3>3. QED
      BY <1>5, <2>2, <3>2 DEF UiScript
  <2>3. QED
    BY <1>5, <2>1, <2>2, QueueDeleteCases
<1>6. CASE UiCancel /\ ~UNCHANGED jobs
  <2>1. CASE \E o \in Dependents :
          /\ Run("ui", <<Remove(o.id)>>, "cancel")
          /\ cancelled' = cancelled \cup {o.ent}
          /\ known' = [known EXCEPT ![o.ent] = "gone"]
          /\ dropped' = dropped \cup writesOf[o.ent]
          /\ UNCHANGED <<cur, res>>
    <3>1. PICK o \in Dependents :
            /\ Run("ui", <<Remove(o.id)>>, "cancel")
            /\ cancelled' = cancelled \cup {o.ent}
            /\ known' = [known EXCEPT ![o.ent] = "gone"]
            /\ dropped' = dropped \cup writesOf[o.ent]
            /\ UNCHANGED <<cur, res>>
      BY <2>1
    <3>2. o \in Ops
      BY DEF Dependents, Typed, Data
    <3>3. CallsIn(<<Remove(o.id)>>) = {Remove(o.id)}
      BY OneCall
    <3>4. Starts("ui", "cancel", {Remove(o.id)})
      BY <1>2, <3>1, <3>3
    <3>5. QED
      BY <1>6, <3>1, <3>2, <3>4 DEF UiScript
  <2>2. CASE /\ Dependents = {} /\ Run("ui", <<Unblock>>, "idle")
             /\ cancelled' = {} /\ UNCHANGED <<known, dropped>>
    <3>1. CallsIn(<<Unblock>>) = {Unblock}
      BY OneCall
    <3>2. Starts("ui", "idle", {Unblock})
      BY <1>2, <2>2, <3>1
    <3>3. QED
      BY <1>6, <2>2, <3>2 DEF UiScript
  <2>3. QED
    BY <1>6, <2>1, <2>2 DEF UiCancel
<1>7. ASSUME NEW i \in Ids, UiRetry(i) PROVE UiScript
  <2>0. UNCHANGED <<cancelled, known, dropped>>
    BY <1>7, UiRetryCases
  <2>1. CASE i \in IdsOf(snapshot) /\ Run("ui", <<DropConflict(i), SetStatus(i, "pending", "")>>, "idle")
    <3>1. CallsIn(<<DropConflict(i), SetStatus(i, "pending", "")>>)
            = {DropConflict(i), SetStatus(i, "pending", "")}
      BY TwoCalls
    <3>2. Starts("ui", "idle", {DropConflict(i), SetStatus(i, "pending", "")})
      BY <1>2, <2>1, <3>1
    <3>3. QED
      BY <1>7, <2>1, <3>2 DEF UiScript
  <2>2. CASE i \notin IdsOf(snapshot) /\ Run("ui", <<DropConflict(i)>>, "idle")
    <3>1. CallsIn(<<DropConflict(i)>>) = {DropConflict(i)}
      BY OneCall
    <3>2. Starts("ui", "idle", {DropConflict(i)})
      BY <1>2, <2>2, <3>1
    <3>3. QED
      BY <1>7, <2>0, <2>2, <3>2 DEF UiScript
  <2>3. QED
    BY <1>7, <2>1, <2>2, UiRetryCases
<1>8. ASSUME NEW i \in Ids, UiDiscard(i) PROVE UiScript
  <2>1. CASE \E o \in snapshot :
                 /\ o \in Ops /\ o.id = i
                 /\ dropped' = dropped \cup o.body
                 /\ cur' = [cur EXCEPT !["ui"] = o]
                 /\ \/ /\ o.type = "create"
                       /\ Run("ui", <<DropConflict(i), Remove(i)>>, "cancel")
                       /\ cancelled' = {o.ent}
                       /\ known' = [known EXCEPT ![o.ent] = "gone"]
                    \/ /\ o.type # "create"
                       /\ Run("ui", <<DropConflict(i), Remove(i), Unblock>>, "idle")
                       /\ UNCHANGED <<cancelled, known>>
    <3>1. PICK o \in snapshot :
                 /\ o \in Ops /\ o.id = i
                 /\ dropped' = dropped \cup o.body
                 /\ \/ /\ o.type = "create"
                       /\ Run("ui", <<DropConflict(i), Remove(i)>>, "cancel")
                       /\ cancelled' = {o.ent}
                       /\ known' = [known EXCEPT ![o.ent] = "gone"]
                    \/ /\ o.type # "create"
                       /\ Run("ui", <<DropConflict(i), Remove(i), Unblock>>, "idle")
                       /\ UNCHANGED <<cancelled, known>>
      BY <2>1
    <3>2. /\ CallsIn(<<DropConflict(i), Remove(i)>>) = {DropConflict(i), Remove(i)}
          /\ CallsIn(<<DropConflict(i), Remove(i), Unblock>>) = {DropConflict(i), Remove(i), Unblock}
      BY TwoCalls, ThreeCalls, JobMade
    <3>3. \/ /\ o.type = "create" /\ cancelled' = {o.ent}
             /\ known' = [known EXCEPT ![o.ent] = "gone"]
             /\ Starts("ui", "cancel", {DropConflict(i), Remove(i)})
          \/ /\ o.type # "create" /\ UNCHANGED <<cancelled, known>>
             /\ Starts("ui", "idle", {DropConflict(i), Remove(i), Unblock})
      BY <1>2, <3>1, <3>2
    <3>4. QED
      BY <1>8, <3>1, <3>3 DEF UiScript
  <2>2. CASE /\ i \notin IdsOf(snapshot)
             /\ Run("ui", <<DropConflict(i)>>, "idle")
             /\ UNCHANGED <<dropped, cur, cancelled, known>>
    <3>1. CallsIn(<<DropConflict(i)>>) = {DropConflict(i)}
      BY OneCall
    <3>2. Starts("ui", "idle", {DropConflict(i)})
      BY <1>2, <2>2, <3>1
    <3>3. QED
      BY <1>8, <2>2, <3>2 DEF UiScript
  <2>3. QED
    BY <1>8, <2>1, <2>2, UiDiscardCases
<1>9. QED
  BY <1>3, <1>4, <1>5, <1>6, <1>7, <1>8

LEMMA SyncScripts ==
  ASSUME Typed, SyncStart \/ SyncNext \/ SyncReceive
  PROVE  SyncScript
<1>0. pc["sync"] \in {"idle", "next", "receive"}
  BY DEF SyncStart, SyncNext, SyncReceive
<1>1. "sync" \in Actors /\ pc["sync"] \notin Working
  BY <1>0 DEF Working, Actors
<1>2. ASSUME NEW js, NEW p, Run("sync", js, p) PROVE Starts("sync", p, CallsIn(js))
  BY <1>1, <1>2, StartsOf
<1>3. CallsIn(<<Unblock>>) = {Unblock}
  BY OneCall
<1>4. CASE SyncStart
  <2>1. Run("sync", <<Unblock>>, "list")
    BY <1>4 DEF SyncStart
  <2>2. Starts("sync", "list", {Unblock})
    BY <1>2, <1>3, <2>1
  <2>3. QED
    BY <1>4, <2>2 DEF SyncScript
<1>5. CASE SyncNext
  <2>1. CASE batch = {} /\ Run("sync", <<Unblock>>, "idle") /\ UNCHANGED <<cur, batch>>
    <3>1. Starts("sync", "idle", {Unblock})
      BY <1>2, <1>3, <2>1
    <3>2. QED
      BY <1>5, <2>1, <3>1 DEF SyncScript
  <2>2. CASE \E o \in batch :
              /\ Run("sync", <<SetStatus(o.id, "syncing", "")>>, "send")
              /\ cur' = [cur EXCEPT !["sync"] = o]
              /\ batch' = batch \ {o}
    <3>1. PICK o \in batch :
              /\ Run("sync", <<SetStatus(o.id, "syncing", "")>>, "send")
              /\ cur' = [cur EXCEPT !["sync"] = o]
              /\ batch' = batch \ {o}
      BY <2>2
    <3>2. o \in Ops
      BY DEF Typed, Data
    <3>3. CallsIn(<<SetStatus(o.id, "syncing", "")>>) = {SetStatus(o.id, "syncing", "")}
      BY OneCall
    <3>4. Starts("sync", "send", {SetStatus(o.id, "syncing", "")})
      BY <1>2, <3>1, <3>3
    <3>5. QED
      BY <1>5, <3>1, <3>2, <3>4 DEF SyncScript
  <2>3. QED
    BY <1>5, <2>1, <2>2 DEF SyncNext
<1>6. CASE SyncReceive
  <2>. DEFINE i == cur["sync"].id
  <2>1. /\ CallsIn(<<Applied(i), DropConflict(i), Unblock>>) = {Applied(i), DropConflict(i), Unblock}
        /\ CallsIn(<<Applied(i), DropConflict(i)>>) = {Applied(i), DropConflict(i)}
        /\ CallsIn(<<NoteAttempt(i), SetStatus(i, "pending", "net")>>)
             = {NoteAttempt(i), SetStatus(i, "pending", "net")}
        /\ CallsIn(<<SetStatus(i, "blocked", "auth_required")>>)
             = {SetStatus(i, "blocked", "auth_required")}
        /\ CallsIn(<<SetStatus(i, "needs_review", "rejected"), AddConflict(i)>>)
             = {SetStatus(i, "needs_review", "rejected"), AddConflict(i)}
    <3>1. CallsIn(<<Applied(i), DropConflict(i), Unblock>>) = {Applied(i), DropConflict(i), Unblock}
      BY ThreeCalls
    <3>2. CallsIn(<<Applied(i), DropConflict(i)>>) = {Applied(i), DropConflict(i)}
      BY TwoCalls
    <3>3. CallsIn(<<NoteAttempt(i), SetStatus(i, "pending", "net")>>)
             = {NoteAttempt(i), SetStatus(i, "pending", "net")}
      BY TwoCalls
    <3>4. CallsIn(<<SetStatus(i, "blocked", "auth_required")>>)
             = {SetStatus(i, "blocked", "auth_required")}
      BY OneCall
    <3>5. CallsIn(<<SetStatus(i, "needs_review", "rejected"), AddConflict(i)>>)
             = {SetStatus(i, "needs_review", "rejected"), AddConflict(i)}
      BY TwoCalls
    <3>6. QED
      BY <3>1, <3>2, <3>3, <3>4, <3>5
  <2>2. cur["sync"] \in Ops
    BY <1>6, SyncReceiveCases
  <2>3. \/ /\ res["sync"] = "ok" /\ (cur["sync"].type = "create" => cur["sync"].ent \in idmap')
           /\ \/ Run("sync", <<Applied(i), DropConflict(i), Unblock>>, "next")
              \/ Run("sync", <<Applied(i), DropConflict(i)>>, "next")
        \/ Run("sync", <<NoteAttempt(i), SetStatus(i, "pending", "net")>>, "next")
        \/ Run("sync", <<SetStatus(i, "blocked", "auth_required")>>, "next")
        \/ Run("sync", <<SetStatus(i, "needs_review", "rejected"), AddConflict(i)>>, "next")
    BY <1>6, SyncReceiveCases
  <2>. HIDE DEF i
  <2>4. \/ /\ res["sync"] = "ok" /\ (cur["sync"].type = "create" => cur["sync"].ent \in idmap')
           /\ \/ Starts("sync", "next", {Applied(i), DropConflict(i), Unblock})
              \/ Starts("sync", "next", {Applied(i), DropConflict(i)})
        \/ Starts("sync", "next", {NoteAttempt(i), SetStatus(i, "pending", "net")})
        \/ Starts("sync", "next", {SetStatus(i, "blocked", "auth_required")})
        \/ Starts("sync", "next", {SetStatus(i, "needs_review", "rejected"), AddConflict(i)})
    <3>1. Run("sync", <<Applied(i), DropConflict(i), Unblock>>, "next")
            => Starts("sync", "next", {Applied(i), DropConflict(i), Unblock})
      BY <1>2, <2>1
    <3>2. Run("sync", <<Applied(i), DropConflict(i)>>, "next")
            => Starts("sync", "next", {Applied(i), DropConflict(i)})
      BY <1>2, <2>1
    <3>3. Run("sync", <<NoteAttempt(i), SetStatus(i, "pending", "net")>>, "next")
            => Starts("sync", "next", {NoteAttempt(i), SetStatus(i, "pending", "net")})
      BY <1>2, <2>1
    <3>4. Run("sync", <<SetStatus(i, "blocked", "auth_required")>>, "next")
            => Starts("sync", "next", {SetStatus(i, "blocked", "auth_required")})
      BY <1>2, <2>1
    <3>5. Run("sync", <<SetStatus(i, "needs_review", "rejected"), AddConflict(i)>>, "next")
            => Starts("sync", "next", {SetStatus(i, "needs_review", "rejected"), AddConflict(i)})
      BY <1>2, <2>1
    <3>6. QED
      BY <2>3, <3>1, <3>2, <3>3, <3>4, <3>5, Zenon
  <2>5. QED
    BY <1>6, <2>2, <2>4, Zenon DEF SyncScript, i
<1>7. QED
  BY <1>4, <1>5, <1>6

-----------------------------------------------------------------------------
(* Operations held for review are listed.                                  *)

\* A call of C will list operation i, or take it out of review.
Covers(C, i) == \/ AddConflict(i) \in C \/ Remove(i) \in C
                \/ SetStatus(i, "pending", "") \in C \/ Applied(i) \in C

Reviewed == \A o \in snapshot :
  o.status = "needs_review" => o.id \in conflicts \/ Covers(Calls, o.id)

\* Nothing is taken off the list that stays in review.
ReviewCalls(C) ==
  /\ \A i \in Ids : DropConflict(i) \in C =>
       Covers(C, i) \/ \A o \in snapshot : o.id = i => o.status # "needs_review"
  /\ \A j \in C : j.kind = "upsert" /\ j.op.status = "needs_review" => j.op.id \in conflicts
  /\ \A j \in C : j.kind = "status" /\ j.status = "needs_review" =>
       j.id \in conflicts \/ AddConflict(j.id) \in C
  /\ \A j, c \in C : (\/ j.kind \in {"upsert", "conflict"}
                      \/ j.kind = "status" /\ j.status = "needs_review")
                     => c.kind # "unconflict"

Listed == crashes = 0 => Reviewed /\ ReviewCalls(Calls)

LEMMA StatusCall ==
  ASSUME NEW j, NEW i, NEW s, NEW x, j = SetStatus(i, s, x)
  PROVE  j.kind = "status" /\ j.id = i /\ j.status = s /\ j.err = x
  BY DEF SetStatus

LEMMA AppliedCall ==
  ASSUME NEW j, NEW i, j = Applied(i)
  PROVE  j.kind = "status" /\ j.id = i /\ j.status = "applied"
  BY DEF Applied, SetStatus

LEMMA ListedEdits ==
  ASSUME Typed, Listed, Kept, NEW a \in Actors, NEW j \in Job, Edits(a, j)
  PROVE  Listed'
<1>. SUFFICES ASSUME crashes = 0 PROVE Reviewed' /\ ReviewCalls(Calls)'
  BY DEF Listed, Kept
<1>0. Reviewed /\ ReviewCalls(Calls)
  BY DEF Listed
<1>1. /\ Calls' = Calls /\ conflicts' = conflicts /\ j \in Calls /\ IsJournalCall(j)
      /\ snapshot' = Edited(j, snapshot)
  BY DEF Edits, Calls, Actors
<1>2. ASSUME NEW o \in snapshot', o.status = "needs_review"
      PROVE  \/ \E p \in snapshot : p.id = o.id /\ p.status = "needs_review"
             \/ j.kind = "upsert" /\ o = j.op
             \/ j.kind = "status" /\ j.status = "needs_review" /\ j.id = o.id
  <2>1. PICK p \in Ops : Origin(j, snapshot, o, p)
    BY <1>1, EditedFrom DEF Typed, Data
  <2>2. QED
    BY <1>2, <2>1 DEF Origin, Alike
<1>3. Reviewed'
  <2>. SUFFICES ASSUME NEW o \in snapshot', o.status = "needs_review"
                PROVE  o.id \in conflicts \/ Covers(Calls, o.id)
    BY <1>1 DEF Reviewed, Covers
  <2>1. CASE \E p \in snapshot : p.id = o.id /\ p.status = "needs_review"
    BY <1>0, <2>1 DEF Reviewed
  <2>2. CASE j.kind = "upsert" /\ o = j.op
    BY <1>0, <1>1, <2>2 DEF ReviewCalls
  <2>3. CASE j.kind = "status" /\ j.status = "needs_review" /\ j.id = o.id
    BY <1>0, <1>1, <2>3 DEF ReviewCalls, Covers
  <2>4. QED
    BY <1>2, <2>1, <2>2, <2>3
<1>4. ReviewCalls(Calls)'
  <2>1. ASSUME NEW i \in Ids, DropConflict(i) \in Calls
        PROVE  Covers(Calls, i) \/ \A o \in snapshot' : o.id = i => o.status # "needs_review"
    <3>1. SUFFICES ASSUME NEW o \in snapshot', o.id = i, o.status = "needs_review",
                          ~Covers(Calls, i)
                   PROVE  FALSE
      OBVIOUS
    <3>2. ~(j.kind = "upsert" \/ (j.kind = "status" /\ j.status = "needs_review"))
      BY <1>0, <1>1, <2>1, MadeFields DEF ReviewCalls
    <3>3. PICK p \in snapshot : p.id = i /\ p.status = "needs_review"
      BY <1>2, <3>1, <3>2
    <3>4. QED
      BY <1>0, <2>1, <3>1, <3>3 DEF ReviewCalls
  <2>2. QED
    BY <1>0, <1>1, <2>1 DEF ReviewCalls, Covers
<1>5. QED
  BY <1>3, <1>4

LEMMA ListedFinishes ==
  ASSUME Typed, Listed, Kept, NEW a \in Actors, NEW j \in Job, Finishes(a, j)
  PROVE  Listed'
<1>. SUFFICES ASSUME crashes = 0 PROVE Reviewed' /\ ReviewCalls(Calls)'
  BY DEF Listed, Kept
<1>0. Reviewed /\ ReviewCalls(Calls)
  BY DEF Listed
<1>1. /\ Calls = Calls' \cup {j} /\ snapshot' = snapshot
      /\ \/ j.kind = "conflict" /\ conflicts' = conflicts \cup {j.id}
         \/ j.kind = "unconflict" /\ conflicts' = conflicts \ {j.id}
         \/ j.kind = "unblock" /\ conflicts' = conflicts
         \/ /\ IsJournalCall(j) /\ conflicts' = conflicts
            /\ \E items \in SUBSET Ops : snapshot = Edited(j, items)
  BY DEF Finishes
<1>2. snapshot \subseteq Ops /\ conflicts \subseteq Ids /\ Calls \subseteq Job
  BY CallsOf DEF Typed, Data
\* The call that is gone has done what it was there for.
<1>3. ASSUME NEW o \in snapshot, o.status = "needs_review", Covers(Calls, o.id)
      PROVE  (j.kind = "conflict" /\ o.id \in conflicts') \/ Covers(Calls', o.id)
  <2>1. SUFFICES ASSUME \/ j = AddConflict(o.id) \/ j = Remove(o.id)
                        \/ j = SetStatus(o.id, "pending", "") \/ j = Applied(o.id)
                 PROVE  j.kind = "conflict" /\ o.id \in conflicts'
    BY <1>1, <1>3 DEF Covers
  <2>2. CASE j = AddConflict(o.id)
    BY <1>1, <2>2, MadeFields DEF IsJournalCall
  <2>3. CASE j = Remove(o.id)
    <3>1. j.kind = "remove" /\ j.id = o.id
      BY <2>3, MadeFields
    <3>2. \E items \in SUBSET Ops : snapshot = Edited(j, items) /\ IsJournalCall(j)
      BY <1>1, <3>1
    <3>3. QED
      BY <3>1, <3>2, Achieved
  <2>4. CASE j = SetStatus(o.id, "pending", "") \/ j = Applied(o.id)
    <3>1. j.kind = "status" /\ j.id = o.id /\ j.status \in {"pending", "applied"}
      <4>1. CASE j = SetStatus(o.id, "pending", "")
        BY <4>1 DEF SetStatus
      <4>2. CASE j = Applied(o.id)
        BY <4>2, AppliedCall
      <4>3. QED
        BY <2>4, <4>1, <4>2
    <3>2. \E items \in SUBSET Ops : snapshot = Edited(j, items) /\ IsJournalCall(j)
      BY <1>1, <3>1
    <3>3. o.status = j.status /\ j.status # "applied"
      BY <3>1, <3>2, Achieved
    <3>4. QED
      BY <1>3, <3>1, <3>3
  <2>5. QED
    BY <2>1, <2>2, <2>3, <2>4
<1>4. CASE j.kind # "unconflict"
  <2>1. conflicts \subseteq conflicts'
    BY <1>1, <1>4
  <2>2. Reviewed'
    BY <1>0, <1>1, <1>3, <2>1 DEF Reviewed
  <2>3. ASSUME NEW i \in Ids, DropConflict(i) \in Calls'
        PROVE  Covers(Calls', i) \/ \A o \in snapshot : o.id = i => o.status # "needs_review"
    <3>1. SUFFICES ASSUME NEW o \in snapshot, o.id = i, o.status = "needs_review"
                   PROVE  Covers(Calls', i)
      OBVIOUS
    <3>2. Covers(Calls, o.id)
      BY <1>0, <1>1, <2>3, <3>1 DEF ReviewCalls
    <3>3. j.kind # "conflict"
      BY <1>0, <1>1, <2>3, MadeFields DEF ReviewCalls
    <3>4. QED
      BY <1>3, <3>1, <3>2, <3>3
  <2>4. ASSUME NEW c \in Calls', c.kind = "status", c.status = "needs_review"
        PROVE  c.id \in conflicts' \/ AddConflict(c.id) \in Calls'
    <3>1. c.id \in conflicts \/ AddConflict(c.id) \in Calls
      BY <1>0, <1>1, <2>4 DEF ReviewCalls
    <3>2. CASE j = AddConflict(c.id)
      BY <1>1, <3>2, MadeFields DEF IsJournalCall
    <3>3. QED
      BY <1>1, <2>1, <3>1, <3>2
  <2>5. QED
    BY <1>0, <1>1, <2>1, <2>2, <2>3, <2>4 DEF ReviewCalls
<1>5. CASE j.kind = "unconflict"
  <2>0. j = DropConflict(j.id) /\ j.id \in Ids /\ conflicts' = conflicts \ {j.id}
    BY <1>1, <1>5, JobFields DEF IsJournalCall
  <2>1. \A i : Covers(Calls, i) => Covers(Calls', i)
    <3>1. ASSUME NEW i PROVE /\ j # AddConflict(i) /\ j # Remove(i)
                             /\ j # SetStatus(i, "pending", "") /\ j # Applied(i)
      BY <1>5, MadeFields, StatusCall, AppliedCall
    <3>2. QED
      BY <1>1, <3>1 DEF Covers
  <2>2. Reviewed'
    <3>. SUFFICES ASSUME NEW o \in snapshot, o.status = "needs_review"
                  PROVE  o.id \in conflicts' \/ Covers(Calls', o.id)
      BY <1>1 DEF Reviewed
    <3>1. CASE o.id = j.id
      BY <1>0, <1>1, <2>0, <2>1, <3>1 DEF ReviewCalls
    <3>2. CASE o.id # j.id
      BY <1>0, <2>0, <2>1, <3>2 DEF Reviewed
    <3>3. QED
      BY <3>1, <3>2
  <2>3. \A c \in Calls : ~(\/ c.kind \in {"upsert", "conflict"}
                           \/ c.kind = "status" /\ c.status = "needs_review")
    BY <1>0, <1>1, <1>5 DEF ReviewCalls
  <2>4. QED
    BY <1>0, <1>1, <2>1, <2>2, <2>3 DEF ReviewCalls
<1>6. QED
  BY <1>4, <1>5

LEMMA ListedStarts ==
  ASSUME Listed, Calls = {}, UNCHANGED <<snapshot, conflicts, crashes>>,
         NEW C, Calls' = C, crashes = 0 => ReviewCalls(C)
  PROVE  Listed'
<1>1. ASSUME crashes = 0 PROVE Reviewed'
  BY <1>1 DEF Listed, Reviewed, Covers
<1>2. ASSUME crashes = 0 PROVE ReviewCalls(Calls)'
  BY <1>2 DEF ReviewCalls, Covers
<1>3. QED
  BY <1>1, <1>2 DEF Listed

LEMMA NoReviewCalls == ReviewCalls({})
  BY DEF ReviewCalls

LEMMA PlainReviewCalls ==
  ASSUME NEW C, \A j \in C : /\ j.kind \notin {"upsert", "conflict", "unconflict"}
                             /\ j.kind = "status" => j.status # "needs_review"
  PROVE  ReviewCalls(C)
<1>1. \A i : DropConflict(i) \notin C
  BY MadeFields
<1>2. QED
  BY <1>1 DEF ReviewCalls

LEMMA UpsertReviewCalls ==
  ASSUME NEW r, r.status = "needs_review" => r.id \in conflicts, NEW C,
         \A j \in C : j = Upsert(r) \/ j.kind = "drop_updates"
  PROVE  ReviewCalls(C)
<1>1. \A j \in C : \/ j.kind = "upsert" /\ j.op = r
                   \/ j.kind = "drop_updates"
  BY MadeFields
<1>2. \A i : DropConflict(i) \notin C
  BY <1>1, MadeFields
<1>3. QED
  BY <1>1, <1>2 DEF ReviewCalls

LEMMA DropReviewCalls ==
  ASSUME NEW i \in Ids, NEW C,
         \A j \in C : \/ j = DropConflict(i) \/ j.kind \in {"remove", "unblock"}
                      \/ j.kind = "status" /\ j.status \in {"pending", "applied"},
         Covers(C, i) \/ \A o \in snapshot : o.id # i
  PROVE  ReviewCalls(C)
<1>1. \A j \in C : \/ j.kind = "unconflict" \/ j.kind \in {"remove", "unblock"}
                   \/ j.kind = "status" /\ j.status \in {"pending", "applied"}
  BY MadeFields
<1>2. \A k \in Ids : DropConflict(k) \in C => k = i
  BY MadeFields
<1>3. QED
  BY <1>1, <1>2 DEF ReviewCalls

LEMMA UiListed ==
  ASSUME Typed, PlayInv, Listed, Alone', Calls = {}, UiScript,
         UNCHANGED <<snapshot, conflicts, crashes>>
  PROVE  Listed'
<1>0. \A C : Calls' = C /\ (crashes = 0 => ReviewCalls(C)) => Listed'
  BY ListedStarts
<1>1. crashes = 0 => \A o \in snapshot : o.status = "needs_review" => o.id \in conflicts
  BY DEF Listed, Reviewed, Covers
<1>2. pc["ui"] = "queue" => cur["ui"].status = "pending"
  BY DEF PlayInv, NewId
<1>3. ASSUME NEW r, NEW p, Starts("ui", p, {Upsert(r)}),
             \/ r.status # "needs_review"
             \/ \E f \in snapshot : r.id = f.id /\ r.status = f.status
      PROVE  Listed'
  <2>1. crashes = 0 => ReviewCalls({Upsert(r)})
    BY <1>1, <1>3, UpsertReviewCalls
  <2>2. QED
    BY <1>0, <1>3, <2>1 DEF Starts
<1>4. ASSUME NEW d, NEW p, Starts("ui", p, {AddConflict(d)}) PROVE Listed'
  <2>1. ReviewCalls({AddConflict(d)})
    BY MadeFields DEF ReviewCalls
  <2>2. QED
    BY <1>0, <1>4, <2>1 DEF Starts
<1>5. ASSUME NEW i, NEW p, Starts("ui", p, {Remove(i)}) PROVE Listed'
  <2>1. ReviewCalls({Remove(i)})
    BY MadeFields, PlainReviewCalls
  <2>2. QED
    BY <1>0, <1>5, <2>1 DEF Starts
<1>6. ASSUME NEW p, Starts("ui", p, {Unblock}) PROVE Listed'
  <2>1. ReviewCalls({Unblock})
    BY MadeFields, PlainReviewCalls
  <2>2. QED
    BY <1>0, <1>6, <2>1 DEF Starts
<1>7. ASSUME pc["ui"] = "queue", NEW p,
             Starts("ui", p, {DropUpdates(cur["ui"]), Upsert(cur["ui"])})
      PROVE  Listed'
  <2>1. ReviewCalls({DropUpdates(cur["ui"]), Upsert(cur["ui"])})
    BY <1>2, <1>7, MadeFields, UpsertReviewCalls
  <2>2. QED
    BY <1>0, <1>7, <2>1 DEF Starts
<1>8. ASSUME NEW i \in Ids, NEW p, Starts("ui", p, {DropConflict(i), SetStatus(i, "pending", "")})
      PROVE  Listed'
  <2>. DEFINE C == {DropConflict(i), SetStatus(i, "pending", "")}
  <2>1. \A j \in C : j = DropConflict(i) \/ (j.kind = "status" /\ j.status = "pending")
    BY StatusCall
  <2>2. Covers(C, i)
    BY DEF Covers
  <2>. HIDE DEF C
  <2>3. ReviewCalls(C)
    BY <2>1, <2>2, DropReviewCalls
  <2>4. QED
    BY <1>0, <1>8, <2>3 DEF Starts, C
<1>9. ASSUME NEW i \in Ids, NEW p, i \notin IdsOf(snapshot), Starts("ui", p, {DropConflict(i)})
      PROVE  Listed'
  <2>. DEFINE C == {DropConflict(i)}
  <2>1. \A o \in snapshot : o.id # i
    BY <1>9 DEF IdsOf
  <2>2. \A j \in C : j = DropConflict(i)
    OBVIOUS
  <2>. HIDE DEF C
  <2>3. ReviewCalls(C)
    BY <2>1, <2>2, DropReviewCalls
  <2>4. QED
    BY <1>0, <1>9, <2>3 DEF Starts, C
<1>10. ASSUME NEW i \in Ids, NEW p, NEW C, Starts("ui", p, C),
              C = {DropConflict(i), Remove(i)} \/ C = {DropConflict(i), Remove(i), Unblock}
       PROVE  Listed'
  <2>1. \A j \in C : j = DropConflict(i) \/ j.kind \in {"remove", "unblock"}
    BY <1>10, MadeFields
  <2>2. Covers(C, i)
    BY <1>10 DEF Covers
  <2>3. ReviewCalls(C)
    BY <2>1, <2>2, DropReviewCalls
  <2>4. QED
    BY <1>0, <1>10, <2>3 DEF Starts
<1>11. QED
  <2>1. CASE QueueCreate /\ \E r \in Ops :
               /\ Alike(r, cur["ui"]) /\ r.err = "" /\ r.status \in {"pending", "blocked"}
               /\ Starts("ui", "return", {Upsert(r)})
    BY <1>3, <2>1
  <2>2. CASE QueueUpdate /\ \E f \in snapshot, r \in Ops :
               /\ r.id = f.id /\ r.type = f.type /\ r.ent = f.ent /\ r.ent = cur["ui"].ent
               /\ r.body = f.body \cup cur["ui"].body
               /\ r.status = f.status /\ r.err = f.err
               /\ Starts("ui", "return", {Upsert(r)})
    BY <1>3, <2>2
  <2>3. CASE QueueUpdate /\ Starts("ui", "return", {Upsert(cur["ui"])})
    BY <1>2, <1>3, <2>3 DEF QueueUpdate
  <2>4. CASE QueueDelete /\ Starts("ui", "idle", {DropUpdates(cur["ui"]), Upsert(cur["ui"])})
    BY <1>7, <2>4 DEF QueueDelete
  <2>5. QED
    BY <1>4, <1>5, <1>6, <1>8, <1>9, <1>10, <2>1, <2>2, <2>3, <2>4 DEF UiScript

LEMMA SyncListed ==
  ASSUME Typed, Listed, Alone', Calls = {}, SyncScript,
         UNCHANGED <<snapshot, conflicts, crashes>>
  PROVE  Listed'
<1>0. \A C : Calls' = C /\ ReviewCalls(C) => Listed'
  BY ListedStarts
<1>1. ASSUME NEW p, Starts("sync", p, {Unblock}) PROVE Listed'
  <2>1. ReviewCalls({Unblock})
    BY MadeFields, PlainReviewCalls
  <2>2. QED
    BY <1>0, <1>1, <2>1 DEF Starts
<1>2. ASSUME NEW i, NEW p, NEW C, Starts("sync", p, C),
             \/ C = {SetStatus(i, "syncing", "")}
             \/ C = {NoteAttempt(i), SetStatus(i, "pending", "net")}
             \/ C = {SetStatus(i, "blocked", "auth_required")}
      PROVE  Listed'
  <2>1. \A j \in C : \/ j.kind = "note"
                     \/ j.kind = "status" /\ j.status \in {"syncing", "pending", "blocked"}
    <3>1. /\ NoteAttempt(i).kind = "note"
          /\ SetStatus(i, "syncing", "").kind = "status"
          /\ SetStatus(i, "syncing", "").status = "syncing"
          /\ SetStatus(i, "pending", "net").kind = "status"
          /\ SetStatus(i, "pending", "net").status = "pending"
          /\ SetStatus(i, "blocked", "auth_required").kind = "status"
          /\ SetStatus(i, "blocked", "auth_required").status = "blocked"
      BY DEF SetStatus, NoteAttempt
    <3>2. QED
      BY <1>2, <3>1
  <2>2. ReviewCalls(C)
    BY <2>1, PlainReviewCalls
  <2>3. QED
    BY <1>0, <1>2, <2>2 DEF Starts
<1>3. ASSUME NEW i \in Ids, NEW p, NEW C, Starts("sync", p, C),
             C = {Applied(i), DropConflict(i), Unblock} \/ C = {Applied(i), DropConflict(i)}
      PROVE  Listed'
  <2>1. \A j \in C : \/ j = DropConflict(i) \/ j.kind = "unblock"
                     \/ j.kind = "status" /\ j.status = "applied"
    BY <1>3, AppliedCall, MadeFields
  <2>2. Covers(C, i)
    BY <1>3 DEF Covers
  <2>3. ReviewCalls(C)
    BY <2>1, <2>2, DropReviewCalls
  <2>4. QED
    BY <1>0, <1>3, <2>3 DEF Starts
<1>4. ASSUME NEW i, NEW p,
             Starts("sync", p, {SetStatus(i, "needs_review", "rejected"), AddConflict(i)})
      PROVE  Listed'
  <2>. DEFINE C == {SetStatus(i, "needs_review", "rejected"), AddConflict(i)}
  <2>1. \A j \in C : j.kind \in {"status", "conflict"} /\ j.id = i
    BY StatusCall, MadeFields
  <2>2. AddConflict(i) \in C
    OBVIOUS
  <2>. HIDE DEF C
  <2>3. \A k : DropConflict(k) \notin C
    BY <2>1, MadeFields
  <2>4. ReviewCalls(C)
    BY <2>1, <2>2, <2>3 DEF ReviewCalls
  <2>5. QED
    BY <1>0, <1>4, <2>4 DEF Starts, C
<1>5. cur["sync"] \in Ops => cur["sync"].id \in Ids
  BY OpsFields
<1>6. QED
  BY <1>1, <1>2, <1>3, <1>4, <1>5 DEF SyncScript

-----------------------------------------------------------------------------
(* Every step, with the calls it starts.                                   *)

\* The steps that start no call.
Silent ==
  /\ UNCHANGED jobs
  /\ \/ \E e \in Entities, type \in {"create", "update", "delete"},
           at \in {"temp", "real"} : Begins(e, type, at)
     \/ \E a \in Actors : /\ (a = "ui" /\ pc[a] = "direct") \/ (a = "sync" /\ pc[a] = "send")
                          /\ Exchange(a, Outcomes)
     \/ UiReceive \/ UiReturn \/ SyncList
     \/ UiCancel /\ Goto("ui", "idle") /\ Dependents = {} /\ cancelled' = {}
          /\ UNCHANGED <<known, dropped, after>>

LEMMA Scripted ==
  ASSUME Typed, PlayInv, Alone, Alone', Stepped, ~Crash, ~\E e \in Temps : UiRefresh(e),
         ~\E a \in Actors : \/ Load(a) \/ Store(a) \/ LogEvents(a)
                            \/ LoadConflicts(a) \/ WriteConflicts(a)
  PROVE  /\ Calls = {}
         /\ Silent \/ UiScript \/ SyncScript
         /\ Silent => Calls' = {}
         /\ UNCHANGED <<snapshot, conflicts, crashes>>
<1>0. "ui" \in Actors /\ "sync" \in Actors
  BY DEF Actors
<1>1. UNCHANGED <<snapshot, conflicts, crashes>>
  BY Aside
<1>2. CASE \E e \in Entities, type \in {"create", "update", "delete"},
              at \in {"temp", "real"} : Begins(e, type, at)
  <2>1. UNCHANGED jobs
    BY <1>2, BeginEffect, Zenon
  <2>2. Silent
    BY <1>2, <2>1 DEF Silent
  <2>3. pc["ui"] = "idle" /\ pc["sync"] = "idle"
    BY <1>2, BeginEffect DEF Alone
  <2>4. Calls = {}
    BY <2>3, CallsOf DEF Calls, Working, Actors
  <2>5. QED
    BY <1>1, <2>1, <2>2, <2>4 DEF Calls
<1>3. CASE \E a \in Actors :
             /\ (a = "ui" /\ pc[a] = "direct") \/ (a = "sync" /\ pc[a] = "send")
             /\ Exchange(a, Outcomes)
  <2>1. UNCHANGED jobs
    BY <1>3 DEF Exchange
  <2>2. Silent
    BY <1>3, <2>1 DEF Silent
  <2>3. pc["ui"] \notin Working /\ pc["sync"] \notin Working
    BY <1>3 DEF Alone, Working
  <2>4. Calls = {}
    BY <2>3, CallsOf DEF Calls, Actors
  <2>5. QED
    BY <1>1, <2>1, <2>2, <2>4 DEF Calls
<1>4. CASE UiReceive \/ UiReturn \/ SyncList
  <2>1. UNCHANGED jobs
    BY <1>4 DEF UiReceive, UiReturn, SyncList
  <2>2. Silent
    BY <1>4, <2>1 DEF Silent
  <2>3. pc["ui"] \notin Working /\ pc["sync"] \notin Working
    BY <1>4 DEF Alone, Working, UiReceive, UiReturn, SyncList
  <2>4. Calls = {}
    BY <2>3, CallsOf DEF Calls, Actors
  <2>5. QED
    BY <1>1, <2>1, <2>2, <2>4 DEF Calls
<1>6. CASE UiCancel /\ UNCHANGED jobs
  <2>1. pc["ui"] = "cancel" /\ pc["ui"] \notin Working /\ pc["sync"] \notin Working
    BY <1>6 DEF Alone, Working, UiCancel
  <2>2. Calls = {} /\ Calls' = {}
    BY <1>6, <2>1, CallsOf DEF Calls, Actors
  <2>3. ASSUME NEW js, NEW p, Run("ui", js, p) PROVE js = <<>>
    <3>1. jobs["ui"] = <<>>
      BY <2>1 DEF Typed, Locals, Jobbed, Actors
    <3>2. jobs'["ui"] = js
      BY <2>3 DEF Run, Typed, Locals, Actors
    <3>3. QED
      BY <1>6, <3>1, <3>2
  <2>4. /\ Goto("ui", "idle") /\ Dependents = {} /\ cancelled' = {}
        /\ UNCHANGED <<known, dropped, after>>
    <3>1. \A x : <<x>> # <<>>
      OBVIOUS
    <3>2. ~Run("ui", <<Unblock>>, "idle") /\ \A i : ~Run("ui", <<Remove(i)>>, "cancel")
      BY <2>3, <3>1
    <3>3. QED
      BY <1>6, <3>2 DEF UiCancel
  <2>5. Silent
    BY <1>6, <2>4 DEF Silent
  <2>6. QED
    BY <1>1, <2>2, <2>5
<1>7. CASE \/ QueueCreate \/ QueueUpdate \/ QueueDelete
           \/ (UiCancel /\ ~UNCHANGED jobs) \/ \E i \in Ids : UiRetry(i) \/ UiDiscard(i)
  <2>1. UiScript
    BY <1>7, UiScripts
  <2>2. Calls = {} /\ (Silent => Calls' = {})
    BY <2>1 DEF UiScript, Starts, Silent, Calls
  <2>3. QED
    BY <1>1, <2>1, <2>2
<1>8. CASE SyncStart \/ SyncNext \/ SyncReceive
  <2>1. SyncScript
    BY <1>8, SyncScripts
  <2>2. Calls = {} /\ (Silent => Calls' = {})
    BY <2>1 DEF SyncScript, Starts, Silent, Calls
  <2>3. QED
    BY <1>1, <2>1, <2>2
<1>9. QED
  BY <1>2, <1>3, <1>4, <1>6, <1>7, <1>8 DEF Stepped

\* One thread at a time, a step is a step of a journal call, or one of the
\* above, or a reload of the screens, or the death of the client.
LEMMA SerialCases ==
  ASSUME Typed, PlayInv, SerialInv, Alone', Next
  PROVE  \/ Crash
         \/ \E e \in Temps : UiRefresh(e)
         \/ Kept /\ \E a \in Actors :
              Reads(a) \/ \E j \in Job : Edits(a, j) \/ Finishes(a, j)
         \/ /\ Calls = {} /\ UNCHANGED <<snapshot, conflicts, crashes>>
            /\ (Silent /\ Calls' = {}) \/ UiScript \/ SyncScript
<1>1. Stepped
  BY NextCases
<1>2. ASSUME NEW a \in Actors,
             \/ Load(a) \/ Store(a) \/ LogEvents(a)
             \/ LoadConflicts(a) \/ WriteConflicts(a)
      PROVE  Kept /\ (Reads(a) \/ \E j \in Job : Edits(a, j) \/ Finishes(a, j))
  BY <1>2, Progress
<1>3. CASE /\ ~Crash /\ ~\E e \in Temps : UiRefresh(e)
           /\ ~\E a \in Actors : \/ Load(a) \/ Store(a) \/ LogEvents(a)
                                 \/ LoadConflicts(a) \/ WriteConflicts(a)
  BY <1>1, <1>3, Scripted DEF SerialInv
<1>4. QED
  BY <1>2, <1>3

LEMMA ListedSame ==
  ASSUME Listed, UNCHANGED <<snapshot, conflicts, crashes, jobs>>
  PROVE  Listed'
  BY DEF Listed, Reviewed, ReviewCalls, Covers, Calls

LEMMA ListedStep ==
  ASSUME Typed, PlayInv, SerialInv, Listed, Alone', Next
  PROVE  Listed'
<1>1. CASE Crash
  <2>1. crashes' # 0
    BY <1>1 DEF Crash, Typed, Data
  <2>2. QED
    BY <2>1 DEF Listed
<1>2. ASSUME NEW a \in Actors, Kept, Reads(a) PROVE Listed'
  BY <1>2, ListedSame DEF Kept, Reads
<1>3. ASSUME NEW e \in Temps, UiRefresh(e) PROVE Listed'
  BY <1>3, ListedSame DEF UiRefresh, client, local
<1>4. CASE /\ Calls = {} /\ UNCHANGED <<snapshot, conflicts, crashes>>
           /\ (Silent /\ Calls' = {}) \/ UiScript \/ SyncScript
  BY <1>4, ListedStarts, NoReviewCalls, UiListed, SyncListed
<1>5. QED
  BY <1>1, <1>2, <1>3, <1>4, SerialCases, ListedEdits, ListedFinishes

LEMMA InitListed == Init => Listed
<1>. SUFFICES ASSUME Init PROVE Listed
  OBVIOUS
<1>1. snapshot = {} /\ \A a \in Actors : jobs[a] = <<>>
  BY DEF Init
<1>2. Calls = {}
  BY <1>1, NoCalls DEF Calls, Actors
<1>3. QED
  BY <1>1, <1>2 DEF Listed, Reviewed, ReviewCalls

\* As long as the client does not die, and no call of the user meets a flush,
\* an operation that is parked for review is in the sync-issues dialog
\* whenever both threads are idle: Retry and Discard take it off the list only
\* together with a call that ends the review.
THEOREM ReviewsListed == Spec => []ReviewListed
<1>. DEFINE Inv == Ground /\ (overlaps = 0 => Listed)
<1>1. Init => Inv
  BY GroundInit, InitListed
<1>2. Inv /\ [Next]_vars => Inv'
  <2>. SUFFICES ASSUME Inv, [Next]_vars, overlaps' = 0 PROVE Listed'
    BY GroundStep
  <2>1. /\ overlaps = 0 /\ SerialInv
        /\ UNCHANGED vars \/ (Next /\ Alone')
    BY Uncrossing DEF Ground
  <2>2. CASE UNCHANGED vars
    BY <2>1, <2>2, ListedSame DEF vars, client, local
  <2>3. CASE Next /\ Alone'
    BY <2>1, <2>3, ListedStep DEF Ground
  <2>4. QED
    BY <2>1, <2>2, <2>3
<1>3. Inv => ReviewListed
  <2>. SUFFICES ASSUME Typed, Listed, Quiet, crashes = 0,
                       NEW o \in snapshot, o.status = "needs_review"
                PROVE  o.id \in conflicts
    BY DEF ReviewListed, Undisturbed, Ground
  <2>1. Calls = {}
    BY CallsOf DEF Calls, Quiet, Working, Actors
  <2>2. QED
    BY <2>1 DEF Listed, Reviewed, Covers
<1>4. QED
  BY <1>1, <1>2, <1>3, PTL DEF Spec

-----------------------------------------------------------------------------
(* Whose write is it.                                                      *)

\* A write belongs to one entity, wherever it is carried.
Apart ==
  /\ \A o \in PlayOps : \A x \in o.body : x < nextOp
  /\ \A e \in Entities : \A x \in writesOf[e] : x < nextOp
  /\ \A o, p \in PlayOps : o.ent # p.ent => \A x \in o.body : x \notin p.body
  /\ \A o \in PlayOps : \A e \in Entities \ {o.ent} : \A x \in o.body : x \notin writesOf[e]

WritesFrom ==
  \A e \in Entities : \A x \in writesOf'[e] :
    \/ x \in writesOf[e]
    \/ cur["ui"] # NoOp /\ cur["ui"].ent = e /\ x \in cur["ui"].body

LEMMA BodyFrom ==
  ASSUME Typed, Effect, NEW o \in PlayOps', NEW x \in o.body
  PROVE  \E p \in PlayOps : p.ent = o.ent /\ x \in p.body
<1>1. PICK p \in PlayOps : Kin(o, p)
  BY PlayFrom
<1>2. CASE x \in p.body
  BY <1>1, <1>2 DEF Kin
<1>3. CASE pc["ui"] = "queue" /\ cur["ui"].ent = o.ent /\ x \in cur["ui"].body
  <2>1. cur["ui"] # NoOp
    BY <1>3 DEF Typed, Locals, Jobbed, Actors
  <2>2. cur["ui"] \in PlayOps
    BY <2>1 DEF PlayOps, InHand
  <2>3. QED
    BY <1>3, <2>2
<1>4. QED
  BY <1>1, <1>2, <1>3 DEF Kin

LEMMA ApartKept ==
  ASSUME Typed, Typed', Effect, WritesFrom, Apart
  PROVE  Apart'
<1>0. nextOp \in Nat /\ nextOp' \in Nat /\ nextOp <= nextOp'
  BY DEF Typed, Data, Effect, Grows
<1>1. \A x \in Ids : x < nextOp => x < nextOp'
  BY <1>0, BoundsAssumption DEF Ids
<1>2. \A o \in PlayOps : o.body \subseteq Ids
  BY PlayTyped, OpsFields
<1>3. ASSUME NEW e \in Entities, NEW x \in writesOf'[e]
      PROVE  x \in writesOf[e] \/ \E p \in PlayOps : p.ent = e /\ x \in p.body
  <2>1. CASE cur["ui"] # NoOp /\ cur["ui"].ent = e /\ x \in cur["ui"].body
    BY <2>1 DEF PlayOps, InHand
  <2>2. QED
    BY <2>1, <1>3 DEF WritesFrom
<1>4. \A o \in PlayOps' : \A x \in o.body : x < nextOp'
  BY <1>1, <1>2, BodyFrom DEF Apart
<1>5. ASSUME NEW e \in Entities, NEW x \in writesOf'[e] PROVE x < nextOp'
  <2>1. x \in Ids
    BY <1>5 DEF Typed, Data
  <2>2. QED
    BY <1>1, <1>3, <1>5, <2>1 DEF Apart
<1>6. ASSUME NEW o \in PlayOps', NEW p \in PlayOps', o.ent # p.ent, NEW x \in o.body
      PROVE  x \notin p.body
  <2>1. PICK q \in PlayOps : q.ent = o.ent /\ x \in q.body
    BY <1>6, BodyFrom
  <2>2. SUFFICES ASSUME x \in p.body PROVE FALSE
    OBVIOUS
  <2>3. PICK r \in PlayOps : r.ent = p.ent /\ x \in r.body
    BY <2>2, BodyFrom
  <2>4. QED
    BY <1>6, <2>1, <2>3 DEF Apart
<1>7. ASSUME NEW o \in PlayOps', NEW e \in Entities \ {o.ent}, NEW x \in o.body
      PROVE  x \notin writesOf'[e]
  <2>1. PICK q \in PlayOps : q.ent = o.ent /\ x \in q.body
    BY <1>7, BodyFrom
  <2>2. QED
    BY <1>3, <1>7, <2>1 DEF Apart
<1>8. QED
  BY <1>4, <1>5, <1>6, <1>7 DEF Apart

LEMMA BeginApart ==
  ASSUME Typed, Apart, NEW e, NEW type, NEW at, Begins(e, type, at)
  PROVE  Apart'
<1>. DEFINE n == NewOp(e, type, at)
<1>0. n.ent = e /\ n.body = IF type = "delete" THEN {} ELSE {nextOp}
  BY DEF NewOp
<1>1. HeldOps' = HeldOps /\ PlayOps = HeldOps /\ PlayOps' = HeldOps \cup {n}
  BY BeginPlay
<1>2. nextOp' = nextOp + 1 /\ UNCHANGED writesOf
  BY BeginEffect, Zenon
<1>. HIDE DEF n
<1>3. \A x \in n.body : x = nextOp
  BY <1>0
<1>4. /\ \A o \in PlayOps : o.body \subseteq Ids
      /\ \A f \in Entities : writesOf[f] \subseteq Ids
  BY PlayTyped, OpsFields DEF Typed, Data
<1>5. /\ \A x \in Ids : x < nextOp => x < nextOp + 1 /\ x # nextOp
      /\ nextOp < nextOp + 1
  BY BoundsAssumption DEF Ids, Typed, Data
<1>6. \A o \in PlayOps : \A x \in o.body : x < nextOp + 1 /\ x # nextOp
  BY <1>4, <1>5 DEF Apart
<1>7. \A f \in Entities : \A x \in writesOf[f] : x < nextOp + 1 /\ x # nextOp
  BY <1>4, <1>5 DEF Apart
<1>8. \A o \in PlayOps' : \A x \in o.body : x < nextOp'
  BY <1>1, <1>2, <1>3, <1>5, <1>6
<1>9. \A f \in Entities : \A x \in writesOf'[f] : x < nextOp'
  BY <1>2, <1>7
<1>10. \A o, p \in PlayOps' : o.ent # p.ent => \A x \in o.body : x \notin p.body
  BY <1>1, <1>3, <1>6 DEF Apart
<1>11. \A o \in PlayOps' : \A f \in Entities \ {o.ent} : \A x \in o.body : x \notin writesOf'[f]
  BY <1>1, <1>2, <1>3, <1>7 DEF Apart
<1>12. QED
  BY <1>8, <1>9, <1>10, <1>11 DEF Apart

LEMMA StepWrites ==
  ASSUME Typed, Stepped
  PROVE  WritesFrom
<1>1. CASE UNCHANGED writesOf
  BY <1>1 DEF WritesFrom
<1>2. CASE UiReceive \/ UiReturn
  <2>1. pc["ui"] \in {"receive", "return"}
    BY <1>2 DEF UiReceive, UiReturn
  <2>2. cur["ui"] # NoOp
    BY <2>1 DEF Typed, Locals, Jobbed, Actors
  <2>3. \/ UNCHANGED writesOf
        \/ writesOf' = [writesOf EXCEPT ![cur["ui"].ent] = @ \cup cur["ui"].body]
    BY <1>2 DEF UiReceive, UiReturn
  <2>4. CASE writesOf' = [writesOf EXCEPT ![cur["ui"].ent] = @ \cup cur["ui"].body]
    BY <2>2, <2>4 DEF WritesFrom, Typed, Data
  <2>5. QED
    BY <1>1, <2>3, <2>4
<1>3. CASE \E e \in Entities, type \in {"create", "update", "delete"},
              at \in {"temp", "real"} : Begins(e, type, at)
  BY <1>1, <1>3 DEF Begins, Begin
<1>4. CASE \E a \in Actors : \/ Load(a) \/ Store(a) \/ LogEvents(a)
                             \/ LoadConflicts(a) \/ WriteConflicts(a)
                             \/ Exchange(a, Outcomes)
  BY <1>1, <1>4 DEF Load, Store, LogEvents, LoadConflicts, WriteConflicts, Exchange, screens
<1>5. CASE \/ QueueCreate \/ QueueUpdate \/ QueueDelete \/ UiCancel
           \/ SyncStart \/ SyncList \/ SyncNext \/ SyncReceive \/ Crash
  BY <1>1, <1>5 DEF QueueCreate, QueueUpdate, QueueDelete, UiCancel, SyncStart, SyncList,
                    SyncNext, SyncReceive, Crash, screens
<1>6. CASE (\E e \in Temps : UiRefresh(e)) \/ \E i \in Ids : UiRetry(i) \/ UiDiscard(i)
  BY <1>1, <1>6 DEF UiRefresh, UiRetry, UiDiscard
<1>7. QED
  BY <1>2, <1>3, <1>4, <1>5, <1>6 DEF Stepped

LEMMA ApartStep ==
  ASSUME Typed, PlayInv, Apart, [Next]_vars
  PROVE  Apart'
<1>1. CASE UNCHANGED vars
  <2>1. UNCHANGED <<nextOp, writesOf>>
    BY <1>1 DEF vars, screens
  <2>2. QED
    BY <1>1, <2>1, SamePlay DEF Apart
<1>2. CASE Next
  <2>0. Stepped /\ Typed'
    BY <1>2, NextCases, TypedStep
  <2>1. CASE \E e \in Entities, type \in {"create", "update", "delete"},
                at \in {"temp", "real"} : Begins(e, type, at)
    BY <2>1, BeginApart
  <2>2. CASE ~\E e \in Entities, type \in {"create", "update", "delete"},
                 at \in {"temp", "real"} : Begins(e, type, at)
    BY <2>0, <2>2, StepEffect, StepWrites, ApartKept
  <2>3. QED
    BY <2>1, <2>2
<1>3. QED
  BY <1>1, <1>2

LEMMA InitApart == Init => Apart
<1>. SUFFICES ASSUME Init PROVE Apart
  OBVIOUS
<1>1. \A a \in Actors : jobs[a] = <<>> /\ pc[a] = "idle" /\ cur[a] = NoOp
  BY DEF Init
<1>2. \A a \in Actors : Read(a) = {} /\ Queued(a) = {} /\ InHand(a) = {}
  BY <1>1, NoCalls DEF Read, Queued, InHand
<1>3. PlayOps = {}
  BY <1>2 DEF Init, HeldOps, PlayOps, Actors
<1>4. \A e \in Entities : writesOf[e] = {}
  BY DEF Init
<1>5. QED
  BY <1>3, <1>4 DEF Apart

-----------------------------------------------------------------------------
(* Which thread a step belongs to, and what it does to the writes.         *)

Leaves(a) == \A b \in Actors \ {a} :
  /\ pc'[b] = pc[b] /\ jobs'[b] = jobs[b] /\ after'[b] = after[b]
  /\ cur'[b] = cur[b] /\ buf'[b] = buf[b] /\ res'[b] = res[b]

UiSide ==
  \/ JournalStep("ui")
  \/ \E e \in Entities, type \in {"create", "update", "delete"},
        at \in {"temp", "real"} : Begins(e, type, at)
  \/ pc["ui"] = "direct" /\ Exchange("ui", Outcomes)
  \/ UiReceive \/ QueueCreate \/ QueueUpdate \/ QueueDelete \/ UiCancel \/ UiReturn
  \/ \E e \in Temps : UiRefresh(e)
  \/ \E i \in Ids : UiRetry(i) \/ UiDiscard(i)

SyncSide ==
  \/ JournalStep("sync")
  \/ pc["sync"] = "send" /\ Exchange("sync", Outcomes)
  \/ SyncStart \/ SyncList \/ SyncNext \/ SyncReceive

LEMMA Sides ==
  ASSUME Stepped
  PROVE  UiSide \/ SyncSide \/ Crash
  BY Zenon DEF Stepped, UiSide, SyncSide, JournalStep, Actors

LEMMA RunLeaves ==
  ASSUME Typed, NEW a \in Actors, NEW js, NEW p, Run(a, js, p),
         UNCHANGED <<buf, res>>, UNCHANGED cur \/ \E o : cur' = [cur EXCEPT ![a] = o]
  PROVE  Leaves(a)
  BY DEF Run, Typed, Locals, Buffers, Leaves

LEMMA GotoLeaves ==
  ASSUME Typed, NEW a \in Actors, NEW p, Goto(a, p), UNCHANGED <<jobs, after, buf>>
  PROVE  Leaves(a)
  BY DEF Goto, Typed, Locals, Leaves

LEMMA JournalLeaves ==
  ASSUME Typed, NEW a \in Actors, JournalStep(a)
  PROVE  Leaves(a)
<1>1. ASSUME JobDone(a), UNCHANGED buf \/ \E S : buf' = [buf EXCEPT ![a] = S]
      PROVE  Leaves(a)
  BY <1>1 DEF JobDone, Goto, Typed, Locals, Buffers, Leaves
<1>2. ASSUME NEW v, pc' = [pc EXCEPT ![a] = v], UNCHANGED <<jobs, after, cur, res>>,
             UNCHANGED buf \/ \E S : buf' = [buf EXCEPT ![a] = S]
      PROVE  Leaves(a)
  BY <1>2 DEF Typed, Locals, Buffers, Leaves
<1>3. CASE Load(a)
  <2>1. CASE JobDone(a) /\ UNCHANGED buf
    BY <1>1, <2>1
  <2>2. CASE /\ buf' = [buf EXCEPT ![a] = snapshot] /\ pc' = [pc EXCEPT ![a] = "store"]
             /\ UNCHANGED <<jobs, after, cur, res>>
    BY <1>2, <2>2
  <2>3. QED
    BY <1>3, <2>1, <2>2 DEF Load
<1>4. CASE Store(a)
  BY <1>2, <1>4 DEF Store
<1>5. CASE LogEvents(a) \/ WriteConflicts(a)
  BY <1>1, <1>5 DEF LogEvents, WriteConflicts
<1>6. CASE LoadConflicts(a)
  BY <1>2, <1>6 DEF LoadConflicts
<1>7. QED
  BY <1>3, <1>4, <1>5, <1>6 DEF JournalStep

LEMMA ExchangeLeaves ==
  ASSUME Typed, NEW a \in Actors, Exchange(a, Outcomes)
  PROVE  /\ Leaves(a) /\ cur'[a] = cur[a] /\ jobs'[a] = jobs[a] /\ pc'[a] = "receive"
         /\ after'[a] = after[a]
<1>1. /\ UNCHANGED <<jobs, after, buf, cur>> /\ pc' = [pc EXCEPT ![a] = "receive"]
      /\ \E v : res' = [res EXCEPT ![a] = v]
  BY Zenon DEF Exchange
<1>2. QED
  BY <1>1 DEF Leaves, Typed, Locals

LEMMA UiLeaves ==
  ASSUME Typed, UiSide
  PROVE  Leaves("ui")
<1>0. "ui" \in Actors
  BY DEF Actors
<1>1. CASE JournalStep("ui")
  BY <1>0, <1>1, JournalLeaves
<1>2. ASSUME NEW e, NEW type, NEW at, Begins(e, type, at) PROVE Leaves("ui")
  <2>1. /\ UNCHANGED <<jobs, after, buf, res>>
        /\ \E o, v : cur' = [cur EXCEPT !["ui"] = o] /\ pc' = [pc EXCEPT !["ui"] = v]
    BY <1>2, Zenon DEF Begins, Begin
  <2>2. QED
    BY <2>1 DEF Leaves, Typed, Locals, Actors
<1>3. CASE Exchange("ui", Outcomes)
  BY <1>0, <1>3, ExchangeLeaves
<1>4. CASE UiReceive \/ UiReturn
  <2>1. UNCHANGED <<jobs, after, buf>> /\ (Goto("ui", "queue") \/ Goto("ui", "idle"))
    BY <1>4 DEF UiReceive, UiReturn
  <2>2. QED
    BY <1>0, <2>1, GotoLeaves
<1>5. CASE QueueCreate
  BY <1>0, <1>5, RunLeaves DEF QueueCreate
<1>6. CASE QueueUpdate
  <2>1. UNCHANGED <<buf, cur, res>> /\ \E js, p : Run("ui", js, p)
    BY <1>6, QueueUpdateCases DEF QueueUpdate
  <2>2. QED
    BY <1>0, <2>1, RunLeaves
<1>7. CASE QueueDelete
  BY <1>0, <1>7, RunLeaves DEF QueueDelete
<1>8. CASE UiCancel
  <2>1. \/ (\E js, p : Run("ui", js, p)) /\ UNCHANGED <<buf, cur, res>>
        \/ Goto("ui", "idle") /\ UNCHANGED <<jobs, after, buf>>
    BY <1>8 DEF UiCancel
  <2>2. QED
    BY <1>0, <2>1, RunLeaves, GotoLeaves
<1>9. ASSUME NEW e \in Temps, UiRefresh(e) PROVE Leaves("ui")
  BY <1>9 DEF UiRefresh, local, Leaves
<1>10. ASSUME NEW i \in Ids, UiRetry(i) PROVE Leaves("ui")
  BY <1>0, <1>10, RunLeaves DEF UiRetry
<1>11. ASSUME NEW i \in Ids, UiDiscard(i) PROVE Leaves("ui")
  <2>1. /\ \E js, p : Run("ui", js, p)
        /\ UNCHANGED <<buf, res>> /\ (UNCHANGED cur \/ \E o : cur' = [cur EXCEPT !["ui"] = o])
    BY <1>11 DEF UiDiscard
  <2>2. QED
    BY <1>0, <2>1, RunLeaves
<1>12. QED
  BY <1>1, <1>2, <1>3, <1>4, <1>5, <1>6, <1>7, <1>8, <1>9, <1>10, <1>11 DEF UiSide

LEMMA SyncLeaves ==
  ASSUME Typed, SyncSide
  PROVE  Leaves("sync")
<1>0. "sync" \in Actors
  BY DEF Actors
<1>1. CASE JournalStep("sync")
  BY <1>0, <1>1, JournalLeaves
<1>2. CASE Exchange("sync", Outcomes)
  BY <1>0, <1>2, ExchangeLeaves
<1>3. CASE SyncStart
  BY <1>0, <1>3, RunLeaves DEF SyncStart
<1>4. CASE SyncList
  <2>1. UNCHANGED <<jobs, after, buf, cur, res>> /\ pc' = [pc EXCEPT !["sync"] = "next"]
    BY <1>4 DEF SyncList
  <2>2. QED
    BY <2>1 DEF Leaves, Typed, Locals, Actors
<1>5. CASE SyncNext \/ SyncReceive
  <2>1. /\ \E js, p : Run("sync", js, p)
        /\ UNCHANGED <<buf, res>> /\ (UNCHANGED cur \/ \E o : cur' = [cur EXCEPT !["sync"] = o])
    BY <1>5 DEF SyncNext, SyncReceive
  <2>2. QED
    BY <1>0, <2>1, RunLeaves
<1>6. QED
  BY <1>1, <1>2, <1>3, <1>4, <1>5 DEF SyncSide

LEMMA SnapshotFrom ==
  ASSUME Stepped
  PROVE  snapshot' = snapshot \/ \E a \in Actors : Store(a)
<1>1. CASE \E a \in Actors : Load(a) \/ LogEvents(a) \/ LoadConflicts(a) \/ WriteConflicts(a)
                             \/ Exchange(a, Outcomes)
  BY <1>1 DEF Load, LogEvents, LoadConflicts, WriteConflicts, Exchange, client
<1>2. CASE \E e \in Entities, type \in {"create", "update", "delete"},
              at \in {"temp", "real"} : Begins(e, type, at)
  BY <1>2 DEF Begins, Begin, client
<1>3. CASE \/ UiReceive \/ QueueCreate \/ QueueUpdate \/ QueueDelete \/ UiCancel \/ UiReturn
           \/ \E e \in Temps : UiRefresh(e)
           \/ \E i \in Ids : UiRetry(i) \/ UiDiscard(i)
  BY <1>3 DEF UiReceive, QueueCreate, QueueUpdate, QueueDelete, UiCancel, UiReturn,
              UiRefresh, UiRetry, UiDiscard, client
<1>4. CASE SyncStart \/ SyncList \/ SyncNext \/ SyncReceive \/ Crash
  BY <1>4 DEF SyncStart, SyncList, SyncNext, SyncReceive, Crash, client
<1>5. QED
  BY <1>1, <1>2, <1>3, <1>4 DEF Stepped

LEMMA ExchangeApplies ==
  ASSUME Typed, NEW a \in Actors, Exchange(a, Outcomes)
  PROVE  /\ applied \subseteq applied'
         /\ res'[a] = "ok" => cur[a].body \subseteq applied'
         /\ UNCHANGED <<batch, writesOf, dropped>>
<1>1. PICK x \in Outcomes :
        /\ IF x \in {"answer", "lost"} /\ Served(cur[a])
             THEN Process(cur[a]) ELSE UNCHANGED server
        /\ res' = [res EXCEPT ![a] =
             CASE x = "answer" -> IF Served(cur[a]) THEN "ok" ELSE "refused"
               [] x = "auth"   -> "auth"
               [] x = "accepted" -> "refused"
               [] OTHER        -> "retryable"]
        /\ UNCHANGED <<batch, screens>>
  BY Zenon DEF Exchange
<1>2. UNCHANGED <<batch, writesOf, dropped>>
  BY <1>1 DEF screens
<1>3. applied \subseteq applied'
  BY <1>1 DEF Process, server
<1>4. ASSUME res'[a] = "ok" PROVE cur[a].body \subseteq applied'
  <2>1. res'[a] = (CASE x = "answer" -> IF Served(cur[a]) THEN "ok" ELSE "refused"
                     [] x = "auth"   -> "auth"
                     [] x = "accepted" -> "refused"
                     [] OTHER        -> "retryable")
    BY <1>1 DEF Typed, Locals
  <2>2. x = "answer" /\ Served(cur[a])
    BY <1>4, <2>1
  <2>3. Process(cur[a])
    BY <1>1, <2>2
  <2>4. QED
    BY <2>3 DEF Process
<1>5. QED
  BY <1>2, <1>3, <1>4

\* What the server has applied, and what the user has given up, stays so.
LEMMA OnlyMore ==
  ASSUME Typed, Stepped
  PROVE  applied \subseteq applied' /\ dropped \subseteq dropped'
<1>1. CASE \E a \in Actors : Load(a) \/ Store(a) \/ LogEvents(a) \/ LoadConflicts(a)
                             \/ WriteConflicts(a)
  BY <1>1 DEF Load, Store, LogEvents, LoadConflicts, WriteConflicts, screens, server
<1>2. CASE \E e \in Entities, type \in {"create", "update", "delete"},
              at \in {"temp", "real"} : Begins(e, type, at)
  BY <1>2 DEF Begins, Begin, server
<1>3. CASE \E a \in Actors : Exchange(a, Outcomes)
  BY <1>3, ExchangeApplies
<1>4. CASE \/ UiReceive \/ QueueCreate \/ QueueUpdate \/ QueueDelete \/ UiCancel \/ UiReturn
           \/ \E e \in Temps : UiRefresh(e)
  BY <1>4 DEF UiReceive, QueueCreate, QueueUpdate, QueueDelete, UiCancel, UiReturn,
              UiRefresh, screens, server
<1>5. CASE \E i \in Ids : UiRetry(i) \/ UiDiscard(i)
  BY <1>5 DEF UiRetry, UiDiscard, server
<1>6. CASE SyncStart \/ SyncList \/ SyncNext \/ SyncReceive \/ Crash
  BY <1>6 DEF SyncStart, SyncList, SyncNext, SyncReceive, Crash, screens, server
<1>7. QED
  BY <1>1, <1>2, <1>3, <1>4, <1>5, <1>6 DEF Stepped

\* The user relies on a write when the call that made it returns.
LEMMA ReliedFrom ==
  ASSUME Typed, Stepped
  PROVE  /\ \A e \in Entities : writesOf[e] \subseteq writesOf'[e]
         /\ Relied \subseteq Relied'
         /\ \A x \in Relied' : \/ x \in Relied
                               \/ /\ UiReturn \/ (UiReceive /\ res["ui"] = "ok")
                                  /\ cur["ui"] # NoOp /\ x \in cur["ui"].body
<1>1. CASE UNCHANGED writesOf
  BY <1>1 DEF Relied
<1>2. CASE UiReceive \/ UiReturn
  <2>1. pc["ui"] \in {"receive", "return"}
    BY <1>2 DEF UiReceive, UiReturn
  <2>2. cur["ui"] # NoOp
    BY <2>1 DEF Typed, Locals, Jobbed, Actors
  <2>3. \/ UNCHANGED writesOf
        \/ /\ UiReturn \/ (UiReceive /\ res["ui"] = "ok")
           /\ writesOf' = [writesOf EXCEPT ![cur["ui"].ent] = @ \cup cur["ui"].body]
    BY <1>2 DEF UiReceive, UiReturn
  <2>4. CASE /\ UiReturn \/ (UiReceive /\ res["ui"] = "ok")
             /\ writesOf' = [writesOf EXCEPT ![cur["ui"].ent] = @ \cup cur["ui"].body]
    <3>1. \A e \in Entities : writesOf'[e] = IF e = cur["ui"].ent
                                               THEN writesOf[e] \cup cur["ui"].body
                                               ELSE writesOf[e]
      BY <2>4 DEF Typed, Data
    <3>2. \A e \in Entities : writesOf[e] \subseteq writesOf'[e]
      BY <3>1
    <3>3. ASSUME NEW x \in Relied' PROVE x \in Relied \/ x \in cur["ui"].body
      <4>1. PICK e \in Entities : x \in writesOf'[e]
        BY <3>3 DEF Relied
      <4>2. QED
        BY <3>1, <4>1 DEF Relied
    <3>4. QED
      BY <2>2, <2>4, <3>2, <3>3 DEF Relied
  <2>5. QED
    BY <1>1, <2>3, <2>4
<1>3. CASE \E e \in Entities, type \in {"create", "update", "delete"},
              at \in {"temp", "real"} : Begins(e, type, at)
  BY <1>1, <1>3 DEF Begins, Begin
<1>4. CASE \E a \in Actors : \/ Load(a) \/ Store(a) \/ LogEvents(a)
                             \/ LoadConflicts(a) \/ WriteConflicts(a)
                             \/ Exchange(a, Outcomes)
  BY <1>1, <1>4 DEF Load, Store, LogEvents, LoadConflicts, WriteConflicts, Exchange, screens
<1>5. CASE \/ QueueCreate \/ QueueUpdate \/ QueueDelete \/ UiCancel
           \/ SyncStart \/ SyncList \/ SyncNext \/ SyncReceive \/ Crash
  BY <1>1, <1>5 DEF QueueCreate, QueueUpdate, QueueDelete, UiCancel, SyncStart, SyncList,
                    SyncNext, SyncReceive, Crash, screens
<1>6. CASE (\E e \in Temps : UiRefresh(e)) \/ \E i \in Ids : UiRetry(i) \/ UiDiscard(i)
  BY <1>1, <1>6 DEF UiRefresh, UiRetry, UiDiscard
<1>7. QED
  BY <1>2, <1>3, <1>4, <1>5, <1>6 DEF Stepped

-----------------------------------------------------------------------------
(* No accepted write is lost.                                              *)

\* What the client owes the user: the writes he relies on that are neither
\* racing nor applied nor given up.
Free == raced \cup applied \cup dropped
Owed == Relied \ Free
Bodies(S) == UNION {o.body : o \in S}

Uniq(S) == \A o, p \in S : o.id = p.id => o = p
Unique == Uniq(snapshot) /\ \A a \in Actors : pc[a] = "store" => Uniq(buf[a])

\* The flush has listed something only between the listing and its end.
Unlisted == pc["sync"] \in Working \cup {"idle"} /\ after["sync"] \in {"idle", "list"}
              => batch = {}

\* All copies of an operation carry the writes that are owed, and so do the
\* snapshot and every list that is about to replace it.
Agreed == \A o, p \in HeldOps : o.id = p.id => \A x \in o.body : x \in Owed => x \in p.body
Preserved ==
  /\ Owed \subseteq Carried
  /\ \A a \in Actors : pc[a] = "store" => Owed \subseteq Bodies(buf[a])

\* A call takes an operation away only if nothing it carries is owed.
Takes(j, o) == \/ j.kind = "remove" /\ o.id = j.id
               \/ j.kind = "status" /\ j.status = "applied" /\ o.id = j.id
               \/ j.kind = "drop_updates" /\ o.type = "update" /\ o.ent = j.op.ent
SafeCalls == \A j \in Calls, o \in HeldOps : Takes(j, o) => \A x \in o.body : x \notin Owed
Solo == \A j, c \in CallsIn(jobs["ui"]) : j.kind = "upsert" => c = j \/ c.kind = "drop_updates"
UiUpserts == \A j \in CallsIn(jobs["sync"]) : j.kind # "upsert"

\* A write on its way is not relied on, an "ok" means it was applied, and when
\* the call returns it is in the snapshot, or racing.
Fresh == pc["ui"] \in {"direct", "receive", "queue"} =>
           \A x \in cur["ui"].body : x \notin Relied
Answered == \A a \in Actors :
  pc[a] = "receive" /\ res[a] = "ok" => cur[a].body \subseteq applied
Returned ==
  /\ after["ui"] = "return" => \A j \in CallsIn(jobs["ui"]) :
       j.kind = "upsert" /\ cur["ui"].body \subseteq j.op.body
  /\ pc["ui"] = "return" \/ (pc["ui"] = "append" /\ after["ui"] = "return") =>
       cur["ui"].body \subseteq Free \cup Carried
Racing == Together => Open \subseteq raced

WriteInv == /\ Unique /\ Unlisted /\ Agreed /\ Preserved /\ SafeCalls /\ Solo /\ UiUpserts
            /\ Fresh /\ Answered /\ Returned /\ Racing

LEMMA RacingStep ==
  ASSUME Stepped
  PROVE  Racing'
  BY StepRecorded DEF Recorded, Racing, Together, Quiet

LEMMA QuietHeld == Typed /\ Unlisted /\ Quiet => HeldOps = snapshot /\ Calls = {}
<1>. SUFFICES ASSUME Typed, Unlisted, Quiet
              PROVE  HeldOps = snapshot /\ Calls = {}
  OBVIOUS
<1>1. \A a \in Actors : /\ pc[a] = "idle" /\ pc[a] \notin Working /\ cur[a] = NoOp
                        /\ after[a] = "idle" /\ CallsIn(jobs[a]) = {}
  BY CallsOf DEF Quiet, Actors, Working, Typed, Locals, Jobbed
<1>2. \A a \in Actors : Read(a) = {} /\ Queued(a) = {} /\ InHand(a) = {}
  BY <1>1 DEF Read, Queued, InHand
<1>3. batch = {}
  BY <1>1 DEF Unlisted, Actors
<1>4. QED
  BY <1>1, <1>2, <1>3 DEF HeldOps, Calls, Actors

\* While a thread is at work, nothing new is owed.
LEMMA OwedFrom ==
  ASSUME Typed, Stepped, Answered, Racing, ~Quiet'
  PROVE  Owed' \subseteq Owed
<1>1. raced \subseteq raced'
  BY StepRecorded DEF Recorded
<1>2. applied \subseteq applied' /\ dropped \subseteq dropped'
  BY OnlyMore
<1>3. ASSUME NEW x \in Owed' PROVE x \in Relied
  <2>1. x \in Relied' /\ x \notin raced /\ x \notin applied /\ x \notin dropped
    BY <1>1, <1>2, <1>3 DEF Owed, Free
  <2>2. SUFFICES ASSUME UiReturn \/ (UiReceive /\ res["ui"] = "ok"),
                        cur["ui"] # NoOp, x \in cur["ui"].body, x \notin Relied
                 PROVE  FALSE
    BY <2>1, ReliedFrom
  <2>3. CASE UiReceive /\ res["ui"] = "ok"
    <3>1. pc["ui"] = "receive"
      BY <2>3 DEF UiReceive
    <3>2. QED
      BY <2>1, <2>2, <2>3, <3>1 DEF Answered, Actors
  <2>4. CASE UiReturn
    <3>1. pc["ui"] = "return" /\ pc' = [pc EXCEPT !["ui"] = "idle"]
      BY <2>4 DEF UiReturn, Goto
    <3>2. pc'["ui"] = "idle" /\ pc'["sync"] = pc["sync"]
      BY <3>1 DEF Typed, Locals, Actors
    <3>3. Together
      BY <3>1, <3>2 DEF Quiet, Together
    <3>4. x \in Open
      BY <2>1, <2>2 DEF Open
    <3>5. QED
      BY <2>1, <3>3, <3>4 DEF Racing
  <2>5. QED
    BY <2>2, <2>3, <2>4
<1>4. QED
  BY <1>1, <1>2, <1>3 DEF Owed, Free

LEMMA UiBatch ==
  ASSUME UiSide
  PROVE  UNCHANGED batch
<1>1. CASE JournalStep("ui")
  BY <1>1 DEF JournalStep, Load, Store, LogEvents, LoadConflicts, WriteConflicts
<1>2. CASE \E e \in Entities, type \in {"create", "update", "delete"},
              at \in {"temp", "real"} : Begins(e, type, at)
  BY <1>2 DEF Begins, Begin
<1>3. CASE Exchange("ui", Outcomes)
  BY <1>3 DEF Exchange
<1>4. CASE \/ UiReceive \/ QueueCreate \/ QueueUpdate \/ QueueDelete \/ UiCancel
           \/ UiReturn \/ \E e \in Temps : UiRefresh(e)
           \/ \E i \in Ids : UiRetry(i) \/ UiDiscard(i)
  BY <1>4 DEF UiReceive, QueueCreate, QueueUpdate, QueueDelete, UiCancel, UiReturn,
              UiRefresh, UiRetry, UiDiscard
<1>5. QED
  BY <1>1, <1>2, <1>3, <1>4 DEF UiSide

LEMMA UnlistedStep ==
  ASSUME Typed, Unlisted, Stepped
  PROVE  Unlisted'
<1>1. CASE UiSide
  <2>1. Leaves("ui")
    BY <1>1, UiLeaves
  <2>2. UNCHANGED batch
    BY <1>1, UiBatch
  <2>3. QED
    BY <2>1, <2>2 DEF Leaves, Unlisted, Actors
<1>2. CASE Crash
  BY <1>2 DEF Crash, Unlisted
<1>3. CASE SyncSide
  <2>0. "sync" \in Actors
    BY DEF Actors
  <2>1. ASSUME JobDone("sync"), pc["sync"] \in Working, UNCHANGED batch PROVE Unlisted'
    <3>1. pc'["sync"] = IF Tail(jobs["sync"]) = <<>> THEN after["sync"] ELSE "load"
      BY <2>0, <2>1, JobDoneLocals DEF Typed
    <3>2. CASE Tail(jobs["sync"]) = <<>>
      <4>1. pc'["sync"] = after["sync"] /\ after["sync"] \in {"idle", "list", "next", "send"}
        BY <3>1, <3>2 DEF Typed, Locals, Places
      <4>2. QED
        BY <2>1, <4>1 DEF Unlisted, Working
    <3>3. CASE Tail(jobs["sync"]) # <<>>
      <4>1. UNCHANGED after
        BY <2>1, <3>3 DEF JobDone
      <4>2. QED
        BY <2>1, <3>1, <3>3, <4>1 DEF Unlisted, Working
    <3>4. QED
      BY <3>2, <3>3
  <2>2. ASSUME NEW v \in Working, pc["sync"] \in Working, pc' = [pc EXCEPT !["sync"] = v],
               UNCHANGED <<after, batch>>
        PROVE  Unlisted'
    BY <2>0, <2>2 DEF Typed, Locals, Unlisted
  <2>3. CASE JournalStep("sync")
    <3>1. CASE Load("sync")
      BY <2>1, <2>2, <3>1 DEF Load, Working
    <3>2. CASE Store("sync") \/ LoadConflicts("sync")
      BY <2>2, <3>2 DEF Store, LoadConflicts, Working
    <3>3. CASE LogEvents("sync") \/ WriteConflicts("sync")
      BY <2>1, <3>3 DEF LogEvents, WriteConflicts, Working
    <3>4. QED
      BY <2>3, <3>1, <3>2, <3>3 DEF JournalStep
  <2>4. CASE Exchange("sync", Outcomes)
    BY <2>0, <2>4, ExchangeLeaves DEF Unlisted, Working
  <2>5. CASE SyncStart
    <3>1. pc["sync"] = "idle" /\ UNCHANGED batch
      BY <2>5 DEF SyncStart
    <3>2. after["sync"] = "idle"
      BY <2>0, <3>1 DEF Typed, Locals, Jobbed, Working
    <3>3. QED
      BY <3>1, <3>2 DEF Unlisted
  <2>6. CASE SyncList
    BY <2>6 DEF SyncList, Unlisted, Typed, Locals, Actors, Working
  <2>7. ASSUME NEW js, NEW p, Run("sync", js, p), batch' = {} \/ p \notin {"idle", "list"}
        PROVE  Unlisted'
    BY <2>0, <2>7 DEF Run, Typed, Locals, Unlisted
  <2>8. CASE SyncNext
    <3>1. \/ Run("sync", <<Unblock>>, "idle") /\ batch' = {}
          \/ \E js : Run("sync", js, "send")
      BY <2>8 DEF SyncNext
    <3>2. QED
      BY <2>7, <3>1
  <2>8a. CASE SyncReceive
    <3>1. \E js : Run("sync", js, "next")
      BY <2>8a DEF SyncReceive
    <3>2. QED
      BY <2>7, <3>1
  <2>9. QED
    BY <1>3, <2>3, <2>4, <2>5, <2>6, <2>8, <2>8a DEF SyncSide
<1>4. QED
  BY <1>1, <1>2, <1>3, Sides

LEMMA EditedUnique ==
  ASSUME NEW j \in Job, IsJournalCall(j), NEW items, items \subseteq Ops, Uniq(items),
         NEW o \in Edited(j, items), NEW p \in Edited(j, items), o.id = p.id
  PROVE  o = p
<1>0. j.kind \in JournalKinds
  BY JobFields DEF IsJournalCall, JournalKinds
<1>1. CASE j.kind \in {"upsert", "remove", "drop_updates"}
  BY <1>1 DEF Edited, Uniq
<1>2. CASE j.kind \in {"status", "note", "unblock"}
  <2>1. PICK q \in Ops : Origin(j, items, o, q)
    BY EditedFrom
  <2>2. PICK r \in Ops : Origin(j, items, p, r)
    BY EditedFrom
  <2>3. q \in items /\ r \in items /\ q.id = o.id /\ r.id = p.id
    BY <1>2, <2>1, <2>2 DEF Origin, Alike
  <2>4. q = r
    BY <2>3 DEF Uniq
  <2>5. o \in Op /\ p \in Op /\ q \in Op
    BY <2>1, <2>2 DEF Origin, Ops
  <2>6. /\ o.id = p.id /\ o.type = p.type /\ o.ent = p.ent /\ o.at = p.at
        /\ o.body = p.body
    BY <2>1, <2>2, <2>4 DEF Origin, Alike
  <2>7. o.status = p.status /\ o.err = p.err
    <3>1. CASE j.kind = "status"
      BY <2>1, <2>2, <2>4, <3>1 DEF Origin
    <3>2. CASE j.kind = "note"
      <4>1. CASE q.id = j.id
        <5>1. \A z \in Edited(j, items) : z.id = j.id => z.err = "net"
          <6>1. SUFFICES ASSUME NEW z \in Edited(j, items), z.id = j.id PROVE z.err = "net"
            OBVIOUS
          <6>2. PICK y \in items : z = IF y.id = j.id THEN [y EXCEPT !.err = "net"] ELSE y
            BY <3>2 DEF Edited
          <6>3. y.id = j.id
            BY <6>1, <6>2 DEF Ops, Op
          <6>4. z = [y EXCEPT !.err = "net"] /\ y \in Op
            BY <6>2, <6>3 DEF Ops
          <6>5. QED
            BY <6>4 DEF Op
        <5>2. o.id = j.id /\ p.id = j.id
          BY <2>3, <4>1
        <5>3. o.status = q.status /\ p.status = q.status
          BY <2>1, <2>2, <2>4, <3>2 DEF Origin
        <5>4. QED
          BY <5>1, <5>2, <5>3
      <4>2. CASE q.id # j.id
        BY <2>1, <2>2, <2>4, <3>2, <4>2 DEF Origin
      <4>3. QED
        BY <4>1, <4>2
    <3>3. CASE j.kind = "unblock"
      <4>1. \A z \in Edited(j, items) : \E y \in items : z = Normalize(y) /\ y.id = z.id
        <5>1. SUFFICES ASSUME NEW z \in Edited(j, items)
                       PROVE  \E y \in items : z = Normalize(y) /\ y.id = z.id
          OBVIOUS
        <5>2. PICK y \in items : z = Normalize(y)
          BY <3>3 DEF Edited
        <5>3. QED
          BY <5>2, Normalized DEF Alike
      <4>2. PICK y \in items : o = Normalize(y) /\ y.id = o.id
        BY <4>1
      <4>3. PICK z \in items : p = Normalize(z) /\ z.id = p.id
        BY <4>1
      <4>4. y = z
        BY <4>2, <4>3 DEF Uniq
      <4>5. QED
        BY <4>2, <4>3, <4>4
    <3>4. QED
      BY <1>2, <3>1, <3>2, <3>3
  <2>8. QED
    BY <2>5, <2>6, <2>7 DEF Op
<1>3. QED
  BY <1>0, <1>1, <1>2 DEF JournalKinds

\* The list a thread is about to replace is the one it has read.
LEMMA StoreFrom ==
  ASSUME Typed, Stepped, NEW b \in Actors, pc'[b] = "store"
  PROVE  (pc[b] = "store" /\ buf'[b] = buf[b]) \/ buf'[b] = snapshot
<1>1. CASE Crash
  BY <1>1 DEF Crash
<1>2. ASSUME NEW a \in Actors, a # b, Leaves(a)
      PROVE  pc[b] = "store" /\ buf'[b] = buf[b]
  BY <1>2 DEF Leaves
<1>3. CASE JournalStep(b)
  <2>1. ~JobDone(b)
    <3>1. pc[b] \in Working
      BY <1>3 DEF JournalStep, Load, Store, LogEvents, LoadConflicts, WriteConflicts, Working
    <3>2. QED
      BY <3>1, JobDoneLocals DEF Typed
  <2>2. Load(b) \/ Store(b) \/ LoadConflicts(b)
    BY <1>3, <2>1 DEF JournalStep, LogEvents, WriteConflicts
  <2>3. CASE Load(b)
    BY <2>1, <2>3 DEF Load, Typed, Buffers
  <2>4. CASE Store(b) \/ LoadConflicts(b)
    BY <2>4 DEF Store, LoadConflicts, Typed, Locals
  <2>5. QED
    BY <2>2, <2>3, <2>4
<1>4. CASE b = "ui" /\ UiSide /\ ~JournalStep("ui")
  <2>1. ASSUME NEW e, NEW type, NEW at, Begins(e, type, at) PROVE FALSE
    BY <1>4, <2>1, BeginEffect
  <2>2. CASE Exchange("ui", Outcomes)
    BY <1>4, <2>2, ExchangeLeaves
  <2>3. CASE UiReceive \/ UiReturn
    BY <1>4, <2>3 DEF UiReceive, UiReturn, Goto, Typed, Locals, Actors
  <2>4. ASSUME NEW js, NEW p, Run("ui", js, p) PROVE FALSE
    BY <1>4, <2>4 DEF Run, Typed, Locals
  <2>5. CASE QueueCreate \/ QueueUpdate \/ QueueDelete
    BY <2>4, <2>5, QueueUpdateCases DEF QueueCreate, QueueDelete
  <2>6. CASE UiCancel
    <3>1. Goto("ui", "idle")
      BY <2>4, <2>6 DEF UiCancel
    <3>2. QED
      BY <1>4, <3>1 DEF Goto, Typed, Locals
  <2>7. CASE \E e \in Temps : UiRefresh(e)
    BY <2>7 DEF UiRefresh, local
  <2>8. CASE \E i \in Ids : UiRetry(i) \/ UiDiscard(i)
    BY <2>4, <2>8, UiRetryCases, UiDiscardCases
  <2>9. QED
    BY <1>4, <2>1, <2>2, <2>3, <2>5, <2>6, <2>7, <2>8 DEF UiSide
<1>5. CASE b = "sync" /\ SyncSide /\ ~JournalStep("sync")
  <2>1. CASE Exchange("sync", Outcomes)
    BY <1>5, <2>1, ExchangeLeaves
  <2>2. ASSUME NEW js, NEW p, Run("sync", js, p) PROVE FALSE
    BY <1>5, <2>2 DEF Run, Typed, Locals
  <2>3. CASE SyncStart \/ SyncNext \/ SyncReceive
    BY <2>2, <2>3 DEF SyncStart, SyncNext, SyncReceive
  <2>4. CASE SyncList
    BY <1>5, <2>4 DEF SyncList, Typed, Locals
  <2>5. QED
    BY <1>5, <2>1, <2>3, <2>4 DEF SyncSide
<1>6. QED
  BY <1>1, <1>2, <1>3, <1>4, <1>5, Sides, UiLeaves, SyncLeaves DEF Actors

LEMMA UniqueStep ==
  ASSUME Typed, Unique, Stepped
  PROVE  Unique'
<1>1. ASSUME NEW a \in Actors, Store(a) PROVE Unique'
  <2>. DEFINE j == Head(jobs[a])
  <2>1. /\ pc[a] = "store" /\ snapshot' = Edited(j, buf[a])
        /\ pc' = [pc EXCEPT ![a] = "append"] /\ UNCHANGED buf
    BY <1>1 DEF Store
  <2>2. j \in Job /\ IsJournalCall(j) /\ buf[a] \subseteq Ops
    <3>1. jobs[a] \in Seq(Job) /\ jobs[a] # <<>> /\ IsJournalCall(j) /\ buf[a] \subseteq Ops
      BY <2>1 DEF Typed, Locals, Buffers, Jobbed, Working
    <3>2. QED
      BY <3>1, CallsSplit
  <2>3. Uniq(buf[a])
    BY <2>1 DEF Unique
  <2>. HIDE DEF j
  <2>4. Uniq(snapshot')
    BY <2>1, <2>2, <2>3, EditedUnique DEF Uniq
  <2>5. \A b \in Actors : pc'[b] = "store" => pc[b] = "store"
    BY <2>1 DEF Typed, Locals
  <2>6. QED
    BY <2>1, <2>4, <2>5 DEF Unique, Uniq
<1>2. CASE snapshot' = snapshot
  BY <1>2, StoreFrom DEF Unique, Uniq
<1>3. QED
  BY <1>1, <1>2, SnapshotFrom

LEMMA AgreedStep ==
  ASSUME Typed, Typed', PlayInv, WriteInv, Stepped, Unique', Unlisted'
  PROVE  Agreed'
<1>1. CASE Quiet'
  <2>1. (Typed /\ Unlisted /\ Quiet => HeldOps = snapshot /\ Calls = {})'
    BY QuietHeld, PTL
  <2>2. QED
    BY <1>1, <2>1 DEF Agreed, Unique, Uniq
<1>2. CASE ~Quiet'
  <2>0. Owed' \subseteq Owed
    BY <1>2, OwedFrom DEF WriteInv
  <2>1. CASE \E e \in Entities, type \in {"create", "update", "delete"},
                at \in {"temp", "real"} : Begins(e, type, at)
    <3>1. HeldOps' = HeldOps
      BY <2>1, BeginPlay
    <3>2. QED
      BY <2>0, <3>1 DEF WriteInv, Agreed
  <2>2. CASE ~\E e \in Entities, type \in {"create", "update", "delete"},
                 at \in {"temp", "real"} : Begins(e, type, at)
    <3>1. HeldFrom
      BY <2>2, StepEffect DEF Effect
    <3>2. SUFFICES ASSUME NEW o \in HeldOps', NEW p \in HeldOps', o.id = p.id,
                          NEW x \in o.body, x \in Owed
                   PROVE  x \in p.body
      BY <2>0 DEF Agreed
    <3>3. pc["ui"] = "queue" => x \notin cur["ui"].body /\ \A q \in HeldOps : q.id # cur["ui"].id
      BY <3>2 DEF WriteInv, Fresh, Owed, PlayInv, NewId
    <3>4. PICK q \in HeldOps : Kin(o, q)
      <4>1. CASE pc["ui"] = "queue" /\ Kin(o, cur["ui"])
        BY <3>2, <3>3, <4>1 DEF Kin
      <4>2. QED
        BY <3>1, <4>1 DEF HeldFrom, Stems
    <3>5. x \in q.body
      BY <3>2, <3>3, <3>4 DEF Kin
    <3>6. PICK r \in HeldOps : Kin(p, r)
      <4>1. CASE pc["ui"] = "queue" /\ Kin(p, cur["ui"])
        BY <3>2, <3>3, <3>4, <4>1 DEF Kin
      <4>2. QED
        BY <3>1, <4>1 DEF HeldFrom, Stems
    <3>7. QED
      BY <3>2, <3>4, <3>5, <3>6 DEF Kin, WriteInv, Agreed
  <2>3. QED
    BY <2>1, <2>2
<1>3. QED
  BY <1>1, <1>2

\* Replacing the list keeps what is owed.
LEMMA StorePreserves ==
  ASSUME Typed, WriteInv, NEW a \in Actors, Store(a)
  PROVE  Owed \subseteq Carried'
<1>. DEFINE j == Head(jobs[a])
<1>1. pc[a] = "store" /\ snapshot' = Edited(j, buf[a])
  BY DEF Store
<1>2. j \in Job /\ IsJournalCall(j) /\ buf[a] \subseteq Ops /\ j \in CallsIn(jobs[a])
  <2>1. jobs[a] \in Seq(Job) /\ jobs[a] # <<>> /\ IsJournalCall(j) /\ buf[a] \subseteq Ops
    BY <1>1 DEF Typed, Locals, Buffers, Jobbed, Working
  <2>2. QED
    BY <2>1, CallsSplit
<1>3. buf[a] \subseteq HeldOps /\ j \in Calls /\ (j.kind = "upsert" => j.op \in HeldOps)
  BY <1>1, <1>2 DEF HeldOps, Read, Queued, Calls, Actors
<1>. HIDE DEF j
<1>4. SUFFICES ASSUME NEW x \in Owed PROVE \E o \in Edited(j, buf[a]) : x \in o.body
  BY <1>1 DEF Carried
<1>5. PICK p \in buf[a] : x \in p.body
  BY <1>1, <1>4 DEF WriteInv, Preserved, Bodies
<1>6. ~Takes(j, p)
  BY <1>3, <1>4, <1>5 DEF WriteInv, SafeCalls
<1>7. CASE j.kind = "upsert" /\ p.id = j.op.id /\ j.op \in Edited(j, buf[a])
  BY <1>3, <1>4, <1>5, <1>7 DEF WriteInv, Agreed
<1>8. CASE \E o \in Edited(j, buf[a]) : Alike(o, p)
  BY <1>5, <1>8 DEF Alike
<1>9. QED
  BY <1>2, <1>5, <1>6, <1>7, <1>8, EditedKeeps DEF Takes, StaleUpdate

LEMMA PreservedStep ==
  ASSUME Typed, Typed', WriteInv, Stepped
  PROVE  Preserved'
<1>1. CASE Quiet'
  <2>1. \A a \in Actors : pc'[a] = "idle"
    BY <1>1 DEF Quiet, Actors
  <2>2. snapshot' = snapshot
    <3>1. ASSUME NEW a \in Actors, Store(a) PROVE FALSE
      BY <2>1, <3>1 DEF Store, Typed, Locals
    <3>2. QED
      BY <3>1, SnapshotFrom
  <2>3. Carried' = Carried
    BY <2>2 DEF Carried
  <2>4. raced' = raced \ Carried'
    BY <1>1, StepRecorded DEF Recorded, Quiet, Together
  <2>5. applied \subseteq applied' /\ dropped \subseteq dropped'
    BY OnlyMore
  <2>6. ASSUME NEW x \in Owed', x \notin Carried PROVE FALSE
    <3>1. x \in Relied' /\ x \notin Free
      BY <2>3, <2>4, <2>5, <2>6 DEF Owed, Free
    <3>2. x \notin Relied
      BY <2>6, <3>1 DEF WriteInv, Preserved, Owed
    <3>3. /\ UiReturn \/ (UiReceive /\ res["ui"] = "ok")
          /\ x \in cur["ui"].body
      BY <3>1, <3>2, ReliedFrom
    <3>4. CASE UiReturn
      <4>1. pc["ui"] = "return"
        BY <3>4 DEF UiReturn
      <4>2. QED
        BY <2>6, <3>1, <3>3, <4>1 DEF WriteInv, Returned
    <3>5. CASE UiReceive /\ res["ui"] = "ok"
      <4>1. pc["ui"] = "receive"
        BY <3>5 DEF UiReceive
      <4>2. QED
        BY <3>1, <3>3, <3>5, <4>1 DEF WriteInv, Answered, Free, Actors
    <3>6. QED
      BY <3>3, <3>4, <3>5
  <2>7. QED
    BY <2>1, <2>3, <2>6 DEF Preserved
<1>2. CASE ~Quiet'
  <2>1. Owed' \subseteq Owed
    BY <1>2, OwedFrom DEF WriteInv
  <2>2. Owed \subseteq Carried'
    <3>1. CASE snapshot' = snapshot
      BY <3>1 DEF WriteInv, Preserved, Carried
    <3>2. QED
      BY <3>1, SnapshotFrom, StorePreserves
  <2>3. ASSUME NEW b \in Actors, pc'[b] = "store" PROVE Owed \subseteq Bodies(buf'[b])
    BY <2>3, StoreFrom DEF WriteInv, Preserved, Carried, Bodies
  <2>4. QED
    BY <2>1, <2>2, <2>3 DEF Preserved, Bodies
<1>3. QED
  BY <1>1, <1>2

\* A call is new only in a step that starts calls.
LEMMA CallsFrom ==
  ASSUME Typed, PlayInv, Stepped
  PROVE  \/ \A a \in Actors : CallsIn(jobs'[a]) \subseteq CallsIn(jobs[a])
         \/ UiScript /\ Leaves("ui")
         \/ SyncScript /\ Leaves("sync")
<1>1. ASSUME NEW a \in Actors, JournalStep(a)
      PROVE  \A b \in Actors : CallsIn(jobs'[b]) \subseteq CallsIn(jobs[b])
  <2>1. pc[a] \in Working
    BY <1>1 DEF JournalStep, Load, Store, LogEvents, LoadConflicts, WriteConflicts, Working
  <2>2. UNCHANGED jobs \/ JobDone(a)
    BY <1>1 DEF JournalStep, Load, Store, LogEvents, LoadConflicts, WriteConflicts
  <2>3. CASE JobDone(a)
    BY <2>1, <2>3, JobDoneLocals DEF Typed
  <2>4. QED
    BY <2>2, <2>3
<1>2. CASE Crash
  <2>1. \A b \in Actors : jobs'[b] = <<>>
    BY <1>2 DEF Crash
  <2>2. QED
    BY <2>1, NoCalls
<1>3. CASE UNCHANGED jobs
  BY <1>3
<1>4. CASE UiSide
  <2>1. Leaves("ui")
    BY <1>4, UiLeaves
  <2>2. CASE \/ QueueCreate \/ QueueUpdate \/ QueueDelete
             \/ (UiCancel /\ ~UNCHANGED jobs) \/ \E i \in Ids : UiRetry(i) \/ UiDiscard(i)
    BY <2>1, <2>2, UiScripts
  <2>3. CASE \E e \in Entities, type \in {"create", "update", "delete"},
                at \in {"temp", "real"} : Begins(e, type, at)
    BY <1>3, <2>3 DEF Begins, Begin
  <2>4. CASE \/ Exchange("ui", Outcomes) \/ UiReceive \/ UiReturn
             \/ \E e \in Temps : UiRefresh(e)
    BY <1>3, <2>4 DEF Exchange, UiReceive, UiReturn, UiRefresh, local
  <2>5. QED
    BY <1>1, <1>3, <1>4, <2>2, <2>3, <2>4 DEF UiSide, Actors
<1>5. CASE SyncSide
  <2>1. Leaves("sync")
    BY <1>5, SyncLeaves
  <2>2. CASE SyncStart \/ SyncNext \/ SyncReceive
    BY <2>1, <2>2, SyncScripts
  <2>3. CASE Exchange("sync", Outcomes) \/ SyncList
    BY <1>3, <2>3 DEF Exchange, SyncList
  <2>4. QED
    BY <1>1, <1>5, <2>2, <2>3 DEF SyncSide, Actors
<1>6. QED
  BY <1>2, <1>4, <1>5, Sides

\* What the calls of the user are about.
LEMMA UiCalls ==
  ASSUME Typed, UiScript
  PROVE  /\ UNCHANGED <<snapshot, writesOf>>
         /\ \A j \in CallsIn(jobs'["ui"]) :
              \/ j.kind \in {"upsert", "conflict", "unconflict", "unblock"}
              \/ j.kind = "status" /\ j.status # "applied"
              \/ j.kind = "remove" /\ \E c \in snapshot :
                   j.id = c.id /\ (writesOf[c.ent] \subseteq dropped' \/ c.body \subseteq dropped')
              \/ j.kind = "drop_updates" /\ writesOf[j.op.ent] \subseteq dropped'
         /\ \A j, c \in CallsIn(jobs'["ui"]) :
              j.kind = "upsert" => c = j \/ c.kind = "drop_updates"
<1>0. UNCHANGED <<snapshot, writesOf>>
  BY DEF UiScript, QueueCreate, QueueUpdate, QueueDelete, UiCancel, UiRetry, UiDiscard,
         client, screens
<1>. DEFINE Fine(C) ==
       /\ \A j \in C :
              \/ j.kind \in {"upsert", "conflict", "unconflict", "unblock"}
              \/ j.kind = "status" /\ j.status # "applied"
              \/ j.kind = "remove" /\ \E c \in snapshot :
                   j.id = c.id /\ (writesOf[c.ent] \subseteq dropped' \/ c.body \subseteq dropped')
              \/ j.kind = "drop_updates" /\ writesOf[j.op.ent] \subseteq dropped'
       /\ \A j, c \in C : j.kind = "upsert" => c = j \/ c.kind = "drop_updates"
<1>1. \A p, C : Starts("ui", p, C) /\ Fine(C) => Fine(CallsIn(jobs'["ui"]))
  BY DEF Starts
<1>2. ASSUME NEW r PROVE Fine({Upsert(r)})
  BY MadeFields
<1>3. ASSUME NEW i PROVE /\ Fine({AddConflict(i)}) /\ Fine({DropConflict(i)})
                         /\ Fine({DropConflict(i), SetStatus(i, "pending", "")})
  <2>1. SetStatus(i, "pending", "").kind = "status"
        /\ SetStatus(i, "pending", "").status = "pending"
    BY DEF SetStatus
  <2>2. AddConflict(i).kind = "conflict" /\ DropConflict(i).kind = "unconflict"
    BY MadeFields
  <2>3. QED
    BY <2>1, <2>2
<1>4. ASSUME NEW c \in snapshot, writesOf[c.ent] \subseteq dropped' \/ c.body \subseteq dropped'
      PROVE  /\ Fine({Remove(c.id)}) /\ Fine({DropConflict(c.id), Remove(c.id)})
             /\ Fine({DropConflict(c.id), Remove(c.id), Unblock})
  BY <1>4, MadeFields
<1>5. Fine({Unblock})
  BY MadeFields
<1>6. ASSUME NEW o, writesOf[o.ent] \subseteq dropped' PROVE Fine({DropUpdates(o), Upsert(o)})
  BY <1>6, MadeFields
<1>. HIDE DEF Fine
<1>7. QueueDelete => writesOf[cur["ui"].ent] \subseteq dropped'
  BY DEF QueueDelete
<1>8. Dependents \subseteq snapshot
  BY DEF Dependents
<1>8a. SUFFICES Fine(CallsIn(jobs'["ui"]))
  BY <1>0 DEF Fine
<1>9. CASE QueueDelete
  <2>1. CASE \E c \in snapshot : c.ent = cur["ui"].ent /\ Starts("ui", "cancel", {Remove(c.id)})
    BY <1>1, <1>4, <1>7, <1>9, <2>1
  <2>2. CASE Starts("ui", "idle", {DropUpdates(cur["ui"]), Upsert(cur["ui"])})
    BY <1>1, <1>6, <1>7, <1>9, <2>2
  <2>3. cur["ui"].type = "delete" /\ pc["ui"] = "queue"
    BY <1>9 DEF QueueDelete
  <2>4. ~QueueCreate /\ ~QueueUpdate /\ ~UiCancel /\ \A i \in Ids : ~UiRetry(i) /\ ~UiDiscard(i)
    BY <2>3 DEF QueueCreate, QueueUpdate, UiCancel, UiRetry, UiDiscard
  <2>5. \/ \E c \in snapshot : c.ent = cur["ui"].ent /\ Starts("ui", "cancel", {Remove(c.id)})
        \/ Starts("ui", "idle", {DropUpdates(cur["ui"]), Upsert(cur["ui"])})
    BY <2>4, Zenon DEF UiScript
  <2>6. QED
    BY <2>1, <2>2, <2>5
<1>10. CASE ~QueueDelete
  <2>1. CASE \E i \in Ids, o \in snapshot : UiDiscard(i) /\ o.id = i /\ o \in Ops
               /\ dropped' = dropped \cup o.body
               /\ \/ Starts("ui", "cancel", {DropConflict(i), Remove(i)})
                  \/ Starts("ui", "idle", {DropConflict(i), Remove(i), Unblock})
    BY <1>1, <1>4, <2>1
  <2>2. CASE \E o \in Dependents : dropped' = dropped \cup writesOf[o.ent]
                                   /\ Starts("ui", "cancel", {Remove(o.id)})
    BY <1>1, <1>4, <1>8, <2>2
  <2>3. CASE (\E r, p : Starts("ui", p, {Upsert(r)})) \/ Starts("ui", "idle", {Unblock})
    BY <1>1, <1>2, <1>5, <2>3
  <2>4. CASE \E i, p : \/ Starts("ui", p, {AddConflict(i)}) \/ Starts("ui", p, {DropConflict(i)})
                       \/ Starts("ui", p, {DropConflict(i), SetStatus(i, "pending", "")})
    BY <1>1, <1>3, <2>4
  <2>5. QED
    BY <1>10, <2>1, <2>2, <2>3, <2>4, Zenon DEF UiScript
<1>11. QED
  BY <1>9, <1>10

\* And those of the flush.
LEMMA SyncCalls ==
  ASSUME Typed, SyncScript
  PROVE  /\ UNCHANGED cur \/ batch # {}
         /\ \A j \in CallsIn(jobs'["sync"]) :
              \/ j.kind \in {"conflict", "unconflict", "unblock", "note"}
              \/ j.kind = "status" /\ j.status # "applied"
              \/ /\ j = Applied(cur["sync"].id) /\ pc["sync"] = "receive" /\ res["sync"] = "ok"
                 /\ cur' = cur
<1>0. UNCHANGED cur \/ batch # {}
  BY DEF SyncScript, SyncStart, SyncNext, SyncReceive
<1>1. ASSUME NEW i, NEW s, NEW x
      PROVE  SetStatus(i, s, x).kind = "status" /\ SetStatus(i, s, x).status = s
  BY DEF SetStatus
<1>2. SyncReceive => pc["sync"] = "receive" /\ cur' = cur
  BY DEF SyncReceive
<1>3. \A i : /\ AddConflict(i).kind = "conflict" /\ DropConflict(i).kind = "unconflict"
             /\ NoteAttempt(i).kind = "note"
  BY MadeFields
<1>4. Unblock.kind = "unblock"
  BY MadeFields
<1>5. CASE SyncStart \/ SyncNext
  <2>1. ~SyncReceive
    BY <1>5 DEF SyncStart, SyncNext, SyncReceive
  <2>2. \/ CallsIn(jobs'["sync"]) = {Unblock}
        \/ \E o \in batch : CallsIn(jobs'["sync"]) = {SetStatus(o.id, "syncing", "")}
    BY <2>1 DEF SyncScript, Starts
  <2>3. \A j \in CallsIn(jobs'["sync"]) :
          j.kind = "unblock" \/ (j.kind = "status" /\ j.status # "applied")
    <3>1. CASE CallsIn(jobs'["sync"]) = {Unblock}
      BY <1>4, <3>1
    <3>2. ASSUME NEW o \in batch, CallsIn(jobs'["sync"]) = {SetStatus(o.id, "syncing", "")},
                 NEW j \in CallsIn(jobs'["sync"])
          PROVE  j.kind = "status" /\ j.status # "applied"
      <4>1. j = SetStatus(o.id, "syncing", "")
        BY <3>2
      <4>2. QED
        BY <4>1 DEF SetStatus
    <3>3. QED
      BY <2>2, <3>1, <3>2
  <2>4. QED
    BY <1>0, <2>3
<1>6. CASE SyncReceive
  <2>. DEFINE i == cur["sync"].id
  <2>1. ~SyncStart /\ ~SyncNext
    BY <1>6 DEF SyncStart, SyncNext, SyncReceive
  <2>1a. LET k == cur["sync"].id IN
     \/ /\ res["sync"] = "ok"
        /\ \/ Starts("sync", "next", {Applied(k), DropConflict(k), Unblock})
           \/ Starts("sync", "next", {Applied(k), DropConflict(k)})
     \/ Starts("sync", "next", {NoteAttempt(k), SetStatus(k, "pending", "net")})
     \/ Starts("sync", "next", {SetStatus(k, "blocked", "auth_required")})
     \/ Starts("sync", "next", {SetStatus(k, "needs_review", "rejected"), AddConflict(k)})
    BY <2>1, Zenon DEF SyncScript
  <2>2. \/ /\ res["sync"] = "ok"
           /\ CallsIn(jobs'["sync"]) \subseteq {Applied(i), DropConflict(i), Unblock}
        \/ CallsIn(jobs'["sync"]) \subseteq {NoteAttempt(i), SetStatus(i, "pending", "net"),
             SetStatus(i, "blocked", "auth_required"),
             SetStatus(i, "needs_review", "rejected"), AddConflict(i)}
    BY <2>1a DEF Starts
  <2>. HIDE DEF i
  <2>3. CASE res["sync"] = "ok" /\ CallsIn(jobs'["sync"]) \subseteq {Applied(i), DropConflict(i), Unblock}
    BY <1>0, <1>2, <1>3, <1>4, <1>6, <2>3 DEF i
  <2>4. CASE CallsIn(jobs'["sync"]) \subseteq {NoteAttempt(i), SetStatus(i, "pending", "net"),
             SetStatus(i, "blocked", "auth_required"),
             SetStatus(i, "needs_review", "rejected"), AddConflict(i)}
    BY <1>0, <1>1, <1>3, <2>4
  <2>5. QED
    BY <2>2, <2>3, <2>4
<1>7. QED
  BY <1>5, <1>6 DEF SyncScript

LEMMA SafeCallsStep ==
  ASSUME Typed, Typed', PlayInv, PlayInv', Apart', WriteInv, Stepped, Agreed', Unlisted'
  PROVE  SafeCalls'
<1>1. CASE Quiet'
  <2>1. (Typed /\ Unlisted /\ Quiet => HeldOps = snapshot /\ Calls = {})'
    BY QuietHeld, PTL
  <2>2. QED
    BY <1>1, <2>1 DEF SafeCalls
<1>2. CASE ~Quiet'
  <2>0. Owed' \subseteq Owed
    BY <1>2, OwedFrom DEF WriteInv
  <2>1. SUFFICES ASSUME NEW j \in Calls', NEW o \in HeldOps', Takes(j, o),
                        NEW x \in o.body, x \in Owed'
                 PROVE  FALSE
    BY DEF SafeCalls, Takes
  <2>2. x \in Relied' /\ x \notin dropped' /\ x \notin applied' /\ x \in Owed /\ x \in Relied
    BY <2>0, <2>1 DEF Owed, Free
  <2>3. CASE j \in Calls
    <3>1. CASE \E e \in Entities, type \in {"create", "update", "delete"},
                  at \in {"temp", "real"} : Begins(e, type, at)
      <4>1. o \in HeldOps
        BY <3>1, BeginPlay
      <4>2. QED
        BY <2>1, <2>2, <2>3, <4>1 DEF WriteInv, SafeCalls
    <3>2. CASE ~\E e \in Entities, type \in {"create", "update", "delete"},
                   at \in {"temp", "real"} : Begins(e, type, at)
      <4>1. HeldFrom
        BY <3>2, StepEffect DEF Effect
      <4>2. ~(pc["ui"] = "queue" /\ x \in cur["ui"].body)
        BY <2>2 DEF WriteInv, Fresh
      <4>3. PICK p \in HeldOps : Kin(o, p)
        BY <2>1, <4>1, <4>2 DEF HeldFrom, Stems, Kin
      <4>4. x \in p.body /\ Takes(j, p)
        BY <2>1, <4>2, <4>3 DEF Kin, Takes
      <4>5. QED
        BY <2>2, <2>3, <4>4 DEF WriteInv, SafeCalls
    <3>3. QED
      BY <3>1, <3>2
  <2>4. CASE j \notin Calls
    <3>0. o \in PlayOps'
      BY <2>1 DEF PlayOps
    <3>1. ASSUME NEW e \in Entities, o.ent = e, UNCHANGED writesOf, writesOf[e] \subseteq dropped'
          PROVE  FALSE
      <4>1. PICK f \in Entities : x \in writesOf'[f]
        BY <2>2 DEF Relied
      <4>2. f = e
        BY <2>1, <3>0, <3>1, <4>1 DEF Apart
      <4>3. QED
        BY <2>2, <3>1, <4>1, <4>2
    <3>2. ASSUME NEW c \in HeldOps', c.id = o.id PROVE x \in c.body
      BY <2>1, <3>2 DEF Agreed
    <3>3. CASE UiScript /\ Leaves("ui")
      <4>1. CallsIn(jobs'["sync"]) = CallsIn(jobs["sync"])
        BY <3>3 DEF Leaves, Actors
      <4>2. j \in CallsIn(jobs'["ui"]) /\ j \in Job
        BY <2>1, <2>4, <4>1, CallsTyped DEF Calls, Typed, Locals, Actors
      <4>3. UNCHANGED <<snapshot, writesOf>>
        BY <3>3, UiCalls
      <4>4. \/ j.kind = "remove" /\ \E c \in snapshot :
                 j.id = c.id /\ (writesOf[c.ent] \subseteq dropped' \/ c.body \subseteq dropped')
            \/ j.kind = "drop_updates" /\ writesOf[j.op.ent] \subseteq dropped'
        BY <2>1, <3>3, <4>2, UiCalls DEF Takes
      <4>5. CASE j.kind = "drop_updates" /\ writesOf[j.op.ent] \subseteq dropped'
        <5>1. o.ent = j.op.ent /\ j.op.ent \in Entities
          BY <2>1, <4>2, <4>5, JobFields, OpsFields DEF Takes
        <5>2. QED
          BY <3>1, <4>3, <4>5, <5>1
      <4>6. CASE j.kind = "remove" /\ \E c \in snapshot :
                 j.id = c.id /\ (writesOf[c.ent] \subseteq dropped' \/ c.body \subseteq dropped')
        <5>1. PICK c \in snapshot :
                 j.id = c.id /\ (writesOf[c.ent] \subseteq dropped' \/ c.body \subseteq dropped')
          BY <4>6
        <5>2. c \in HeldOps' /\ c \in PlayOps' /\ o.id = c.id
          BY <2>1, <4>3, <4>6, <5>1 DEF HeldOps, PlayOps, Takes
        <5>3. o.ent = c.ent /\ c.ent \in Entities
          BY <3>0, <5>2, OpsFields DEF PlayInv, IdsAgree, Typed, Data
        <5>4. CASE c.body \subseteq dropped'
          BY <2>2, <3>2, <5>2, <5>4
        <5>5. QED
          BY <3>1, <4>3, <5>1, <5>3, <5>4
      <4>7. QED
        BY <4>4, <4>5, <4>6
    <3>4. CASE SyncScript /\ Leaves("sync")
      <4>1. CallsIn(jobs'["ui"]) = CallsIn(jobs["ui"])
        BY <3>4 DEF Leaves, Actors
      <4>2. j \in CallsIn(jobs'["sync"])
        BY <2>1, <2>4, <4>1 DEF Calls
      <4>3. /\ j = Applied(cur["sync"].id) /\ pc["sync"] = "receive" /\ res["sync"] = "ok"
            /\ cur' = cur
        BY <2>1, <3>4, <4>2, SyncCalls DEF Takes
      <4>4. cur["sync"] # NoOp
        BY <4>3 DEF Typed, Locals, Jobbed, Actors
      <4>5. cur["sync"] \in HeldOps'
        BY <4>3, <4>4 DEF HeldOps, InHand
      <4>6. o.id = cur["sync"].id
        BY <2>1, <4>3 DEF Takes, Applied, SetStatus
      <4>7. x \in cur["sync"].body
        BY <3>2, <4>5, <4>6
      <4>8. cur["sync"].body \subseteq applied /\ applied \subseteq applied'
        BY <4>3, OnlyMore DEF WriteInv, Answered, Actors
      <4>9. QED
        BY <2>2, <4>7, <4>8
    <3>5. QED
      BY <2>1, <2>4, <3>3, <3>4, CallsFrom DEF Calls, Actors
  <2>5. QED
    BY <2>3, <2>4
<1>3. QED
  BY <1>1, <1>2

LEMMA SoloStep ==
  ASSUME Typed, PlayInv, WriteInv, Stepped
  PROVE  Solo' /\ UiUpserts'
<1>1. CASE \A a \in Actors : CallsIn(jobs'[a]) \subseteq CallsIn(jobs[a])
  BY <1>1 DEF WriteInv, Solo, UiUpserts, Actors
<1>2. CASE UiScript /\ Leaves("ui")
  <2>1. jobs'["sync"] = jobs["sync"]
    BY <1>2 DEF Leaves, Actors
  <2>2. Solo'
    BY <1>2, UiCalls DEF Solo
  <2>3. QED
    BY <2>1, <2>2 DEF WriteInv, UiUpserts
<1>3. CASE SyncScript /\ Leaves("sync")
  <2>1. jobs'["ui"] = jobs["ui"]
    BY <1>3 DEF Leaves, Actors
  <2>2. \A i : Applied(i).kind # "upsert"
    BY DEF Applied, SetStatus
  <2>3. UiUpserts'
    BY <1>3, <2>2, SyncCalls DEF UiUpserts
  <2>4. QED
    BY <2>1, <2>3 DEF WriteInv, Solo
<1>4. QED
  BY <1>1, <1>2, <1>3, CallsFrom

LEMMA FreshStep ==
  ASSUME Typed, PlayInv, Apart, WriteInv, Stepped
  PROVE  Fresh'
<1>1. CASE \E e \in Entities, type \in {"create", "update", "delete"},
              at \in {"temp", "real"} : Begins(e, type, at)
  <2>1. PICK e \in Entities, type \in {"create", "update", "delete"},
             at \in {"temp", "real"} : Begins(e, type, at)
    BY <1>1
  <2>2. cur'["ui"] = NewOp(e, type, at) /\ UNCHANGED writesOf
    BY <2>1, BeginEffect, Zenon
  <2>2a. NewOp(e, type, at).body = IF type = "delete" THEN {} ELSE {nextOp}
    BY DEF NewOp
  <2>3. \A x \in cur'["ui"].body : x = nextOp
    BY <2>2, <2>2a
  <2>4. Relied' = Relied
    BY <2>2 DEF Relied
  <2>5. \A f \in Entities : \A x \in writesOf[f] : x \in Nat /\ x < nextOp
    BY BoundsAssumption DEF Apart, Typed, Data, Ids
  <2>6. nextOp \notin Relied
    BY <2>5 DEF Relied, Typed, Data
  <2>7. QED
    BY <2>3, <2>4, <2>6 DEF Fresh
<1>2. CASE ~\E e \in Entities, type \in {"create", "update", "delete"},
               at \in {"temp", "real"} : Begins(e, type, at)
  <2>1. Stays
    BY <1>2, StepEffect DEF Effect
  <2>2. SUFFICES ASSUME pc'["ui"] \in {"direct", "receive", "queue"},
                        NEW x \in cur'["ui"].body, x \in Relied'
                 PROVE  FALSE
    BY DEF Fresh
  <2>3. cur'["ui"] = cur["ui"] /\ x \notin Relied
    BY <2>1, <2>2 DEF Stays, WriteInv, Fresh
  <2>4. UiReturn \/ (UiReceive /\ res["ui"] = "ok")
    BY <2>2, <2>3, ReliedFrom
  <2>5. Goto("ui", "idle")
    BY <2>4 DEF UiReturn, UiReceive
  <2>6. QED
    BY <2>2, <2>5 DEF Goto, Typed, Locals, Actors
<1>3. QED
  BY <1>1, <1>2

\* Where a step of its own that is not a journal call takes a thread.
LEMMA UiPlaces ==
  ASSUME Typed, UiSide, ~JournalStep("ui")
  PROVE  \/ pc'["ui"] = "load" \/ pc'["ui"] \in {"idle", "direct", "queue"}
         \/ pc'["ui"] = "receive" /\ Exchange("ui", Outcomes)
<1>0. "ui" \in Actors /\ \A v : pc' = [pc EXCEPT !["ui"] = v] => pc'["ui"] = v
  BY DEF Actors, Typed, Locals
<1>1. ASSUME NEW e, NEW type, NEW at, Begins(e, type, at) PROVE pc'["ui"] \in {"direct", "queue"}
  BY <1>1, BeginEffect
<1>2. CASE Exchange("ui", Outcomes)
  BY <1>0, <1>2, ExchangeLeaves
<1>3. CASE UiReceive \/ UiReturn
  BY <1>0, <1>3 DEF UiReceive, UiReturn, Goto
<1>4. ASSUME NEW js, NEW p, Run("ui", js, p) PROVE pc'["ui"] = "load"
  BY <1>0, <1>4 DEF Run
<1>5. CASE QueueCreate \/ QueueUpdate \/ QueueDelete
  BY <1>4, <1>5, QueueUpdateCases DEF QueueCreate, QueueDelete
<1>6. CASE UiCancel
  BY <1>0, <1>4, <1>6 DEF UiCancel, Goto
<1>7. CASE \E e \in Temps : UiRefresh(e)
  BY <1>7 DEF UiRefresh, local
<1>8. CASE \E i \in Ids : UiRetry(i) \/ UiDiscard(i)
  BY <1>4, <1>8, UiRetryCases, UiDiscardCases
<1>9. QED
  BY <1>1, <1>2, <1>3, <1>5, <1>6, <1>7, <1>8 DEF UiSide

LEMMA SyncPlaces ==
  ASSUME Typed, SyncSide, ~JournalStep("sync")
  PROVE  pc'["sync"] \in {"load", "next"}
         \/ (pc'["sync"] = "receive" /\ Exchange("sync", Outcomes))
<1>0. "sync" \in Actors /\ \A v : pc' = [pc EXCEPT !["sync"] = v] => pc'["sync"] = v
  BY DEF Actors, Typed, Locals
<1>1. CASE Exchange("sync", Outcomes)
  BY <1>0, <1>1, ExchangeLeaves
<1>2. ASSUME NEW js, NEW p, Run("sync", js, p) PROVE pc'["sync"] = "load"
  BY <1>0, <1>2 DEF Run
<1>3. CASE SyncStart \/ SyncNext \/ SyncReceive
  BY <1>2, <1>3 DEF SyncStart, SyncNext, SyncReceive
<1>4. CASE SyncList
  BY <1>0, <1>4 DEF SyncList
<1>5. QED
  BY <1>1, <1>3, <1>4 DEF SyncSide

\* And where a journal call takes it.
LEMMA JournalPlaces ==
  ASSUME Typed, NEW a \in Actors, JournalStep(a)
  PROVE  \/ /\ JobDone(a) /\ UNCHANGED snapshot
            /\ pc'[a] = "load" \/ (Tail(jobs[a]) = <<>> /\ pc'[a] = after[a])
            /\ LogEvents(a) \/ Head(jobs[a]).kind \in {"unblock", "conflict", "unconflict"}
         \/ /\ UNCHANGED <<jobs, after, cur>>
            /\ Store(a) \/ (UNCHANGED snapshot /\ pc'[a] \in {"store", "write_conflicts"})
<1>1. pc[a] \in Working
  BY DEF JournalStep, Load, Store, LogEvents, LoadConflicts, WriteConflicts, Working
<1>2. ASSUME JobDone(a)
      PROVE  pc'[a] = "load" \/ (Tail(jobs[a]) = <<>> /\ pc'[a] = after[a])
  BY <1>1, <1>2, JobDoneLocals DEF Typed
<1>3. \A v : pc' = [pc EXCEPT ![a] = v] => pc'[a] = v
  BY DEF Typed, Locals
<1>4. CASE Load(a)
  <2>1. UNCHANGED snapshot
    BY <1>4 DEF Load, client
  <2>2. CASE JobDone(a) /\ Head(jobs[a]).kind = "unblock"
    BY <1>2, <2>1, <2>2
  <2>3. CASE pc' = [pc EXCEPT ![a] = "store"] /\ UNCHANGED <<jobs, after, cur, res>>
    BY <1>3, <2>1, <2>3
  <2>4. QED
    BY <1>4, <2>2, <2>3 DEF Load
<1>5. CASE LoadConflicts(a)
  BY <1>3, <1>5 DEF LoadConflicts, client
<1>6. CASE Store(a)
  BY <1>6 DEF Store
<1>7. CASE LogEvents(a)
  BY <1>2, <1>7 DEF LogEvents
<1>8. CASE WriteConflicts(a)
  <2>1. ~IsJournalCall(Head(jobs[a]))
    BY <1>8 DEF WriteConflicts, Typed, Locals, Jobbed
  <2>2. QED
    BY <1>2, <1>8, <2>1 DEF WriteConflicts, IsJournalCall
<1>9. QED
  BY <1>4, <1>5, <1>6, <1>7, <1>8 DEF JournalStep

LEMMA AnsweredStep ==
  ASSUME Typed, Answered, Stepped
  PROVE  Answered'
<1>1. SUFFICES ASSUME NEW b \in Actors, pc'[b] = "receive", res'[b] = "ok"
               PROVE  cur'[b].body \subseteq applied'
  BY DEF Answered
<1>2. CASE Exchange(b, Outcomes)
  BY <1>1, <1>2, ExchangeApplies, ExchangeLeaves
<1>3. CASE pc[b] = "receive" /\ res[b] = "ok" /\ cur'[b] = cur[b]
  BY <1>3, OnlyMore DEF Answered
<1>4. ASSUME NEW a \in Actors, a # b, Leaves(a)
      PROVE  pc[b] = "receive" /\ res[b] = "ok" /\ cur'[b] = cur[b]
  BY <1>1, <1>4 DEF Leaves
<1>5. ASSUME JournalStep(b) PROVE FALSE
  <2>1. after[b] # "receive"
    BY DEF Typed, Locals, Places, Actors
  <2>2. CASE Store(b)
    BY <1>1, <2>2 DEF Store, Typed, Locals
  <2>3. QED
    BY <1>1, <1>5, <2>1, <2>2, JournalPlaces
<1>6. CASE b = "ui" /\ UiSide /\ ~JournalStep("ui")
  BY <1>1, <1>2, <1>6, UiPlaces
<1>7. CASE b = "sync" /\ SyncSide /\ ~JournalStep("sync")
  BY <1>1, <1>2, <1>7, SyncPlaces
<1>8. CASE Crash
  BY <1>1, <1>8 DEF Crash
<1>9. QED
  BY <1>3, <1>4, <1>5, <1>6, <1>7, <1>8, Sides, UiLeaves, SyncLeaves DEF Actors

\* A call that is to return stores the write.
LEMMA ReturnScript ==
  ASSUME Typed, UiScript, after'["ui"] = "return", NEW j \in CallsIn(jobs'["ui"])
  PROVE  j.kind = "upsert" /\ cur'["ui"].body \subseteq j.op.body
<1>1. \A p, C : Starts("ui", p, C) => after'["ui"] = p /\ CallsIn(jobs'["ui"]) = C
  BY DEF Starts
<1>2. \A C : ~Starts("ui", "idle", C) /\ ~Starts("ui", "cancel", C)
  BY <1>1
<1>3. \/ QueueCreate /\ \E r \in Ops : Alike(r, cur["ui"]) /\ Starts("ui", "return", {Upsert(r)})
      \/ QueueUpdate /\ \E f \in snapshot, r \in Ops :
           r.body = f.body \cup cur["ui"].body /\ Starts("ui", "return", {Upsert(r)})
      \/ QueueUpdate /\ Starts("ui", "return", {Upsert(cur["ui"])})
  BY <1>2, Zenon DEF UiScript
<1>4. PICK r : cur["ui"].body \subseteq r.body /\ Starts("ui", "return", {Upsert(r)})
  BY <1>3 DEF Alike
<1>5. cur' = cur
  BY <1>3 DEF QueueCreate, QueueUpdate
<1>6. j = Upsert(r)
  BY <1>1, <1>4
<1>7. QED
  BY <1>4, <1>5, <1>6 DEF Upsert

\* While both threads are at work, a write whose call is open races or is kept.
LEMMA OpenKept ==
  ASSUME Together', Racing', Preserved', cur'["ui"] # NoOp
  PROVE  cur'["ui"].body \subseteq (Free \cup Carried)'
<1>1. SUFFICES ASSUME NEW x \in cur'["ui"].body, x \notin (Free \cup Carried)' PROVE FALSE
  OBVIOUS
<1>2. x \notin raced' /\ x \notin dropped' /\ x \notin Owed'
  BY <1>1 DEF Free, Preserved
<1>3. x \notin Relied'
  BY <1>1, <1>2 DEF Owed
<1>4. x \in Open'
  BY <1>1, <1>2, <1>3 DEF Open
<1>5. QED
  BY <1>2, <1>4 DEF Racing

LEMMA ReturnedStep ==
  ASSUME Typed, Typed', PlayInv, WriteInv, Stepped, Racing', Preserved'
  PROVE  Returned'
<1>0. "ui" \in Actors /\ "sync" \in Actors
  BY DEF Actors
<1>1. ASSUME after'["ui"] = "return", NEW j \in CallsIn(jobs'["ui"])
      PROVE  j.kind = "upsert" /\ cur'["ui"].body \subseteq j.op.body
  <2>1. CASE after["ui"] = "return" /\ j \in CallsIn(jobs["ui"]) /\ cur'["ui"] = cur["ui"]
    BY <2>1 DEF WriteInv, Returned
  <2>2. CASE UiScript
    BY <1>1, <2>2, ReturnScript
  <2>3. CASE SyncSide
    <3>1. Leaves("sync")
      BY <2>3, SyncLeaves
    <3>2. QED
      BY <1>0, <1>1, <2>1, <3>1 DEF Leaves
  <2>4. CASE Crash
    BY <1>0, <1>1, <2>4 DEF Crash
  <2>5. CASE JournalStep("ui")
    <3>1. CASE UNCHANGED <<jobs, after, cur>>
      BY <1>1, <2>1, <3>1
    <3>2. CASE JobDone("ui")
      <4>1. pc["ui"] \in Working
        BY <2>5 DEF JournalStep, Load, Store, LogEvents, LoadConflicts, WriteConflicts, Working
      <4>2. Tail(jobs["ui"]) # <<>>
        BY <1>0, <1>1, <3>2 DEF JobDone, Typed, Locals
      <4>3. UNCHANGED after /\ pc'["ui"] = "load"
        BY <1>0, <3>2, <4>1, <4>2, JobDoneLocals DEF JobDone, Typed
      <4>4. j \in CallsIn(jobs["ui"]) /\ cur'["ui"] = cur["ui"]
        BY <1>0, <1>1, <3>2, <4>1, <4>3, JobDoneLocals DEF Typed
      <4>5. QED
        BY <1>1, <2>1, <4>3, <4>4
    <3>3. QED
      BY <1>0, <2>5, <3>1, <3>2, JournalPlaces
  <2>6. CASE UiSide /\ ~JournalStep("ui") /\ ~UiScript
    <3>1. CASE UNCHANGED after /\ pc["ui"] \notin Working
      BY <1>0, <1>1, <3>1 DEF Typed, Locals, Jobbed
    <3>2. CASE \E e \in Entities, type \in {"create", "update", "delete"},
                  at \in {"temp", "real"} : Begins(e, type, at)
      BY <3>1, <3>2 DEF Begins, Begin, Working
    <3>3. CASE \/ (pc["ui"] = "direct" /\ Exchange("ui", Outcomes)) \/ UiReceive \/ UiReturn
               \/ \E e \in Temps : UiRefresh(e)
      BY <3>1, <3>3 DEF Exchange, UiReceive, UiReturn, UiRefresh, local, Working
    <3>4. CASE UiCancel /\ UNCHANGED jobs
      <4>1. pc["ui"] = "cancel"
        BY <3>4 DEF UiCancel
      <4>2. jobs["ui"] = <<>>
        BY <1>0, <4>1 DEF Typed, Locals, Jobbed, Working
      <4>3. CallsIn(jobs'["ui"]) = {}
        BY <3>4, <4>2, NoCalls
      <4>4. QED
        BY <1>1, <4>3
    <3>5. QED
      BY <2>6, <3>2, <3>3, <3>4, UiScripts DEF UiSide
  <2>7. QED
    BY <2>2, <2>3, <2>4, <2>5, <2>6, Sides
<1>2. ASSUME pc'["ui"] = "return" \/ (pc'["ui"] = "append" /\ after'["ui"] = "return")
      PROVE  cur'["ui"].body \subseteq (Free \cup Carried)'
  <2>1. cur'["ui"] # NoOp /\ pc'["ui"] # "idle"
    BY <1>0, <1>2 DEF Typed, Locals, Jobbed
  <2>2. CASE Together'
    BY <2>1, <2>2, OpenKept
  <2>3. CASE ~Together'
    <3>1. pc'["sync"] = "idle" /\ raced' = raced
      BY <2>1, <2>3, StepRecorded DEF Together, Quiet, Recorded
    <3>2. Free \subseteq Free'
      BY <3>1, OnlyMore DEF Free
    <3>3. CASE /\ pc["ui"] = "return" \/ (pc["ui"] = "append" /\ after["ui"] = "return")
               /\ cur'["ui"] = cur["ui"] /\ snapshot' = snapshot
      BY <3>2, <3>3 DEF WriteInv, Returned, Carried
    <3>4. CASE SyncSide
      <4>1. Leaves("sync")
        BY <3>4, SyncLeaves
      <4>2. ~Store("sync")
        BY <1>0, <3>1 DEF Store, Typed, Locals
      <4>3. ~Store("ui")
        BY <1>0, <4>1 DEF Leaves, Store, Typed, Locals
      <4>4. QED
        BY <1>0, <1>2, <3>3, <4>1, <4>2, <4>3, SnapshotFrom DEF Leaves, Actors
    <3>5. CASE Crash
      BY <1>0, <2>1, <3>5 DEF Crash
    <3>6. CASE UiSide /\ ~JournalStep("ui")
      BY <1>2, <3>6, UiPlaces
    <3>7. CASE JournalStep("ui")
      <4>0. pc["ui"] \in Working
        BY <3>7 DEF JournalStep, Load, Store, LogEvents, LoadConflicts, WriteConflicts, Working
      <4>1. jobs["ui"] # <<>> /\ jobs["ui"] \in Seq(Job)
        BY <1>0, <4>0 DEF Typed, Locals, Jobbed
      <4>2. Head(jobs["ui"]) \in CallsIn(jobs["ui"])
        BY <4>1, CallsSplit
      <4>3. CASE Store("ui")
        <5>1. /\ pc'["ui"] = "append" /\ after'["ui"] = after["ui"] /\ cur'["ui"] = cur["ui"]
              /\ snapshot' = Edited(Head(jobs["ui"]), buf["ui"])
          BY <1>0, <4>3 DEF Store, Typed, Locals
        <5>2. /\ Head(jobs["ui"]).kind = "upsert"
              /\ cur["ui"].body \subseteq Head(jobs["ui"]).op.body
          BY <1>2, <4>2, <5>1 DEF WriteInv, Returned
        <5>3. Head(jobs["ui"]).op \in snapshot'
          BY <5>1, <5>2 DEF Edited
        <5>4. QED
          BY <5>1, <5>2, <5>3 DEF Carried
      <4>4. CASE JobDone("ui") /\ UNCHANGED snapshot
        <5>1. pc'["ui"] = IF Tail(jobs["ui"]) = <<>> THEN after["ui"] ELSE "load"
          BY <1>0, <4>0, <4>4, JobDoneLocals DEF Typed
        <5>1a. cur'["ui"] = cur["ui"]
          BY <1>0, <2>1, <4>0, <4>4, JobDoneLocals DEF Typed
        <5>2. pc'["ui"] = "return" /\ after["ui"] = "return"
          BY <1>0, <1>2, <5>1 DEF Typed, Locals, Places
        <5>3. Head(jobs["ui"]).kind = "upsert"
          BY <4>2, <5>2 DEF WriteInv, Returned
        <5>4. LogEvents("ui")
          <6>1. ~Store("ui")
            BY <1>0, <5>2 DEF Store, Typed, Locals
          <6>2. QED
            BY <1>0, <3>7, <5>2, <5>3, <6>1, JournalPlaces
        <5>5. pc["ui"] = "append"
          BY <5>4 DEF LogEvents
        <5>6. QED
          BY <3>3, <4>4, <5>1a, <5>2, <5>5
      <4>5. QED
        BY <1>0, <1>2, <3>7, <4>3, <4>4, JournalPlaces
    <3>8. QED
      BY <3>4, <3>5, <3>6, <3>7, Sides
  <2>4. QED
    BY <2>2, <2>3
<1>3. QED
  BY <1>1, <1>2 DEF Returned

LEMMA WriteStep ==
  ASSUME Typed, PlayInv, Apart, WriteInv, [Next]_vars
  PROVE  WriteInv'
<1>1. CASE UNCHANGED vars
  <2>1. HeldOps' = HeldOps
    BY <1>1, SamePlay
  <2>2. UNCHANGED <<snapshot, pc, jobs, after, buf, cur, res, batch, writesOf, applied,
                    dropped, raced>>
    BY <1>1 DEF vars, client, local, screens, server, history
  <2>3. Unique' /\ Unlisted'
    BY <2>2 DEF WriteInv, Unique, Uniq, Unlisted
  <2>4. Owed' = Owed /\ Free' = Free /\ Carried' = Carried /\ Relied' = Relied /\ Calls' = Calls
    BY <2>2 DEF Owed, Free, Carried, Relied, Calls
  <2>5. Agreed' /\ Preserved'
    BY <2>1, <2>2, <2>4 DEF WriteInv, Agreed, Preserved, Bodies
  <2>6. SafeCalls' /\ Solo' /\ UiUpserts'
    BY <2>1, <2>2, <2>4 DEF WriteInv, SafeCalls, Takes, Solo, UiUpserts
  <2>7. Fresh' /\ Answered' /\ Returned'
    BY <2>2, <2>4 DEF WriteInv, Fresh, Answered, Returned
  <2>8. Racing'
    BY <2>2, <2>4 DEF WriteInv, Racing, Together, Open
  <2>9. QED
    BY <2>3, <2>5, <2>6, <2>7, <2>8 DEF WriteInv
<1>2. CASE Next
  <2>1. Stepped /\ Typed' /\ PlayInv' /\ Apart'
    BY <1>2, NextCases, TypedStep, PlayStep, ApartStep
  <2>2. Unique' /\ Unlisted' /\ Racing'
    BY <2>1, UniqueStep, UnlistedStep, RacingStep DEF WriteInv
  <2>3. Agreed' /\ Preserved'
    BY <2>1, <2>2, AgreedStep, PreservedStep
  <2>4. SafeCalls' /\ Solo' /\ UiUpserts'
    BY <2>1, <2>2, <2>3, SafeCallsStep, SoloStep
  <2>5. Fresh' /\ Answered' /\ Returned'
    BY <2>1, <2>2, <2>3, FreshStep, AnsweredStep, ReturnedStep DEF WriteInv
  <2>6. QED
    BY <2>2, <2>3, <2>4, <2>5 DEF WriteInv
<1>3. QED
  BY <1>1, <1>2

LEMMA InitWrite == Init => WriteInv
<1>. SUFFICES ASSUME Init PROVE WriteInv
  OBVIOUS
<1>1. \A a \in Actors : pc[a] = "idle" /\ after[a] = "idle" /\ CallsIn(jobs[a]) = {}
  BY NoCalls DEF Init
<1>2. snapshot = {} /\ batch = {} /\ Relied = {}
  BY DEF Init, Relied
<1>3. Typed
  BY InitTyped
<1>4. Unique /\ Unlisted
  BY <1>1, <1>2 DEF Unique, Uniq, Unlisted
<1>5. Quiet
  BY <1>1 DEF Quiet, Actors
<1>6. HeldOps = {} /\ Calls = {}
  BY <1>2, <1>3, <1>4, <1>5, QuietHeld
<1>7. Agreed /\ Preserved /\ SafeCalls
  BY <1>1, <1>2, <1>6 DEF Agreed, Preserved, SafeCalls, Owed
<1>8. Solo /\ UiUpserts /\ Fresh /\ Answered /\ Returned /\ Racing
  BY <1>1 DEF Solo, UiUpserts, Fresh, Answered, Returned, Racing, Together, Actors
<1>9. QED
  BY <1>4, <1>7, <1>8 DEF WriteInv

Durable == Typed /\ PlayInv /\ Apart /\ WriteInv

LEMMA AlwaysDurable == Spec => []Durable
<1>1. Init => Durable
  BY InitTyped, InitPlay, InitApart, InitWrite DEF Durable
<1>2. Durable /\ [Next]_vars => Durable'
  BY TypedStep, PlayStep, ApartStep, WriteStep DEF Durable
<1>3. QED
  BY <1>1, <1>2, PTL DEF Spec

\* A write the user relies on is on the server, given up, in the snapshot, or
\* one whose own call met a flush, whatever the threads do and whenever the
\* client dies.
THEOREM WritesKept == Spec => []NoLostWrite
<1>1. Durable => NoLostWrite
  BY DEF Durable, WriteInv, Preserved, NoLostWrite, Owed, Free
<1>2. QED
  BY <1>1, AlwaysDurable, PTL

-----------------------------------------------------------------------------
(* A create that waits has a parent to wait for.                           *)

\* The id of e is known, or the journal will make it known.
Present(e) == \/ e \in idmap \cup {NoParent}
              \/ \E p \in snapshot : p.type = "create" /\ p.ent = e
Rooted(o) == o.type = "create" =>
               Present(Parent[o.ent]) \/ Parent[o.ent] \in cancelled
OnHold(o) == o.status = "blocked" /\ o.err = ""

\* What the screens offer as a parent is present.
Shown == \A e \in Temps : /\ known[e] = "temp" => Present(e)
                          /\ known[e] = "real" => e \in idmap

Parented ==
  /\ \A o \in snapshot : OnHold(o) => Rooted(o)
  /\ pc["ui"] = "queue" => Rooted(cur["ui"])
  /\ pc["ui"] \in {"direct", "receive"} =>
       /\ ParentResolved(cur["ui"])
       /\ cur["ui"].type # "create" /\ cur["ui"].ent \in Temps => cur["ui"].ent \in idmap
  /\ pc["ui"] = "return" /\ cur["ui"].type = "create" => Present(cur["ui"].ent)
  /\ after["ui"] = "return" /\ cur["ui"].type = "create" =>
       \A j \in CallsIn(jobs["ui"]) : j.op.type = "create" /\ j.op.ent = cur["ui"].ent

\* The entities whose dependents are being cancelled are off the screens.
Cancels ==
  /\ pc["ui"] # "cancel" /\ after["ui"] # "cancel" => cancelled = {}
  /\ \A e \in cancelled : known[e] = "gone"

\* A create leaves the snapshot when its id is known, or to be cancelled
\* together with its dependents, and no call puts one on hold.
ParentCalls(C) ==
  /\ \A j \in C : j.kind = "upsert" /\ OnHold(j.op) => Rooted(j.op)
  /\ \A j \in C : j.kind = "status" => j.status # "blocked" \/ j.err # ""
  /\ \A j \in C : j.kind = "remove" => \A p \in snapshot :
       p.id = j.id /\ p.type = "create" => p.ent \in cancelled
  /\ \A j \in C : j.kind = "status" /\ j.status = "applied" => \A p \in snapshot :
       p.id = j.id /\ p.type = "create" => p.ent \in idmap

Family == Shown /\ Parented /\ Cancels /\ ParentCalls(Calls)

LEMMA PresentEdits ==
  ASSUME Typed, PlayInv, ParentCalls(Calls), Kept, NEW a \in Actors, NEW j \in Job, Edits(a, j),
         NEW e, Present(e), e \notin cancelled
  PROVE  Present(e)'
<1>0. /\ j \in Calls /\ IsJournalCall(j) /\ j \in CallsIn(jobs[a])
      /\ snapshot' = Edited(j, snapshot) /\ snapshot \subseteq Ops /\ UNCHANGED idmap
  BY DEF Edits, Calls, Actors, Kept, Typed, Data
<1>1. CASE e \in idmap \cup {NoParent}
  BY <1>0, <1>1 DEF Present
<1>2. ASSUME NEW p \in snapshot, p.type = "create", p.ent = e PROVE Present(e)'
  <2>1. ~(j.kind = "remove" /\ p.id = j.id)
    BY <1>0, <1>2 DEF ParentCalls
  <2>2. CASE j.kind = "status" /\ j.status = "applied" /\ p.id = j.id
    <3>1. e \in idmap
      BY <1>0, <1>2, <2>2 DEF ParentCalls
    <3>2. QED
      BY <1>1, <3>1
  <2>3. CASE j.kind = "upsert" /\ p.id = j.op.id /\ j.op \in Edited(j, snapshot)
    <3>1. p \in PlayOps /\ j.op \in PlayOps
      BY <1>0, <2>3 DEF PlayOps, HeldOps, Queued, Actors
    <3>2. j.op.type = "create" /\ j.op.ent = e
      BY <1>2, <2>3, <3>1 DEF PlayInv, IdsAgree
    <3>3. QED
      BY <1>0, <2>3, <3>2 DEF Present
  <2>4. ~(j.kind = "drop_updates" /\ StaleUpdate(p, j.op))
    BY <1>2 DEF StaleUpdate
  <2>5. CASE \E o \in Edited(j, snapshot) : Alike(o, p)
    BY <1>0, <1>2, <2>5 DEF Present, Alike
  <2>6. QED
    BY <1>0, <2>1, <2>2, <2>3, <2>4, <2>5, EditedKeeps
<1>3. QED
  BY <1>1, <1>2 DEF Present

LEMMA FamilyEdits ==
  ASSUME Typed, PlayInv, WriteInv, Family, Kept, NEW a \in Actors, NEW j \in Job, Edits(a, j)
  PROVE  Family'
<1>0. /\ Calls' = Calls /\ j \in Calls /\ IsJournalCall(j) /\ j \in CallsIn(jobs[a])
      /\ snapshot' = Edited(j, snapshot) /\ snapshot \subseteq Ops
      /\ UNCHANGED <<jobs, after, cur, idmap, cancelled, known>>
  BY DEF Edits, Calls, Actors, Kept, Typed, Data
<1>1. /\ pc[a] \in Working /\ pc'[a] \in Working
      /\ \A b \in Actors \ {a} : pc[b] = "idle" /\ pc'[b] = "idle"
  BY DEF Edits
<1>2. pc["ui"] \in Working \cup {"idle"} /\ pc'["ui"] \in Working \cup {"idle"}
  BY <1>1 DEF Actors
<1>3. ASSUME NEW e, Present(e), e \notin cancelled PROVE Present(e)'
  BY <1>3, PresentEdits DEF Family
<1>4. ASSUME NEW o, Rooted(o) PROVE Rooted(o)'
  BY <1>0, <1>3, <1>4 DEF Rooted
<1>5. Shown'
  BY <1>0, <1>3 DEF Family, Shown, Cancels
<1>6. ASSUME NEW o \in snapshot', OnHold(o) PROVE Rooted(o)'
  <2>1. PICK q \in Ops : Origin(j, snapshot, o, q)
    BY <1>0, EditedFrom
  <2>2. o = q
    BY <1>0, <1>6, <2>1 DEF Origin, OnHold, Family, ParentCalls
  <2>3. Rooted(q)
    BY <1>0, <1>6, <2>1, <2>2 DEF Origin, Family, Parented, ParentCalls
  <2>4. QED
    BY <1>4, <2>2, <2>3
<1>7. Parented'
  <2>1. \A o \in snapshot' : OnHold(o)' => Rooted(o)'
    BY <1>6 DEF OnHold
  <2>2. pc'["ui"] \notin {"queue", "direct", "receive", "return"}
    BY <1>2 DEF Working
  <2>3. after'["ui"] = "return" /\ cur'["ui"].type = "create" =>
          \A c \in CallsIn(jobs'["ui"]) : c.op.type = "create" /\ c.op.ent = cur'["ui"].ent
    BY <1>0 DEF Family, Parented
  <2>4. QED
    BY <2>1, <2>2, <2>3 DEF Parented
<1>8. Cancels'
  BY <1>0, <1>2 DEF Family, Cancels, Working
<1>9. ParentCalls(Calls)'
  <2>1. \A c \in Calls : c.kind = "upsert" /\ OnHold(c.op) => Rooted(c.op)'
    BY <1>4 DEF Family, ParentCalls
  <2>2. ASSUME NEW c \in Calls, c.kind \in {"remove", "status"}, NEW p \in snapshot'
        PROVE  \E q \in snapshot : q.id = p.id /\ q.type = p.type /\ q.ent = p.ent
    <3>1. PICK q \in Ops : Origin(j, snapshot, p, q)
      BY <1>0, EditedFrom
    <3>2. j.kind # "upsert"
      <4>1. CallsIn(jobs[a]) = Calls
        BY <1>1, CallsOf DEF Calls, Actors, Working
      <4>2. QED
        BY <1>0, <2>2, <4>1 DEF WriteInv, Solo, UiUpserts, Actors
    <3>3. QED
      BY <3>1, <3>2 DEF Origin, Alike
  <2>3. ASSUME NEW c \in Calls, c.kind = "remove", NEW p \in snapshot',
               p.id = c.id, p.type = "create"
        PROVE  p.ent \in cancelled
    BY <2>2, <2>3 DEF Family, ParentCalls
  <2>4. ASSUME NEW c \in Calls, c.kind = "status", c.status = "applied", NEW p \in snapshot',
               p.id = c.id, p.type = "create"
        PROVE  p.ent \in idmap
    BY <2>2, <2>4 DEF Family, ParentCalls
  <2>5. \A c \in Calls : c.kind = "status" => c.status # "blocked" \/ c.err # ""
    BY DEF Family, ParentCalls
  <2>6. QED
    BY <1>0, <2>1, <2>3, <2>4, <2>5 DEF ParentCalls, OnHold
<1>10. QED
  BY <1>5, <1>7, <1>8, <1>9 DEF Family

LEMMA FamilyFinishes ==
  ASSUME Typed, WriteInv, Family, Kept, NEW a \in Actors, NEW j \in Job, Finishes(a, j)
  PROVE  Family'
<1>0. /\ Calls = Calls' \cup {j} /\ UNCHANGED <<snapshot, idmap, cancelled, known>>
      /\ j \in CallsIn(jobs[a])
      /\ j.kind = "upsert" => IsJournalCall(j) /\ \E items \in SUBSET Ops : snapshot = Edited(j, items)
  BY DEF Finishes, Kept
<1>1. /\ pc[a] \in Working /\ JobDone(a)
      /\ \A b \in Actors \ {a} : pc[b] = "idle" /\ pc'[b] = "idle"
  BY DEF Finishes
<1>2. /\ CallsIn(jobs[a]) = {Head(jobs[a])} \cup CallsIn(jobs'[a])
      /\ pc'[a] = IF Tail(jobs[a]) = <<>> THEN after[a] ELSE "load"
      /\ cur'[a] = IF pc'[a] = "idle" THEN NoOp ELSE cur[a]
      /\ \A b \in Actors \ {a} : /\ pc'[b] = pc[b] /\ cur'[b] = cur[b]
                                 /\ jobs'[b] = jobs[b] /\ after'[b] = after[b]
  BY <1>1, JobDoneLocals DEF Typed
<1>3. after'[a] = IF Tail(jobs[a]) = <<>> THEN "idle" ELSE after[a]
  BY <1>1 DEF JobDone, Typed, Locals
<1>4. after["ui"] \in {"idle", "return", "cancel"} /\ (a = "sync" => after["ui"] = "idle")
  BY <1>1 DEF Typed, Locals, Places, Jobbed, Working, Actors
<1>5. \A e : Present(e)' <=> Present(e)
  BY <1>0 DEF Present
<1>6. \A o : Rooted(o)' <=> Rooted(o)
  BY <1>0, <1>5 DEF Rooted
<1>7. Shown'
  BY <1>0, <1>5 DEF Family, Shown
<1>8. ParentCalls(Calls)'
  BY <1>0, <1>6 DEF Family, ParentCalls, OnHold
<1>9. \A o \in snapshot' : OnHold(o)' => Rooted(o)'
  BY <1>0, <1>6 DEF Family, Parented, OnHold
<1>10. CASE a = "sync"
  <2>1. pc'["ui"] = "idle" /\ after'["ui"] = "idle" /\ pc["ui"] = "idle"
    BY <1>1, <1>2, <1>4, <1>10 DEF Actors
  <2>2. Parented'
    BY <1>9, <2>1 DEF Parented
  <2>3. Cancels'
    BY <1>0, <1>4, <1>10, <2>1 DEF Family, Cancels
  <2>4. QED
    BY <1>7, <1>8, <2>2, <2>3 DEF Family
<1>11. CASE a = "ui"
  <2>1. pc'["ui"] \notin {"queue", "direct", "receive"}
    BY <1>2, <1>4, <1>11
  <2>2. ASSUME pc'["ui"] = "return", cur'["ui"].type = "create" PROVE Present(cur["ui"].ent)
    <3>1. after["ui"] = "return" /\ cur'["ui"] = cur["ui"]
      BY <1>2, <1>11, <2>2
    <3>2. j.kind = "upsert" /\ j.op.type = "create" /\ j.op.ent = cur["ui"].ent
      BY <1>0, <1>11, <2>2, <3>1 DEF WriteInv, Returned, Family, Parented
    <3>3. j.op \in snapshot
      BY <1>0, <3>2, Achieved
    <3>4. QED
      BY <3>2, <3>3 DEF Present
  <2>3. pc'["ui"] = "return" => cur'["ui"] = cur["ui"]
    BY <1>2, <1>11
  <2>4. (pc["ui"] = "return" /\ cur["ui"].type = "create" => Present(cur["ui"].ent))'
    BY <1>0, <2>2, <2>3 DEF Present
  <2>5. ASSUME after'["ui"] = "return", cur'["ui"].type = "create", NEW c \in CallsIn(jobs'["ui"])
        PROVE  c.op.type = "create" /\ c.op.ent = cur'["ui"].ent
    <3>1. after["ui"] = "return" /\ pc'["ui"] = "load" /\ c \in CallsIn(jobs["ui"])
      BY <1>2, <1>3, <1>11, <2>5
    <3>2. cur'["ui"] = cur["ui"]
      BY <1>2, <1>11, <3>1
    <3>3. QED
      BY <2>5, <3>1, <3>2 DEF Family, Parented
  <2>6. Parented'
    BY <1>9, <2>1, <2>4, <2>5 DEF Parented
  <2>7. Cancels'
    <3>1. pc["ui"] # "cancel"
      BY <1>1, <1>11 DEF Working
    <3>2. pc'["ui"] # "cancel" /\ after'["ui"] # "cancel" => after["ui"] # "cancel"
      BY <1>2, <1>3, <1>11
    <3>3. QED
      BY <1>0, <3>1, <3>2 DEF Family, Cancels
  <2>8. QED
    BY <1>7, <1>8, <2>6, <2>7 DEF Family
<1>12. QED
  BY <1>10, <1>11 DEF Actors

\* A step that starts calls and may take entities off the screens.
LEMMA FamilyStarts ==
  ASSUME Typed, Family, Alone', UNCHANGED snapshot, idmap \subseteq idmap',
         NEW a \in Actors, NEW p, NEW C, Starts(a, p, C), ParentCalls(C)',
         \A e \in Temps : known'[e] \in {known[e], "gone"},
         \A e \in cancelled' : known'[e] = "gone",
         (a = "ui" /\ p = "cancel") \/ cancelled' = {},
         \A e \in cancelled \ cancelled' : \A o \in snapshot :
           o.type = "create" => Parent[o.ent] # e,
         a = "ui" /\ p = "return" /\ cur'["ui"].type = "create" =>
           \A j \in C : j.op.type = "create" /\ j.op.ent = cur'["ui"].ent
  PROVE  Family'
<1>1. /\ pc'[a] = "load" /\ after'[a] = p /\ Calls' = C
      /\ \A b \in Actors \ {a} : pc[b] = "idle" /\ pc'[b] = "idle" /\ after'[b] = after[b]
  BY DEF Starts
<1>2. a = "sync" => pc'["ui"] = "idle" /\ after'["ui"] = "idle"
  BY <1>1 DEF Typed, Locals, Jobbed, Working, Actors
<1>3. a = "ui" => CallsIn(jobs'["ui"]) \subseteq C /\ pc'["ui"] = "load" /\ after'["ui"] = p
  BY <1>1 DEF Calls
<1>4. \A e : Present(e) => Present(e)'
  BY DEF Present
<1>5. Shown'
  BY <1>4 DEF Family, Shown
<1>6. \A o \in snapshot' : OnHold(o)' => Rooted(o)'
  BY <1>4 DEF Family, Parented, OnHold, Rooted
<1>7. Parented'
  <2>1. CASE a = "sync"
    BY <1>2, <1>6, <2>1 DEF Parented
  <2>2. CASE a = "ui"
    BY <1>3, <1>6, <2>2 DEF Parented
  <2>3. QED
    BY <2>1, <2>2 DEF Actors
<1>8. Cancels'
  BY <1>3 DEF Cancels
<1>9. ParentCalls(Calls)'
  BY <1>1 DEF ParentCalls
<1>10. QED
  BY <1>5, <1>7, <1>8, <1>9 DEF Family

LEMMA MildFamily ==
  ASSUME NEW C, \A j \in C : /\ j.kind \notin {"upsert", "remove"}
                             /\ j.kind = "status" => j.status \notin {"blocked", "applied"}
  PROVE  ParentCalls(C)'
  BY DEF ParentCalls

LEMMA UiFamily ==
  ASSUME Typed, PlayInv, WriteInv, Family, Alone', UiScript, UNCHANGED snapshot
  PROVE  Family'
<1>1. UNCHANGED idmap /\ "ui" \in Actors
  BY DEF UiScript, QueueCreate, QueueUpdate, QueueDelete, UiCancel, UiRetry, UiDiscard, client,
         Actors
<1>2. pc["ui"] \in {"queue", "idle"} => cancelled = {}
  BY DEF Family, Cancels, Typed, Locals, Jobbed, Working, Actors
<1>3. \A o, p \in snapshot : o.id = p.id => o = p
  BY DEF WriteInv, Unique, Uniq
<1>4. \A p, C : /\ Starts("ui", p, C) /\ ParentCalls(C)' /\ cancelled = {} /\ cancelled' = {}
                /\ \A e \in Temps : known'[e] \in {known[e], "gone"}
                /\ p = "return" /\ cur'["ui"].type = "create" =>
                     \A j \in C : j.op.type = "create" /\ j.op.ent = cur'["ui"].ent
                => Family'
  BY <1>1, FamilyStarts
<1>5. ASSUME NEW p, p # "return", NEW C, Starts("ui", p, C),
             \A j \in C : /\ j.kind \notin {"upsert", "remove"}
                          /\ j.kind = "status" => j.status \notin {"blocked", "applied"},
             UNCHANGED known, cancelled = {}, UNCHANGED cancelled
      PROVE  Family'
  <2>1. ParentCalls(C)'
    BY <1>5, MildFamily
  <2>2. QED
    BY <1>4, <1>5, <2>1
<1>6. ASSUME NEW r, Starts("ui", "return", {Upsert(r)}), OnHold(r) => Rooted(r),
             UNCHANGED <<known, cancelled, cur>>, cancelled = {},
             cur["ui"].type = "create" => r.type = "create" /\ r.ent = cur["ui"].ent
      PROVE  Family'
  <2>. DEFINE C == {Upsert(r)}
  <2>1. \A j \in C : j.kind = "upsert" /\ j.op = r
    BY MadeFields
  <2>2. Rooted(r) => Rooted(r)'
    BY <1>1, <1>6 DEF Rooted, Present
  <2>3. Starts("ui", "return", C)
    BY <1>6
  <2>. HIDE DEF C
  <2>4. ParentCalls(C)'
    BY <1>6, <2>1, <2>2 DEF ParentCalls, OnHold
  <2>5. QED
    BY <1>4, <1>6, <2>1, <2>3, <2>4
<1>7. ASSUME NEW C, Starts("ui", "cancel", C), NEW o \in snapshot, o.type = "create",
             \A j \in C : j = Remove(o.id) \/ j.kind = "unconflict",
             cancelled' = cancelled \cup {o.ent}, known'[o.ent] = "gone",
             \A e \in Entities \ {o.ent} : known'[e] = known[e]
      PROVE  Family'
  <2>1. \A j \in C : (j.kind = "remove" /\ j.id = o.id) \/ j.kind = "unconflict"
    BY <1>7, MadeFields
  <2>2. ParentCalls(C)'
    BY <1>3, <1>7, <2>1 DEF ParentCalls
  <2>3. cancelled \subseteq Entities /\ Temps \subseteq Entities
    BY DEF Typed, Data, Entities
  <2>4. /\ \A e \in Temps : known'[e] \in {known[e], "gone"}
        /\ \A e \in cancelled' : known'[e] = "gone"
    BY <1>7, <2>3 DEF Family, Cancels
  <2>5. QED
    BY <1>1, <1>7, <2>2, <2>4, FamilyStarts
<1>8. CASE QueueCreate /\ \E r \in Ops :
             /\ Alike(r, cur["ui"]) /\ r.err = "" /\ r.status \in {"pending", "blocked"}
             /\ Starts("ui", "return", {Upsert(r)})
  <2>1. PICK r \in Ops : Alike(r, cur["ui"]) /\ Starts("ui", "return", {Upsert(r)})
    BY <1>8
  <2>2. pc["ui"] = "queue" /\ UNCHANGED <<known, cancelled, cur>>
    BY <1>8 DEF QueueCreate, screens
  <2>3. Rooted(r)
    BY <2>1, <2>2 DEF Family, Parented, Rooted, Alike
  <2>4. QED
    BY <1>2, <1>6, <2>1, <2>2, <2>3 DEF Alike
<1>9. CASE QueueUpdate /\ \E f \in snapshot, r \in Ops :
             /\ r.id = f.id /\ r.type = f.type /\ r.ent = f.ent /\ r.ent = cur["ui"].ent
             /\ r.body = f.body \cup cur["ui"].body
             /\ r.status = f.status /\ r.err = f.err
             /\ Starts("ui", "return", {Upsert(r)})
  <2>1. PICK f \in snapshot, r \in Ops :
          /\ r.type = f.type /\ r.ent = f.ent /\ r.status = f.status /\ r.err = f.err
          /\ Starts("ui", "return", {Upsert(r)})
    BY <1>9
  <2>2. /\ pc["ui"] = "queue" /\ UNCHANGED <<known, cancelled, cur>>
        /\ cur["ui"].type = "update"
    BY <1>9 DEF QueueUpdate, screens
  <2>3. OnHold(r) => Rooted(r)
    BY <2>1 DEF Family, Parented, Rooted, OnHold
  <2>4. QED
    BY <1>2, <1>6, <2>1, <2>2, <2>3
<1>10. CASE QueueUpdate /\ Starts("ui", "return", {Upsert(cur["ui"])})
  <2>1. /\ pc["ui"] = "queue" /\ UNCHANGED <<known, cancelled, cur>>
        /\ cur["ui"].type = "update"
    BY <1>10 DEF QueueUpdate, screens
  <2>2. PICK r : r = cur["ui"]
    OBVIOUS
  <2>3. Rooted(r) /\ Starts("ui", "return", {Upsert(r)})
    BY <1>10, <2>1, <2>2 DEF Rooted
  <2>4. QED
    BY <1>2, <1>6, <2>1, <2>2, <2>3
<1>11. CASE QueueUpdate /\ \E d \in snapshot :
              d \in Ops /\ Starts("ui", "idle", {AddConflict(d.id)})
  <2>1. pc["ui"] = "queue" /\ UNCHANGED <<known, cancelled>>
    BY <1>11 DEF QueueUpdate, screens
  <2>2. QED
    BY <1>2, <1>5, <1>11, <2>1, MadeFields
<1>12. CASE QueueDelete /\ \E c \in snapshot :
              /\ c \in Ops /\ c.type = "create" /\ c.ent = cur["ui"].ent
              /\ cancelled' = {c.ent} /\ known' = [known EXCEPT ![c.ent] = "gone"]
              /\ Starts("ui", "cancel", {Remove(c.id)})
  <2>1. cancelled = {}
    BY <1>2, <1>12 DEF QueueDelete
  <2>2. PICK c \in snapshot :
          /\ c.type = "create" /\ cancelled' = {c.ent} /\ known' = [known EXCEPT ![c.ent] = "gone"]
          /\ Starts("ui", "cancel", {Remove(c.id)})
    BY <1>12
  <2>3. cancelled' = cancelled \cup {c.ent} /\ \A j \in {Remove(c.id)} : j = Remove(c.id)
    BY <2>1, <2>2
  <2>4. known'[c.ent] = "gone" /\ \A e \in Entities \ {c.ent} : known'[e] = known[e]
    BY <2>2, OpsFields DEF Typed, Data
  <2>5. QED
    BY <1>7, <2>2, <2>3, <2>4
<1>13. CASE QueueDelete /\ UNCHANGED cancelled
              /\ Starts("ui", "idle", {DropUpdates(cur["ui"]), Upsert(cur["ui"])})
  <2>1. PICK o : o = cur["ui"]
    OBVIOUS
  <2>. DEFINE C == {DropUpdates(o), Upsert(o)}
  <2>2. /\ pc["ui"] = "queue" /\ o.type = "delete"
        /\ known' = IF o.at = "temp" THEN [known EXCEPT ![o.ent] = "gone"] ELSE known
    BY <1>13, <2>1 DEF QueueDelete
  <2>3. \A j \in C : j.kind \in {"drop_updates", "upsert"} /\ j.op = o
    BY MadeFields
  <2>4. Starts("ui", "idle", C) /\ "idle" # "return"
    BY <1>13, <2>1
  <2>. HIDE DEF C
  <2>5. ParentCalls(C)'
    BY <2>2, <2>3 DEF ParentCalls, Rooted
  <2>6. \A e \in Temps : known'[e] \in {known[e], "gone"}
    BY <2>2 DEF Typed, Data, Entities
  <2>7. QED
    BY <1>2, <1>4, <1>13, <2>2, <2>4, <2>5, <2>6, Zenon
<1>14. CASE UiCancel /\ \E o \in Dependents :
              /\ o \in Ops /\ cancelled' = cancelled \cup {o.ent} /\ cur' = cur
              /\ known' = [known EXCEPT ![o.ent] = "gone"]
              /\ dropped' = dropped \cup writesOf[o.ent]
              /\ Starts("ui", "cancel", {Remove(o.id)})
  <2>1. PICK o \in snapshot :
          /\ o.type = "create" /\ cancelled' = cancelled \cup {o.ent}
          /\ known' = [known EXCEPT ![o.ent] = "gone"]
          /\ Starts("ui", "cancel", {Remove(o.id)})
    BY <1>14 DEF Dependents
  <2>2. \A j \in {Remove(o.id)} : j = Remove(o.id)
    OBVIOUS
  <2>3. known'[o.ent] = "gone" /\ \A e \in Entities \ {o.ent} : known'[e] = known[e]
    BY <2>1, OpsFields DEF Typed, Data
  <2>4. QED
    BY <1>7, <2>1, <2>2, <2>3
<1>15. CASE UiCancel /\ Dependents = {} /\ cancelled' = {} /\ UNCHANGED <<known, dropped>>
              /\ Starts("ui", "idle", {Unblock})
  <2>1. ParentCalls({Unblock})'
    BY MildFamily, MadeFields
  <2>2. \A e \in cancelled \ cancelled' : \A o \in snapshot :
          o.type = "create" => Parent[o.ent] # e
    BY <1>15 DEF Dependents
  <2>3. QED
    BY <1>1, <1>15, <2>1, <2>2, FamilyStarts
<1>16. CASE \E i \in Ids : UiRetry(i) /\ i \in IdsOf(snapshot)
              /\ Starts("ui", "idle", {DropConflict(i), SetStatus(i, "pending", "")})
  <2>1. PICK i \in Ids : /\ UiRetry(i)
                         /\ Starts("ui", "idle", {DropConflict(i), SetStatus(i, "pending", "")})
    BY <1>16
  <2>2. /\ DropConflict(i).kind = "unconflict" /\ SetStatus(i, "pending", "").kind = "status"
        /\ SetStatus(i, "pending", "").status = "pending"
    BY DEF DropConflict, SetStatus
  <2>3. pc["ui"] = "idle" /\ UNCHANGED <<known, cancelled>>
    BY <2>1 DEF UiRetry
  <2>4. QED
    BY <1>2, <1>5, <2>1, <2>2, <2>3
<1>17. CASE \E i \in Ids : (UiRetry(i) \/ UiDiscard(i)) /\ i \notin IdsOf(snapshot)
              /\ UNCHANGED <<cancelled, known, dropped>>
              /\ Starts("ui", "idle", {DropConflict(i)})
  <2>1. pc["ui"] = "idle"
    BY <1>17 DEF UiRetry, UiDiscard
  <2>2. QED
    BY <1>2, <1>5, <1>17, <2>1, MadeFields
<1>18. CASE \E i \in Ids, o \in snapshot : UiDiscard(i) /\ o.id = i /\ o \in Ops
              /\ dropped' = dropped \cup o.body
              /\ \/ /\ o.type = "create" /\ cancelled' = {o.ent}
                    /\ known' = [known EXCEPT ![o.ent] = "gone"]
                    /\ Starts("ui", "cancel", {DropConflict(i), Remove(i)})
                 \/ /\ o.type # "create" /\ UNCHANGED <<cancelled, known>>
                    /\ Starts("ui", "idle", {DropConflict(i), Remove(i), Unblock})
  <2>1. PICK o \in snapshot :
          \/ /\ o.type = "create" /\ cancelled' = {o.ent}
             /\ known' = [known EXCEPT ![o.ent] = "gone"]
             /\ Starts("ui", "cancel", {DropConflict(o.id), Remove(o.id)})
          \/ /\ o.type # "create" /\ UNCHANGED <<cancelled, known>>
             /\ Starts("ui", "idle", {DropConflict(o.id), Remove(o.id), Unblock})
    BY <1>18
  <2>2. cancelled = {}
    BY <1>2, <1>18 DEF UiDiscard
  <2>3. DropConflict(o.id).kind = "unconflict" /\ Unblock.kind = "unblock"
    BY MadeFields
  <2>4. CASE /\ o.type = "create" /\ cancelled' = {o.ent}
             /\ known' = [known EXCEPT ![o.ent] = "gone"]
             /\ Starts("ui", "cancel", {DropConflict(o.id), Remove(o.id)})
    <3>1. \A j \in {DropConflict(o.id), Remove(o.id)} : j = Remove(o.id) \/ j.kind = "unconflict"
      BY <2>3
    <3>2. cancelled' = cancelled \cup {o.ent}
      BY <2>2, <2>4
    <3>3. known'[o.ent] = "gone" /\ \A e \in Entities \ {o.ent} : known'[e] = known[e]
      BY <2>4, OpsFields DEF Typed, Data
    <3>4. QED
      BY <1>7, <2>4, <3>1, <3>2, <3>3
  <2>5. CASE /\ o.type # "create" /\ UNCHANGED <<cancelled, known>>
             /\ Starts("ui", "idle", {DropConflict(o.id), Remove(o.id), Unblock})
    <3>. DEFINE C == {DropConflict(o.id), Remove(o.id), Unblock}
    <3>1. \A j \in C : j.kind \in {"unconflict", "unblock"} \/ (j.kind = "remove" /\ j.id = o.id)
      BY MadeFields
    <3>2. Starts("ui", "idle", C) /\ "idle" # "return"
      BY <2>5
    <3>. HIDE DEF C
    <3>3. ParentCalls(C)'
      BY <1>3, <2>5, <3>1 DEF ParentCalls
    <3>4. QED
      BY <1>4, <2>2, <2>5, <3>2, <3>3, Zenon
  <2>6. QED
    BY <2>1, <2>4, <2>5
<1>19. QED
  BY <1>8, <1>9, <1>10, <1>11, <1>12, <1>13, <1>14, <1>15, <1>16, <1>17, <1>18 DEF UiScript

LEMMA SyncFamily ==
  ASSUME Typed, PlayInv, Family, Alone', SyncScript, UNCHANGED snapshot
  PROVE  Family'
<1>1. UNCHANGED <<known, cancelled>> /\ idmap \subseteq idmap'
  <2>1. CASE SyncStart \/ SyncNext
    BY <2>1 DEF SyncStart, SyncNext, screens, client
  <2>2. CASE SyncReceive
    BY <2>2 DEF SyncReceive, screens
  <2>3. QED
    BY <2>1, <2>2 DEF SyncScript
<1>2. ASSUME NEW p, NEW C, Starts("sync", p, C), ParentCalls(C)' PROVE Family'
  <2>1. pc["ui"] = "idle" /\ after["ui"] = "idle"
    BY <1>2 DEF Starts, Typed, Locals, Jobbed, Working, Actors
  <2>2. cancelled = {}
    BY <2>1 DEF Family, Cancels
  <2>3. "sync" \in Actors /\ "sync" # "ui"
    BY DEF Actors
  <2>4. QED
    BY <1>1, <1>2, <2>2, <2>3, FamilyStarts
<1>3. ASSUME NEW p, Starts("sync", p, {Unblock}) PROVE Family'
  <2>1. ParentCalls({Unblock})'
    BY MadeFields, MildFamily
  <2>2. QED
    BY <1>2, <1>3, <2>1
<1>4. ASSUME NEW i, NEW p, NEW C, Starts("sync", p, C),
             \/ C = {SetStatus(i, "syncing", "")}
             \/ C = {NoteAttempt(i), SetStatus(i, "pending", "net")}
             \/ C = {SetStatus(i, "blocked", "auth_required")}
             \/ C = {SetStatus(i, "needs_review", "rejected"), AddConflict(i)}
      PROVE  Family'
  <2>1. /\ NoteAttempt(i).kind = "note" /\ AddConflict(i).kind = "conflict"
        /\ SetStatus(i, "syncing", "").kind = "status"
        /\ SetStatus(i, "syncing", "").status = "syncing"
        /\ SetStatus(i, "pending", "net").kind = "status"
        /\ SetStatus(i, "pending", "net").status = "pending"
        /\ SetStatus(i, "blocked", "auth_required").kind = "status"
        /\ SetStatus(i, "blocked", "auth_required").status = "blocked"
        /\ SetStatus(i, "blocked", "auth_required").err = "auth_required"
        /\ SetStatus(i, "needs_review", "rejected").kind = "status"
        /\ SetStatus(i, "needs_review", "rejected").status = "needs_review"
    BY DEF SetStatus, NoteAttempt, AddConflict
  <2>2. \A j \in C : /\ j.kind \in {"note", "conflict", "status"}
                     /\ j.kind = "status" => /\ j.status # "applied"
                                             /\ j.status # "blocked" \/ j.err # ""
    BY <1>4, <2>1
  <2>3. ParentCalls(C)'
    BY <2>2 DEF ParentCalls
  <2>4. QED
    BY <1>2, <1>4, <2>3
<1>5. ASSUME cur["sync"] \in Ops, cur["sync"].type = "create" => cur["sync"].ent \in idmap',
             NEW p, NEW C, Starts("sync", p, C),
             \/ C = {Applied(cur["sync"].id), DropConflict(cur["sync"].id), Unblock}
             \/ C = {Applied(cur["sync"].id), DropConflict(cur["sync"].id)}
      PROVE  Family'
  <2>1. cur["sync"] \in PlayOps
    BY <1>5 DEF PlayOps, HeldOps, InHand, Ops, Op, Ids, NoOp
  <2>2. \A q \in snapshot : q.id = cur["sync"].id /\ q.type = "create" => q.ent \in idmap'
    BY <1>5, <2>1 DEF PlayInv, IdsAgree, PlayOps, HeldOps
  <2>3. \A j \in C : \/ j.kind \in {"unconflict", "unblock"}
                     \/ j.kind = "status" /\ j.id = cur["sync"].id /\ j.status = "applied"
    BY <1>5, AppliedCall, MadeFields
  <2>4. ParentCalls(C)'
    BY <2>2, <2>3 DEF ParentCalls
  <2>5. QED
    BY <1>2, <1>5, <2>4
<1>6. QED
  BY <1>3, <1>4, <1>5 DEF SyncScript

LEMMA SilentFamily ==
  ASSUME Typed, Alone, Family, Calls = {}, Calls' = {}, UNCHANGED snapshot, Silent
  PROVE  Family'
<1>0. CallsIn(jobs'["ui"]) = {}
  BY DEF Calls
<1>1. ASSUME idmap \subseteq idmap', cancelled' = {}, Shown',
             \A o \in snapshot : o.type = "create" => Parent[o.ent] \notin cancelled,
             (pc["ui"] = "queue" => Rooted(cur["ui"]))',
             (pc["ui"] \in {"direct", "receive"} =>
                /\ ParentResolved(cur["ui"])
                /\ cur["ui"].type # "create" /\ cur["ui"].ent \in Temps
                     => cur["ui"].ent \in idmap)',
             pc'["ui"] # "return"
      PROVE  Family'
  <2>1. \A e : Present(e) => Present(e)'
    BY <1>1 DEF Present
  <2>2. \A o \in snapshot' : OnHold(o)' => Rooted(o)'
    BY <1>1, <2>1 DEF Family, Parented, OnHold, Rooted
  <2>3. Parented'
    BY <1>0, <1>1, <2>2 DEF Parented
  <2>4. Cancels'
    BY <1>1 DEF Cancels
  <2>5. ParentCalls(Calls)'
    BY DEF ParentCalls
  <2>6. QED
    BY <1>1, <2>3, <2>4, <2>5 DEF Family
<1>2. pc["ui"] \notin Working /\ pc["ui"] # "cancel" => cancelled = {}
  BY DEF Family, Cancels, Typed, Locals, Jobbed, Actors
<1>3. ASSUME UNCHANGED <<idmap, known>> PROVE Shown'
  BY <1>3 DEF Family, Shown, Present
<1>4. ASSUME NEW e, NEW type, NEW at, Begins(e, type, at) PROVE Family'
  <2>1. /\ cancelled = {} /\ UNCHANGED cancelled
    <3>1. pc["ui"] = "idle" /\ UNCHANGED cancelled
      BY <1>4, BeginEffect, Zenon
    <3>2. QED
      BY <1>2, <3>1 DEF Working
  <2>2. UNCHANGED idmap
    BY <1>4, BeginEffect, Zenon DEF client
  <2>3. known' = IF type = "create" THEN [known EXCEPT ![e] = "calling"] ELSE known
    BY <1>4, BeginEffect, Zenon
  <2>4. Shown'
    BY <2>2, <2>3 DEF Family, Shown, Present, Typed, Data, Entities
  <2>. DEFINE n == NewOp(e, type, at)
  <2>5. /\ cur'["ui"] = n
        /\ pc'["ui"] = IF (IF type = "create" THEN ParentResolved(n) ELSE at = "real")
                         THEN "direct" ELSE "queue"
    BY <1>4, BeginEffect
  <2>6. n.type = type /\ n.ent = e
    BY DEF NewOp
  <2>. HIDE DEF n
  <2>7. \/ /\ type = "create" /\ e \in Temps
           /\ Parent[e] # NoParent => known[Parent[e]] \in {"temp", "real"}
        \/ type \in {"update", "delete"} /\ known[e] = at
    BY <1>4 DEF Begins
  <2>8. type = "create" => Present(Parent[e])
    <3>1. ASSUME type = "create", Parent[e] # NoParent PROVE Present(Parent[e])
      <4>1. Parent[e] \in Temps /\ known[Parent[e]] \in {"temp", "real"}
        BY <2>7, <3>1, EntitiesAssumption
      <4>2. QED
        BY <4>1 DEF Family, Shown, Present
    <3>2. QED
      BY <3>1 DEF Present
  <2>9. (pc["ui"] = "queue" => Rooted(cur["ui"]))'
    BY <2>2, <2>5, <2>6, <2>8 DEF Rooted, Present
  <2>10. pc'["ui"] = "direct" => /\ ParentResolved(n)
                                 /\ type # "create" /\ e \in Temps => e \in idmap
    BY <2>5, <2>6, <2>7 DEF ParentResolved, Family, Shown
  <2>11. (pc["ui"] \in {"direct", "receive"} =>
            /\ ParentResolved(cur["ui"])
            /\ cur["ui"].type # "create" /\ cur["ui"].ent \in Temps => cur["ui"].ent \in idmap)'
    BY <2>2, <2>5, <2>6, <2>10 DEF ParentResolved
  <2>12. QED
    BY <1>1, <2>1, <2>2, <2>4, <2>5, <2>9, <2>11
<1>5. ASSUME NEW a \in Actors, (a = "ui" /\ pc[a] = "direct") \/ (a = "sync" /\ pc[a] = "send"),
             Exchange(a, Outcomes)
      PROVE  Family'
  <2>1. UNCHANGED <<idmap, known, cancelled, cur>>
    BY <1>5 DEF Exchange, client, screens
  <2>2. pc'[a] = "receive" /\ \A b \in Actors \ {a} : pc'[b] = pc[b]
    BY <1>5, ExchangeLeaves DEF Leaves
  <2>3. \/ pc'["ui"] = "receive" /\ pc["ui"] = "direct"
        \/ pc'["ui"] = "idle" /\ pc["ui"] = "idle"
    BY <1>5, <2>2 DEF Alone, Actors
  <2>4. cancelled = {}
    BY <1>2, <2>3 DEF Working
  <2>5. /\ (pc["ui"] = "queue" => Rooted(cur["ui"]))'
        /\ (pc["ui"] \in {"direct", "receive"} =>
              /\ ParentResolved(cur["ui"])
              /\ cur["ui"].type # "create" /\ cur["ui"].ent \in Temps
                   => cur["ui"].ent \in idmap)'
    BY <2>1, <2>3 DEF Family, Parented, ParentResolved
  <2>6. QED
    BY <1>1, <1>3, <2>1, <2>3, <2>4, <2>5
<1>6. ASSUME idmap \subseteq idmap', UNCHANGED cancelled, Shown', pc'["ui"] = "idle",
             pc["ui"] \notin Working \cup {"cancel"}
      PROVE  Family'
  BY <1>1, <1>2, <1>6
<1>7. Goto("ui", "idle") => pc'["ui"] = "idle"
  BY DEF Goto, Typed, Locals, Actors
<1>8. CASE UiReceive
  <2>1. pc["ui"] = "receive" /\ UNCHANGED cancelled
    BY <1>8 DEF UiReceive
  <2>2. cur["ui"].ent \in Entities
    <3>1. cur["ui"] # NoOp
      BY <2>1 DEF Typed, Locals, Jobbed, Actors
    <3>2. QED
      BY <3>1, OpsFields DEF Typed, Locals, Actors
  <2>3. CASE Goto("ui", "queue") /\ UNCHANGED <<idmap, known>>
    <3>1. pc'["ui"] = "queue" /\ cur' = cur
      BY <2>3 DEF Goto, Typed, Locals, Actors
    <3>2. ParentResolved(cur["ui"])
      BY <2>1 DEF Family, Parented
    <3>3. (pc["ui"] = "queue" => Rooted(cur["ui"]))'
      BY <2>3, <3>1, <3>2 DEF ParentResolved, Rooted, Present
    <3>4. cancelled = {}
      BY <1>2, <2>1 DEF Working
    <3>5. QED
      BY <1>1, <1>3, <2>1, <2>3, <3>1, <3>3, <3>4
  <2>4. CASE /\ Goto("ui", "idle")
             /\ idmap' = IF cur["ui"].type = "create" THEN idmap \cup {cur["ui"].ent} ELSE idmap
             /\ known' = [known EXCEPT ![cur["ui"].ent] =
                            IF cur["ui"].type = "delete" THEN "gone" ELSE "real"]
    <3>1. \A e \in Temps \ {cur["ui"].ent} : known'[e] = known[e]
      BY <2>4 DEF Typed, Data, Entities
    <3>2. known'[cur["ui"].ent] \in {"gone", "real"}
      BY <2>2, <2>4 DEF Typed, Data
    <3>3. cur["ui"].ent \in Temps => cur["ui"].ent \in idmap'
      BY <2>1, <2>4 DEF Family, Parented
    <3>4. idmap \subseteq idmap'
      BY <2>4
    <3>5. Shown'
      BY <3>1, <3>2, <3>3, <3>4 DEF Family, Shown, Present
    <3>6. QED
      BY <1>6, <1>7, <2>1, <2>4, <3>4, <3>5 DEF Working
  <2>5. CASE /\ Goto("ui", "idle") /\ UNCHANGED idmap
             /\ known' = IF cur["ui"].type = "create" THEN [known EXCEPT ![cur["ui"].ent] = "none"]
                                                      ELSE known
    <3>1. \A e \in Temps : known'[e] \in {known[e], "none"}
      BY <2>2, <2>5 DEF Typed, Data, Entities
    <3>2. Shown'
      BY <2>5, <3>1 DEF Family, Shown, Present
    <3>3. QED
      BY <1>6, <1>7, <2>1, <2>5, <3>2 DEF Working
  <2>6. QED
    BY <1>8, <2>3, <2>4, <2>5 DEF UiReceive
<1>9. CASE UiReturn
  <2>1. /\ pc["ui"] = "return" /\ UNCHANGED <<cancelled, idmap>> /\ Goto("ui", "idle")
        /\ known' = IF cur["ui"].type = "create" THEN [known EXCEPT ![cur["ui"].ent] = "temp"]
                                                 ELSE known
    BY <1>9 DEF UiReturn, client
  <2>2. \A e \in Temps : \/ known'[e] = known[e]
                         \/ cur["ui"].type = "create" /\ e = cur["ui"].ent /\ known'[e] = "temp"
    BY <2>1 DEF Typed, Data, Entities
  <2>3. cur["ui"].type = "create" => Present(cur["ui"].ent)
    BY <2>1 DEF Family, Parented
  <2>4. Shown'
    BY <2>1, <2>2, <2>3 DEF Family, Shown, Present
  <2>5. QED
    BY <1>6, <1>7, <2>1, <2>4 DEF Working
<1>11. CASE SyncList
  <2>1. pc["ui"] = "idle" /\ pc'["ui"] = "idle"
    BY <1>11, SyncListEffect DEF Alone
  <2>2. UNCHANGED <<idmap, known, cancelled>>
    BY <1>11 DEF SyncList, client, screens
  <2>3. QED
    BY <1>3, <1>6, <2>1, <2>2 DEF Working
<1>12. CASE /\ UiCancel /\ Goto("ui", "idle") /\ Dependents = {} /\ cancelled' = {}
            /\ UNCHANGED <<known, dropped, after>>
  <2>1. UNCHANGED idmap
    BY <1>12 DEF UiCancel, client
  <2>2. \A o \in snapshot : o.type = "create" => Parent[o.ent] \notin cancelled
    BY <1>12 DEF Dependents
  <2>3. QED
    BY <1>1, <1>3, <1>7, <1>12, <2>1, <2>2
<1>13. QED
  BY <1>4, <1>5, <1>8, <1>9, <1>11, <1>12 DEF Silent

FamilyInv == crashes = 0 => Family

LEMMA FamilySame ==
  ASSUME Family, UNCHANGED <<snapshot, idmap, pc, jobs, after, cur, cancelled>>, Shown', Cancels'
  PROVE  Family'
<1>1. \A e : Present(e) <=> Present(e)'
  BY DEF Present
<1>2. \A o : Rooted(o) <=> Rooted(o)'
  BY <1>1 DEF Rooted
<1>3. ParentCalls(Calls)'
  BY <1>2 DEF Family, ParentCalls, Calls, OnHold
<1>4. Parented'
  BY DEF Family, Parented, Rooted, Present, ParentResolved, OnHold
<1>5. QED
  BY <1>3, <1>4 DEF Family

LEMMA RefreshFamily ==
  ASSUME Typed, Family, NEW e \in Temps, UiRefresh(e)
  PROVE  Family'
<1>1. /\ UNCHANGED <<snapshot, idmap, pc, jobs, after, cur, cancelled>>
      /\ pc["ui"] = "idle" /\ e \in idmap /\ known' = [known EXCEPT ![e] = "real"]
  BY DEF UiRefresh, client, local
<1>2. \A f \in Temps : known'[f] = known[f] \/ (f = e /\ known'[f] = "real")
  BY <1>1 DEF Typed, Data, Entities
<1>3. Shown'
  BY <1>1, <1>2 DEF Family, Shown, Present
<1>4. cancelled = {}
  BY <1>1 DEF Family, Cancels, Typed, Locals, Jobbed, Working, Actors
<1>5. Cancels'
  BY <1>1, <1>4 DEF Cancels
<1>6. QED
  BY <1>1, <1>3, <1>5, FamilySame

LEMMA FamilyStep ==
  ASSUME Typed, PlayInv, SerialInv, WriteInv, FamilyInv, Alone', Next
  PROVE  FamilyInv'
<1>1. CASE Crash
  <2>1. crashes' # 0
    BY <1>1 DEF Crash, Typed, Data
  <2>2. QED
    BY <2>1 DEF FamilyInv
<1>2. CASE ~Crash /\ crashes' = crashes /\ crashes = 0
  <2>0. Family
    BY <1>2 DEF FamilyInv
  <2>1. ASSUME NEW e \in Temps, UiRefresh(e) PROVE Family'
    BY <2>0, <2>1, RefreshFamily
  <2>2. ASSUME NEW a \in Actors, Kept, Reads(a) PROVE Family'
    <3>1. /\ UNCHANGED <<snapshot, idmap, jobs, after, cur, cancelled, known>>
          /\ pc[a] \in Working /\ pc'[a] \in Working
          /\ \A b \in Actors \ {a} : pc[b] = "idle" /\ pc'[b] = "idle"
      BY <2>2 DEF Kept, Reads
    <3>2. pc["ui"] \in Working \cup {"idle"} /\ pc'["ui"] \in Working \cup {"idle"}
      BY <3>1 DEF Actors
    <3>3. \A e : Present(e) <=> Present(e)'
      BY <3>1 DEF Present
    <3>4. \A o : Rooted(o) <=> Rooted(o)'
      BY <3>1, <3>3 DEF Rooted
    <3>5. Shown' /\ ParentCalls(Calls)'
      BY <2>0, <3>1, <3>3, <3>4 DEF Family, Shown, ParentCalls, Calls, OnHold
    <3>6. Cancels'
      BY <2>0, <3>1, <3>2 DEF Family, Cancels, Working
    <3>7. \A o \in snapshot' : OnHold(o)' => Rooted(o)'
      BY <2>0, <3>1, <3>4 DEF Family, Parented, OnHold
    <3>8. Parented'
      BY <2>0, <3>1, <3>2, <3>7 DEF Family, Parented, Working
    <3>9. QED
      BY <3>5, <3>6, <3>8 DEF Family
  <2>3. CASE /\ Calls = {} /\ UNCHANGED <<snapshot, conflicts, crashes>>
             /\ (Silent /\ Calls' = {}) \/ UiScript \/ SyncScript
    BY <2>0, <2>3, SilentFamily, UiFamily, SyncFamily DEF FamilyInv, SerialInv
  <2>4. QED
    BY <1>2, <2>0, <2>1, <2>2, <2>3, SerialCases, FamilyEdits, FamilyFinishes DEF FamilyInv
<1>3. ~Crash => crashes' = crashes
  BY SerialCases DEF Kept, UiRefresh
<1>4. QED
  BY <1>1, <1>2, <1>3 DEF FamilyInv

LEMMA InitFamily == Init => FamilyInv
<1>. SUFFICES ASSUME Init PROVE Family
  BY DEF FamilyInv
<1>1. /\ snapshot = {} /\ cancelled = {} /\ pc["ui"] = "idle" /\ after["ui"] = "idle"
      /\ \A a \in Actors : jobs[a] = <<>>
  BY DEF Init, Actors
<1>2. Calls = {}
  BY <1>1, NoCalls DEF Calls, Actors
<1>3. \A e \in Temps : known[e] = "none"
  BY EntitiesAssumption DEF Init, Entities
<1>4. Shown /\ Parented /\ Cancels
  BY <1>1, <1>3 DEF Shown, Parented, Cancels
<1>5. ParentCalls(Calls)
  BY <1>2 DEF ParentCalls
<1>6. QED
  BY <1>4, <1>5 DEF Family

\* As long as the client does not die, and no call of the user meets a flush,
\* no create waits for ever for a parent that is neither known to the server
\* nor in the journal: whoever removes a create also cancels, before the call
\* returns, the creates that depend on it, and the screens offer no parent
\* that is on its way out.
THEOREM NoneOrphaned == Spec => []NoOrphans
<1>. DEFINE Inv == Ground /\ Apart /\ WriteInv /\ (overlaps = 0 => FamilyInv)
<1>1. Init => Inv
  BY GroundInit, InitApart, InitWrite, InitFamily
<1>2. Inv /\ [Next]_vars => Inv'
  <2>. SUFFICES ASSUME Inv, [Next]_vars, overlaps' = 0 PROVE FamilyInv'
    BY GroundStep, ApartStep, WriteStep DEF Ground
  <2>1. /\ overlaps = 0 /\ SerialInv
        /\ UNCHANGED vars \/ (Next /\ Alone')
    BY Uncrossing DEF Ground
  <2>2. CASE UNCHANGED vars
    <3>1. UNCHANGED <<snapshot, idmap, pc, jobs, after, cur, cancelled, known, crashes>>
      BY <2>2 DEF vars, client, local, screens
    <3>2. CASE Family
      <4>1. Shown' /\ Cancels'
        BY <3>1, <3>2 DEF Family, Shown, Present, Cancels
      <4>2. QED
        BY <3>1, <3>2, <4>1, FamilySame DEF FamilyInv
    <3>3. QED
      BY <2>1, <3>1, <3>2 DEF FamilyInv
  <2>3. CASE Next /\ Alone'
    BY <2>1, <2>3, FamilyStep DEF Ground
  <2>4. QED
    BY <2>1, <2>2, <2>3
<1>3. Inv => NoOrphans
  <2>. SUFFICES ASSUME Typed, FamilyInv, Quiet, crashes = 0,
                       NEW o \in snapshot, o.status = "blocked", o.err = ""
                PROVE  ParentResolved(o) \/ \E p \in snapshot :
                         p.type = "create" /\ p.ent = Parent[o.ent]
    BY DEF NoOrphans, Undisturbed, Ground
  <2>1. pc["ui"] = "idle" /\ after["ui"] = "idle" /\ Family
    BY DEF Quiet, FamilyInv, Typed, Locals, Jobbed, Working, Actors
  <2>2. cancelled = {} /\ Rooted(o)
    BY <2>1 DEF Family, Cancels, Parented, OnHold
  <2>3. QED
    BY <2>2 DEF Rooted, Present, ParentResolved
<1>4. QED
  BY <1>1, <1>2, <1>3, PTL DEF Spec

-----------------------------------------------------------------------------
(* The journal implements Outbox.                                          *)

\* A direct request carries the newest write.
Newest == pc["ui"] \in {"direct", "receive", "queue"} => cur["ui"].body \subseteq {nextOp - 1}

LEMMA NewestStep ==
  ASSUME Typed, PlayInv, Newest, Stepped
  PROVE  Newest'
<1>1. ASSUME NEW e, NEW type, NEW at, Begins(e, type, at) PROVE Newest'
  <2>1. cur'["ui"] = NewOp(e, type, at) /\ nextOp' = nextOp + 1
    BY <1>1, BeginEffect
  <2>2. NewOp(e, type, at).body = IF type = "delete" THEN {} ELSE {nextOp}
    BY DEF NewOp
  <2>3. nextOp' - 1 = nextOp
    BY <2>1 DEF Typed, Data
  <2>4. QED
    BY <2>1, <2>2, <2>3 DEF Newest
<1>2. CASE ~\E e \in Entities, type \in {"create", "update", "delete"},
               at \in {"temp", "real"} : Begins(e, type, at)
  <2>1. Stays
    BY <1>2, StepEffect DEF Effect
  <2>2. SUFFICES ASSUME pc'["ui"] \in {"direct", "receive", "queue"}
                 PROVE  cur'["ui"].body \subseteq {nextOp' - 1}
    BY DEF Newest
  <2>3. pc["ui"] \in {"direct", "receive", "queue"} /\ cur'["ui"] = cur["ui"]
    BY <2>1, <2>2 DEF Stays
  <2>4. UNCHANGED nextOp
    <3>1. CASE \E a \in Actors : Load(a) \/ Store(a) \/ LogEvents(a) \/ LoadConflicts(a)
                                 \/ WriteConflicts(a) \/ Exchange(a, Outcomes)
      BY <3>1 DEF Load, Store, LogEvents, LoadConflicts, WriteConflicts, Exchange, screens
    <3>2. CASE \/ UiReceive \/ QueueCreate \/ QueueUpdate \/ QueueDelete \/ UiCancel \/ UiReturn
               \/ SyncStart \/ SyncList \/ SyncNext \/ SyncReceive \/ Crash
      BY <3>2 DEF UiReceive, QueueCreate, QueueUpdate, QueueDelete, UiCancel, UiReturn,
                  SyncStart, SyncList, SyncNext, SyncReceive, Crash, screens
    <3>3. CASE (\E e \in Temps : UiRefresh(e)) \/ \E i \in Ids : UiDiscard(i)
      BY <3>3 DEF UiRefresh, UiDiscard
    <3>4. ~\E i \in Ids : UiRetry(i)
      BY <2>3 DEF UiRetry
    <3>5. QED
      BY <1>2, <3>1, <3>2, <3>3, <3>4 DEF Stepped
  <2>5. QED
    BY <2>3, <2>4 DEF Newest
<1>3. QED
  BY <1>1, <1>2

LEMMA PromiseInit == Init => Promise!Init
<1>. SUFFICES ASSUME Init PROVE Promise!Init
  OBVIOUS
<1>1. Carried = {} /\ Relied = {} /\ nextOp - 1 = 0
  BY DEF Init, Carried, Relied
<1>2. Leaving = {}
  BY DEF Init, Leaving, Actors
<1>3. QED
  BY <1>1, <1>2 DEF Init, Promise!Init

\* What the promise sees of the writes that race.
LEMMA Seen ==
  ASSUME Stepped
  PROVE  /\ ~Quiet' => /\ (Relied \ raced)' = Relied' \ raced
                       /\ (dropped \ raced)' = dropped' \ raced
         /\ Quiet' => /\ (Relied \ raced)' = (Relied' \ raced) \cup (Relied' \cap Carried')
                      /\ (dropped \ raced)' = (dropped' \ raced) \cup (dropped' \cap Carried')
<1>1. CASE Together'
  <2>1. raced' = raced \cup Open' /\ ~Quiet'
    BY <1>1, StepRecorded DEF Recorded, Together, Quiet
  <2>2. \A x \in Open' : x \notin Relied' /\ x \notin dropped'
    BY DEF Open
  <2>3. QED
    BY <2>1, <2>2
<1>2. CASE Quiet'
  <2>1. raced' = raced \ Carried'
    BY <1>2, StepRecorded DEF Recorded, Together, Quiet
  <2>2. QED
    BY <1>2, <2>1
<1>3. CASE ~Together' /\ ~Quiet'
  <2>1. raced' = raced
    BY <1>3, StepRecorded DEF Recorded
  <2>2. QED
    BY <1>3, <2>1
<1>4. QED
  BY <1>1, <1>2, <1>3

LEMMA PromiseAsks ==
  ASSUME Typed, Stepped, ~Quiet', UNCHANGED <<snapshot, writesOf, dropped, applied, created>>,
         Leaving' = Leaving, nextOp' = nextOp + 1
  PROVE  Promise!Next
<1>1. nextOp' - 1 = (nextOp - 1) + 1
  BY DEF Typed, Data
<1>2. UNCHANGED <<Carried, Relied>>
  BY DEF Carried, Relied
<1>3. UNCHANGED <<Relied \ raced, dropped \ raced>>
  BY <1>2, Seen
<1>4. QED
  BY <1>1, <1>2, <1>3 DEF Promise!Next, Promise!Ask

\* The snapshot is replaced: what falls out of it was applied, given up or races.
LEMMA PromiseRewrites ==
  ASSUME Typed, Typed', Apart', Preserved', Stepped, NEW a \in Actors, Store(a)
  PROVE  Promise!Next
<1>0. /\ UNCHANGED <<cur, batch, writesOf, dropped, nextOp, applied, created>>
      /\ pc' = [pc EXCEPT ![a] = "append"]
  BY DEF Store, screens, server
<1>1. ~Quiet'
  BY <1>0 DEF Quiet, Typed, Locals, Actors
<1>2. UNCHANGED <<Relied, Leaving>>
  BY <1>0 DEF Relied, Leaving
<1>3. UNCHANGED <<Relied \ raced, dropped \ raced>>
  BY <1>0, <1>1, <1>2, Seen
<1>4. ASSUME NEW x \in Carried' PROVE x <= nextOp - 1
  <2>1. PICK o \in snapshot' : x \in o.body
    BY <1>4 DEF Carried
  <2>2. o \in Ops /\ o \in PlayOps'
    BY <2>1 DEF Typed, Data, PlayOps, HeldOps
  <2>3. x \in Ids /\ x < nextOp
    BY <1>0, <2>1, <2>2, OpsFields DEF Apart
  <2>4. QED
    BY <2>3, BoundsAssumption DEF Ids, Typed, Data
<1>5. ASSUME NEW x \in Relied \ raced, x \notin Carried' PROVE x \in applied \cup (dropped \ raced)
  <2>1. x \in Relied' /\ x \notin raced'
    BY <1>2, <1>3, <1>5
  <2>2. x \in applied' \cup dropped'
    BY <1>5, <2>1 DEF Preserved, Owed, Free
  <2>3. QED
    BY <1>0, <1>5, <2>2
<1>6. Promise!Rewrite
  BY <1>0, <1>2, <1>3, <1>4, <1>5 DEF Promise!Rewrite
<1>7. QED
  BY <1>6 DEF Promise!Next

LEMMA PromisePicks ==
  ASSUME Stepped, ~Quiet', UNCHANGED <<snapshot, writesOf, dropped, applied, created, nextOp>>,
         Leaving' \subseteq Carried \cup Leaving
  PROVE  Promise!Next
<1>1. UNCHANGED <<Carried, Relied>>
  BY DEF Carried, Relied
<1>2. UNCHANGED <<Relied \ raced, dropped \ raced>>
  BY <1>1, Seen
<1>3. QED
  BY <1>1, <1>2 DEF Promise!Next, Promise!Pick

LEMMA PromiseTells ==
  ASSUME Typed, Stepped, UNCHANGED <<snapshot, applied, created, nextOp>>,
         Leaving' \in {Leaving, {}},
         \A x \in Relied' : x \in Relied \/ x \in Carried \cup Free,
         \A x \in dropped' : x \in dropped \/ x \in Carried \cup Relied
  PROVE  Promise!Next
<1>1. UNCHANGED Carried
  BY DEF Carried
<1>2. Relied \subseteq Relied' /\ dropped \subseteq dropped'
  BY OnlyMore, ReliedFrom
<1>3. /\ Relied' \ raced \subseteq (Relied \ raced)'
      /\ dropped' \ raced \subseteq (dropped \ raced)'
      /\ \A x \in (Relied \ raced)' : x \in Relied' /\ (x \notin raced \/ x \in Carried)
      /\ \A x \in (dropped \ raced)' : x \in dropped' /\ (x \notin raced \/ x \in Carried)
  BY <1>1, Seen
<1>4. ASSUME NEW x \in (Relied \ raced)' \ (Relied \ raced)
      PROVE  x \in Carried \cup applied \cup (dropped \ raced)
  BY <1>3, <1>4 DEF Free
<1>5. ASSUME NEW x \in (dropped \ raced)' \ (dropped \ raced)
      PROVE  x \in Carried \cup (Relied \ raced)
  BY <1>3, <1>5
<1>6. Relied \ raced \subseteq (Relied \ raced)' /\ dropped \ raced \subseteq (dropped \ raced)'
  BY <1>2, <1>3
<1>7. Promise!Tell
  BY <1>1, <1>4, <1>5, <1>6 DEF Promise!Tell
<1>8. QED
  BY <1>7 DEF Promise!Next

\* What is sent was picked, or is the write of the call in progress.
LEMMA PromiseDelivers ==
  ASSUME Typed, Stepped, OnceInv', Newest, NEW a \in Actors,
         (a = "ui" /\ pc[a] = "direct") \/ (a = "sync" /\ pc[a] = "send"),
         Exchange(a, Outcomes)
  PROVE  Promise!Next
<1>0. /\ UNCHANGED <<snapshot, cur, batch, writesOf, dropped, nextOp>>
      /\ UNCHANGED <<applied, created>> \/ Process(cur[a])
  BY DEF Exchange, client, screens, server
<1>1. ~Quiet'
  BY ExchangeLeaves DEF Quiet, Actors
<1>2. UNCHANGED <<Carried, Relied, Leaving>>
  BY <1>0 DEF Carried, Relied, Leaving
<1>3. UNCHANGED <<Relied \ raced, dropped \ raced>>
  BY <1>0, <1>1, <1>2, Seen
<1>4. cur[a] \in Ops /\ cur[a] # NoOp
  BY DEF Typed, Locals, Jobbed, Actors
<1>5. cur[a].body \subseteq Leaving \cup {nextOp - 1}
  <2>1. CASE a = "ui"
    BY <2>1 DEF Newest
  <2>2. CASE a = "sync"
    BY <1>4, <2>2 DEF Leaving
  <2>3. QED
    BY <2>1, <2>2 DEF Actors
<1>6. applied \subseteq applied' /\ applied' \ applied \subseteq Leaving \cup {nextOp - 1}
  BY <1>0, <1>5 DEF Process
<1>7. \/ UNCHANGED created
      \/ \E t \in Temps : created[t] = 0 /\ created' = [created EXCEPT ![t] = 1]
  <2>. DEFINE o == cur[a]
  <2>1. CASE o.type = "create" /\ created' = [created EXCEPT ![o.ent] = @ + 1]
    <3>1. o.ent \in Temps
      BY <1>4, <2>1 DEF Ops
    <3>2. created[o.ent] \in Nat /\ created'[o.ent] = created[o.ent] + 1
      BY <2>1, <3>1 DEF Typed, Data
    <3>3. created'[o.ent] <= 1
      BY <3>1 DEF OnceInv, CreateOnce
    <3>4. created[o.ent] = 0
      BY <3>2, <3>3
    <3>5. created[o.ent] + 1 = 1
      BY <3>4
    <3>6. created' = [created EXCEPT ![o.ent] = 1]
      BY <2>1, <3>5
    <3>7. QED
      BY <3>1, <3>4, <3>6
  <2>2. QED
    BY <1>0, <2>1 DEF Process
<1>8. Promise!Deliver
  BY <1>0, <1>2, <1>3, <1>6, <1>7 DEF Promise!Deliver
<1>9. QED
  BY <1>8 DEF Promise!Next

\* What the user gives up is kept, or he relies on it.
LEMMA GivenUp ==
  ASSUME Typed, Stepped, NEW x \in dropped'
  PROVE  x \in dropped \/ x \in Carried \cup Relied
<1>0. \A e \in Entities : writesOf[e] \subseteq Relied
  BY DEF Relied
<1>1. CASE UiReceive \/ QueueDelete
  <2>1. cur["ui"] # NoOp
    BY <1>1 DEF UiReceive, QueueDelete, Typed, Locals, Jobbed, Actors
  <2>2. cur["ui"].ent \in Entities
    BY <2>1, OpsFields DEF Typed, Locals, Actors
  <2>3. dropped' = dropped \/ dropped' = dropped \cup writesOf[cur["ui"].ent]
    BY <1>1 DEF UiReceive, QueueDelete
  <2>4. QED
    BY <1>0, <2>2, <2>3
<1>2. CASE UiCancel
  <2>1. dropped' = dropped \/ \E o \in Dependents : dropped' = dropped \cup writesOf[o.ent]
    BY <1>2 DEF UiCancel
  <2>2. \A o \in Dependents : o.ent \in Entities
    BY OpsFields DEF Dependents, Typed, Data
  <2>3. QED
    BY <1>0, <2>1, <2>2
<1>3. CASE \E i \in Ids : UiDiscard(i)
  <2>1. dropped' = dropped \/ \E o \in snapshot : dropped' = dropped \cup o.body
    BY <1>3, UiDiscardCases, Zenon
  <2>2. QED
    BY <2>1 DEF Carried
<1>4. CASE \E a \in Actors : Load(a) \/ Store(a) \/ LogEvents(a) \/ LoadConflicts(a)
                             \/ WriteConflicts(a) \/ Exchange(a, Outcomes)
  BY <1>4 DEF Load, Store, LogEvents, LoadConflicts, WriteConflicts, Exchange, screens
<1>5. CASE \E e \in Entities, type \in {"create", "update", "delete"},
              at \in {"temp", "real"} : Begins(e, type, at)
  BY <1>5 DEF Begins, Begin
<1>6. CASE \/ QueueCreate \/ QueueUpdate \/ UiReturn
           \/ (\E e \in Temps : UiRefresh(e)) \/ \E i \in Ids : UiRetry(i)
           \/ SyncStart \/ SyncList \/ SyncNext \/ SyncReceive \/ Crash
  BY <1>6 DEF QueueCreate, QueueUpdate, UiReturn, UiRefresh, UiRetry, SyncStart, SyncList,
              SyncNext, SyncReceive, Crash, screens
<1>7. QED
  BY <1>1, <1>2, <1>3, <1>4, <1>5, <1>6 DEF Stepped

\* What he comes to rely on is kept, or applied, or races.
LEMMA Taken ==
  ASSUME Typed, WriteInv, Stepped, NEW x \in Relied'
  PROVE  x \in Relied \/ x \in Carried \cup Free
<1>1. CASE UiReturn /\ x \in cur["ui"].body
  <2>1. pc["ui"] = "return"
    BY <1>1 DEF UiReturn
  <2>2. QED
    BY <1>1, <2>1 DEF WriteInv, Returned
<1>2. CASE UiReceive /\ res["ui"] = "ok" /\ x \in cur["ui"].body
  <2>1. pc["ui"] = "receive"
    BY <1>2 DEF UiReceive
  <2>2. QED
    BY <1>2, <2>1 DEF WriteInv, Answered, Free, Actors
<1>3. QED
  BY <1>1, <1>2, ReliedFrom

LEMMA LeavingSame ==
  ASSUME UNCHANGED batch, cur'["sync"] = cur["sync"]
  PROVE  Leaving' = Leaving
  BY DEF Leaving

\* The flush picks what it lists, and nothing is left to send when it ends.
LEMMA SyncPicks ==
  ASSUME Typed, SyncStart \/ SyncList \/ SyncNext \/ SyncReceive
  PROVE  /\ UNCHANGED <<snapshot, writesOf, dropped, applied, created, nextOp>>
         /\ pc'["sync"] # "idle" /\ Leaving' \subseteq Carried \cup Leaving
<1>1. UNCHANGED <<snapshot, writesOf, dropped, applied, created, nextOp>>
  BY DEF SyncStart, SyncList, SyncNext, SyncReceive, client, screens, server
<1>2. pc'["sync"] # "idle"
  BY DEF SyncStart, SyncList, SyncNext, SyncReceive, Run, Typed, Locals, Actors
<1>3. CASE SyncStart
  BY <1>1, <1>2, <1>3, LeavingSame DEF SyncStart
<1>4. CASE SyncList
  <2>1. cur' = cur /\ batch' \subseteq {Normalize(o) : o \in snapshot}
    BY <1>4 DEF SyncList, Ready
  <2>2. \A o \in snapshot : Normalize(o).body = o.body
    BY Normalized DEF Alike, Typed, Data
  <2>3. QED
    BY <1>1, <1>2, <2>1, <2>2 DEF Leaving, Carried
<1>5. CASE SyncNext
  <2>1. \/ UNCHANGED <<cur, batch>>
        \/ \E o \in batch : cur' = [cur EXCEPT !["sync"] = o] /\ batch' = batch \ {o}
    BY <1>5 DEF SyncNext
  <2>2. ASSUME NEW o \in batch, cur' = [cur EXCEPT !["sync"] = o], batch' = batch \ {o}
        PROVE  Leaving' \subseteq Leaving
    <3>1. cur'["sync"] = o
      BY <2>2 DEF Typed, Locals, Actors
    <3>2. QED
      BY <2>2, <3>1 DEF Leaving
  <2>3. QED
    BY <1>1, <1>2, <2>1, <2>2, LeavingSame
<1>6. CASE SyncReceive
  <2>1. cur' = cur /\ batch' \subseteq batch
    BY <1>6 DEF SyncReceive
  <2>2. QED
    BY <1>1, <1>2, <2>1 DEF Leaving
<1>7. QED
  BY <1>3, <1>4, <1>5, <1>6

LEMMA JournalRests ==
  ASSUME Typed, Typed', Unlisted', JournalStep("sync"), ~Store("sync")
  PROVE  /\ UNCHANGED <<snapshot, applied, created, nextOp>>
         /\ Leaving' \in {Leaving, {}}
<1>0. "sync" \in Actors
  BY DEF Actors
<1>1. UNCHANGED <<snapshot, applied, created, nextOp, batch>>
  BY DEF JournalStep, Load, LogEvents, LoadConflicts, WriteConflicts, client, screens, server
<1>2. CASE UNCHANGED cur
  BY <1>1, <1>2, LeavingSame
<1>3. CASE JobDone("sync")
  <2>1. pc["sync"] \in Working
    BY DEF JournalStep, Load, Store, LogEvents, LoadConflicts, WriteConflicts, Working
  <2>2. cur'["sync"] = IF pc'["sync"] = "idle" THEN NoOp ELSE cur["sync"]
    BY <1>0, <1>3, <2>1, JobDoneLocals DEF Typed
  <2>3. CASE pc'["sync"] = "idle"
    <3>1. batch' = {}
      BY <1>0, <2>3 DEF Unlisted, Typed, Locals, Jobbed, Working
    <3>2. QED
      BY <1>1, <2>2, <2>3, <3>1 DEF Leaving
  <2>4. QED
    BY <1>1, <2>2, <2>3, LeavingSame
<1>4. QED
  BY <1>0, <1>2, <1>3, JournalPlaces

LEMMA PromiseStep ==
  ASSUME Typed, PlayInv, WriteInv, Newest, [Next]_vars, Typed', OnceInv', Apart', WriteInv'
  PROVE  Promise!Next \/ UNCHANGED Promise!promise
<1>1. CASE UNCHANGED vars
  <2>1. UNCHANGED <<snapshot, batch, cur, writesOf, dropped, applied, created, nextOp, raced>>
    BY <1>1 DEF vars, client, local, screens, server, history
  <2>2. QED
    BY <2>1 DEF Promise!promise, Carried, Relied, Leaving
<1>2. CASE Next
  <2>0. Stepped
    BY <1>2, NextCases
  <2>1. ASSUME UNCHANGED <<snapshot, applied, created, nextOp>>, Leaving' \in {Leaving, {}}
        PROVE  Promise!Next
    BY <2>0, <2>1, PromiseTells, GivenUp, Taken
  <2>2. ASSUME NEW a \in Actors, Store(a) PROVE Promise!Next
    BY <2>0, <2>2, PromiseRewrites DEF WriteInv
  <2>3. CASE UiSide
    <3>1. Leaves("ui") /\ UNCHANGED batch
      BY <2>3, UiLeaves, UiBatch
    <3>2. Leaving' = Leaving
      BY <3>1, LeavingSame DEF Leaves, Actors
    <3>3. CASE \E e \in Entities, type \in {"create", "update", "delete"},
                  at \in {"temp", "real"} : Begins(e, type, at)
      <4>1. PICK e \in Entities, type \in {"create", "update", "delete"},
                 at \in {"temp", "real"} : Begins(e, type, at)
        BY <3>3
      <4>2. UNCHANGED <<client, writesOf, dropped, server>> /\ nextOp' = nextOp + 1
        BY <4>1, BeginEffect, Zenon
      <4>3. pc'["ui"] \in {"direct", "queue"}
        BY <4>1, BeginEffect
      <4>4. UNCHANGED <<snapshot, writesOf, dropped, applied, created>>
        BY <4>2 DEF client, server
      <4>5. QED
        BY <2>0, <3>2, <4>2, <4>3, <4>4, PromiseAsks DEF Quiet
    <3>4. ASSUME NEW i \in Ids, UiRetry(i) PROVE Promise!Next
      <4>1. /\ UNCHANGED <<snapshot, writesOf, dropped, applied, created>>
            /\ nextOp' = nextOp + 1 /\ pc'["ui"] = "load"
        BY <3>4 DEF UiRetry, Run, client, server, Typed, Locals, Actors
      <4>2. QED
        BY <2>0, <3>2, <4>1, PromiseAsks DEF Quiet
    <3>5. CASE pc["ui"] = "direct" /\ Exchange("ui", Outcomes)
      BY <2>0, <3>5, PromiseDelivers DEF Actors
    <3>6. CASE Store("ui")
      BY <2>2, <3>6 DEF Actors
    <3>7. CASE Load("ui") \/ LogEvents("ui") \/ LoadConflicts("ui") \/ WriteConflicts("ui")
      <4>1. UNCHANGED <<snapshot, applied, created, nextOp>>
        BY <3>7 DEF Load, LogEvents, LoadConflicts, WriteConflicts, client, screens, server
      <4>2. QED
        BY <2>1, <3>2, <4>1
    <3>8. CASE \/ UiReceive \/ QueueCreate \/ QueueUpdate \/ QueueDelete \/ UiCancel
               \/ UiReturn \/ (\E e \in Temps : UiRefresh(e)) \/ \E i \in Ids : UiDiscard(i)
      <4>1. UNCHANGED <<snapshot, applied, created, nextOp>>
        BY <3>8 DEF UiReceive, QueueCreate, QueueUpdate, QueueDelete, UiCancel, UiReturn,
                    UiRefresh, UiDiscard, client, screens, server
      <4>2. QED
        BY <2>1, <3>2, <4>1
    <3>9. QED
      BY <2>3, <3>3, <3>4, <3>5, <3>6, <3>7, <3>8 DEF UiSide, JournalStep
  <2>4. CASE SyncSide
    <3>1. CASE pc["sync"] = "send" /\ Exchange("sync", Outcomes)
      BY <2>0, <3>1, PromiseDelivers DEF Actors
    <3>2. CASE Store("sync")
      BY <2>2, <3>2 DEF Actors
    <3>3. CASE JournalStep("sync") /\ ~Store("sync")
      BY <2>1, <3>3, JournalRests DEF WriteInv
    <3>4. CASE SyncStart \/ SyncList \/ SyncNext \/ SyncReceive
      BY <2>0, <3>4, SyncPicks, PromisePicks DEF Quiet
    <3>5. QED
      BY <2>4, <3>1, <3>2, <3>3, <3>4 DEF SyncSide
  <2>5. CASE Crash
    <3>1. UNCHANGED <<snapshot, applied, created, nextOp>> /\ batch' = {} /\ cur'["sync"] = NoOp
      BY <2>5 DEF Crash, client, server, Actors
    <3>2. Leaving' = {}
      BY <3>1 DEF Leaving
    <3>3. QED
      BY <2>1, <3>1, <3>2
  <2>6. QED
    BY <2>0, <2>3, <2>4, <2>5, Sides
<1>3. QED
  BY <1>1, <1>2

\* The journal and its replay implement Outbox, also while the user writes
\* during a flush: every step of a thread, of the network and of a dying
\* client is a step of the promise or none.  _store_ops drops from the file
\* only writes that were applied, given up, or not yet taken; the flush sends
\* only what the file held when it was listed; a create takes effect once,
\* however often its key is sent; and create_entity, update_entity and
\* delete_entity report a write as taken only when the file or the server has
\* it, or when it races with the flush.
THEOREM JournalKeepsPromise == Spec => KeepsPromise
<1>. DEFINE Inv == Durable /\ OnceInv /\ Newest
<1>1. Init => Inv
  BY InitTyped, InitPlay, InitApart, InitWrite, InitOnce DEF Durable, Init, Newest, Actors
<1>2. Inv /\ [Next]_vars => Inv'
  <2>. SUFFICES ASSUME Inv, [Next]_vars PROVE Newest'
    BY TypedStep, PlayStep, ApartStep, WriteStep, OnceStep DEF Durable
  <2>1. CASE UNCHANGED vars
    BY <2>1 DEF vars, local, screens, Newest
  <2>2. CASE Next
    BY <2>2, NextCases, NewestStep DEF Durable
  <2>3. QED
    BY <2>1, <2>2
<1>3. Inv /\ Inv' /\ [Next]_vars => [Promise!Next]_(Promise!promise)
  BY PromiseStep DEF Durable
<1>4. QED
  BY <1>1, <1>2, <1>3, PromiseInit, PTL DEF Spec, KeepsPromise, Promise!Spec
=============================================================================
