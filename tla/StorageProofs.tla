---------------------------- MODULE StorageProofs ----------------------------
(***************************************************************************)
(* Safety of ObjectStorage and OfferPhotos for any objects, requests,       *)
(* offers, transactions, sizes and quota.                                   *)
(***************************************************************************)
EXTENDS OfferPhotos, FiniteSetTheorems, TLAPS

-----------------------------------------------------------------------------
(* Sums of sizes.                                                          *)

UnitsIn(r, S) == UNION {{o} \X (1 .. r[o].size) : o \in S}

LEMMA UnitsOfOne ==
  ASSUME NEW r, NEW o, r[o].size \in Nat
  PROVE  /\ IsFiniteSet({o} \X (1 .. r[o].size))
         /\ Cardinality({o} \X (1 .. r[o].size)) = r[o].size
<1>1. IsFiniteSet({o}) /\ Cardinality({o}) = 1
  BY FS_Singleton
<1> DEFINE n == r[o].size
<1>2. n \in Int /\ 1 \in Int
  OBVIOUS
<1> HIDE DEF n
<1>3. IsFiniteSet(1 .. n) /\ Cardinality(1 .. n) = IF 1 > n THEN 0 ELSE n - 1 + 1
  BY <1>2, FS_Interval, Zenon
<1>4. n \in Nat => Cardinality(1 .. n) = n
  BY <1>3
<1>5. /\ IsFiniteSet({o} \X (1 .. n))
      /\ Cardinality({o} \X (1 .. n)) = Cardinality({o}) * Cardinality(1 .. n)
  BY <1>1, <1>3, FS_Product, Zenon
<1>6. QED
  BY <1>1, <1>4, <1>5 DEF n

LEMMA UnitsFinite ==
  ASSUME NEW r, NEW S, IsFiniteSet(S), \A o \in S : r[o].size \in Nat
  PROVE  IsFiniteSet(UnitsIn(r, S)) /\ Cardinality(UnitsIn(r, S)) \in Nat
<1> DEFINE g == [o \in S |-> {o} \X (1 .. r[o].size)]
           T == {{o} \X (1 .. r[o].size) : o \in S}
<1>1. g \in Surjection(S, T)
  BY DEF Surjection
<1>2. IsFiniteSet(T)
  BY <1>1, FS_Surjection
<1>3. \A t \in T : IsFiniteSet(t)
  BY UnitsOfOne
<1>4. IsFiniteSet(UNION T)
  BY <1>2, <1>3, FS_UNION
<1>5. QED
  BY <1>4, FS_CardinalityType DEF UnitsIn

LEMMA DisjointUnion ==
  ASSUME NEW A, NEW B, IsFiniteSet(A), IsFiniteSet(B), A \cap B = {}
  PROVE  Cardinality(A \cup B) = Cardinality(A) + Cardinality(B)
<1>1. Cardinality(A) \in Nat /\ Cardinality(B) \in Nat
  BY FS_CardinalityType
<1>2. Cardinality(A \cup B)
        = Cardinality(A) + Cardinality(B) - Cardinality(A \cap B)
  BY FS_Union
<1>3. Cardinality(A \cap B) = 0
  BY FS_EmptySet
<1>4. QED
  BY <1>1, <1>2, <1>3

LEMMA SumOfUnion ==
  ASSUME NEW r, NEW S, NEW T, IsFiniteSet(S), IsFiniteSet(T), S \cap T = {},
         \A o \in S \cup T : r[o].size \in Nat
  PROVE  Cardinality(UnitsIn(r, S \cup T))
           = Cardinality(UnitsIn(r, S)) + Cardinality(UnitsIn(r, T))
<1>1. UnitsIn(r, S \cup T) = UnitsIn(r, S) \cup UnitsIn(r, T)
  BY DEF UnitsIn
<1>2. UnitsIn(r, S) \cap UnitsIn(r, T) = {}
  BY DEF UnitsIn
<1>3. IsFiniteSet(UnitsIn(r, S)) /\ IsFiniteSet(UnitsIn(r, T))
  BY UnitsFinite
<1>4. QED
  BY <1>1, <1>2, <1>3, DisjointUnion

\* Fewer objects, or smaller ones, have a smaller sum.
LEMMA SumMonotonic ==
  ASSUME NEW q, NEW r, NEW S, NEW T, IsFiniteSet(T), S \subseteq T,
         \A o \in T : r[o].size \in Nat,
         \A o \in S : q[o].size \in Nat /\ q[o].size <= r[o].size
  PROVE  Cardinality(UnitsIn(q, S)) <= Cardinality(UnitsIn(r, T))
<1>1. UnitsIn(q, S) \in SUBSET UnitsIn(r, T)
  BY DEF UnitsIn
<1>2. QED
  BY <1>1, UnitsFinite, FS_Subset

LEMMA SumOfOne ==
  ASSUME NEW r, NEW o, r[o].size \in Nat
  PROVE  Cardinality(UnitsIn(r, {o})) = r[o].size
<1>1. UnitsIn(r, {o}) = {o} \X (1 .. r[o].size)
  BY DEF UnitsIn
<1>2. QED
  BY <1>1, UnitsOfOne

-----------------------------------------------------------------------------
(* Types.                                                                  *)

\* A request in progress has an object; only import artifacts are put by the
\* server and purged at once.
Fits ==
  \A p \in Requests :
    /\ op[p].obj = None <=> op[p].pc = "idle"
    /\ op[p].pc \in {"put", "purge", "drop"} => op[p].obj \in Artifacts

Typed == TypeOK /\ Fits

OpFits(r) ==
  /\ r \in Op
  /\ r.obj = None <=> r.pc = "idle"
  /\ r.pc \in {"put", "purge", "drop"} => r.obj \in Artifacts

LEMMA IdleFits == OpFits(Idle)
BY ObjectsAssumption DEF OpFits, Op, Idle, Statuses

LEMMA BusyFits ==
  ASSUME NEW r, OpFits(r), r.pc # "idle"
  PROVE  r.obj \in Objects /\ r.size \in Sizes \cup {0} /\ r.size \in Nat
<1>1. r \in Op /\ r.obj # None
  BY DEF OpFits
<1>2. r.obj \in Objects \cup {None} /\ r.size \in Sizes \cup {0}
  BY <1>1 DEF Op
<1>3. \A n \in Sizes \cup {0} : n \in Nat
  BY SizesAssumption
<1>4. QED
  BY <1>1, <1>2, <1>3, Zenon

LEMMA OpChanges ==
  ASSUME Typed, NEW p \in Requests, NEW r, OpFits(r), op' = [op EXCEPT ![p] = r]
  PROVE  op' \in [Requests -> Op] /\ Fits'
BY DEF Typed, TypeOK, Fits, OpFits

LEMMA OpStays ==
  ASSUME Typed, op' = op
  PROVE  op' \in [Requests -> Op] /\ Fits'
BY DEF Typed, TypeOK, Fits

LEMMA TypedInit == Init => Typed
BY SizesAssumption, BoundsAssumption, ObjectsAssumption
DEF Init, Typed, TypeOK, Fits, Row, Op, Sweep, Kinds, Statuses, Idle, Done

\* The types of all variables but op.
RestTyped ==
  /\ row \in [Objects -> Row]
  /\ bucket \in [Objects -> Sizes \cup {0}]
  /\ link \subseteq Objects /\ old \subseteq Objects /\ locked \subseteq Objects
  /\ usage \in Nat
  /\ sweep \in [Kinds -> Sweep]
  /\ odd \subseteq Objects
  /\ begun \in 0 .. MaxRequests /\ crashes \in 0 .. MaxCrashes

LEMMA TypedParts ==
  /\ Typed => RestTyped /\ \A p \in Requests : OpFits(op[p])
  /\ RestTyped' /\ op' \in [Requests -> Op] /\ Fits' => Typed'
BY DEF Typed, TypeOK, Fits, OpFits, RestTyped

LEMMA RestTypedStep ==
  ASSUME Typed, StorageNext
  PROVE  RestTyped'
<1>0. RestTyped /\ \A p \in Requests : OpFits(op[p])
  BY TypedParts
<1> USE <1>0, SizesAssumption, BoundsAssumption
      DEF RestTyped, OpFits, Row, Op, Sweep, Statuses, counters
<1>1. ASSUME NEW p \in Requests, NEW o \in Objects, NEW n \in Sizes, Admits(p, o, n)
      PROVE  RestTyped'
  BY <1>1 DEF Admits, Begin
<1>2. ASSUME NEW p \in Requests, NEW o \in Objects, Complete(p, o)
      PROVE  RestTyped'
  BY <1>2 DEF Complete, Begin
<1>3. ASSUME NEW p \in Requests, NEW o \in Objects, Delete(p, o)
      PROVE  RestTyped'
  BY <1>3 DEF Delete, Begin
<1>4. ASSUME NEW p \in Requests, NEW o \in Objects, PurgeNow(p, o)
      PROVE  RestTyped'
  BY <1>4 DEF PurgeNow, Begin
<1>5. ASSUME NEW p \in Requests, Insert(p)
      PROVE  RestTyped'
  BY <1>5 DEF Insert, To, Leave
<1>6. ASSUME NEW p \in Requests, Put(p)
      PROVE  RestTyped'
  BY <1>6 DEF Put, To, Leave
<1>7. ASSUME NEW p \in Requests, Head(p)
      PROVE  RestTyped'
  BY <1>7 DEF Head, Leave
<1>8. ASSUME NEW p \in Requests, Scan(p)
      PROVE  RestTyped'
  BY <1>8 DEF Scan, To
<1>9. ASSUME NEW p \in Requests, Discard(p)
      PROVE  RestTyped'
  BY <1>9 DEF Discard, To, Leave, Meant
<1>10. ASSUME NEW p \in Requests, MarkFailed(p)
      PROVE  RestTyped'
  BY <1>10 DEF MarkFailed, SetStatus, Leave, Meant
<1>11. ASSUME NEW p \in Requests, MarkReady(p)
      PROVE  RestTyped'
  <2>0. op[p].pc = "ready" /\ OpFits(op[p])
    BY <1>11 DEF MarkReady
  <2>1. op[p].obj \in Objects /\ op[p].size \in Sizes \cup {0} /\ op[p].size \in Nat
    BY <2>0, BusyFits
  <2>2. row' \in [Objects -> Row]
    BY <1>11, <2>1 DEF MarkReady
  <2>3. usage' \in Nat
    BY <1>11, <2>1 DEF MarkReady, Credit
  <2>4. odd' \subseteq Objects
    BY <1>11, <2>1 DEF MarkReady
  <2>5. QED
    BY <1>11, <2>2, <2>3, <2>4 DEF MarkReady
<1>12. ASSUME NEW p \in Requests, MarkDeleted(p)
      PROVE  RestTyped'
  BY <1>12 DEF MarkDeleted, SetStatus, Debit, Leave, Meant
<1>13. ASSUME NEW p \in Requests, PurgeBytes(p)
      PROVE  RestTyped'
  BY <1>13 DEF PurgeBytes, To
<1>14. ASSUME NEW p \in Requests, Drop(p)
      PROVE  RestTyped'
  <2>1. op[p].obj \in Objects
    BY <1>14 DEF Drop
  <2>2. row' \in [Objects -> Row]
    BY <1>14, <2>1 DEF Drop
  <2>3. usage' \in Nat
    BY <1>14, <2>1 DEF Drop, Debit
  <2>4. odd' \subseteq Objects
    BY <1>14, <2>1 DEF Drop
  <2>5. QED
    BY <1>14, <2>2, <2>3, <2>4 DEF Drop
<1>15. ASSUME NEW k \in Kinds, SweepLists(k)
      PROVE  RestTyped'
  BY <1>15 DEF SweepLists
<1>16. ASSUME NEW k \in Kinds, NEW o \in Objects, SweepDiscards(k, o)
      PROVE  RestTyped'
  BY <1>16 DEF SweepDiscards, Meant
<1>17. ASSUME NEW k \in Kinds, NEW o \in Objects, SweepMarks(k, o)
      PROVE  RestTyped'
  BY <1>17 DEF SweepMarks, SetStatus, Meant, Done
<1>18. ASSUME NEW o \in Objects, Posted(o)
      PROVE  RestTyped'
  BY <1>18 DEF Posted
<1>19. ASSUME NEW o \in Objects, LinkExpires(o)
      PROVE  RestTyped'
  BY <1>19 DEF LinkExpires
<1>20. ASSUME NEW o \in Objects, Ages(o)
      PROVE  RestTyped'
  BY <1>20 DEF Ages
<1>21. ASSUME Crash
      PROVE  RestTyped'
  BY <1>21 DEF Crash, Leave, Done
<1>22. QED
  BY <1>1, <1>2, <1>3, <1>4, <1>5, <1>6, <1>7, <1>8, <1>9, <1>10, <1>11, <1>12, <1>13, <1>14, <1>15, <1>16, <1>17, <1>18, <1>19, <1>20, <1>21
  DEF StorageNext, Starts, Proceeds, Sweeps

LEMMA OpTypedStep ==
  ASSUME Typed, StorageNext
  PROVE  op' \in [Requests -> Op] /\ Fits'
<1>0. RestTyped /\ \A p \in Requests : OpFits(op[p])
  BY TypedParts
<1> DEFINE Goal == op' \in [Requests -> Op] /\ Fits'
<1>1. ASSUME NEW p \in Requests, NEW o \in Objects, NEW n \in Sizes, Admits(p, o, n)
      PROVE  Goal
  <2> DEFINE r1 == [Idle EXCEPT !.pc = "insert", !.obj = o, !.size = n]
  <2>1. op' = [op EXCEPT ![p] = r1]
    BY <1>1, <1>0 DEF Admits, Begin
  <2>2. OpFits(r1)
    BY <1>1, <1>0, ObjectsAssumption
    DEF Admits, Begin, OpFits, Op, Idle, Status, Statuses, RestTyped, Row
  <2> HIDE DEF r1
  <2>3. QED
    BY <2>1, <2>2, OpChanges, IdleFits
<1>2. ASSUME NEW p \in Requests, NEW o \in Objects, Complete(p, o)
      PROVE  Goal
  <2> DEFINE r1 == [Idle EXCEPT !.pc = "head", !.obj = o, !.size = row[o].size]
  <2>1. op' = [op EXCEPT ![p] = r1]
    BY <1>2, <1>0 DEF Complete, Begin
  <2>2. OpFits(r1)
    BY <1>2, <1>0, ObjectsAssumption
    DEF Complete, Begin, OpFits, Op, Idle, Status, Statuses, RestTyped, Row
  <2> HIDE DEF r1
  <2>3. QED
    BY <2>1, <2>2, OpChanges, IdleFits
<1>3. ASSUME NEW p \in Requests, NEW o \in Objects, Delete(p, o)
      PROVE  Goal
  <2> DEFINE r1 == [Idle EXCEPT !.pc = "delete", !.obj = o]
  <2>1. op' = [op EXCEPT ![p] = r1]
    BY <1>3, <1>0 DEF Delete, Begin
  <2>2. OpFits(r1)
    BY <1>3, <1>0, ObjectsAssumption
    DEF Delete, Begin, OpFits, Op, Idle, Status, Statuses, RestTyped, Row
  <2> HIDE DEF r1
  <2>3. QED
    BY <2>1, <2>2, OpChanges, IdleFits
<1>4. ASSUME NEW p \in Requests, NEW o \in Objects, PurgeNow(p, o)
      PROVE  Goal
  <2> DEFINE r1 == [Idle EXCEPT !.pc = "purge", !.obj = o, !.was = Status(o)]
  <2>1. op' = [op EXCEPT ![p] = r1]
    BY <1>4, <1>0 DEF PurgeNow, Begin
  <2>2. OpFits(r1)
    BY <1>4, <1>0, ObjectsAssumption
    DEF PurgeNow, Begin, OpFits, Op, Idle, Status, Statuses, RestTyped, Row
  <2> HIDE DEF r1
  <2>3. QED
    BY <2>1, <2>2, OpChanges, IdleFits
<1>5. ASSUME NEW p \in Requests, Insert(p)
      PROVE  Goal
  <2> DEFINE r1 == [op[p] EXCEPT !.pc = "put"]
  <2>1. \/ op[p].obj \in Artifacts /\ op' = [op EXCEPT ![p] = r1]
        \/ op' = [op EXCEPT ![p] = Idle]
    BY <1>5, <1>0 DEF Insert, To, Leave
  <2>2. op[p].obj \in Artifacts => OpFits(r1)
    BY <1>5, <1>0, ObjectsAssumption
    DEF Insert, To, Leave, OpFits, Op, Idle, Status, Statuses, RestTyped, Row
  <2> HIDE DEF r1
  <2>3. QED
    BY <2>1, <2>2, OpChanges, IdleFits
<1>6. ASSUME NEW p \in Requests, Put(p)
      PROVE  Goal
  <2> DEFINE r1 == [op[p] EXCEPT !.pc = "ready"]
  <2> DEFINE r2 == [op[p] EXCEPT !.pc = "failed"]
  <2>1. op' = [op EXCEPT ![p] = r1] \/ op' = [op EXCEPT ![p] = r2] \/ op' = [op EXCEPT ![p] = Idle]
    BY <1>6, <1>0 DEF Put, To, Leave
  <2>2. OpFits(r1) /\ OpFits(r2)
    BY <1>6, <1>0, ObjectsAssumption
    DEF Put, To, Leave, OpFits, Op, Idle, Status, Statuses, RestTyped, Row
  <2> HIDE DEF r1, r2
  <2>3. QED
    BY <2>1, <2>2, OpChanges, IdleFits
<1>7. ASSUME NEW p \in Requests, Head(p)
      PROVE  Goal
  <2> DEFINE r1 == [op[p] EXCEPT !.pc = "oversize", !.size = 0]
  <2> DEFINE r2 == [op[p] EXCEPT !.pc = "scan", !.size = bucket[op[p].obj]]
  <2>1. op' = [op EXCEPT ![p] = r1] \/ op' = [op EXCEPT ![p] = r2] \/ op' = [op EXCEPT ![p] = Idle]
    BY <1>7, <1>0 DEF Head, Leave
  <2>2. OpFits(r1) /\ OpFits(r2)
    BY <1>7, <1>0, ObjectsAssumption
    DEF Head, Leave, OpFits, Op, Idle, Status, Statuses, RestTyped, Row
  <2> HIDE DEF r1, r2
  <2>3. QED
    BY <2>1, <2>2, OpChanges, IdleFits
<1>8. ASSUME NEW p \in Requests, Scan(p)
      PROVE  Goal
  <2> DEFINE r1 == [op[p] EXCEPT !.pc = "ready"]
  <2> DEFINE r2 == [op[p] EXCEPT !.pc = "reject", !.size = 0]
  <2>1. op' = [op EXCEPT ![p] = r1] \/ op' = [op EXCEPT ![p] = r2]
    BY <1>8, <1>0 DEF Scan, To
  <2>2. OpFits(r1) /\ OpFits(r2)
    BY <1>8, <1>0, ObjectsAssumption
    DEF Scan, To, OpFits, Op, Idle, Status, Statuses, RestTyped, Row
  <2> HIDE DEF r1, r2
  <2>3. QED
    BY <2>1, <2>2, OpChanges, IdleFits
<1>9. ASSUME NEW p \in Requests, Discard(p)
      PROVE  Goal
  <2> DEFINE r1 == [op[p] EXCEPT !.pc = "failed"]
  <2>1. op' = [op EXCEPT ![p] = r1] \/ op' = [op EXCEPT ![p] = Idle]
    BY <1>9, <1>0 DEF Discard, To, Leave, Meant
  <2>2. OpFits(r1)
    BY <1>9, <1>0, ObjectsAssumption
    DEF Discard, To, Leave, Meant, OpFits, Op, Idle, Status, Statuses, RestTyped, Row
  <2> HIDE DEF r1
  <2>3. QED
    BY <2>1, <2>2, OpChanges, IdleFits
<1>10. ASSUME NEW p \in Requests, MarkFailed(p)
      PROVE  Goal
  BY <1>10, OpChanges, IdleFits DEF MarkFailed, SetStatus, Leave, Meant
<1>11. ASSUME NEW p \in Requests, MarkReady(p)
      PROVE  Goal
  BY <1>11, OpChanges, IdleFits DEF MarkReady, Credit, Leave
<1>12. ASSUME NEW p \in Requests, MarkDeleted(p)
      PROVE  Goal
  BY <1>12, OpChanges, IdleFits DEF MarkDeleted, SetStatus, Debit, Leave, Meant
<1>13. ASSUME NEW p \in Requests, PurgeBytes(p)
      PROVE  Goal
  <2> DEFINE r1 == [op[p] EXCEPT !.pc = "drop"]
  <2>1. op' = [op EXCEPT ![p] = r1]
    BY <1>13, <1>0 DEF PurgeBytes, To
  <2>2. OpFits(r1)
    BY <1>13, <1>0, ObjectsAssumption
    DEF PurgeBytes, To, OpFits, Op, Idle, Status, Statuses, RestTyped, Row
  <2> HIDE DEF r1
  <2>3. QED
    BY <2>1, <2>2, OpChanges, IdleFits
<1>14. ASSUME NEW p \in Requests, Drop(p)
      PROVE  Goal
  BY <1>14, OpChanges, IdleFits DEF Drop, Debit, Leave
<1>15. ASSUME NEW k \in Kinds, SweepLists(k)
      PROVE  Goal
  BY <1>15, OpStays DEF SweepLists
<1>16. ASSUME NEW k \in Kinds, NEW o \in Objects, SweepDiscards(k, o)
      PROVE  Goal
  BY <1>16, OpStays DEF SweepDiscards, Meant
<1>17. ASSUME NEW k \in Kinds, NEW o \in Objects, SweepMarks(k, o)
      PROVE  Goal
  BY <1>17, OpStays DEF SweepMarks, SetStatus, Meant, Done
<1>18. ASSUME NEW o \in Objects, Posted(o)
      PROVE  Goal
  BY <1>18, OpStays DEF Posted
<1>19. ASSUME NEW o \in Objects, LinkExpires(o)
      PROVE  Goal
  BY <1>19, OpStays DEF LinkExpires
<1>20. ASSUME NEW o \in Objects, Ages(o)
      PROVE  Goal
  BY <1>20, OpStays DEF Ages
<1>21. ASSUME Crash
      PROVE  Goal
  BY <1>21, OpStays, OpChanges, IdleFits DEF Crash, Leave, Done
<1>22. QED
  BY <1>1, <1>2, <1>3, <1>4, <1>5, <1>6, <1>7, <1>8, <1>9, <1>10, <1>11, <1>12, <1>13, <1>14, <1>15, <1>16, <1>17, <1>18, <1>19, <1>20, <1>21
  DEF StorageNext, Starts, Proceeds, Sweeps

LEMMA TypedStep ==
  ASSUME Typed, StorageNext
  PROVE  Typed'
BY RestTypedStep, OpTypedStep, TypedParts

-----------------------------------------------------------------------------
(* How rows and requests change in a storage step.                         *)

\* What a step does to the row of an object.
Evolves(o) ==
  \/ row'[o] = row[o]
  \/ \E p \in Requests :
       /\ op[p].pc = "insert" /\ op[p].obj = o /\ op'[p].pc # "insert"
       /\ row'[o] = [status |-> "pending", size |-> op[p].size]
  \/ /\ Exists(o) /\ row'[o].size = row[o].size
     /\ row'[o].status \notin {"none", "pending", "ready"}
  \/ /\ Exists(o)
     /\ (Status(o) = "pending" /\ bucket[o] # 0) \/ o \in odd'
     /\ \E p \in Requests :
          /\ op[p].pc = "ready" /\ op[p].obj = o
          /\ row'[o] = [status |-> "ready", size |-> op[p].size]

LEMMA Evolution ==
  ASSUME Typed, StorageNext
  PROVE  odd \subseteq odd' /\ \A x \in Objects : Evolves(x)
<1>0. RestTyped /\ \A p \in Requests : OpFits(op[p])
  BY TypedParts
<1> DEFINE Goal == odd \subseteq odd' /\ \A x \in Objects : Evolves(x)
<1>1. ASSUME NEW p \in Requests, NEW o \in Objects, NEW n \in Sizes, Admits(p, o, n)
      PROVE  Goal
  BY <1>1 DEF Admits, Evolves
<1>2. ASSUME NEW p \in Requests, NEW o \in Objects, Complete(p, o)
      PROVE  Goal
  BY <1>2 DEF Complete, Evolves
<1>3. ASSUME NEW p \in Requests, NEW o \in Objects, Delete(p, o)
      PROVE  Goal
  BY <1>3 DEF Delete, Evolves
<1>4. ASSUME NEW p \in Requests, NEW o \in Objects, PurgeNow(p, o)
      PROVE  Goal
  BY <1>4 DEF PurgeNow, Evolves
<1>5. ASSUME NEW p \in Requests, Insert(p)
      PROVE  Goal
  <2>1. op[p].obj \in Objects
    BY <1>5, <1>0, BusyFits DEF Insert
  <2>2. op'[p].pc # "insert"
    <3>1. op \in [Requests -> Op]
      BY DEF Typed, TypeOK
    <3>2. QED
      BY <1>5, <3>1 DEF Insert, To, Leave, Idle, Op
  <2>3. QED
    BY <1>5, <1>0, <2>1, <2>2 DEF Insert, Evolves, RestTyped, Row, Status, Exists
<1>6. ASSUME NEW p \in Requests, Put(p)
      PROVE  Goal
  BY <1>6 DEF Put, Evolves
<1>7. ASSUME NEW p \in Requests, Head(p)
      PROVE  Goal
  BY <1>7 DEF Head, Evolves
<1>8. ASSUME NEW p \in Requests, Scan(p)
      PROVE  Goal
  BY <1>8 DEF Scan, Evolves
<1>9. ASSUME NEW p \in Requests, Discard(p)
      PROVE  Goal
  BY <1>9 DEF Discard, Meant, Evolves
<1>10. ASSUME NEW p \in Requests, MarkFailed(p)
      PROVE  Goal
  <2>1. op[p].obj \in Objects
    BY <1>10, <1>0, BusyFits DEF MarkFailed
  <2>2. QED
    BY <1>10, <1>0, <2>1 DEF MarkFailed, SetStatus, Meant, Evolves, RestTyped, Row, Status, Exists
<1>11. ASSUME NEW p \in Requests, MarkReady(p)
      PROVE  Goal
  <2>1. op[p].obj \in Objects
    BY <1>11, <1>0, BusyFits DEF MarkReady
  <2>2. QED
    BY <1>11, <1>0, <2>1 DEF MarkReady, Evolves, RestTyped, Row, Status, Exists
<1>12. ASSUME NEW p \in Requests, MarkDeleted(p)
      PROVE  Goal
  <2>1. op[p].obj \in Objects
    BY <1>12, <1>0, BusyFits DEF MarkDeleted
  <2>2. QED
    BY <1>12, <1>0, <2>1 DEF MarkDeleted, SetStatus, Meant, Evolves, RestTyped, Row, Status, Exists
<1>13. ASSUME NEW p \in Requests, PurgeBytes(p)
      PROVE  Goal
  BY <1>13 DEF PurgeBytes, Evolves
<1>14. ASSUME NEW p \in Requests, Drop(p)
      PROVE  Goal
  <2>1. op[p].obj \in Objects
    BY <1>14, <1>0, BusyFits DEF Drop
  <2>2. QED
    BY <1>14, <1>0, <2>1 DEF Drop, Evolves, RestTyped, Row, Status, Exists
<1>15. ASSUME NEW k \in Kinds, SweepLists(k)
      PROVE  Goal
  BY <1>15 DEF SweepLists, Evolves
<1>16. ASSUME NEW k \in Kinds, NEW o \in Objects, SweepDiscards(k, o)
      PROVE  Goal
  BY <1>16 DEF SweepDiscards, Meant, Evolves
<1>17. ASSUME NEW k \in Kinds, NEW o \in Objects, SweepMarks(k, o)
      PROVE  Goal
  BY <1>17, <1>0 DEF SweepMarks, SetStatus, Meant, Evolves, RestTyped, Row, Status, Exists
<1>18. ASSUME NEW o \in Objects, Posted(o)
      PROVE  Goal
  BY <1>18 DEF Posted, Evolves
<1>19. ASSUME NEW o \in Objects, LinkExpires(o)
      PROVE  Goal
  BY <1>19 DEF LinkExpires, Evolves
<1>20. ASSUME NEW o \in Objects, Ages(o)
      PROVE  Goal
  BY <1>20 DEF Ages, Evolves
<1>21. ASSUME Crash
      PROVE  Goal
  BY <1>21 DEF Crash, Evolves
<1>22. QED
  BY <1>1, <1>2, <1>3, <1>4, <1>5, <1>6, <1>7, <1>8, <1>9, <1>10, <1>11,
     <1>12, <1>13, <1>14, <1>15, <1>16, <1>17, <1>18, <1>19, <1>20, <1>21
  DEF StorageNext, Starts, Proceeds, Sweeps

\* The states of an upload in which its size matters.
Carries == {"put", "head", "scan", "ready"}

Admitted(p) ==
  /\ op[p].pc = "idle" /\ op'[p].pc = "insert"
  /\ op'[p].obj \in Objects /\ Status(op'[p].obj) = "none"
  /\ \A q \in Requests : op[q].obj # op'[p].obj /\ op[q].pc # "insert"
  /\ SumOf(Reserved) + op'[p].size <= Quota
  /\ \A q \in Requests \ {p} : op'[q] = op[q]
  /\ row' = row /\ odd' = odd

\* What a step does to a request.
OpEvolves(p) ==
  \/ op'[p] = op[p]
  \/ op'[p].pc = "idle" /\ op'[p].obj = None
  \/ /\ op[p].pc # "idle" /\ op'[p].pc # "insert" /\ op'[p].obj = op[p].obj
     /\ op'[p].pc \in Carries => /\ op[p].pc \in Carries \cup {"insert"}
                                 /\ op'[p].size <= op[p].size
  \/ /\ op[p].pc = "idle" /\ op'[p].pc # "insert"
     /\ op'[p].obj \in Objects /\ Exists(op'[p].obj)
     /\ op'[p].pc \in Carries => op'[p].size = row[op'[p].obj].size
  \/ Admitted(p)

LEMMA OpEvolution ==
  ASSUME Typed, StorageNext
  PROVE  \A x \in Requests : OpEvolves(x)
<1>0. RestTyped /\ op \in [Requests -> Op] /\ \A p \in Requests : OpFits(op[p])
  BY TypedParts DEF Typed, TypeOK
<1>a. ASSUME NEW p \in Requests, NEW r, op' = [op EXCEPT ![p] = r], OpEvolves(p)
      PROVE  \A x \in Requests : OpEvolves(x)
  BY <1>0, <1>a DEF OpEvolves
<1>b. op' = op => \A x \in Requests : OpEvolves(x)
  BY DEF OpEvolves
<1> DEFINE Goal == \A x \in Requests : OpEvolves(x)
<1>1. ASSUME NEW p \in Requests, NEW o \in Objects, NEW n \in Sizes, Admits(p, o, n)
      PROVE  Goal
  <2> DEFINE r == [Idle EXCEPT !.pc = "insert", !.obj = o, !.size = n]
  <2>1. op' = [op EXCEPT ![p] = r]
    BY <1>1 DEF Admits, Begin
  <2>2. op'[p] = r /\ \A q \in Requests \ {p} : op'[q] = op[q]
    BY <1>0, <2>1
  <2>3. r.pc = "insert" /\ r.obj = o /\ r.size = n
    BY DEF Idle
  <2>4. Admitted(p)
    BY <1>1, <2>2, <2>3 DEF Admits, Begin, QuotaLockFree, Admitted
  <2> HIDE DEF r
  <2>5. QED
    BY <2>1, <2>4, <1>a DEF OpEvolves
<1>2. ASSUME NEW p \in Requests, NEW o \in Objects, Complete(p, o)
      PROVE  Goal
  <2> DEFINE r == [Idle EXCEPT !.pc = "head", !.obj = o, !.size = row[o].size]
  <2>1. op' = [op EXCEPT ![p] = r]
    BY <1>2 DEF Complete, Begin
  <2>2. op'[p] = r
    BY <1>0, <2>1
  <2>3. r.pc = "head" /\ r.obj = o /\ r.size = row[o].size
    BY DEF Idle
  <2>4. OpEvolves(p)
    BY <1>2, <2>2, <2>3 DEF Complete, Begin, OpEvolves, Carries
  <2> HIDE DEF r
  <2>5. QED
    BY <2>1, <2>4, <1>a
<1>3. ASSUME NEW p \in Requests, NEW o \in Objects, Delete(p, o)
      PROVE  Goal
  <2> DEFINE r == [Idle EXCEPT !.pc = "delete", !.obj = o]
  <2>1. op' = [op EXCEPT ![p] = r]
    BY <1>3 DEF Delete, Begin
  <2>2. op'[p] = r
    BY <1>0, <2>1
  <2>3. r.pc = "delete" /\ r.obj = o
    BY DEF Idle
  <2>4. OpEvolves(p)
    BY <1>3, <2>2, <2>3 DEF Delete, Begin, OpEvolves, Carries
  <2> HIDE DEF r
  <2>5. QED
    BY <2>1, <2>4, <1>a
<1>4. ASSUME NEW p \in Requests, NEW o \in Objects, PurgeNow(p, o)
      PROVE  Goal
  <2> DEFINE r == [Idle EXCEPT !.pc = "purge", !.obj = o, !.was = Status(o)]
  <2>1. op' = [op EXCEPT ![p] = r]
    BY <1>4 DEF PurgeNow, Begin
  <2>2. op'[p] = r
    BY <1>0, <2>1
  <2>3. r.pc = "purge" /\ r.obj = o
    BY DEF Idle
  <2>4. OpEvolves(p)
    BY <1>4, <2>2, <2>3 DEF PurgeNow, Begin, OpEvolves, Carries
  <2> HIDE DEF r
  <2>5. QED
    BY <2>1, <2>4, <1>a
<1>5. ASSUME NEW p \in Requests, Insert(p)
      PROVE  Goal
  <2> DEFINE r1 == [op[p] EXCEPT !.pc = "put"]
  <2>0. op[p].pc # "idle" /\ op[p] \in Op /\ op[p].size \in Nat
    BY <1>5, <1>0, BusyFits DEF Insert
  <2>1. \/ op' = [op EXCEPT ![p] = r1]
        \/ op' = [op EXCEPT ![p] = Idle]
    BY <1>5, <1>0 DEF Insert, To, Leave
  <2>2. OpEvolves(p)
    BY <1>5, <1>0, <2>0, <2>1 DEF Insert, OpEvolves, Carries, Op, Idle
  <2> HIDE DEF r1
  <2>3. QED
    BY <2>1, <2>2, <1>a
<1>6. ASSUME NEW p \in Requests, Put(p)
      PROVE  Goal
  <2> DEFINE r1 == [op[p] EXCEPT !.pc = "ready"]
  <2> DEFINE r2 == [op[p] EXCEPT !.pc = "failed"]
  <2>0. op[p].pc # "idle" /\ op[p] \in Op /\ op[p].size \in Nat
    BY <1>6, <1>0, BusyFits DEF Put
  <2>1. \/ op' = [op EXCEPT ![p] = r1]
        \/ op' = [op EXCEPT ![p] = r2]
        \/ op' = [op EXCEPT ![p] = Idle]
    BY <1>6, <1>0 DEF Put, To, Leave
  <2>2. OpEvolves(p)
    BY <1>6, <1>0, <2>0, <2>1 DEF Put, OpEvolves, Carries, Op, Idle
  <2> HIDE DEF r1, r2
  <2>3. QED
    BY <2>1, <2>2, <1>a
<1>7. ASSUME NEW p \in Requests, Head(p)
      PROVE  Goal
  <2> DEFINE r1 == [op[p] EXCEPT !.pc = "oversize", !.size = 0]
  <2> DEFINE r2 == [op[p] EXCEPT !.pc = "scan", !.size = bucket[op[p].obj]]
  <2>0. op[p].pc # "idle" /\ op[p] \in Op /\ op[p].size \in Nat
    BY <1>7, <1>0, BusyFits DEF Head
  <2>1. \/ op' = [op EXCEPT ![p] = r1]
        \/ bucket[op[p].obj] <= op[p].size /\ op' = [op EXCEPT ![p] = r2]
        \/ op' = [op EXCEPT ![p] = Idle]
    BY <1>7, <1>0 DEF Head, Leave
  <2>a. \/ op'[p].pc = "oversize" /\ op'[p].obj = op[p].obj
        \/ /\ op'[p].pc = "scan" /\ op'[p].obj = op[p].obj
           /\ op'[p].size <= op[p].size
        \/ op'[p] = Idle
    BY <1>0, <2>0, <2>1 DEF Op
  <2>2. OpEvolves(p)
    BY <1>7, <2>0, <2>a DEF Head, OpEvolves, Carries, Idle
  <2> HIDE DEF r1, r2
  <2>3. QED
    BY <2>1, <2>2, <1>a
<1>8. ASSUME NEW p \in Requests, Scan(p)
      PROVE  Goal
  <2> DEFINE r1 == [op[p] EXCEPT !.pc = "ready"]
  <2> DEFINE r2 == [op[p] EXCEPT !.pc = "reject", !.size = 0]
  <2>0. op[p].pc # "idle" /\ op[p] \in Op /\ op[p].size \in Nat
    BY <1>8, <1>0, BusyFits DEF Scan
  <2>1. \/ op' = [op EXCEPT ![p] = r1]
        \/ op' = [op EXCEPT ![p] = r2]
    BY <1>8, <1>0 DEF Scan, To
  <2>a. \/ /\ op'[p].pc = "ready" /\ op'[p].obj = op[p].obj
           /\ op'[p].size <= op[p].size
        \/ op'[p].pc = "reject" /\ op'[p].obj = op[p].obj
    <3>1. op'[p] = r1 \/ op'[p] = r2
      BY <1>0, <2>1
    <3>2. r1.pc = "ready" /\ r1.obj = op[p].obj /\ r1.size = op[p].size
      BY <2>0 DEF Op
    <3>3. r2.pc = "reject" /\ r2.obj = op[p].obj
      BY <2>0 DEF Op
    <3> HIDE DEF r1, r2
    <3>4. QED
      BY <2>0, <3>1, <3>2, <3>3
  <2>2. OpEvolves(p)
    BY <1>8, <2>0, <2>a DEF Scan, OpEvolves, Carries
  <2> HIDE DEF r1, r2
  <2>3. QED
    BY <2>1, <2>2, <1>a
<1>9. ASSUME NEW p \in Requests, Discard(p)
      PROVE  Goal
  <2> DEFINE r1 == [op[p] EXCEPT !.pc = "failed"]
  <2>0. op[p].pc # "idle" /\ op[p] \in Op /\ op[p].size \in Nat
    BY <1>9, <1>0, BusyFits DEF Discard
  <2>1. \/ op' = [op EXCEPT ![p] = r1]
        \/ op' = [op EXCEPT ![p] = Idle]
    BY <1>9, <1>0 DEF Discard, To, Leave
  <2>2. OpEvolves(p)
    BY <1>9, <1>0, <2>0, <2>1 DEF Discard, OpEvolves, Carries, Op, Idle
  <2> HIDE DEF r1
  <2>3. QED
    BY <2>1, <2>2, <1>a
<1>10. ASSUME NEW p \in Requests, MarkFailed(p)
      PROVE  Goal
  <2>1. op' = [op EXCEPT ![p] = Idle]
    BY <1>10 DEF MarkFailed, Leave
  <2>2. QED
    BY <1>0, <2>1, <1>a DEF OpEvolves, Idle
<1>11. ASSUME NEW p \in Requests, MarkReady(p)
      PROVE  Goal
  <2>1. op' = [op EXCEPT ![p] = Idle]
    BY <1>11 DEF MarkReady, Leave
  <2>2. QED
    BY <1>0, <2>1, <1>a DEF OpEvolves, Idle
<1>12. ASSUME NEW p \in Requests, MarkDeleted(p)
      PROVE  Goal
  <2>1. op' = [op EXCEPT ![p] = Idle]
    BY <1>12 DEF MarkDeleted, Leave
  <2>2. QED
    BY <1>0, <2>1, <1>a DEF OpEvolves, Idle
<1>13. ASSUME NEW p \in Requests, PurgeBytes(p)
      PROVE  Goal
  <2> DEFINE r1 == [op[p] EXCEPT !.pc = "drop"]
  <2>0. op[p].pc # "idle" /\ op[p] \in Op /\ op[p].size \in Nat
    BY <1>13, <1>0, BusyFits DEF PurgeBytes
  <2>1. \/ op' = [op EXCEPT ![p] = r1]
    BY <1>13, <1>0 DEF PurgeBytes, To
  <2>2. OpEvolves(p)
    BY <1>13, <1>0, <2>0, <2>1 DEF PurgeBytes, OpEvolves, Carries, Op, Idle
  <2> HIDE DEF r1
  <2>3. QED
    BY <2>1, <2>2, <1>a
<1>14. ASSUME NEW p \in Requests, Drop(p)
      PROVE  Goal
  <2>1. op' = [op EXCEPT ![p] = Idle]
    BY <1>14 DEF Drop, Leave
  <2>2. QED
    BY <1>0, <2>1, <1>a DEF OpEvolves, Idle
<1>15. ASSUME NEW k \in Kinds, SweepLists(k)
      PROVE  Goal
  BY <1>15, <1>b DEF SweepLists
<1>16. ASSUME NEW k \in Kinds, NEW o \in Objects, SweepDiscards(k, o)
      PROVE  Goal
  BY <1>16, <1>b DEF SweepDiscards
<1>17. ASSUME NEW k \in Kinds, NEW o \in Objects, SweepMarks(k, o)
      PROVE  Goal
  BY <1>17, <1>b DEF SweepMarks
<1>18. ASSUME NEW o \in Objects, Posted(o)
      PROVE  Goal
  BY <1>18, <1>b DEF Posted
<1>19. ASSUME NEW o \in Objects, LinkExpires(o)
      PROVE  Goal
  BY <1>19, <1>b DEF LinkExpires
<1>20. ASSUME NEW o \in Objects, Ages(o)
      PROVE  Goal
  BY <1>20, <1>b DEF Ages
<1>21. ASSUME Crash
      PROVE  Goal
  <2>1. op' = op \/ \E p \in Requests : op' = [op EXCEPT ![p] = Idle]
    BY <1>21 DEF Crash, Leave
  <2>2. ASSUME NEW p \in Requests, op' = [op EXCEPT ![p] = Idle]
        PROVE  Goal
    BY <1>0, <2>2, <1>a DEF OpEvolves, Idle
  <2>3. QED
    BY <2>1, <2>2, <1>b
<1>22. QED
  BY <1>1, <1>2, <1>3, <1>4, <1>5, <1>6, <1>7, <1>8, <1>9, <1>10, <1>11,
     <1>12, <1>13, <1>14, <1>15, <1>16, <1>17, <1>18, <1>19, <1>20, <1>21
  DEF StorageNext, Starts, Proceeds, Sweeps

-----------------------------------------------------------------------------
(* Reservations and the quota.                                             *)

\* An admitted upload is the only one, and nobody else knows its object yet.
Fresh ==
  \A p \in Requests : op[p].pc = "insert" =>
    /\ Status(op[p].obj) = "none"
    /\ \A q \in Requests \ {p} : op[q].obj # op[p].obj /\ op[q].pc # "insert"

\* An upload completes with no more than its reservation.
Reduces ==
  \A p \in Requests :
    op[p].pc \in Carries /\ Status(op[p].obj) = "pending" =>
      op[p].size <= row[op[p].obj].size

LEMMA SizesNat ==
  ASSUME Typed, NEW o \in Objects
  PROVE  row[o].size \in Nat
<1>1. row[o].size \in Sizes \cup {0}
  BY DEF Typed, TypeOK, Row
<1>2. \A n \in Sizes \cup {0} : n \in Nat
  BY SizesAssumption
<1>3. QED
  BY <1>1, <1>2, Zenon

LEMMA SizesNatNext ==
  ASSUME Typed', NEW o \in Objects
  PROVE  row'[o].size \in Nat
<1>1. row'[o].size \in Sizes \cup {0}
  BY DEF Typed, TypeOK, Row
<1>2. \A n \in Sizes \cup {0} : n \in Nat
  BY SizesAssumption
<1>3. QED
  BY <1>1, <1>2, Zenon

LEMMA FreshStep ==
  ASSUME Typed, Fresh, StorageNext
  PROVE  Fresh'
<1>0. /\ \A x \in Requests : OpEvolves(x) /\ OpFits(op[x])
      /\ \A x \in Objects : Evolves(x)
  BY Evolution, OpEvolution, TypedParts
<1> SUFFICES ASSUME NEW p \in Requests, op'[p].pc = "insert"
             PROVE  /\ row'[op'[p].obj].status = "none"
                    /\ \A q \in Requests \ {p} :
                         op'[q].obj # op'[p].obj /\ op'[q].pc # "insert"
  BY DEF Fresh, Status
<1>1. op'[p] = op[p] \/ Admitted(p)
  BY <1>0, Zenon DEF OpEvolves
<1>2. CASE op'[p] = op[p]
  <2>1. /\ op[p].pc = "insert" /\ op[p].obj \in Objects /\ op[p].obj # None
        /\ Status(op[p].obj) = "none" /\ ~Exists(op[p].obj)
    BY <1>0, <1>2, BusyFits, ObjectsAssumption DEF Fresh, Exists
  <2>2. row'[op[p].obj].status = "none"
    <3>1. Evolves(op[p].obj)
      BY <1>0, <2>1
    <3>2. \A q \in Requests : op[q].pc = "insert" => q = p
      BY <2>1 DEF Fresh
    <3>3. op'[p].pc = "insert"
      OBVIOUS
    <3>4. \A q \in Requests : op[q].pc = "insert" => op'[q].pc = "insert"
      BY <3>2, <3>3
    <3>5. row'[op[p].obj] = row[op[p].obj]
      BY <2>1, <3>1, <3>4 DEF Evolves
    <3>6. QED
      BY <2>1, <3>5 DEF Status
  <2>3. ASSUME NEW q \in Requests \ {p}
        PROVE  op'[q].obj # op[p].obj /\ op'[q].pc # "insert"
    <3>1. op[q].obj # op[p].obj /\ op[q].pc # "insert"
      BY <2>1 DEF Fresh
    <3>2. OpEvolves(q) /\ ~Admitted(q)
      BY <1>0, <2>1 DEF Admitted
    <3>3. QED
      BY <2>1, <3>1, <3>2, Zenon DEF OpEvolves
  <2>4. QED
    BY <1>2, <2>2, <2>3
<1>3. CASE Admitted(p)
  BY <1>3 DEF Admitted, Status
<1>4. QED
  BY <1>1, <1>2, <1>3

LEMMA ReducesStep ==
  ASSUME Typed, Fresh, Reduces, StorageNext
  PROVE  Reduces'
<1>0. /\ Typed' /\ \A x \in Requests : OpEvolves(x) /\ OpFits(op[x]) /\ OpFits(op'[x])
      /\ \A x \in Objects : Evolves(x)
  BY Evolution, OpEvolution, TypedParts, TypedStep DEF Typed, TypeOK, Fits, OpFits
<1> SUFFICES ASSUME NEW p \in Requests, op'[p].pc \in Carries,
                    row'[op'[p].obj].status = "pending"
             PROVE  op'[p].size <= row'[op'[p].obj].size
  BY DEF Reduces, Status
<1> DEFINE o == op'[p].obj
<1>1. o \in Objects /\ op'[p].size \in Nat
  <2>1. op'[p].pc # "idle"
    BY DEF Carries
  <2>2. QED
    BY <1>0, <2>1, BusyFits
<1>2. /\ op'[p].pc # "insert" /\ op'[p].pc # "idle" /\ ~Admitted(p)
      /\ row'[o].status = "pending"
  BY DEF Carries, Status, Admitted
<1>3. ASSUME NEW q \in Requests, op[q].pc = "insert", op[q].obj = o,
             row'[o] = [status |-> "pending", size |-> op[q].size]
      PROVE  op'[p].size <= row'[o].size
  <2>1. Status(o) = "none" /\ ~Exists(o)
    BY <1>3 DEF Fresh, Exists
  <2>2. op[p].obj = o => p = q
    BY <1>3 DEF Fresh
  <2>3. op[p].obj = o
    <3>1. OpEvolves(p)
      BY <1>0
    <3>2. QED
      BY <1>2, <2>1, <3>1, Zenon DEF OpEvolves
  <2>4. op'[p].size <= op[p].size
    <3>1. op[p].pc = "insert" /\ op'[p] # op[p]
      BY <1>2, <1>3, <2>2, <2>3
    <3>2. QED
      BY <1>0, <1>2, <3>1 DEF OpEvolves
  <2>5. QED
    BY <1>3, <2>2, <2>3, <2>4
<1>4. ASSUME row'[o] = row[o]
      PROVE  op'[p].size <= row'[o].size
  <2>1. Status(o) = "pending"
    BY <1>2, <1>4 DEF Status
  <2>2. op[p].obj = o => op[p].pc # "insert"
    BY <2>1 DEF Fresh
  <2>3. op[p].obj = o /\ op[p].pc \in Carries => op[p].size <= row[o].size
    BY <2>1 DEF Reduces
  <2>4. \/ op[p].obj = o /\ op[p].pc \in Carries /\ op'[p].size = op[p].size
        \/ op[p].obj = o /\ op[p].pc \in Carries /\ op'[p].size <= op[p].size
        \/ op'[p].size = row[o].size
    <3>1. OpEvolves(p)
      BY <1>0
    <3>2. QED
      BY <1>2, <2>2, <3>1 DEF OpEvolves
  <2>5. op[p].obj = o /\ op[p].pc \in Carries => op[p].size \in Nat
    <3>1. op[p].pc \in Carries => op[p].pc # "idle"
      BY DEF Carries
    <3>2. QED
      BY <1>0, <3>1, BusyFits
  <2>6. row[o].size \in Nat
    BY <1>1, SizesNat
  <2>7. QED
    BY <1>1, <1>4, <2>3, <2>4, <2>5, <2>6
<1>5. Evolves(o)
  BY <1>0, <1>1
<1>6. row'[o] = row[o]
      \/ \E q \in Requests : /\ op[q].pc = "insert" /\ op[q].obj = o
                             /\ row'[o] = [status |-> "pending", size |-> op[q].size]
  <2>1. \A n : row'[o] # [status |-> "ready", size |-> n]
    BY <1>2
  <2> HIDE DEF o
  <2>2. QED
    BY <1>2, <1>5, <2>1, Zenon DEF Evolves
<1>7. QED
  BY <1>3, <1>4, <1>6

Sum(r, S) == Cardinality(UnitsIn(r, S))

\* The objects the quota counts, and the one being inserted, fit.
InsertFits == \A p \in Requests :
           op[p].pc = "insert" => SumOf(Reserved \ odd) + op[p].size <= Quota

QuotaInv == Typed /\ Fresh /\ Reduces /\ QuotaHolds /\ InsertFits

LEMMA SumsTyped ==
  ASSUME Typed, NEW S \in SUBSET Objects
  PROVE  /\ IsFiniteSet(S) /\ \A o \in S : row[o].size \in Nat
         /\ SumOf(S) = Sum(row, S) /\ Sum(row, S) \in Nat
<1>1. IsFiniteSet(S)
  BY ObjectsAssumption, FS_Subset
<1>2. \A o \in S : row[o].size \in Nat
  BY SizesNat
<1>3. Sum(row, S) \in Nat
  BY <1>1, <1>2, UnitsFinite DEF Sum
<1>4. QED
  BY <1>1, <1>2, <1>3 DEF SumOf, Units, UnitsIn, Sum

\* An object counts after a step if it did before, and was not larger, or if
\* it was inserted.
LEMMA CountedStep ==
  ASSUME Typed, Fresh, Reduces, StorageNext, NEW x \in (Reserved \ odd)'
  PROVE  \/ x \in Reserved \ odd /\ row'[x].size <= row[x].size
         \/ \E q \in Requests : /\ op[q].pc = "insert" /\ op'[q].pc # "insert"
                                /\ op[q].obj = x /\ row'[x].size = op[q].size
<1>1. /\ x \in Objects /\ row'[x].status \in {"ready", "pending"}
      /\ x \notin odd /\ x \notin odd' /\ Evolves(x)
      /\ row[x].size \in Nat /\ row'[x].size \in Nat
  <2>1. x \in Objects
    BY DEF Reserved
  <2>2. QED
    BY <2>1, Evolution, SizesNat, SizesNatNext, TypedStep DEF Reserved, Status
<1>2. CASE row'[x] = row[x]
  BY <1>1, <1>2 DEF Reserved, Status
<1>3. CASE \E p \in Requests :
             /\ op[p].pc = "insert" /\ op[p].obj = x /\ op'[p].pc # "insert"
             /\ row'[x] = [status |-> "pending", size |-> op[p].size]
  BY <1>3
<1>4. CASE /\ Status(x) = "pending"
           /\ \E p \in Requests :
                /\ op[p].pc = "ready" /\ op[p].obj = x
                /\ row'[x] = [status |-> "ready", size |-> op[p].size]
  <2>1. PICK p \in Requests :
               /\ op[p].pc = "ready" /\ op[p].obj = x
               /\ row'[x] = [status |-> "ready", size |-> op[p].size]
    BY <1>4
  <2>2. op[p].size <= row[x].size
    BY <1>4, <2>1 DEF Reduces, Carries
  <2>3. QED
    BY <1>1, <1>4, <2>1, <2>2 DEF Reserved
<1>5. QED
  BY <1>1, <1>2, <1>3, <1>4 DEF Evolves

LEMMA QuotaStep ==
  ASSUME QuotaInv, StorageNext
  PROVE  QuotaInv'
<1> DEFINE K  == Reserved \ odd
           L  == (Reserved \ odd)'
<1>1. Typed /\ Typed' /\ Fresh' /\ Reduces' /\ Fresh
  BY TypedStep, FreshStep, ReducesStep DEF QuotaInv
<1>2. K \in SUBSET Objects /\ L \in SUBSET Objects /\ Reserved \in SUBSET Objects
  BY DEF Reserved
<1>3. /\ IsFiniteSet(K) /\ \A o \in K : row[o].size \in Nat
      /\ SumOf(Reserved \ odd) = Sum(row, K) /\ Sum(row, K) \in Nat
      /\ IsFiniteSet(Reserved) /\ \A o \in Reserved : row[o].size \in Nat
      /\ SumOf(Reserved) = Sum(row, Reserved) /\ Sum(row, Reserved) \in Nat
  BY <1>1, <1>2, SumsTyped
<1>4. \A o \in Objects : row'[o].size \in Nat
  BY <1>1, SizesNatNext
<1>5. IsFiniteSet(L) /\ SumOf(Reserved \ odd)' = Sum(row', L) /\ Sum(row', L) \in Nat
  <2>1. IsFiniteSet(L)
    BY <1>2, ObjectsAssumption, FS_Subset
  <2>2. SumOf(Reserved \ odd)' = Sum(row', L)
    BY DEF SumOf, Units, UnitsIn, Sum
  <2> HIDE DEF L
  <2>3. QED
    BY <1>2, <1>4, <2>1, <2>2, UnitsFinite DEF Sum
<1>6. /\ \A p \in Requests : OpEvolves(p) /\ OpFits(op[p])
      /\ Sum(row, K) <= Quota
      /\ \A p \in Requests : op[p].pc = "insert" => Sum(row, K) + op[p].size <= Quota
  BY <1>3, OpEvolution, TypedParts DEF QuotaInv, QuotaHolds, InsertFits
<1>7. \A x \in L :
        \/ x \in K /\ row'[x].size <= row[x].size
        \/ \E q \in Requests : /\ op[q].pc = "insert" /\ op'[q].pc # "insert"
                               /\ op[q].obj = x /\ row'[x].size = op[q].size
  BY CountedStep DEF QuotaInv
<1> HIDE DEF K, L
<1>8. CASE \E q \in Requests : op[q].pc = "insert" /\ op'[q].pc # "insert"
  <2>1. PICK q \in Requests : op[q].pc = "insert" /\ op'[q].pc # "insert"
    BY <1>8
  <2>2. \A p \in Requests : op[p].pc = "insert" => p = q
    BY <1>1, <2>1 DEF Fresh
  <2>3. \A p \in Requests : op'[p].pc # "insert"
    <3>1. SUFFICES ASSUME NEW p \in Requests, op'[p].pc = "insert"
                   PROVE  FALSE
      OBVIOUS
    <3>2. p # q
      BY <2>1, <3>1
    <3>3. op'[p] = op[p] \/ Admitted(p)
      BY <1>6, <3>1, Zenon DEF OpEvolves
    <3>4. QED
      BY <2>1, <2>2, <3>1, <3>2, <3>3 DEF Admitted
  <2> DEFINE o == op[q].obj
  <2>4. o \in Objects /\ op[q].size \in Nat
    BY <1>6, <2>1, BusyFits
  <2>5. \A x \in L \ {o} : x \in K /\ row'[x].size <= row[x].size
    BY <1>7, <2>2
  <2>6. L \cap {o} = {} \/ row'[o].size = op[q].size
    <3>1. o \notin K
      BY <1>1, <2>1 DEF Fresh, K, Reserved
    <3>2. QED
      BY <1>7, <2>2, <3>1
  <2> HIDE DEF o
  <2>7. Sum(row', L \ {o}) <= Sum(row, K)
    BY <1>2, <1>3, <1>4, <2>5, SumMonotonic DEF Sum
  <2>8. Sum(row', L) <= Sum(row', L \ {o}) + op[q].size
    <3>1. CASE o \notin L
      <4>1. L \ {o} = L
        BY <3>1
      <4>2. QED
        BY <1>5, <2>4, <4>1
    <3>2. CASE o \in L
      <4>1. L = (L \ {o}) \cup {o} /\ (L \ {o}) \cap {o} = {}
        BY <3>2
      <4>2. IsFiniteSet(L \ {o}) /\ IsFiniteSet({o})
        BY <1>5, FS_Singleton, FS_Difference
      <4>3. Sum(row', (L \ {o}) \cup {o}) = Sum(row', L \ {o}) + Sum(row', {o})
        BY <1>2, <1>4, <2>4, <4>1, <4>2, SumOfUnion DEF Sum
      <4>4. Sum(row', {o}) = op[q].size
        BY <1>4, <2>4, <2>6, <3>2, SumOfOne DEF Sum
      <4>5. Sum(row', L \ {o}) \in Nat
        BY <1>2, <1>4, <4>2, UnitsFinite DEF Sum
      <4>6. Sum(row', L) = Sum(row', L \ {o}) + Sum(row', {o})
        BY <4>1, <4>3, Zenon
      <4>7. QED
        BY <4>4, <4>5, <4>6, <2>4
    <3>3. QED
      BY <3>1, <3>2
  <2>9. Sum(row', L \ {o}) \in Nat
    <3>1. IsFiniteSet(L \ {o})
      BY <1>5, FS_Difference
    <3>2. QED
      BY <1>2, <1>4, <3>1, UnitsFinite DEF Sum
  <2>10. Sum(row', L) <= Quota
    BY <1>3, <1>5, <1>6, <2>1, <2>4, <2>7, <2>8, <2>9, SizesAssumption
  <2>11. QED
    BY <1>1, <1>5, <2>3, <2>10 DEF QuotaInv, QuotaHolds, InsertFits
<1>9. CASE \A q \in Requests : op[q].pc = "insert" => op'[q].pc = "insert"
  <2>1. \A x \in L : x \in K /\ row'[x].size <= row[x].size
    BY <1>7, <1>9
  <2>2. Sum(row', L) <= Sum(row, K)
    BY <1>2, <1>3, <1>4, <2>1, SumMonotonic DEF Sum
  <2>3. ASSUME NEW p \in Requests, op'[p].pc = "insert"
        PROVE  Sum(row', L) + op'[p].size <= Quota
    <3>1. OpFits(op'[p])
      BY <1>1 DEF Typed, TypeOK, Fits, OpFits
    <3>2. op'[p].size \in Nat
      BY <2>3, <3>1, BusyFits
    <3>3. op'[p] = op[p] \/ Admitted(p)
      BY <1>6, <2>3, Zenon DEF OpEvolves
    <3>4. CASE op'[p] = op[p]
      BY <1>3, <1>5, <1>6, <2>2, <2>3, <3>2, <3>4, SizesAssumption
    <3>5. CASE Admitted(p)
      <4>1. K \subseteq Reserved
        BY DEF K
      <4>2. Sum(row, K) <= Sum(row, Reserved)
        BY <1>3, <4>1, SumMonotonic DEF Sum
      <4>3. Sum(row, Reserved) + op'[p].size <= Quota
        BY <1>3, <3>5 DEF Admitted
      <4>4. QED
        BY <1>3, <1>5, <2>2, <3>2, <4>2, <4>3, SizesAssumption
    <3>6. QED
      BY <3>3, <3>4, <3>5
  <2>4. Sum(row', L) <= Quota
    BY <1>3, <1>5, <1>6, <2>2, SizesAssumption
  <2>5. QED
    BY <1>1, <1>5, <2>3, <2>4 DEF QuotaInv, QuotaHolds, InsertFits
<1>10. QED
  BY <1>8, <1>9

LEMMA NothingYet ==
  ASSUME Init
  PROVE  Fresh /\ Reduces /\ QuotaHolds /\ InsertFits /\ UsageExact
<1>1. \A p \in Requests : op[p].pc = "idle"
  BY DEF Init, Idle
<1>2. Fresh /\ Reduces /\ InsertFits
  BY <1>1 DEF Fresh, Reduces, Carries, InsertFits
<1>3. Reserved \ odd = {} /\ {o \in Objects : Status(o) = "ready"} = {}
  BY DEF Init, Reserved, Status
<1>4. SumOf({}) = 0
  <2>1. Units({}) = {}
    BY DEF Units
  <2>2. QED
    BY <2>1, FS_EmptySet DEF SumOf
<1>5. QED
  BY <1>2, <1>3, <1>4, SizesAssumption DEF QuotaHolds, UsageExact, Init

\* Every variable of the storage model keeps its type, whatever the objects,
\* requests and sizes.
THEOREM StorageTyped == Spec => []TypeOK
<1>1. ASSUME Typed, [StorageNext]_vars
      PROVE  Typed'
  <2>1. CASE StorageNext
    BY <1>1, <2>1, TypedStep
  <2>2. CASE UNCHANGED vars
    BY <1>1, <2>2 DEF vars, counters, Typed, TypeOK, Fits
  <2>3. QED
    BY <1>1, <2>1, <2>2
<1>2. Typed => TypeOK
  BY DEF Typed
<1>3. QED
  BY <1>1, <1>2, TypedInit, PTL DEF Spec

\* However many uploads are admitted side by side, what is pending and ready
\* stays within the agency's quota (create_storage_record under the advisory
\* lock), up to the objects a late step met in a status it is not meant for.
THEOREM QuotaKept == Spec => []QuotaHolds
<1>1. Init => QuotaInv
  BY TypedInit, NothingYet DEF QuotaInv
<1>2. ASSUME QuotaInv, [StorageNext]_vars
      PROVE  QuotaInv'
  <2>1. CASE StorageNext
    BY <1>2, <2>1, QuotaStep
  <2>2. CASE UNCHANGED vars
    BY <1>2, <2>2
    DEF vars, counters, QuotaInv, Typed, TypeOK, Fits, Fresh, Reduces, QuotaHolds,
        InsertFits, SumOf, Units, Reserved, Status
  <2>3. QED
    BY <1>2, <2>1, <2>2
<1>3. QuotaInv => QuotaHolds
  BY DEF QuotaInv
<1>4. QED
  BY <1>1, <1>2, <1>3, PTL DEF Spec

-----------------------------------------------------------------------------
(* The usage counter.                                                      *)

Ready == {o \in Objects : Status(o) = "ready"}

LEMMA UsageSame ==
  ASSUME UsageExact, odd \subseteq odd',
         odd' = {} => /\ usage' = usage
                      /\ \A x \in Ready \cup Ready' : row'[x] = row[x]
  PROVE  UsageExact'
<1>1. SUFFICES ASSUME odd' = {}
               PROVE  usage' = SumOf(Ready)'
  BY DEF UsageExact, Ready
<1>2. usage = SumOf(Ready) /\ usage' = usage
  BY <1>1 DEF UsageExact, Ready
<1>3. Ready' = Ready
  BY <1>1 DEF Ready, Status
<1>4. SumOf(Ready)' = SumOf(Ready)
  BY <1>1, <1>3 DEF SumOf, Units
<1>5. QED
  BY <1>2, <1>4

\* A set of objects becomes ready and is credited.
LEMMA UsageCredited ==
  ASSUME UsageExact, odd = {},
         \A o \in Objects : row[o].size \in Nat /\ row'[o].size \in Nat,
         NEW S \in SUBSET Objects, S \cap Ready = {}, Ready' = Ready \cup S,
         \A o \in Ready : row'[o] = row[o], usage' = usage + Sum(row', S)
  PROVE  UsageExact'
<1>1. Ready \in SUBSET Objects
  BY DEF Ready
<1>2. usage = Sum(row, Ready)
  BY DEF UsageExact, Ready, SumOf, Units, Sum, UnitsIn
<1>3. Sum(row', Ready \cup S) = Sum(row, Ready) + Sum(row', S)
  <2>1. IsFiniteSet(Ready) /\ IsFiniteSet(S) /\ Ready \cap S = {}
    BY <1>1, ObjectsAssumption, FS_Subset
  <2>2. \A o \in Ready \cup S : row'[o].size \in Nat
    BY <1>1
  <2>3. Sum(row', Ready \cup S) = Sum(row', Ready) + Sum(row', S)
    BY <2>1, <2>2, SumOfUnion DEF Sum
  <2>4. UnitsIn(row', Ready) = UnitsIn(row, Ready)
    BY DEF UnitsIn
  <2>5. QED
    BY <2>3, <2>4 DEF Sum
<1>4. usage' = Sum(row', Ready')
  BY <1>2, <1>3
<1>5. QED
  BY <1>4 DEF UsageExact, Ready, SumOf, Units, Sum, UnitsIn

\* A set of ready objects stops being so and is debited.
LEMMA UsageDebited ==
  ASSUME UsageExact, odd = {},
         \A o \in Objects : row[o].size \in Nat /\ row'[o].size \in Nat,
         NEW S \in SUBSET Ready, Ready' = Ready \ S,
         \A o \in Ready' : row'[o] = row[o], Debit(Sum(row, S))
  PROVE  UsageExact'
<1>1. Ready \in SUBSET Objects /\ Ready \ S \in SUBSET Objects /\ S \in SUBSET Objects
  BY DEF Ready
<1>2. usage = Sum(row, Ready)
  BY DEF UsageExact, Ready, SumOf, Units, Sum, UnitsIn
<1>3. /\ Sum(row, (Ready \ S) \cup S) = Sum(row', Ready \ S) + Sum(row, S)
      /\ Sum(row', Ready \ S) \in Nat /\ Sum(row, S) \in Nat
  <2>1. IsFiniteSet(Ready \ S) /\ IsFiniteSet(S) /\ (Ready \ S) \cap S = {}
    BY <1>1, ObjectsAssumption, FS_Subset
  <2>2. \A o \in (Ready \ S) \cup S : row[o].size \in Nat /\ row'[o].size \in Nat
    BY <1>1
  <2>3. Sum(row, (Ready \ S) \cup S) = Sum(row, Ready \ S) + Sum(row, S)
    BY <2>1, <2>2, SumOfUnion DEF Sum
  <2>4. UnitsIn(row', Ready \ S) = UnitsIn(row, Ready \ S)
    BY DEF UnitsIn
  <2>5. Sum(row, Ready \ S) \in Nat /\ Sum(row, S) \in Nat
    BY <2>1, <2>2, UnitsFinite DEF Sum
  <2>6. QED
    BY <2>3, <2>4, <2>5 DEF Sum
<1>4. (Ready \ S) \cup S = Ready
  OBVIOUS
<1>5. Sum(row, Ready) = Sum(row', Ready') + Sum(row, S)
      /\ Sum(row', Ready') \in Nat
  BY <1>3, <1>4, Zenon
<1>6. usage' = Sum(row', Ready')
  BY <1>2, <1>3, <1>5 DEF Debit
<1>7. QED
  BY <1>6 DEF UsageExact, Ready, SumOf, Units, Sum, UnitsIn

LEMMA UsageStep ==
  ASSUME Typed, Fresh, UsageExact, StorageNext
  PROVE  UsageExact'
<1>0. /\ RestTyped /\ \A p \in Requests : OpFits(op[p])
      /\ \A o \in Objects : row[o].size \in Nat /\ row'[o].size \in Nat
      /\ odd \subseteq odd'
  BY TypedParts, TypedStep, SizesNat, SizesNatNext, Evolution
<1>a. row' = row /\ usage' = usage => UsageExact'
  BY <1>0, UsageSame
<1>1. ASSUME NEW p \in Requests, NEW o \in Objects, NEW n \in Sizes, Admits(p, o, n)
      PROVE  UsageExact'
  BY <1>1, <1>a DEF Admits
<1>2. ASSUME NEW p \in Requests, NEW o \in Objects, Complete(p, o)
      PROVE  UsageExact'
  BY <1>2, <1>a DEF Complete
<1>3. ASSUME NEW p \in Requests, NEW o \in Objects, Delete(p, o)
      PROVE  UsageExact'
  BY <1>3, <1>a DEF Delete
<1>4. ASSUME NEW p \in Requests, NEW o \in Objects, PurgeNow(p, o)
      PROVE  UsageExact'
  BY <1>4, <1>a DEF PurgeNow
<1>5. ASSUME NEW p \in Requests, Insert(p)
      PROVE  UsageExact'
  <2>1. op[p].obj \in Objects
    BY <1>5, <1>0, BusyFits DEF Insert
  <2>2. usage' = usage /\ \A x \in Ready \cup Ready' : row'[x] = row[x]
    BY <1>5, <1>0, <2>1 DEF Insert, Fresh, Ready, Status, RestTyped
  <2>3. QED
    BY <1>0, <2>2, UsageSame
<1>6. ASSUME NEW p \in Requests, Put(p)
      PROVE  UsageExact'
  BY <1>6, <1>a DEF Put
<1>7. ASSUME NEW p \in Requests, Head(p)
      PROVE  UsageExact'
  BY <1>7, <1>a DEF Head
<1>8. ASSUME NEW p \in Requests, Scan(p)
      PROVE  UsageExact'
  BY <1>8, <1>a DEF Scan
<1>9. ASSUME NEW p \in Requests, Discard(p)
      PROVE  UsageExact'
  BY <1>9, <1>a DEF Discard
<1>10. ASSUME NEW p \in Requests, MarkFailed(p)
      PROVE  UsageExact'
  <2>1. op[p].obj \in Objects
    BY <1>10, <1>0, BusyFits DEF MarkFailed
  <2>2. usage' = usage
    BY <1>10 DEF MarkFailed
  <2>3. ASSUME odd' = {}
        PROVE  \A x \in Ready \cup Ready' : row'[x] = row[x]
    BY <1>10, <1>0, <2>1, <2>3
    DEF MarkFailed, SetStatus, Meant, Ready, Status, Exists, RestTyped, Row
  <2>4. QED
    BY <1>0, <2>2, <2>3, UsageSame
<1>11. ASSUME NEW p \in Requests, MarkReady(p)
      PROVE  UsageExact'
  <2> DEFINE o == op[p].obj
  <2>1. o \in Objects /\ op[p].size \in Nat
    BY <1>11, <1>0, BusyFits DEF MarkReady
  <2>2. CASE odd' # {}
    BY <2>2 DEF UsageExact
  <2>3. CASE odd' = {}
    <3>1. Status(o) = "pending" /\ odd = {}
      BY <1>11, <1>0, <2>3 DEF MarkReady
    <3>2. row' = [row EXCEPT ![o] = [status |-> "ready", size |-> op[p].size]]
      BY <1>11, <3>1 DEF MarkReady, Exists
    <3>3. /\ row'[o].size = op[p].size /\ {o} \cap Ready = {} /\ Ready' = Ready \cup {o}
          /\ \A x \in Ready : row'[x] = row[x]
      BY <1>0, <2>1, <3>1, <3>2 DEF Ready, Status, RestTyped
    <3>4. usage' = usage + Sum(row', {o})
      BY <1>11, <2>1, <3>3, SumOfOne DEF MarkReady, Credit, Sum
    <3> HIDE DEF o
    <3>5. QED
      BY <1>0, <2>1, <3>1, <3>3, <3>4, UsageCredited
  <2>4. QED
    BY <2>2, <2>3
<1>12. ASSUME NEW p \in Requests, MarkDeleted(p)
      PROVE  UsageExact'
  <2> DEFINE o == op[p].obj
  <2>1. o \in Objects
    BY <1>12, <1>0, BusyFits DEF MarkDeleted
  <2>2. CASE odd' # {}
    BY <2>2 DEF UsageExact
  <2>3. CASE odd' = {} /\ Exists(o)
    <3>1. Status(o) = "ready" /\ odd = {}
      BY <1>12, <1>0, <2>3 DEF MarkDeleted, Meant
    <3>2. row' = [row EXCEPT ![o].status = "deleted"]
      BY <1>12, <2>3 DEF MarkDeleted, SetStatus
    <3>3. {o} \in SUBSET Ready /\ Ready' = Ready \ {o} /\ \A x \in Ready' : row'[x] = row[x]
      BY <1>0, <2>1, <3>1, <3>2 DEF Ready, Status, RestTyped, Row
    <3>4. Debit(Sum(row, {o}))
      BY <1>12, <1>0, <2>1, <2>3, SumOfOne DEF MarkDeleted, Debit, Sum
    <3> HIDE DEF o
    <3>5. QED
      BY <1>0, <3>1, <3>3, <3>4, UsageDebited
  <2>4. CASE ~Exists(o)
    BY <1>12, <1>a, <2>4 DEF MarkDeleted
  <2>5. QED
    BY <2>2, <2>3, <2>4
<1>13. ASSUME NEW p \in Requests, PurgeBytes(p)
      PROVE  UsageExact'
  BY <1>13, <1>a DEF PurgeBytes
<1>14. ASSUME NEW p \in Requests, Drop(p)
      PROVE  UsageExact'
  <2> DEFINE o == op[p].obj
  <2>1. o \in Objects
    BY <1>14, <1>0, BusyFits DEF Drop
  <2>2. CASE odd' # {}
    BY <2>2 DEF UsageExact
  <2>3. CASE odd' = {} /\ Status(o) = "ready"
    <3>1. odd = {} /\ op[p].was = "ready" /\ Exists(o)
      BY <1>14, <1>0, <2>3 DEF Drop, Exists
    <3>2. row' = [row EXCEPT ![o].status = "gone"]
      BY <1>14, <3>1 DEF Drop
    <3>3. {o} \in SUBSET Ready /\ Ready' = Ready \ {o} /\ \A x \in Ready' : row'[x] = row[x]
      BY <1>0, <2>1, <2>3, <3>2 DEF Ready, Status, RestTyped, Row
    <3>4. Debit(Sum(row, {o}))
      BY <1>14, <1>0, <2>1, <3>1, SumOfOne DEF Drop, Debit, Sum
    <3> HIDE DEF o
    <3>5. QED
      BY <1>0, <3>1, <3>3, <3>4, UsageDebited
  <2>4. CASE odd' = {} /\ Status(o) # "ready"
    <3>1. usage' = usage
      BY <1>14, <1>0, <2>4 DEF Drop
    <3>2. \A x \in Ready \cup Ready' : row'[x] = row[x]
      BY <1>14, <1>0, <2>1, <2>4 DEF Drop, Ready, Status, Exists, RestTyped, Row
    <3>3. QED
      BY <1>0, <3>1, <3>2, UsageSame
  <2>5. QED
    BY <2>2, <2>3, <2>4
<1>15. ASSUME NEW k \in Kinds, SweepLists(k)
      PROVE  UsageExact'
  BY <1>15, <1>a DEF SweepLists
<1>16. ASSUME NEW k \in Kinds, NEW o \in Objects, SweepDiscards(k, o)
      PROVE  UsageExact'
  BY <1>16, <1>a DEF SweepDiscards
<1>17. ASSUME NEW k \in Kinds, NEW o \in Objects, SweepMarks(k, o)
      PROVE  UsageExact'
  <2>2. usage' = usage
    BY <1>17 DEF SweepMarks
  <2>3. ASSUME odd' = {}
        PROVE  \A x \in Ready \cup Ready' : row'[x] = row[x]
    BY <1>17, <1>0, <2>3
    DEF SweepMarks, SetStatus, Meant, Ready, Status, Exists, RestTyped, Row, Kinds
  <2>4. QED
    BY <1>0, <2>2, <2>3, UsageSame
<1>18. ASSUME NEW o \in Objects, Posted(o)
      PROVE  UsageExact'
  BY <1>18, <1>a DEF Posted
<1>19. ASSUME NEW o \in Objects, LinkExpires(o)
      PROVE  UsageExact'
  BY <1>19, <1>a DEF LinkExpires
<1>20. ASSUME NEW o \in Objects, Ages(o)
      PROVE  UsageExact'
  BY <1>20, <1>a DEF Ages
<1>21. ASSUME Crash
      PROVE  UsageExact'
  BY <1>21, <1>a DEF Crash
<1>22. QED
  BY <1>1, <1>2, <1>3, <1>4, <1>5, <1>6, <1>7, <1>8, <1>9, <1>10, <1>11,
     <1>12, <1>13, <1>14, <1>15, <1>16, <1>17, <1>18, <1>19, <1>20, <1>21
  DEF StorageNext, Starts, Proceeds, Sweeps

LEMMA StorageStill ==
  ASSUME UNCHANGED vars, Typed, Fresh, UsageExact
  PROVE  Typed' /\ Fresh' /\ UsageExact'
BY DEF vars, counters, Typed, TypeOK, Fits, Fresh, UsageExact, SumOf, Units, Status

\* storage_usage.total_bytes is the sum of the ready sizes as long as every
\* step met its row in the status it is meant for, whatever interleaves
\* (bump_storage_usage).
THEOREM UsageKept == Spec => []UsageExact
<1> DEFINE Inv == Typed /\ Fresh /\ UsageExact
<1>1. Init => Inv
  BY TypedInit, NothingYet
<1>2. Inv /\ [StorageNext]_vars => Inv'
  BY TypedStep, FreshStep, UsageStep, StorageStill
<1>3. QED
  BY <1>1, <1>2, PTL DEF Spec

-----------------------------------------------------------------------------
(* The oldest and the newest of some photos.                               *)

LEMMA LeastNumber ==
  ASSUME NEW S \in SUBSET Nat, S # {}
  PROVE  \E i \in S : \A j \in S : i <= j
<1>1. PICK i \in S : \A j \in S : <<j, i>> \notin OpToRel(<, Nat)
  BY WFMin, NatLessThanWellFounded, Zenon
<1>2. \A j \in S : ~(j < i)
  BY <1>1, Zenon DEF OpToRel
<1>3. \A j \in S : i <= j
  BY <1>2
<1>4. QED
  BY <1>3

LEMMA OldestIn ==
  ASSUME NEW S \in SUBSET PhotoIds, S # {}
  PROVE  Min(S) \in S /\ \A j \in S : Min(S) <= j
<1>1. S \in SUBSET Nat
  BY PhotosAssumption DEF PhotoIds
<1>2. \E i \in S : \A j \in S : i <= j
  BY <1>1, LeastNumber
<1>3. QED
  BY <1>2, Zenon DEF Min

LEMMA NewestIn ==
  ASSUME NEW S \in SUBSET PhotoIds, S # {}
  PROVE  Newest(S) \in S
<1> DEFINE T == {MaxPhotos - i : i \in S}
<1>1. T \in SUBSET Nat /\ T # {}
  <2>1. \A i \in S : MaxPhotos - i \in Nat
    BY PhotosAssumption DEF PhotoIds
  <2>2. T \in SUBSET Nat
    BY <2>1
  <2>3. QED
    BY <2>2
<1> HIDE DEF T
<1>2. PICK n \in T : \A m \in T : n <= m
  BY <1>1, LeastNumber
<1>3. PICK i \in S : n = MaxPhotos - i
  BY DEF T
<1>4. \A j \in S : MaxPhotos - j \in T
  BY DEF T
<1>5. \A j \in S : j <= i
  BY <1>2, <1>3, <1>4, PhotosAssumption DEF PhotoIds
<1>6. QED
  BY <1>5, Zenon DEF Newest

-----------------------------------------------------------------------------
(* What a photo transaction does to the storage rows.                      *)

\* A photo is of a file that is no import artifact.
Pictured ==
  \A i \in PhotoIds : photo[i].state # "none" =>
    photo[i].obj \in Objects \ Artifacts /\ photo[i].offer \in Offers

PhotoTyped == PhotoTypeOK /\ Fits /\ Pictured

Deleted == {o \in Objects \ Artifacts : Status(o) = "deleted"}

\* It deletes ready objects, restores deleted ones, or neither.
StorageEffect ==
  /\ LeavesRest
  /\ \/ LeavesStorage
     \/ \E S \in SUBSET Ready : DeletesStorage(S)
     \/ \E S \in SUBSET Deleted : RestoresStorage(S)

LEMMA UnreferencedReady ==
  ASSUME NEW S \in SUBSET Objects, NEW gone
  PROVE  Unreferenced(S, gone) \in SUBSET Ready
BY DEF Unreferenced, Ready

LEMMA PhotoEffect ==
  ASSUME PhotoTyped, PhotoNext
  PROVE  StorageEffect
<1>0. /\ \A c \in Clerks : tx[c].listed \in SUBSET Objects
      /\ \A i \in PhotoIds : photo[i].obj \in Objects \cup {None}
  BY DEF PhotoTyped, PhotoTypeOK, Tx, Photo
<1>1. ASSUME NEW c \in Clerks, NEW f \in Offers, NEW o \in Objects, AttachLocks(c, f, o)
      PROVE  StorageEffect
  BY <1>1 DEF AttachLocks, StorageEffect
<1>2. ASSUME NEW c \in Clerks, ListingReads(c)
      PROVE  StorageEffect
  BY <1>2 DEF ListingReads, StorageEffect
<1>3. ASSUME NEW c \in Clerks, NEW f \in Offers, NEW act \in {"delete", "restore", "purge"},
             offer[f] # "removed", CascadeLists(c, act, "offer", {f})
      PROVE  StorageEffect
  BY <1>3 DEF CascadeLists, Cascading, StorageEffect
<1>4. ASSUME NEW c \in Clerks, NEW act \in {"restore", "purge"},
             CascadeLists(c, act, "listing", {f \in Offers : offer[f] # "removed"})
      PROVE  StorageEffect
  BY <1>4 DEF CascadeLists, Cascading, StorageEffect
<1>5. ASSUME NEW c \in Clerks, AttachEnds(c)
      PROVE  StorageEffect
  <2>1. PICK f \in tx[c].offers, o \in tx[c].listed :
          /\ LeavesRest
          /\ \/ LeavesStorage
             \/ Attachable(f, o) /\ Status(o) = "deleted" /\ RestoresStorage({o})
    BY <1>5 DEF AttachEnds
  <2>2. Attachable(f, o) /\ Status(o) = "deleted" => {o} \in SUBSET Deleted
    BY <1>0 DEF Attachable, Deleted
  <2>3. QED
    BY <2>1, <2>2 DEF StorageEffect
<1>6. ASSUME NEW c \in Clerks, DeleteEnds(c)
      PROVE  StorageEffect
  <2> DEFINE hit == {i \in PhotoIds : photo[i].state = "active"
                                      /\ photo[i].offer \in tx[c].offers}
             S == tx[c].listed \cap {photo[i].obj : i \in hit}
  <2>1. S \in SUBSET Objects
    BY <1>0
  <2>2. LeavesRest /\ DeletesStorage(Unreferenced(S, hit))
    BY <1>6 DEF DeleteEnds
  <2> HIDE DEF S, hit
  <2>3. QED
    BY <2>1, <2>2, UnreferencedReady DEF StorageEffect
<1>7. ASSUME NEW c \in Clerks, RestoreEnds(c)
      PROVE  StorageEffect
  <2> DEFINE S == {o \in tx[c].listed \ Artifacts : Status(o) = "deleted"}
  <2>1. S \in SUBSET Deleted
    BY <1>0 DEF Deleted
  <2>2. LeavesRest /\ (LeavesStorage \/ RestoresStorage(S))
    BY <1>7 DEF RestoreEnds
  <2> HIDE DEF S
  <2>3. QED
    BY <2>1, <2>2 DEF StorageEffect
<1>8. ASSUME NEW c \in Clerks, PurgeEnds(c)
      PROVE  StorageEffect
  <2> DEFINE hit == {i \in PhotoIds : photo[i].state # "none"
                                      /\ photo[i].offer \in tx[c].offers}
  <2>1. LeavesRest /\ DeletesStorage(Unreferenced(tx[c].listed, hit))
    BY <1>8 DEF PurgeEnds
  <2> HIDE DEF hit
  <2>2. QED
    BY <1>0, <2>1, UnreferencedReady DEF StorageEffect
<1>9. ASSUME NEW c \in Clerks, ListingLists(c)
      PROVE  StorageEffect
  BY <1>9 DEF ListingLists, Cascading, StorageEffect
<1>10. ASSUME NEW c \in Clerks, RollsBack(c)
      PROVE  StorageEffect
  BY <1>10 DEF RollsBack, StorageEffect
<1>11. ASSUME NEW i \in PhotoIds, RemovePhoto(i)
      PROVE  StorageEffect
  <2>1. LeavesRest /\ DeletesStorage(Unreferenced({photo[i].obj}, {i}))
    BY <1>11 DEF RemovePhoto
  <2>2. Unreferenced({photo[i].obj}, {i}) \in SUBSET Ready
    <3>1. photo[i].obj \in Objects
      BY <1>11 DEF RemovePhoto, PhotoTyped, Pictured
    <3>2. QED
      BY <3>1, UnreferencedReady
  <2>3. QED
    BY <2>1, <2>2 DEF StorageEffect
<1>12. QED
  BY <1>1, <1>2, <1>3, <1>4, <1>5, <1>6, <1>7, <1>8, <1>9, <1>10, <1>11
  DEF PhotoNext, CascadeOf, Proceeding

LEMMA EffectTyped ==
  ASSUME PhotoTyped, StorageEffect, locked' \subseteq Objects
  PROVE  Typed' /\ odd \subseteq odd'
<1>0. Typed /\ \A S \in SUBSET Objects : SumOf(S) \in Nat
  BY SumsTyped DEF PhotoTyped, PhotoTypeOK, Typed
<1>1. CASE LeavesStorage
  BY <1>0, <1>1
  DEF StorageEffect, LeavesStorage, LeavesRest, Typed, TypeOK, Fits, counters
<1>2. CASE \E S \in SUBSET Ready : DeletesStorage(S)
  <2>1. PICK S \in SUBSET Ready : DeletesStorage(S)
    BY <1>2
  <2>2. SumOf(S) \in Nat
    BY <1>0 DEF Ready
  <2>3. usage' \in Nat
    BY <1>0, <2>1, <2>2 DEF DeletesStorage, Debit, Typed, TypeOK
  <2>4. row' \in [Objects -> Row]
    BY <1>0, <2>1 DEF DeletesStorage, Typed, TypeOK, Row, Statuses
  <2>5. QED
    BY <1>0, <2>1, <2>3, <2>4
    DEF StorageEffect, DeletesStorage, LeavesRest, Typed, TypeOK, Fits, counters
<1>3. CASE \E S \in SUBSET Deleted : RestoresStorage(S)
  <2>1. PICK S \in SUBSET Deleted : RestoresStorage(S)
    BY <1>3
  <2>2. SumOf(S) \in Nat /\ S \in SUBSET Objects
    BY <1>0 DEF Deleted
  <2>3. usage' \in Nat
    BY <1>0, <2>1, <2>2 DEF RestoresStorage, Credit, Typed, TypeOK
  <2>4. row' \in [Objects -> Row]
    BY <1>0, <2>1 DEF RestoresStorage, Typed, TypeOK, Row, Statuses
  <2>5. QED
    BY <1>0, <2>1, <2>2, <2>3, <2>4
    DEF StorageEffect, RestoresStorage, LeavesRest, Typed, TypeOK, Fits, counters
<1>4. QED
  BY <1>1, <1>2, <1>3 DEF StorageEffect

\* The types of the photo lifecycle's own variables.
LifecycleTyped ==
  /\ offer \in [Offers -> {"active", "deleted", "removed"}]
  /\ photo \in [PhotoIds -> Photo]
  /\ tx \in [Clerks -> Tx]
  /\ txs \in 0 .. MaxTx
  /\ stripped \subseteq Objects /\ missed \subseteq Objects \cup Offers
  /\ Pictured

LEMMA PhotoTypedParts ==
  /\ PhotoTyped => Typed /\ LifecycleTyped
  /\ Typed' /\ LifecycleTyped' => PhotoTyped'
BY DEF PhotoTyped, PhotoTypeOK, Typed, LifecycleTyped

LEMMA ClosedTyped ==
  ASSUME LifecycleTyped, locked \subseteq Objects, NEW c \in Clerks, CloseTx(c)
  PROVE  tx' \in [Clerks -> Tx] /\ locked' \subseteq Objects
BY DEF LifecycleTyped, CloseTx, NoTx, Tx, Scopes

LEMMA ListedTyped ==
  ASSUME LifecycleTyped, NEW act, NEW scope \in Scopes, NEW fs \in SUBSET Offers
  PROVE  Listed(act, scope, fs) \in SUBSET Objects
BY DEF LifecycleTyped, Listed, Pictured, Scopes

LEMMA CascadingTyped ==
  ASSUME LifecycleTyped, NEW c \in Clerks, NEW act \in {"delete", "restore", "purge"},
         NEW scope \in Scopes, NEW fs \in SUBSET Offers, Cascading(c, act, scope, fs)
  PROVE  tx' \in [Clerks -> Tx]
<1> DEFINE t == [pc |-> "cascade", act |-> act, scope |-> scope, offers |-> fs,
                 listed |-> Listed(act, scope, fs)]
<1>1. t \in Tx
  BY ListedTyped DEF Tx
<1>2. tx' = [tx EXCEPT ![c] = t]
  BY DEF Cascading
<1> HIDE DEF t
<1>3. QED
  BY <1>1, <1>2 DEF LifecycleTyped

LEMMA PhotosTyped ==
  ASSUME LifecycleTyped,
         \A i \in PhotoIds : \/ photo'[i] = photo[i]
                             \/ photo'[i] = NoPhoto
                             \/ /\ photo[i].state # "none"
                                /\ \E s \in {"active", "manual"} \cup Scopes :
                                     photo'[i] = [photo[i] EXCEPT !.state = s]
                             \/ \E f \in Offers, o \in Objects \ Artifacts :
                                  photo'[i] = [state |-> "active", offer |-> f, obj |-> o],
         photo' = [i \in PhotoIds |-> photo'[i]]
  PROVE  photo' \in [PhotoIds -> Photo] /\ Pictured'
<1>1. ASSUME NEW i \in PhotoIds
      PROVE  /\ photo'[i] \in Photo
             /\ photo'[i].state # "none" =>
                  photo'[i].obj \in Objects \ Artifacts /\ photo'[i].offer \in Offers
  <2>1. photo[i] \in Photo
    BY DEF LifecycleTyped
  <2>2. photo[i].state # "none" =>
          photo[i].obj \in Objects \ Artifacts /\ photo[i].offer \in Offers
    BY DEF LifecycleTyped, Pictured
  <2>3. CASE photo'[i] = photo[i]
    BY <2>1, <2>2, <2>3
  <2>4. CASE photo'[i] = NoPhoto
    BY <2>4 DEF NoPhoto, Photo
  <2>5. CASE /\ photo[i].state # "none"
             /\ \E s \in {"active", "manual"} \cup Scopes :
                  photo'[i] = [photo[i] EXCEPT !.state = s]
    BY <2>1, <2>2, <2>5 DEF Photo
  <2>6. CASE \E f \in Offers, o \in Objects \ Artifacts :
               photo'[i] = [state |-> "active", offer |-> f, obj |-> o]
    BY <2>6 DEF Photo
  <2>7. QED
    BY <2>3, <2>4, <2>5, <2>6
<1>2. QED
  BY <1>1 DEF Pictured

LEMMA LifecycleStep ==
  ASSUME PhotoTyped, PhotoNext
  PROVE  LifecycleTyped' /\ locked' \subseteq Objects
<1>0. Typed /\ LifecycleTyped /\ locked \subseteq Objects
  BY PhotoTypedParts DEF Typed, TypeOK
<1>a. /\ \A c \in Clerks : /\ tx[c].listed \in SUBSET Objects
                           /\ tx[c].offers \in SUBSET Offers /\ tx[c].scope \in Scopes
      /\ \A i \in PhotoIds : photo[i] \in Photo
      /\ offer \in [Offers -> {"active", "deleted", "removed"}]
      /\ photo = [i \in PhotoIds |-> photo[i]]
  BY <1>0 DEF LifecycleTyped, Tx
<1>b. UNCHANGED photo => photo' \in [PhotoIds -> Photo] /\ Pictured'
  BY <1>0 DEF LifecycleTyped, Pictured
<1>c. ASSUME NEW c \in Clerks, NEW s \in {"active", "deleted", "removed"}, Writes(c, s)
      PROVE  offer' \in [Offers -> {"active", "deleted", "removed"}]
  BY <1>a, <1>c DEF Writes
<1> DEFINE Goal == LifecycleTyped' /\ locked' \subseteq Objects
<1>1. ASSUME NEW c \in Clerks, NEW f \in Offers, NEW o \in Objects, AttachLocks(c, f, o)
      PROVE  Goal
  <2> DEFINE t == [NoTx EXCEPT !.pc = "attach", !.offers = {f}, !.listed = {o}]
  <2>1. t \in Tx
    BY DEF NoTx, Tx, Scopes
  <2>2. tx' = [tx EXCEPT ![c] = t] /\ txs' = txs + 1 /\ txs < MaxTx
    BY <1>1 DEF AttachLocks, OpenTx
  <2> HIDE DEF t
  <2>3. tx' \in [Clerks -> Tx] /\ txs' \in 0 .. MaxTx
    BY <1>0, <2>1, <2>2, PhotosAssumption DEF LifecycleTyped
  <2>4. QED
    BY <1>1, <1>0, <1>b, <2>3 DEF AttachLocks, LifecycleTyped
<1>2. ASSUME NEW c \in Clerks, ListingReads(c)
      PROVE  Goal
  <2> DEFINE t == [NoTx EXCEPT !.pc = "ids", !.act = "delete", !.scope = "listing",
                      !.offers = {f \in Offers : offer[f] = "active"}]
  <2>1. t \in Tx
    BY DEF NoTx, Tx, Scopes
  <2>2. tx' = [tx EXCEPT ![c] = t] /\ txs' = txs + 1 /\ txs < MaxTx
    BY <1>2 DEF ListingReads, OpenTx
  <2> HIDE DEF t
  <2>3. tx' \in [Clerks -> Tx] /\ txs' \in 0 .. MaxTx
    BY <1>0, <2>1, <2>2, PhotosAssumption DEF LifecycleTyped
  <2>4. QED
    BY <1>2, <1>0, <1>b, <2>3 DEF ListingReads, LifecycleTyped
<1>3. ASSUME NEW c \in Clerks, NEW f \in Offers, NEW act \in {"delete", "restore", "purge"},
             offer[f] # "removed", CascadeLists(c, act, "offer", {f})
      PROVE  Goal
  <2>1. Cascading(c, act, "offer", {f}) /\ txs < MaxTx /\ txs' = txs + 1
    BY <1>3 DEF CascadeLists
  <2>2. tx' \in [Clerks -> Tx] /\ txs' \in 0 .. MaxTx
    BY <1>3, <1>0, <2>1, CascadingTyped, PhotosAssumption DEF LifecycleTyped, Scopes
  <2>3. QED
    BY <1>0, <1>b, <2>1, <2>2 DEF Cascading, LifecycleTyped
<1>4. ASSUME NEW c \in Clerks, NEW act \in {"restore", "purge"},
             CascadeLists(c, act, "listing", {f \in Offers : offer[f] # "removed"})
      PROVE  Goal
  <2>1. Cascading(c, act, "listing", {f \in Offers : offer[f] # "removed"}) /\ txs < MaxTx /\ txs' = txs + 1
    BY <1>4 DEF CascadeLists
  <2>2. tx' \in [Clerks -> Tx] /\ txs' \in 0 .. MaxTx
    BY <1>4, <1>0, <2>1, CascadingTyped, PhotosAssumption DEF LifecycleTyped, Scopes
  <2>3. QED
    BY <1>0, <1>b, <2>1, <2>2 DEF Cascading, LifecycleTyped
<1>5. ASSUME NEW c \in Clerks, AttachEnds(c)
      PROVE  Goal
  <2>1. PICK f \in tx[c].offers, o \in tx[c].listed :
          LET gone == {i \in RowsOf(f, o) : photo[i].state # "active"} IN
          /\ \/ gone # {} /\ photo' = [photo EXCEPT ![Newest(gone)].state = "active"]
             \/ /\ Attachable(f, o)
                /\ photo' = [photo EXCEPT ![Min(NextId)] =
                               [state |-> "active", offer |-> f, obj |-> o]]
             \/ UNCHANGED photo
          /\ CloseTx(c) /\ UNCHANGED <<offer, txs, stripped, missed>>
    BY <1>5 DEF AttachEnds
  <2> DEFINE gone == {i \in RowsOf(f, o) : photo[i].state # "active"}
  <2>2. gone \in SUBSET PhotoIds /\ \A i \in gone : photo[i].state # "none"
    BY DEF RowsOf, On
  <2>3. photo' \in [PhotoIds -> Photo] /\ Pictured'
    <3>1. CASE gone # {} /\ photo' = [photo EXCEPT ![Newest(gone)].state = "active"]
      <4>1. Newest(gone) \in gone
        BY <2>2, <3>1, NewestIn
      <4> HIDE DEF gone
      <4>2. QED
        BY <1>0, <1>a, <2>2, <3>1, <4>1, PhotosTyped
    <3>2. CASE /\ Attachable(f, o)
               /\ photo' = [photo EXCEPT ![Min(NextId)] =
                              [state |-> "active", offer |-> f, obj |-> o]]
      <4>1. f \in Offers /\ o \in Objects \ Artifacts
        BY <1>a, <3>2 DEF Attachable
      <4>2. QED
        BY <1>0, <1>a, <3>2, <4>1, PhotosTyped
    <3>3. QED
      BY <1>b, <2>1, <3>1, <3>2
  <2>4. tx' \in [Clerks -> Tx] /\ locked' \subseteq Objects
    BY <1>0, <2>1, ClosedTyped
  <2>5. QED
    BY <1>0, <2>1, <2>3, <2>4 DEF LifecycleTyped
<1>6. ASSUME NEW c \in Clerks, DeleteEnds(c)
      PROVE  Goal
  <2> DEFINE hit == {i \in PhotoIds : photo[i].state = "active"
                                      /\ photo[i].offer \in tx[c].offers}
  <2>1. photo' = [i \in PhotoIds |->
          IF i \in hit THEN [photo[i] EXCEPT !.state = tx[c].scope] ELSE photo[i]]
    BY <1>6 DEF DeleteEnds
  <2>2. photo' \in [PhotoIds -> Photo] /\ Pictured'
    BY <1>0, <1>a, <2>1, PhotosTyped
  <2>3. CloseTx(c) /\ Writes(c, "deleted") /\ UNCHANGED <<txs, stripped>>
    BY <1>6 DEF DeleteEnds
  <2>4. missed' \subseteq Objects \cup Offers
    BY <1>6, <1>0 DEF DeleteEnds, LifecycleTyped
  <2>5. tx' \in [Clerks -> Tx] /\ locked' \subseteq Objects
    BY <1>0, <2>3, ClosedTyped
  <2>6. QED
    BY <1>0, <1>c, <2>2, <2>3, <2>4, <2>5 DEF LifecycleTyped
<1>7. ASSUME NEW c \in Clerks, RestoreEnds(c)
      PROVE  Goal
  <2>1. PICK hit \in SUBSET PhotoIds :
          /\ \A i \in hit : photo[i].state # "none"
          /\ \/ photo' = [i \in PhotoIds |->
                  IF i \in hit THEN [photo[i] EXCEPT !.state = "active"] ELSE photo[i]]
             \/ UNCHANGED photo
    <3> DEFINE back == {o \in tx[c].listed \ Artifacts : Status(o) = "deleted"}
               hit == {i \in PhotoIds : /\ photo[i].state = tx[c].scope
                                        /\ photo[i].offer \in tx[c].offers
                                        /\ \/ photo[i].obj \in back
                                           \/ Status(photo[i].obj) = "ready"}
    <3>1. hit \in SUBSET PhotoIds /\ \A i \in hit : photo[i].state # "none"
      BY <1>a DEF Scopes
    <3>2. \/ photo' = [i \in PhotoIds |->
               IF i \in hit THEN [photo[i] EXCEPT !.state = "active"] ELSE photo[i]]
          \/ UNCHANGED photo
      BY <1>7 DEF RestoreEnds
    <3> HIDE DEF hit
    <3>3. QED
      BY <3>1, <3>2
  <2>2. photo' \in [PhotoIds -> Photo] /\ Pictured'
    <3>1. CASE photo' = [i \in PhotoIds |->
                 IF i \in hit THEN [photo[i] EXCEPT !.state = "active"] ELSE photo[i]]
      BY <1>0, <1>a, <2>1, <3>1, PhotosTyped
    <3>2. QED
      BY <1>b, <2>1, <3>1
  <2>3. CloseTx(c) /\ (Writes(c, "active") \/ UNCHANGED offer)
        /\ UNCHANGED <<txs, stripped, missed>>
    BY <1>7 DEF RestoreEnds
  <2>4. tx' \in [Clerks -> Tx] /\ locked' \subseteq Objects
    BY <1>0, <2>3, ClosedTyped
  <2>5. QED
    BY <1>0, <1>c, <2>2, <2>3, <2>4 DEF LifecycleTyped
<1>8. ASSUME NEW c \in Clerks, PurgeEnds(c)
      PROVE  Goal
  <2> DEFINE hit == {i \in PhotoIds : photo[i].state # "none"
                                      /\ photo[i].offer \in tx[c].offers}
  <2>1. photo' = [i \in PhotoIds |-> IF i \in hit THEN NoPhoto ELSE photo[i]]
    BY <1>8 DEF PurgeEnds
  <2>2. photo' \in [PhotoIds -> Photo] /\ Pictured'
    BY <1>0, <1>a, <2>1, PhotosTyped
  <2>3. CloseTx(c) /\ Writes(c, "removed") /\ UNCHANGED <<txs, stripped>>
    BY <1>8 DEF PurgeEnds
  <2>4. missed' \subseteq Objects \cup Offers
    <3>1. {photo[i].obj : i \in hit} \subseteq Objects
      BY <1>0 DEF LifecycleTyped, Pictured
    <3>2. QED
      BY <1>8, <1>0, <3>1 DEF PurgeEnds, LifecycleTyped
  <2>5. tx' \in [Clerks -> Tx] /\ locked' \subseteq Objects
    BY <1>0, <2>3, ClosedTyped
  <2>6. QED
    BY <1>0, <1>c, <2>2, <2>3, <2>4, <2>5 DEF LifecycleTyped
<1>9. ASSUME NEW c \in Clerks, ListingLists(c)
      PROVE  Goal
  <2>1. Cascading(c, "delete", "listing", tx[c].offers) /\ UNCHANGED txs
    BY <1>9 DEF ListingLists
  <2>2. tx' \in [Clerks -> Tx]
    BY <1>9, <1>0, <1>a, <2>1, CascadingTyped DEF Scopes
  <2>3. QED
    BY <1>0, <1>b, <2>1, <2>2 DEF Cascading, LifecycleTyped
<1>10. ASSUME NEW c \in Clerks, RollsBack(c)
      PROVE  Goal
  <2>1. tx' \in [Clerks -> Tx] /\ locked' \subseteq Objects
    BY <1>10, <1>0, ClosedTyped DEF RollsBack
  <2>2. QED
    BY <1>10, <1>0, <1>b, <2>1 DEF RollsBack, LifecycleTyped
<1>11. ASSUME NEW i \in PhotoIds, RemovePhoto(i)
      PROVE  Goal
  <2>1. photo[i].state # "none" /\ photo' = [photo EXCEPT ![i].state = "manual"]
    BY <1>11 DEF RemovePhoto
  <2>2. photo' \in [PhotoIds -> Photo] /\ Pictured'
    BY <1>0, <1>a, <2>1, PhotosTyped
  <2>3. txs' \in 0 .. MaxTx
    BY <1>11, <1>0, PhotosAssumption DEF RemovePhoto, LifecycleTyped
  <2>4. QED
    BY <1>11, <1>0, <2>2, <2>3 DEF RemovePhoto, LifecycleTyped
<1>12. QED
  BY <1>1, <1>2, <1>3, <1>4, <1>5, <1>6, <1>7, <1>8, <1>9, <1>10, <1>11
  DEF PhotoNext, CascadeOf, Proceeding

LEMMA PhotoTypedStep ==
  ASSUME PhotoTyped, PhotoNext
  PROVE  PhotoTyped' /\ StorageEffect /\ odd \subseteq odd'
BY PhotoEffect, LifecycleStep, EffectTyped, PhotoTypedParts

LEMMA StorageTypedStep ==
  ASSUME PhotoTyped, StorageStep
  PROVE  PhotoTyped'
<1>1. Typed'
  BY PhotoTypedParts, TypedStep DEF StorageStep
<1>2. LifecycleTyped
  BY PhotoTypedParts
<1>3. LifecycleTyped'
  BY <1>2 DEF StorageStep, LifecycleTyped, Pictured
<1>4. QED
  BY <1>1, <1>3, PhotoTypedParts

LEMMA PhotoTypedInit == PhotoInit => PhotoTyped
<1>1. PhotoInit => Typed
  BY TypedInit DEF PhotoInit
<1>2. PhotoInit => LifecycleTyped
  BY PhotosAssumption
  DEF PhotoInit, LifecycleTyped, Pictured, NoPhoto, NoTx, Photo, Tx, Scopes
<1>3. QED
  BY <1>1, <1>2 DEF PhotoTyped, PhotoTypeOK, Typed, LifecycleTyped

LEMMA PhotoTypedStill ==
  ASSUME PhotoTyped, UNCHANGED allVars
  PROVE  PhotoTyped'
<1>1. Typed' /\ LifecycleTyped'
  BY PhotoTypedParts
  DEF allVars, vars, photoVars, counters, Typed, TypeOK, Fits, LifecycleTyped, Pictured
<1>2. QED
  BY <1>1, PhotoTypedParts

\* Every variable of the photo lifecycle keeps its type, composed with the
\* storage steps: the usage counter among them never falls below zero.
THEOREM PhotosAreTyped == PhotoSpec => []PhotoTypeOK
<1>1. PhotoTyped /\ [PhotoNext \/ StorageStep]_allVars => PhotoTyped'
  BY PhotoTypedStep, StorageTypedStep, PhotoTypedStill
<1>2. PhotoTyped => PhotoTypeOK
  BY DEF PhotoTyped
<1>3. QED
  BY <1>1, <1>2, PhotoTypedInit, PTL DEF PhotoSpec

-----------------------------------------------------------------------------
(* The bytes of a ready object.                                            *)

ReadyBytes ==
  \A o \in Objects \ Artifacts : Status(o) = "ready" => bucket[o] # 0 \/ o \in odd

\* A step that takes the bytes away, or the ready status other than by a
\* deletion, meets the object in a status it is not meant for.
LEMMA ObjectKept ==
  ASSUME Typed, Fresh, StorageNext, NEW x \in Objects \ Artifacts
  PROVE  /\ bucket[x] # 0 => \/ bucket'[x] # 0 \/ x \in odd'
                             \/ Status(x) # "ready" /\ row' = row
         /\ Status(x) = "ready" => \/ row'[x].status \in {"ready", "deleted"}
                                   \/ x \in odd'
<1>0. RestTyped /\ \A p \in Requests : OpFits(op[p])
  BY TypedParts
<1> DEFINE Goal ==
         /\ bucket[x] # 0 => \/ bucket'[x] # 0 \/ x \in odd'
                             \/ Status(x) # "ready" /\ row' = row
         /\ Status(x) = "ready" => \/ row'[x].status \in {"ready", "deleted"}
                                   \/ x \in odd'
<1>a. row' = row /\ bucket' = bucket => Goal
  BY DEF Status
<1>1. ASSUME NEW p \in Requests, NEW o \in Objects, NEW n \in Sizes, Admits(p, o, n)
      PROVE  Goal
  BY <1>1, <1>a DEF Admits
<1>2. ASSUME NEW p \in Requests, NEW o \in Objects, Complete(p, o)
      PROVE  Goal
  BY <1>2, <1>a DEF Complete
<1>3. ASSUME NEW p \in Requests, NEW o \in Objects, Delete(p, o)
      PROVE  Goal
  BY <1>3, <1>a DEF Delete
<1>4. ASSUME NEW p \in Requests, NEW o \in Objects, PurgeNow(p, o)
      PROVE  Goal
  BY <1>4, <1>a DEF PurgeNow
<1>5. ASSUME NEW p \in Requests, Insert(p)
      PROVE  Goal
  <2>1. bucket' = bucket
    BY <1>5 DEF Insert
  <2>2. Status(x) = "ready" => row'[x].status \in {"ready", "deleted"} \/ x \in odd'
    BY <1>5, <1>0 DEF Insert, Fresh, Status, RestTyped, Row
  <2>3. QED
    BY <2>1, <2>2
<1>6. ASSUME NEW p \in Requests, Put(p)
      PROVE  Goal
  <2>1. op[p].obj \in Artifacts
    BY <1>6, <1>0 DEF Put, OpFits
  <2>2. bucket'[x] = bucket[x] /\ row' = row
    BY <1>6, <1>0, <2>1 DEF Put, RestTyped
  <2>3. QED
    BY <2>2 DEF Status
<1>7. ASSUME NEW p \in Requests, Head(p)
      PROVE  Goal
  BY <1>7, <1>a DEF Head
<1>8. ASSUME NEW p \in Requests, Scan(p)
      PROVE  Goal
  BY <1>8, <1>a DEF Scan
<1>9. ASSUME NEW p \in Requests, Discard(p)
      PROVE  Goal
  <2>1. row' = row /\ (bucket'[x] = bucket[x] \/ Status(x) # "ready" \/ x \in odd')
    BY <1>9, <1>0 DEF Discard, Meant, RestTyped
  <2>2. QED
    BY <2>1 DEF Status
<1>10. ASSUME NEW p \in Requests, MarkFailed(p)
      PROVE  Goal
  <2>1. bucket' = bucket
    BY <1>10 DEF MarkFailed
  <2>2. Status(x) = "ready" => row'[x].status \in {"ready", "deleted"} \/ x \in odd'
    BY <1>10, <1>0 DEF MarkFailed, SetStatus, Meant, Exists, Status, RestTyped, Row
  <2>3. QED
    BY <2>1, <2>2
<1>11. ASSUME NEW p \in Requests, MarkReady(p)
      PROVE  Goal
  <2>1. bucket' = bucket
    BY <1>11 DEF MarkReady
  <2>2. Status(x) = "ready" => row'[x].status \in {"ready", "deleted"} \/ x \in odd'
    BY <1>11, <1>0 DEF MarkReady, Exists, Status, RestTyped, Row
  <2>3. QED
    BY <2>1, <2>2
<1>12. ASSUME NEW p \in Requests, MarkDeleted(p)
      PROVE  Goal
  <2>1. bucket' = bucket
    BY <1>12 DEF MarkDeleted
  <2>2. Status(x) = "ready" => row'[x].status \in {"ready", "deleted"} \/ x \in odd'
    BY <1>12, <1>0 DEF MarkDeleted, SetStatus, Meant, Exists, Status, RestTyped, Row
  <2>3. QED
    BY <2>1, <2>2
<1>13. ASSUME NEW p \in Requests, PurgeBytes(p)
      PROVE  Goal
  <2>1. op[p].obj \in Artifacts
    BY <1>13, <1>0 DEF PurgeBytes, OpFits
  <2>2. bucket'[x] = bucket[x] /\ row' = row
    BY <1>13, <1>0, <2>1 DEF PurgeBytes, RestTyped
  <2>3. QED
    BY <2>2 DEF Status
<1>14. ASSUME NEW p \in Requests, Drop(p)
      PROVE  Goal
  <2>1. op[p].obj \in Artifacts
    BY <1>14, <1>0 DEF Drop, OpFits
  <2>2. row'[x] = row[x] /\ bucket' = bucket
    BY <1>14, <1>0, <2>1 DEF Drop, RestTyped
  <2>3. QED
    BY <2>2 DEF Status
<1>15. ASSUME NEW k \in Kinds, SweepLists(k)
      PROVE  Goal
  BY <1>15, <1>a DEF SweepLists
<1>16. ASSUME NEW k \in Kinds, NEW o \in Objects, SweepDiscards(k, o)
      PROVE  Goal
  <2>1. row' = row /\ (bucket'[x] = bucket[x] \/ Status(x) # "ready" \/ x \in odd')
    BY <1>16, <1>0 DEF SweepDiscards, Meant, RestTyped, Kinds
  <2>2. QED
    BY <2>1 DEF Status
<1>17. ASSUME NEW k \in Kinds, NEW o \in Objects, SweepMarks(k, o)
      PROVE  Goal
  <2>1. bucket' = bucket
    BY <1>17 DEF SweepMarks
  <2>2. Status(x) = "ready" => row'[x].status \in {"ready", "deleted"} \/ x \in odd'
    BY <1>17, <1>0 DEF SweepMarks, SetStatus, Meant, Exists, Kinds, Status, RestTyped, Row
  <2>3. QED
    BY <2>1, <2>2
<1>18. ASSUME NEW o \in Objects, Posted(o)
      PROVE  Goal
  BY <1>18, <1>0, SizesAssumption DEF Posted, RestTyped, Status
<1>19. ASSUME NEW o \in Objects, LinkExpires(o)
      PROVE  Goal
  BY <1>19, <1>a DEF LinkExpires
<1>20. ASSUME NEW o \in Objects, Ages(o)
      PROVE  Goal
  BY <1>20, <1>a DEF Ages
<1>21. ASSUME Crash
      PROVE  Goal
  BY <1>21, <1>a DEF Crash
<1>22. QED
  BY <1>1, <1>2, <1>3, <1>4, <1>5, <1>6, <1>7, <1>8, <1>9, <1>10, <1>11,
     <1>12, <1>13, <1>14, <1>15, <1>16, <1>17, <1>18, <1>19, <1>20, <1>21
  DEF StorageNext, Starts, Proceeds, Sweeps

LEMMA ReadyBytesStep ==
  ASSUME Typed, Fresh, ReadyBytes, StorageNext
  PROVE  ReadyBytes'
<1> SUFFICES ASSUME NEW o \in Objects \ Artifacts, row'[o].status = "ready"
             PROVE  bucket'[o] # 0 \/ o \in odd'
  BY DEF ReadyBytes, Status
<1>1. Evolves(o) /\ odd \subseteq odd'
  BY Evolution
<1>2. CASE Status(o) = "ready"
  BY <1>1, <1>2, ObjectKept DEF ReadyBytes
<1>3. CASE Status(o) # "ready"
  <2>1. row'[o] # row[o] /\ row' # row
    BY <1>3 DEF Status
  <2>2. bucket[o] # 0 \/ o \in odd'
    <3>1. \A n : row'[o] # [status |-> "pending", size |-> n]
      OBVIOUS
    <3>2. QED
      BY <1>1, <2>1, <3>1, Zenon DEF Evolves
  <2>3. QED
    BY <2>1, <2>2, ObjectKept
<1>4. QED
  BY <1>2, <1>3

LEMMA ReadyBytesEffect ==
  ASSUME Typed, ReadyBytes, StorageEffect
  PROVE  ReadyBytes'
<1>1. CASE LeavesStorage
  BY <1>1 DEF StorageEffect, LeavesStorage, LeavesRest, ReadyBytes, Status
<1>2. ASSUME NEW S \in SUBSET Ready, DeletesStorage(S)
      PROVE  ReadyBytes'
  BY <1>2 DEF StorageEffect, LeavesRest, DeletesStorage, ReadyBytes, Status, Typed,
              TypeOK, Row
<1>3. ASSUME NEW S \in SUBSET Deleted, RestoresStorage(S)
      PROVE  ReadyBytes'
  BY <1>3 DEF StorageEffect, LeavesRest, RestoresStorage, ReadyBytes, Status, Typed,
              TypeOK, Row
<1>4. QED
  BY <1>1, <1>2, <1>3 DEF StorageEffect

LEMMA FreshEffect ==
  ASSUME Typed, Fresh, StorageEffect
  PROVE  Fresh'
<1>1. \A o \in Objects : Status(o) = "none" => row'[o].status = "none"
  BY DEF StorageEffect, LeavesStorage, DeletesStorage, RestoresStorage, Ready, Deleted,
         Status
<1>2. \A p \in Requests : op[p].pc = "insert" => op[p].obj \in Objects
  BY TypedParts, BusyFits
<1>3. op' = op
  BY DEF StorageEffect, LeavesRest
<1>4. QED
  BY <1>1, <1>2, <1>3 DEF Fresh, Status

LEMMA UsageEffect ==
  ASSUME Typed, Typed', UsageExact, StorageEffect, odd \subseteq odd'
  PROVE  UsageExact'
<1>0. \A o \in Objects : row[o].size \in Nat /\ row'[o].size \in Nat
  BY SizesNat, SizesNatNext
<1>1. CASE LeavesStorage
  BY <1>1, UsageSame DEF LeavesStorage
<1>2. CASE odd' # {}
  BY <1>2 DEF UsageExact
<1>3. ASSUME NEW S \in SUBSET Ready, DeletesStorage(S), odd' = {}
      PROVE  UsageExact'
  <2>1. Ready' = Ready \ S /\ \A o \in Ready' : row'[o] = row[o]
    BY <1>3 DEF DeletesStorage, Ready, Status, Typed, TypeOK, Row
  <2>2. SumOf(S) = Sum(row, S)
    BY DEF SumOf, Units, Sum, UnitsIn
  <2>3. Debit(Sum(row, S)) /\ odd = {}
    BY <1>3, <2>2 DEF DeletesStorage
  <2>4. QED
    BY <1>0, <2>1, <2>3, UsageDebited
<1>4. ASSUME NEW S \in SUBSET Deleted, RestoresStorage(S), odd' = {}
      PROVE  UsageExact'
  <2>1. /\ Ready' = Ready \cup S /\ \A o \in Ready : row'[o] = row[o]
        /\ S \cap Ready = {} /\ S \in SUBSET Objects
        /\ \A o \in S : row'[o].size = row[o].size
    BY <1>4 DEF RestoresStorage, Ready, Deleted, Status, Typed, TypeOK, Row
  <2>2. SumOf(S) = Sum(row', S)
    <3>1. UnitsIn(row, S) = UnitsIn(row', S)
      BY <2>1 DEF UnitsIn
    <3>2. QED
      BY <3>1 DEF SumOf, Units, Sum, UnitsIn
  <2>3. usage' = usage + Sum(row', S) /\ odd = {}
    BY <1>4, <2>2 DEF RestoresStorage, Credit
  <2>4. QED
    BY <1>0, <2>1, <2>3, UsageCredited
<1>5. QED
  BY <1>1, <1>2, <1>3, <1>4 DEF StorageEffect

\* The usage counter stays exact when photo transactions delete and restore
\* objects next to the uploads, deletions and sweeps.
THEOREM PhotosKeepUsage == PhotoSpec => []UsageExact
<1> DEFINE Inv == PhotoTyped /\ Fresh /\ UsageExact
<1>1. PhotoInit => Inv
  BY PhotoTypedInit, NothingYet DEF PhotoInit
<1>2. Inv /\ PhotoNext => Inv'
  <2>1. PhotoTyped' => Typed'
    BY DEF PhotoTyped, PhotoTypeOK, Typed
  <2>2. QED
    BY <2>1, PhotoTypedParts, PhotoTypedStep, FreshEffect, UsageEffect
<1>3. Inv /\ StorageStep => Inv'
  BY PhotoTypedParts, StorageTypedStep, FreshStep, UsageStep DEF StorageStep
<1>4. Inv /\ UNCHANGED allVars => Inv'
  BY PhotoTypedParts, PhotoTypedStill, StorageStill DEF allVars
<1>5. QED
  BY <1>1, <1>2, <1>3, <1>4, PTL DEF PhotoSpec

-----------------------------------------------------------------------------
(* What an attachment and a restoration do.                                *)

AttachesOne(c, f, o) ==
  /\ f \in tx[c].offers /\ o \in tx[c].listed /\ f \notin Held /\ tx[c].pc = "attach"
  /\ CloseTx(c) /\ UNCHANGED <<offer, txs, stripped, missed>>
  /\ \/ /\ Attachable(f, o) /\ {o} \in SUBSET Deleted /\ RestoresStorage({o})
        /\ \E i \in RowsOf(f, o) : /\ photo[i].state # "active"
                                   /\ photo' = [photo EXCEPT ![i].state = "active"]
     \/ /\ Attachable(f, o) /\ Status(o) = "ready" /\ LeavesStorage
        /\ photo' = [photo EXCEPT ![Min(NextId)] =
                       [state |-> "active", offer |-> f, obj |-> o]]
     \/ LeavesStorage /\ UNCHANGED photo

LEMMA AttachCases ==
  ASSUME PhotoTyped, NEW c \in Clerks, AttachEnds(c)
  PROVE  \E f \in Offers, o \in Objects : AttachesOne(c, f, o)
<1>1. PICK f \in tx[c].offers, o \in tx[c].listed :
        LET gone == {i \in RowsOf(f, o) : photo[i].state # "active"} IN
        /\ f \notin Held /\ tx[c].pc = "attach"
        /\ \/ /\ Attachable(f, o) /\ Status(o) = "deleted" /\ RestoresStorage({o})
              /\ gone # {} /\ photo' = [photo EXCEPT ![Newest(gone)].state = "active"]
           \/ /\ Attachable(f, o) /\ Status(o) = "ready" /\ LeavesStorage
              /\ photo' = [photo EXCEPT ![Min(NextId)] =
                             [state |-> "active", offer |-> f, obj |-> o]]
           \/ LeavesStorage /\ UNCHANGED photo
        /\ CloseTx(c) /\ UNCHANGED <<offer, txs, stripped, missed>>
  BY DEF AttachEnds
<1>2. f \in Offers /\ o \in Objects
  BY DEF PhotoTyped, PhotoTypeOK, Tx
<1> DEFINE gone == {i \in RowsOf(f, o) : photo[i].state # "active"}
<1>3. gone # {} => Newest(gone) \in gone
  <2>1. gone \in SUBSET PhotoIds
    BY DEF RowsOf
  <2> HIDE DEF gone
  <2>2. QED
    BY <2>1, NewestIn
<1>4. Attachable(f, o) /\ Status(o) = "deleted" => {o} \in SUBSET Deleted
  BY <1>2 DEF Attachable, Deleted
<1>5. AttachesOne(c, f, o)
  BY <1>1, <1>3, <1>4 DEF AttachesOne
<1>6. QED
  BY <1>2, <1>5

Restores(c, S, hit) ==
  /\ S = {o \in tx[c].listed \ Artifacts : Status(o) = "deleted"}
  /\ hit = {i \in PhotoIds : /\ photo[i].state = tx[c].scope
                             /\ photo[i].offer \in tx[c].offers
                             /\ photo[i].obj \in S \/ Status(photo[i].obj) = "ready"}
  /\ RestoresStorage(S)
  /\ photo' = [i \in PhotoIds |->
       IF i \in hit THEN [photo[i] EXCEPT !.state = "active"] ELSE photo[i]]
  /\ Writes(c, "active")

LEMMA RestoreCases ==
  ASSUME PhotoTyped, NEW c \in Clerks, RestoreEnds(c)
  PROVE  /\ Cascades(c, "restore") /\ CloseTx(c) /\ UNCHANGED <<txs, stripped, missed>>
         /\ \/ LeavesStorage /\ UNCHANGED <<photo, offer>>
            \/ \E S \in SUBSET Deleted, hit \in SUBSET PhotoIds : Restores(c, S, hit)
<1> DEFINE S == {o \in tx[c].listed \ Artifacts : Status(o) = "deleted"}
           hit == {i \in PhotoIds : /\ photo[i].state = tx[c].scope
                                    /\ photo[i].offer \in tx[c].offers
                                    /\ \/ photo[i].obj \in S
                                       \/ Status(photo[i].obj) = "ready"}
<1>1. S \in SUBSET Deleted /\ hit \in SUBSET PhotoIds
  BY DEF Deleted, PhotoTyped, PhotoTypeOK, Tx
<1>2. (LeavesStorage /\ UNCHANGED <<photo, offer>>) \/ Restores(c, S, hit)
  BY DEF RestoreEnds, Restores
<1>3. Cascades(c, "restore") /\ CloseTx(c) /\ UNCHANGED <<txs, stripped, missed>>
  BY DEF RestoreEnds
<1> HIDE DEF S, hit
<1>4. QED
  BY <1>1, <1>2, <1>3

-----------------------------------------------------------------------------
(* Active photos and their objects.                                        *)

ActiveReady ==
  \A i \in PhotoIds : photo[i].state = "active" =>
    Status(photo[i].obj) = "ready" \/ photo[i].obj \in odd \cup stripped

LEMMA DeletesBacked ==
  ASSUME PhotoTyped, ActiveReady, NEW S, NEW gone \in SUBSET PhotoIds,
         DeletesStorage(Unreferenced(S, gone)), stripped' = stripped,
         \A i \in PhotoIds : IF i \in gone THEN photo'[i].state # "active"
                                           ELSE photo'[i] = photo[i]
  PROVE  ActiveReady'
<1> SUFFICES ASSUME NEW i \in PhotoIds, photo'[i].state = "active"
             PROVE  \/ row'[photo'[i].obj].status = "ready"
                    \/ photo'[i].obj \in odd' \cup stripped'
  BY DEF ActiveReady, Status
<1>1. i \notin gone /\ photo'[i] = photo[i] /\ photo[i].state = "active"
  OBVIOUS
<1>2. photo[i].obj \in Objects
  BY <1>1 DEF PhotoTyped, Pictured
<1>3. photo[i].obj \notin Unreferenced(S, gone)
  BY <1>1 DEF Unreferenced, On
<1>4. row'[photo[i].obj] = row[photo[i].obj] /\ odd' = odd
  BY <1>2, <1>3 DEF DeletesStorage
<1>5. QED
  BY <1>1, <1>4 DEF ActiveReady, Status

LEMMA RestoresBacked ==
  ASSUME PhotoTyped, ActiveReady, NEW S \in SUBSET Deleted, RestoresStorage(S),
         stripped' = stripped,
         \A i \in PhotoIds : \/ photo'[i] = photo[i]
                             \/ photo'[i].obj \in S
                             \/ photo'[i].obj \in Ready
  PROVE  ActiveReady'
<1> SUFFICES ASSUME NEW i \in PhotoIds, photo'[i].state = "active"
             PROVE  \/ row'[photo'[i].obj].status = "ready"
                    \/ photo'[i].obj \in odd' \cup stripped'
  BY DEF ActiveReady, Status
<1>1. S \in SUBSET Objects /\ \A o \in S : row[o] \in Row
  BY DEF Deleted, PhotoTyped, PhotoTypeOK, TypeOK
<1>2. \A o \in S : row'[o].status = "ready"
  BY <1>1 DEF RestoresStorage, Row
<1>3. \A o \in Ready : row'[o].status = "ready"
  BY <1>1 DEF RestoresStorage, Row, Ready, Deleted, Status
<1>4. CASE photo'[i] = photo[i]
  <2>1. photo[i].obj \in Objects
    BY <1>4 DEF PhotoTyped, Pictured
  <2>2. QED
    BY <1>3, <1>4, <2>1 DEF ActiveReady, Ready, RestoresStorage
<1>5. QED
  BY <1>2, <1>3, <1>4

LEMMA ActiveReadyStep ==
  ASSUME PhotoTyped, ActiveReady, PhotoNext
  PROVE  ActiveReady'
<1>a. LeavesStorage /\ UNCHANGED <<photo, stripped>> => ActiveReady'
  BY DEF LeavesStorage, ActiveReady, Status
<1>1. ASSUME NEW c \in Clerks, NEW f \in Offers, NEW o \in Objects, AttachLocks(c, f, o)
      PROVE  ActiveReady'
  BY <1>1, <1>a DEF AttachLocks
<1>2. ASSUME NEW c \in Clerks, ListingReads(c)
      PROVE  ActiveReady'
  BY <1>2, <1>a DEF ListingReads
<1>3. ASSUME NEW c \in Clerks, NEW f \in Offers, NEW act \in {"delete", "restore", "purge"},
             offer[f] # "removed", CascadeLists(c, act, "offer", {f})
      PROVE  ActiveReady'
  BY <1>3, <1>a DEF CascadeLists, Cascading
<1>4. ASSUME NEW c \in Clerks, NEW act \in {"restore", "purge"},
             CascadeLists(c, act, "listing", {f \in Offers : offer[f] # "removed"})
      PROVE  ActiveReady'
  BY <1>4, <1>a DEF CascadeLists, Cascading
<1>5. ASSUME NEW c \in Clerks, AttachEnds(c)
      PROVE  ActiveReady'
  <2>1. PICK f \in Offers, o \in Objects : AttachesOne(c, f, o)
    BY <1>5, AttachCases
  <2>2. ASSUME {o} \in SUBSET Deleted, RestoresStorage({o}), NEW i \in RowsOf(f, o),
               photo' = [photo EXCEPT ![i].state = "active"]
        PROVE  ActiveReady'
    <3>1. /\ i \in PhotoIds /\ photo[i].obj = o /\ photo[i] \in Photo
          /\ photo \in [PhotoIds -> Photo]
      BY DEF RowsOf, On, PhotoTyped, PhotoTypeOK
    <3>2. photo'[i].obj = o /\ \A j \in PhotoIds \ {i} : photo'[j] = photo[j]
      BY <2>2, <3>1 DEF Photo
    <3>3. stripped' = stripped
      BY <2>1 DEF AttachesOne
    <3>4. QED
      BY <2>2, <3>2, <3>3, RestoresBacked
  <2>3. ASSUME Status(o) = "ready", LeavesStorage,
               photo' = [photo EXCEPT ![Min(NextId)] =
                           [state |-> "active", offer |-> f, obj |-> o]]
        PROVE  ActiveReady'
    <3>1. \A i \in PhotoIds : photo'[i] = photo[i] \/ photo'[i].obj = o
      BY <2>3 DEF PhotoTyped, PhotoTypeOK
    <3>2. stripped' = stripped
      BY <2>1 DEF AttachesOne
    <3>3. QED
      BY <2>3, <3>1, <3>2 DEF ActiveReady, LeavesStorage, Status
  <2>4. QED
    BY <1>a, <2>1, <2>2, <2>3 DEF AttachesOne
<1>6. ASSUME NEW c \in Clerks, DeleteEnds(c)
      PROVE  ActiveReady'
  <2> DEFINE hit == {i \in PhotoIds : photo[i].state = "active"
                                      /\ photo[i].offer \in tx[c].offers}
             S == tx[c].listed \cap {photo[i].obj : i \in hit}
  <2>1. DeletesStorage(Unreferenced(S, hit)) /\ stripped' = stripped
    BY <1>6 DEF DeleteEnds
  <2>2. \A i \in PhotoIds : IF i \in hit THEN photo'[i].state # "active"
                                         ELSE photo'[i] = photo[i]
    BY <1>6 DEF DeleteEnds, PhotoTyped, PhotoTypeOK, Photo, Tx, Scopes
  <2>3. hit \in SUBSET PhotoIds
    OBVIOUS
  <2> HIDE DEF hit, S
  <2>4. QED
    BY <2>1, <2>2, <2>3, DeletesBacked
<1>7. ASSUME NEW c \in Clerks, RestoreEnds(c)
      PROVE  ActiveReady'
  <2>1. ASSUME NEW S \in SUBSET Deleted, NEW hit \in SUBSET PhotoIds,
               Restores(c, S, hit), stripped' = stripped
        PROVE  ActiveReady'
    <3>1. ASSUME NEW i \in PhotoIds
          PROVE  photo'[i] = photo[i] \/ photo'[i].obj \in S \/ photo'[i].obj \in Ready
      <4>1. photo[i] \in Photo
        BY DEF PhotoTyped, PhotoTypeOK
      <4>2. CASE i \in hit
        <5>1. photo'[i].obj = photo[i].obj
          BY <2>1, <4>1, <4>2 DEF Restores, Photo
        <5>2. photo[i].state # "none"
          BY <2>1, <4>2 DEF Restores, PhotoTyped, PhotoTypeOK, Tx, Scopes
        <5>3. photo[i].obj \in Objects
          BY <5>2 DEF PhotoTyped, Pictured
        <5>4. QED
          BY <2>1, <4>2, <5>1, <5>3 DEF Restores, Ready
      <4>3. CASE i \notin hit
        BY <2>1, <4>3 DEF Restores
      <4>4. QED
        BY <4>2, <4>3
    <3>2. RestoresStorage(S)
      BY <2>1 DEF Restores
    <3>3. QED
      BY <2>1, <3>1, <3>2, RestoresBacked
  <2>2. QED
    BY <1>7, <1>a, <2>1, RestoreCases
<1>8. ASSUME NEW c \in Clerks, PurgeEnds(c)
      PROVE  ActiveReady'
  <2> DEFINE hit == {i \in PhotoIds : photo[i].state # "none"
                                      /\ photo[i].offer \in tx[c].offers}
  <2>1. DeletesStorage(Unreferenced(tx[c].listed, hit)) /\ stripped' = stripped
    BY <1>8 DEF PurgeEnds
  <2>2. \A i \in PhotoIds : IF i \in hit THEN photo'[i].state # "active"
                                         ELSE photo'[i] = photo[i]
    BY <1>8 DEF PurgeEnds, NoPhoto
  <2>3. hit \in SUBSET PhotoIds
    OBVIOUS
  <2> HIDE DEF hit
  <2>4. QED
    BY <2>1, <2>2, <2>3, DeletesBacked
<1>9. ASSUME NEW c \in Clerks, ListingLists(c)
      PROVE  ActiveReady'
  BY <1>9, <1>a DEF ListingLists, Cascading
<1>10. ASSUME NEW c \in Clerks, RollsBack(c)
      PROVE  ActiveReady'
  BY <1>10, <1>a DEF RollsBack
<1>11. ASSUME NEW i \in PhotoIds, RemovePhoto(i)
      PROVE  ActiveReady'
  <2>1. DeletesStorage(Unreferenced({photo[i].obj}, {i})) /\ stripped' = stripped
    BY <1>11 DEF RemovePhoto
  <2>2. \A j \in PhotoIds : IF j \in {i} THEN photo'[j].state # "active"
                                         ELSE photo'[j] = photo[j]
    BY <1>11 DEF RemovePhoto, PhotoTyped, PhotoTypeOK, Photo
  <2>3. {i} \in SUBSET PhotoIds
    OBVIOUS
  <2>4. QED
    BY <2>1, <2>2, <2>3, DeletesBacked
<1>12. QED
  BY <1>1, <1>2, <1>3, <1>4, <1>5, <1>6, <1>7, <1>8, <1>9, <1>10, <1>11
  DEF PhotoNext, CascadeOf, Proceeding

LEMMA ActiveReadyStorage ==
  ASSUME PhotoTyped, Fresh, ActiveReady, StorageStep
  PROVE  ActiveReady'
<1> SUFFICES ASSUME NEW i \in PhotoIds, photo[i].state = "active"
             PROVE  \/ row'[photo[i].obj].status = "ready"
                    \/ photo[i].obj \in odd' \cup stripped'
  BY DEF ActiveReady, Status, StorageStep
<1> DEFINE o == photo[i].obj
<1>1. Typed /\ StorageNext /\ o \in Objects \ Artifacts
  BY PhotoTypedParts DEF PhotoTyped, Pictured, StorageStep
<1>2. odd \subseteq odd' /\ stripped \subseteq stripped'
  BY <1>1, Evolution DEF StorageStep
<1>3. CASE o \in odd \cup stripped
  BY <1>2, <1>3
<1>4. CASE Status(o) = "ready"
  <2>1. row'[o].status \in {"ready", "deleted"} \/ o \in odd'
    BY <1>1, <1>4, ObjectKept
  <2>2. Attached(o)
    BY DEF Attached, On
  <2>3. row'[o].status = "deleted" => o \in stripped'
    BY <1>1, <1>4, <2>2 DEF StorageStep
  <2>4. QED
    BY <2>1, <2>3
<1>5. QED
  BY <1>3, <1>4 DEF ActiveReady

\* The object of an active photo is ready and has its bytes, whatever uploads,
\* deletions, sweeps and photo transactions interleave (add_offer_photo,
\* restore_offer_photos_for_offers), up to the objects a storage step met in a
\* status it is not meant for and those deleted under their photos.
THEOREM PhotosAreBacked == PhotoSpec => []PhotosBacked
<1> DEFINE Inv == PhotoTyped /\ Fresh /\ ReadyBytes /\ ActiveReady
<1>1. PhotoInit => Inv
  <2>1. PhotoInit => ReadyBytes /\ ActiveReady
    BY DEF PhotoInit, Init, ReadyBytes, ActiveReady, Status, NoPhoto
  <2>2. QED
    BY <2>1, PhotoTypedInit, NothingYet DEF PhotoInit
<1>2. Inv /\ PhotoNext => Inv'
  BY PhotoTypedParts, PhotoTypedStep, FreshEffect, ReadyBytesEffect, ActiveReadyStep
<1>3. Inv /\ StorageStep => Inv'
  BY PhotoTypedParts, StorageTypedStep, FreshStep, ReadyBytesStep, ActiveReadyStorage
  DEF StorageStep
<1>4. Inv /\ UNCHANGED allVars => Inv'
  <2>1. PhotoTyped /\ UNCHANGED allVars => PhotoTyped'
    BY PhotoTypedStill
  <2>2. QED
    BY <2>1 DEF allVars, vars, photoVars, Fresh, ReadyBytes, ActiveReady, Status
<1>5. Inv => PhotosBacked
  BY DEF PhotoTyped, Pictured, ReadyBytes, ActiveReady, PhotosBacked
<1>6. QED
  BY <1>1, <1>2, <1>3, <1>4, <1>5, PTL DEF PhotoSpec

-----------------------------------------------------------------------------
(* Active photos and their offers.                                         *)

Offered ==
  \A i \in PhotoIds : photo[i].state # "none" => offer[photo[i].offer] # "removed"

\* The listing's purge has listed every offer there is.
PurgesAll ==
  \A c \in Clerks :
    tx[c].pc = "cascade" /\ tx[c].act = "purge" /\ tx[c].scope = "listing" =>
      \A f \in Offers : offer[f] # "removed" => f \in tx[c].offers

Reaches == Offered /\ PurgesAll /\ CascadesReach

LEMMA ReachesWhenClosed ==
  ASSUME PhotoTyped, PurgesAll, NEW c \in Clerks, CloseTx(c),
         \A f \in Offers : offer[f] = "removed" => offer'[f] = "removed"
  PROVE  PurgesAll'
<1>1. \A d \in Clerks : tx'[d] = tx[d] \/ tx'[d].pc = "idle"
  BY DEF CloseTx, NoTx, PhotoTyped, PhotoTypeOK
<1>2. QED
  BY <1>1 DEF PurgesAll

LEMMA WritesFinal ==
  ASSUME NEW c, NEW s, Writes(c, s)
  PROVE  \A f \in Offers : /\ offer[f] = "removed" => offer'[f] = "removed"
                           /\ f \in tx[c].offers /\ offer[f] # "removed" => offer'[f] = s
BY DEF Writes

LEMMA ReachesStep ==
  ASSUME PhotoTyped, Reaches, PhotoNext
  PROVE  Reaches'
<1>0. /\ photo \in [PhotoIds -> Photo] /\ tx \in [Clerks -> Tx]
      /\ \A c \in Clerks : tx[c].offers \in SUBSET Offers /\ tx[c].scope \in Scopes
      /\ offer \in [Offers -> {"active", "deleted", "removed"}]
      /\ \A i \in PhotoIds : photo[i].state # "none" => photo[i].offer \in Offers
  BY DEF PhotoTyped, PhotoTypeOK, Tx, Pictured
<1>a. UNCHANGED <<photo, offer, missed>> /\ PurgesAll' => Reaches'
  BY DEF Reaches, Offered, CascadesReach
<1>b. ASSUME UNCHANGED offer, NEW c \in Clerks, NEW t, tx' = [tx EXCEPT ![c] = t],
             \/ t.pc # "cascade" \/ t.act # "purge" \/ t.scope # "listing"
             \/ \A f \in Offers : offer[f] # "removed" => f \in t.offers
      PROVE  PurgesAll'
  BY <1>0, <1>b DEF Reaches, PurgesAll
<1>1. ASSUME NEW c \in Clerks, NEW f \in Offers, NEW o \in Objects, AttachLocks(c, f, o)
      PROVE  Reaches'
  <2> DEFINE t == [NoTx EXCEPT !.pc = "attach", !.offers = {f}, !.listed = {o}]
  <2>1. tx' = [tx EXCEPT ![c] = t] /\ UNCHANGED <<photo, offer, missed>>
    BY <1>1 DEF AttachLocks, OpenTx
  <2>2. t.pc # "cascade"
    BY DEF NoTx
  <2> HIDE DEF t
  <2>3. QED
    BY <1>a, <1>b, <2>1, <2>2
<1>2. ASSUME NEW c \in Clerks, ListingReads(c)
      PROVE  Reaches'
  <2> DEFINE t == [NoTx EXCEPT !.pc = "ids", !.act = "delete", !.scope = "listing",
                      !.offers = {f \in Offers : offer[f] = "active"}]
  <2>1. tx' = [tx EXCEPT ![c] = t] /\ UNCHANGED <<photo, offer, missed>>
    BY <1>2 DEF ListingReads, OpenTx
  <2>2. t.pc # "cascade"
    BY DEF NoTx
  <2> HIDE DEF t
  <2>3. QED
    BY <1>a, <1>b, <2>1, <2>2
<1>3. ASSUME NEW c \in Clerks, NEW f \in Offers, NEW act \in {"delete", "restore", "purge"},
             offer[f] # "removed", CascadeLists(c, act, "offer", {f})
      PROVE  Reaches'
  <2> DEFINE fs == {f}
             t == [pc |-> "cascade", act |-> act, scope |-> "offer", offers |-> fs,
                   listed |-> Listed(act, "offer", fs)]
  <2>1. tx' = [tx EXCEPT ![c] = t] /\ UNCHANGED <<photo, offer, missed>>
    BY <1>3 DEF CascadeLists, Cascading
  <2>2. t.scope # "listing"
    OBVIOUS
  <2> HIDE DEF t
  <2>3. QED
    BY <1>a, <1>b, <2>1, <2>2
<1>4. ASSUME NEW c \in Clerks, NEW act \in {"restore", "purge"},
             CascadeLists(c, act, "listing", {f \in Offers : offer[f] # "removed"})
      PROVE  Reaches'
  <2> DEFINE fs == {f \in Offers : offer[f] # "removed"}
             t == [pc |-> "cascade", act |-> act, scope |-> "listing", offers |-> fs,
                   listed |-> Listed(act, "listing", fs)]
  <2>1. tx' = [tx EXCEPT ![c] = t] /\ UNCHANGED <<photo, offer, missed>>
    BY <1>4 DEF CascadeLists, Cascading
  <2>2. \A f \in Offers : offer[f] # "removed" => f \in t.offers
    OBVIOUS
  <2> HIDE DEF t
  <2>3. QED
    BY <1>a, <1>b, <2>1, <2>2
<1>5. ASSUME NEW c \in Clerks, AttachEnds(c)
      PROVE  Reaches'
  <2>1. PICK f \in Offers, o \in Objects : AttachesOne(c, f, o)
    BY <1>5, AttachCases
  <2>2. UNCHANGED <<offer, missed>> /\ CloseTx(c)
    BY <2>1 DEF AttachesOne
  <2>3. PurgesAll'
    BY <2>2, ReachesWhenClosed DEF Reaches
  <2>4. ASSUME offer[f] = "active",
               \A i \in PhotoIds : photo'[i] = photo[i] \/ photo'[i].offer = f
        PROVE  Reaches'
    BY <2>2, <2>3, <2>4 DEF Reaches, Offered, CascadesReach
  <2>5. ASSUME Attachable(f, o), NEW i \in RowsOf(f, o),
               photo' = [photo EXCEPT ![i].state = "active"]
        PROVE  Reaches'
    <3>1. i \in PhotoIds /\ photo[i].offer = f /\ photo[i] \in Photo
      BY <1>0 DEF RowsOf
    <3>2. \A j \in PhotoIds : photo'[j] = photo[j] \/ photo'[j].offer = f
      BY <1>0, <2>5, <3>1 DEF Photo
    <3>3. QED
      BY <2>4, <2>5, <3>2 DEF Attachable
  <2>6. ASSUME Attachable(f, o),
               photo' = [photo EXCEPT ![Min(NextId)] =
                           [state |-> "active", offer |-> f, obj |-> o]]
        PROVE  Reaches'
    BY <1>0, <2>4, <2>6 DEF Attachable
  <2>7. QED
    BY <1>a, <2>1, <2>2, <2>3, <2>5, <2>6 DEF AttachesOne
<1>6. ASSUME NEW c \in Clerks, DeleteEnds(c)
      PROVE  Reaches'
  <2>1. CloseTx(c) /\ Writes(c, "deleted")
    BY <1>6 DEF DeleteEnds
  <2>2. PurgesAll'
    BY <2>1, ReachesWhenClosed, WritesFinal DEF Reaches
  <2>3. ASSUME NEW i \in PhotoIds
        PROVE  \/ photo'[i] = photo[i] /\ ~(/\ photo[i].state = "active"
                                            /\ photo[i].offer \in tx[c].offers)
               \/ /\ photo[i].state # "none" /\ photo'[i].state \in Scopes
                  /\ photo'[i].offer = photo[i].offer
    BY <1>6, <1>0 DEF DeleteEnds, Photo, Scopes
  <2>4. Offered'
    <3>1. \A f \in Offers : offer[f] # "removed" => offer'[f] # "removed"
      BY <1>0, <2>1 DEF Writes
    <3>2. QED
      BY <1>0, <2>3, <3>1 DEF Reaches, Offered
  <2>5. CascadesReach'
    <3> SUFFICES ASSUME NEW i \in PhotoIds, photo'[i].state = "active"
                 PROVE  offer'[photo'[i].offer] = "active" \/ photo'[i].offer \in missed'
      BY DEF CascadesReach
    <3>1. /\ photo'[i] = photo[i] /\ photo[i].state = "active"
          /\ photo[i].offer \in Offers \ tx[c].offers
      BY <1>0, <2>3 DEF Scopes
    <3>2. missed \subseteq missed'
      BY <1>6 DEF DeleteEnds
    <3>3. CASE photo[i].offer \in missed
      BY <3>1, <3>2, <3>3
    <3>4. CASE offer[photo[i].offer] = "active" /\ tx[c].scope = "listing"
      BY <1>6, <3>1, <3>4 DEF DeleteEnds
    <3>5. CASE offer[photo[i].offer] = "active" /\ tx[c].scope # "listing"
      BY <2>1, <3>1, <3>5 DEF Writes
    <3>6. QED
      BY <3>1, <3>3, <3>4, <3>5 DEF Reaches, CascadesReach
  <2>6. QED
    BY <2>2, <2>4, <2>5 DEF Reaches
<1>7. ASSUME NEW c \in Clerks, RestoreEnds(c)
      PROVE  Reaches'
  <2>1. CloseTx(c) /\ UNCHANGED missed
    BY <1>7, RestoreCases
  <2>2. ASSUME UNCHANGED <<photo, offer>>
        PROVE  Reaches'
    BY <1>a, <2>1, <2>2, ReachesWhenClosed DEF Reaches
  <2>3. ASSUME NEW S \in SUBSET Deleted, NEW hit \in SUBSET PhotoIds, Restores(c, S, hit)
        PROVE  Reaches'
    <3>1. Writes(c, "active")
      BY <2>3 DEF Restores
    <3>2. PurgesAll'
      BY <2>1, <3>1, ReachesWhenClosed, WritesFinal DEF Reaches
    <3>3. ASSUME NEW i \in PhotoIds
          PROVE  \/ photo'[i] = photo[i]
                 \/ /\ photo[i].state # "none" /\ photo'[i].offer = photo[i].offer
                    /\ photo[i].offer \in tx[c].offers
      BY <1>0, <2>3 DEF Restores, Photo, Scopes
    <3>4. \A f \in Offers : /\ offer[f] # "removed" => offer'[f] # "removed"
                            /\ offer[f] = "active" => offer'[f] = "active"
                            /\ f \in tx[c].offers /\ offer[f] # "removed"
                                 => offer'[f] = "active"
      BY <1>0, <3>1 DEF Writes
    <3>5. Offered'
      BY <1>0, <3>3, <3>4 DEF Reaches, Offered
    <3>6. CascadesReach'
      BY <1>0, <2>1, <3>3, <3>4 DEF Reaches, Offered, CascadesReach
    <3>7. QED
      BY <3>2, <3>5, <3>6 DEF Reaches
  <2>4. QED
    BY <1>7, <2>2, <2>3, RestoreCases
<1>8. ASSUME NEW c \in Clerks, PurgeEnds(c)
      PROVE  Reaches'
  <2>1. CloseTx(c) /\ Writes(c, "removed") /\ missed \subseteq missed'
    BY <1>8 DEF PurgeEnds
  <2>2. PurgesAll'
    BY <2>1, ReachesWhenClosed, WritesFinal DEF Reaches
  <2>3. ASSUME NEW i \in PhotoIds, photo'[i].state # "none"
        PROVE  /\ photo'[i] = photo[i] /\ photo[i].offer \in Offers \ tx[c].offers
               /\ offer[photo[i].offer] # "removed"
    BY <1>8, <1>0, <2>3 DEF PurgeEnds, NoPhoto, Reaches, Offered
  <2>4. \A f \in Offers \ tx[c].offers : offer[f] # "removed" => offer'[f] = offer[f]
    <3>1. tx[c].scope = "listing" =>
            \A f \in Offers : offer[f] # "removed" => f \in tx[c].offers
      BY <1>8 DEF PurgeEnds, Cascades, Reaches, PurgesAll
    <3>2. QED
      BY <2>1, <3>1 DEF Writes
  <2>5. QED
    BY <1>0, <2>1, <2>2, <2>3, <2>4 DEF Reaches, Offered, CascadesReach
<1>9. ASSUME NEW c \in Clerks, ListingLists(c)
      PROVE  Reaches'
  <2> DEFINE fs == tx[c].offers
             t == [pc |-> "cascade", act |-> "delete", scope |-> "listing", offers |-> fs,
                   listed |-> Listed("delete", "listing", fs)]
  <2>1. tx' = [tx EXCEPT ![c] = t] /\ UNCHANGED <<photo, offer, missed>>
    BY <1>9 DEF ListingLists, Cascading
  <2>2. t.act # "purge"
    OBVIOUS
  <2> HIDE DEF t
  <2>3. QED
    BY <1>a, <1>b, <2>1, <2>2
<1>10. ASSUME NEW c \in Clerks, RollsBack(c)
      PROVE  Reaches'
  <2>1. UNCHANGED <<photo, offer, missed>> /\ CloseTx(c)
    BY <1>10 DEF RollsBack
  <2>2. PurgesAll'
    BY <1>10, <2>1, ReachesWhenClosed DEF Reaches
  <2>3. QED
    BY <1>a, <2>1, <2>2
<1>11. ASSUME NEW i \in PhotoIds, RemovePhoto(i)
      PROVE  Reaches'
  <2>1. /\ UNCHANGED <<offer, tx, missed>> /\ photo[i].state # "none"
        /\ photo' = [photo EXCEPT ![i].state = "manual"]
    BY <1>11 DEF RemovePhoto
  <2>2. \A j \in PhotoIds : \/ photo'[j] = photo[j]
                            \/ /\ photo[j].state # "none"
                               /\ photo'[j].offer = photo[j].offer
                               /\ photo'[j].state = "manual"
    BY <1>0, <2>1 DEF Photo
  <2>3. QED
    BY <2>1, <2>2 DEF Reaches, Offered, PurgesAll, CascadesReach
<1>12. QED
  BY <1>1, <1>2, <1>3, <1>4, <1>5, <1>6, <1>7, <1>8, <1>9, <1>10, <1>11
  DEF PhotoNext, CascadeOf, Proceeding

\* A deletion reaches every active photo of its offers, and a restoration
\* brings back none whose offer stays deleted, whatever interleaves, up to the
\* offers a listing's deletion had not read as active (delete_listing).
THEOREM DeletionsReach == PhotoSpec => []CascadesReach
<1> DEFINE Inv == PhotoTyped /\ Reaches
<1>1. PhotoInit => Inv
  <2>1. PhotoInit => Reaches
    BY DEF PhotoInit, Reaches, Offered, PurgesAll, CascadesReach, NoPhoto, NoTx
  <2>2. QED
    BY <2>1, PhotoTypedInit
<1>2. Inv /\ PhotoNext => Inv'
  BY PhotoTypedStep, ReachesStep
<1>3. Inv /\ StorageStep => Inv'
  BY StorageTypedStep DEF StorageStep, Reaches, Offered, PurgesAll, CascadesReach
<1>4. Inv /\ UNCHANGED allVars => Inv'
  BY PhotoTypedStill
  DEF allVars, photoVars, Reaches, Offered, PurgesAll, CascadesReach
<1>5. Inv => CascadesReach
  BY DEF Reaches
<1>6. QED
  BY <1>1, <1>2, <1>3, <1>4, <1>5, PTL DEF PhotoSpec

-----------------------------------------------------------------------------
(* Ids for the attachments under way.                                      *)

Attaching == {c \in Clerks : tx[c].pc = "attach"}

Spare == Cardinality(Attaching) <= Cardinality(NextId)

LEMMA SpareSets ==
  /\ IsFiniteSet(Attaching) /\ Cardinality(Attaching) \in Nat
  /\ IsFiniteSet(NextId) /\ Cardinality(NextId) \in Nat
  /\ IsFiniteSet(NextId') /\ Cardinality(NextId') \in Nat
<1>1. IsFiniteSet(PhotoIds)
  BY PhotosAssumption, FS_Interval DEF PhotoIds
<1>2. NextId \in SUBSET PhotoIds /\ NextId' \in SUBSET PhotoIds
  BY DEF NextId, PhotoIds
<1>3. Attaching \in SUBSET Clerks
  BY DEF Attaching
<1>4. IsFiniteSet(Attaching) /\ IsFiniteSet(NextId) /\ IsFiniteSet(NextId')
  BY <1>1, <1>2, <1>3, PhotosAssumption, FS_Subset
<1>5. QED
  BY <1>4, FS_CardinalityType

LEMMA SpareKept ==
  ASSUME Spare, Attaching' \subseteq Attaching,
         \A i \in PhotoIds : photo[i].state = "none" => photo'[i].state = "none"
  PROVE  Spare'
<1>1. NextId \in SUBSET NextId'
  BY DEF NextId, PhotoIds
<1>2. Attaching' \in SUBSET Attaching
  OBVIOUS
<1>3. Cardinality(NextId) <= Cardinality(NextId')
  BY <1>1, SpareSets, FS_Subset
<1>4. IsFiniteSet(Attaching') /\ Cardinality(Attaching') <= Cardinality(Attaching)
  BY <1>2, SpareSets, FS_Subset
<1>5. Cardinality(Attaching') \in Nat
  BY <1>4, FS_CardinalityType
<1>6. Cardinality(Attaching') <= Cardinality(NextId')
  BY <1>3, <1>4, <1>5, SpareSets DEF Spare
<1>7. QED
  BY <1>6 DEF Spare

\* An attachment that ends has an unused id to create its photo with.
LEMMA SpareId ==
  ASSUME Spare, NEW c \in Clerks, tx[c].pc = "attach"
  PROVE  /\ Min(NextId) \in NextId /\ photo[Min(NextId)].state = "none"
         /\ \A i \in NextId : Min(NextId) <= i
<1>1. c \in Attaching
  BY DEF Attaching
<1>2. Cardinality(Attaching) # 0
  BY <1>1, SpareSets, FS_EmptySet
<1>3. Cardinality(NextId) # 0
  BY <1>2, SpareSets DEF Spare
<1>4. NextId # {}
  BY <1>3, FS_EmptySet
<1>5. NextId \in SUBSET PhotoIds
  BY DEF NextId
<1>6. Min(NextId) \in NextId /\ \A i \in NextId : Min(NextId) <= i
  BY <1>4, <1>5, OldestIn
<1>7. QED
  BY <1>6, PhotosAssumption DEF NextId, PhotoIds

LEMMA SpareAttaches ==
  ASSUME PhotoTyped, Spare, NEW c \in Clerks, tx[c].pc = "attach", CloseTx(c), NEW v,
         photo' = [photo EXCEPT ![Min(NextId)] = v]
  PROVE  Spare'
<1> DEFINE m == Min(NextId)
<1>1. m \in NextId /\ \A i \in NextId : m <= i
  BY SpareId
<1>2. NextId \ {m} \in SUBSET NextId'
  <2> SUFFICES ASSUME NEW i \in NextId, i # m
               PROVE  i \in NextId'
    OBVIOUS
  <2>1. i \in PhotoIds /\ m \in PhotoIds /\ PhotoIds \subseteq Int /\ m <= i
    BY <1>1, PhotosAssumption DEF NextId, PhotoIds
  <2>2. \A j \in PhotoIds : j >= i => j # m
    BY <2>1
  <2> HIDE DEF m
  <2>3. \A j \in PhotoIds : j # m => photo'[j] = photo[j]
    BY DEF m, PhotoTyped, PhotoTypeOK
  <2>4. QED
    BY <2>1, <2>2, <2>3 DEF NextId, PhotoIds
<1> HIDE DEF m
<1>3. Cardinality(NextId \ {m}) = Cardinality(NextId) - 1
  BY <1>1, SpareSets, FS_RemoveElement
<1>4. Cardinality(NextId \ {m}) <= Cardinality(NextId')
  BY <1>2, SpareSets, FS_Subset
<1>5. c \in Attaching /\ Attaching' = Attaching \ {c}
  BY DEF Attaching, CloseTx, NoTx, PhotoTyped, PhotoTypeOK
<1>6. Cardinality(Attaching') = Cardinality(Attaching) - 1
  BY <1>5, SpareSets, FS_RemoveElement
<1>7. Cardinality(Attaching') <= Cardinality(NextId')
  BY <1>3, <1>4, <1>6, SpareSets DEF Spare
<1>8. QED
  BY <1>7 DEF Spare

LEMMA SpareStep ==
  ASSUME PhotoTyped, Spare, PhotoNext
  PROVE  Spare'
<1>0. /\ tx \in [Clerks -> Tx] /\ photo \in [PhotoIds -> Photo]
      /\ \A c \in Clerks : tx[c].scope \in Scopes
  BY DEF PhotoTyped, PhotoTypeOK, Tx
<1>a. ASSUME NEW c \in Clerks, CloseTx(c)
      PROVE  Attaching' \subseteq Attaching
  BY <1>0, <1>a DEF Attaching, CloseTx, NoTx
<1>b. ASSUME NEW c \in Clerks, NEW act, NEW scope, NEW fs, Cascading(c, act, scope, fs)
      PROVE  Spare'
  <2>1. Attaching' \subseteq Attaching /\ photo' = photo
    BY <1>0, <1>b DEF Attaching, Cascading
  <2>2. QED
    BY <2>1, SpareKept
<1>1. ASSUME NEW c \in Clerks, NEW f \in Offers, NEW o \in Objects, AttachLocks(c, f, o)
      PROVE  Spare'
  <2>1. /\ Cardinality(NextId) > Cardinality(Attaching)
        /\ c \notin Attaching /\ Attaching' = Attaching \cup {c} /\ photo' = photo
    BY <1>1, <1>0 DEF AttachLocks, OpenTx, Room, Attaching, NoTx
  <2>2. Cardinality(Attaching') = Cardinality(Attaching) + 1
    BY <2>1, SpareSets, FS_AddElement
  <2>3. NextId' = NextId
    BY <2>1 DEF NextId
  <2>4. Cardinality(Attaching') <= Cardinality(NextId')
    BY <2>1, <2>2, <2>3, SpareSets
  <2>5. QED
    BY <2>4 DEF Spare
<1>2. ASSUME NEW c \in Clerks, ListingReads(c)
      PROVE  Spare'
  <2>1. Attaching' \subseteq Attaching /\ photo' = photo
    BY <1>2, <1>0 DEF ListingReads, OpenTx, Attaching, NoTx
  <2>2. QED
    BY <2>1, SpareKept
<1>3. ASSUME NEW c \in Clerks, NEW f \in Offers, NEW act \in {"delete", "restore", "purge"},
             offer[f] # "removed", CascadeLists(c, act, "offer", {f})
      PROVE  Spare'
  BY <1>3, <1>b DEF CascadeLists
<1>4. ASSUME NEW c \in Clerks, NEW act \in {"restore", "purge"},
             CascadeLists(c, act, "listing", {f \in Offers : offer[f] # "removed"})
      PROVE  Spare'
  BY <1>4, <1>b DEF CascadeLists
<1>5. ASSUME NEW c \in Clerks, AttachEnds(c)
      PROVE  Spare'
  <2>1. PICK f \in Offers, o \in Objects : AttachesOne(c, f, o)
    BY <1>5, AttachCases
  <2>2. CloseTx(c) /\ tx[c].pc = "attach" /\ Attaching' \subseteq Attaching
    BY <1>a, <2>1 DEF AttachesOne
  <2>3. ASSUME NEW i \in RowsOf(f, o), photo' = [photo EXCEPT ![i].state = "active"]
        PROVE  Spare'
    <3>1. i \in PhotoIds /\ photo[i].state # "none"
      BY DEF RowsOf, On
    <3>2. \A j \in PhotoIds : photo[j].state = "none" => photo'[j].state = "none"
      BY <1>0, <2>3, <3>1
    <3>3. QED
      BY <2>2, <3>2, SpareKept
  <2>4. photo' = photo => Spare'
    BY <2>2, SpareKept
  <2>5. QED
    BY <2>1, <2>2, <2>3, <2>4, SpareAttaches DEF AttachesOne
<1>6. ASSUME NEW c \in Clerks, DeleteEnds(c)
      PROVE  Spare'
  <2>1. Attaching' \subseteq Attaching
    BY <1>6, <1>a DEF DeleteEnds
  <2>2. \A i \in PhotoIds : photo[i].state = "none" => photo'[i].state = "none"
    BY <1>6, <1>0 DEF DeleteEnds, NoPhoto
  <2>3. QED
    BY <2>1, <2>2, SpareKept
<1>7. ASSUME NEW c \in Clerks, RestoreEnds(c)
      PROVE  Spare'
  <2>1. Attaching' \subseteq Attaching
    BY <1>7, <1>a, RestoreCases
  <2>2. ASSUME NEW S \in SUBSET Deleted, NEW hit \in SUBSET PhotoIds, Restores(c, S, hit)
        PROVE  Spare'
    <3>1. \A i \in PhotoIds : photo[i].state = "none" => photo'[i].state = "none"
      BY <1>0, <2>2 DEF Restores, Scopes
    <3>2. QED
      BY <2>1, <3>1, SpareKept
  <2>3. photo' = photo => Spare'
    BY <2>1, SpareKept
  <2>4. QED
    BY <1>7, <2>2, <2>3, RestoreCases
<1>8. ASSUME NEW c \in Clerks, PurgeEnds(c)
      PROVE  Spare'
  <2>1. Attaching' \subseteq Attaching
    BY <1>8, <1>a DEF PurgeEnds
  <2>2. \A i \in PhotoIds : photo[i].state = "none" => photo'[i].state = "none"
    BY <1>8, <1>0 DEF PurgeEnds, NoPhoto
  <2>3. QED
    BY <2>1, <2>2, SpareKept
<1>9. ASSUME NEW c \in Clerks, ListingLists(c)
      PROVE  Spare'
  BY <1>9, <1>b DEF ListingLists
<1>10. ASSUME NEW c \in Clerks, RollsBack(c)
      PROVE  Spare'
  <2>1. Attaching' \subseteq Attaching /\ photo' = photo
    BY <1>10, <1>a DEF RollsBack
  <2>2. QED
    BY <2>1, SpareKept
<1>11. ASSUME NEW i \in PhotoIds, RemovePhoto(i)
      PROVE  Spare'
  <2>1. Attaching' \subseteq Attaching
    BY <1>11 DEF RemovePhoto, Attaching
  <2>2. \A j \in PhotoIds : photo[j].state = "none" => photo'[j].state = "none"
    BY <1>11, <1>0 DEF RemovePhoto
  <2>3. QED
    BY <2>1, <2>2, SpareKept
<1>12. QED
  BY <1>1, <1>2, <1>3, <1>4, <1>5, <1>6, <1>7, <1>8, <1>9, <1>10, <1>11
  DEF PhotoNext, CascadeOf, Proceeding

-----------------------------------------------------------------------------
(* Cascades that hold offers, and the objects they listed.                 *)

Exclusive == \A c, d \in Clerks : c # d => HeldBy(c) \cap HeldBy(d) = {}

\* A deletion has listed the object of every active photo it will delete.
DeleteLists ==
  \A c \in Clerks : tx[c].pc = "cascade" /\ tx[c].act = "delete" =>
    \A i \in PhotoIds : photo[i].state = "active" /\ photo[i].offer \in tx[c].offers =>
      photo[i].obj \in tx[c].listed

\* A restoration has a photo to make active for every object it listed.
RestoreLists ==
  \A c \in Clerks : tx[c].pc = "cascade" /\ tx[c].act = "restore" =>
    \A o \in tx[c].listed : \E i \in PhotoIds :
      photo[i].state = tx[c].scope /\ photo[i].offer \in tx[c].offers /\ photo[i].obj = o

Lists == Exclusive /\ DeleteLists /\ RestoreLists

LEMMA HoldsOffers ==
  ASSUME PhotoTyped, NEW c \in Clerks, tx[c].pc = "cascade", tx[c].act # "purge"
  PROVE  tx[c].offers \subseteq HeldBy(c)
BY DEF HeldBy, Writing, PhotoTyped, PhotoTypeOK, Tx

\* A step that starts no cascade and leaves the photos of held offers to their
\* holder keeps the lists right.
LEMMA ListsKept ==
  ASSUME PhotoTyped, Lists,
         \A d \in Clerks : \/ tx'[d].pc # "cascade"
                           \/ /\ tx'[d] = tx[d]
                              /\ \A i \in PhotoIds : photo'[i] # photo[i] =>
                                   /\ photo'[i].state = "active" =>
                                        photo'[i].offer \notin HeldBy(d)
                                   /\ photo[i].state \in Scopes =>
                                        photo[i].offer \notin HeldBy(d)
  PROVE  Lists'
<1>1. \A d \in Clerks : HeldBy(d)' \subseteq HeldBy(d)
  BY DEF HeldBy, Writing
<1>2. Exclusive'
  BY <1>1 DEF Lists, Exclusive
<1>3. DeleteLists'
  <2> SUFFICES ASSUME NEW d \in Clerks, tx'[d].pc = "cascade", tx'[d].act = "delete",
                      NEW i \in PhotoIds, photo'[i].state = "active",
                      photo'[i].offer \in tx'[d].offers
               PROVE  photo'[i].obj \in tx'[d].listed
    BY DEF DeleteLists
  <2>1. tx'[d] = tx[d] /\ tx[d].offers \subseteq HeldBy(d)
    BY HoldsOffers
  <2>2. photo'[i] = photo[i]
    BY <2>1
  <2>3. QED
    BY <2>1, <2>2 DEF Lists, DeleteLists
<1>4. RestoreLists'
  <2> SUFFICES ASSUME NEW d \in Clerks, tx'[d].pc = "cascade", tx'[d].act = "restore",
                      NEW o \in tx'[d].listed
               PROVE  \E i \in PhotoIds : /\ photo'[i].state = tx'[d].scope
                                          /\ photo'[i].offer \in tx'[d].offers
                                          /\ photo'[i].obj = o
    BY DEF RestoreLists
  <2>1. /\ tx'[d] = tx[d] /\ tx[d].offers \subseteq HeldBy(d) /\ tx[d].scope \in Scopes
    BY HoldsOffers DEF PhotoTyped, PhotoTypeOK, Tx
  <2>2. PICK i \in PhotoIds : /\ photo[i].state = tx[d].scope
                              /\ photo[i].offer \in tx[d].offers /\ photo[i].obj = o
    BY <2>1 DEF Lists, RestoreLists
  <2>3. photo'[i] = photo[i]
    BY <2>1, <2>2
  <2>4. QED
    BY <2>1, <2>2, <2>3
<1>5. QED
  BY <1>2, <1>3, <1>4 DEF Lists

LEMMA ListsCascading ==
  ASSUME PhotoTyped, Lists, NEW c \in Clerks, NEW act \in {"delete", "restore", "purge"},
         NEW scope \in Scopes, NEW fs \in SUBSET Offers, Cascading(c, act, scope, fs)
  PROVE  Lists'
<1> DEFINE t == [pc |-> "cascade", act |-> act, scope |-> scope, offers |-> fs,
                 listed |-> Listed(act, scope, fs)]
<1>1. tx' = [tx EXCEPT ![c] = t] /\ photo' = photo
  BY DEF Cascading
<1>2. tx'[c] = t /\ \A d \in Clerks \ {c} : tx'[d] = tx[d]
  BY <1>1 DEF PhotoTyped, PhotoTypeOK
<1>3. \A d \in Clerks \ {c} : HeldBy(d)' = HeldBy(d)
  BY <1>2 DEF HeldBy, Writing
<1>4. \A d \in Clerks \ {c} : HeldBy(c)' \cap HeldBy(d) = {}
  <2>1. act = "purge" => HeldBy(c)' = {}
    BY <1>2 DEF HeldBy, Writing
  <2>2. act # "purge" => \A d \in Clerks : HeldBy(d) = {}
    BY DEF Cascading, GenerationFree, HeldBy
  <2>3. QED
    BY <2>1, <2>2
<1>5. Exclusive'
  BY <1>3, <1>4 DEF Lists, Exclusive
<1>6. ASSUME NEW d \in Clerks, tx'[d].pc = "cascade", tx'[d].act = "delete",
             NEW i \in PhotoIds, photo'[i].state = "active",
             photo'[i].offer \in tx'[d].offers
      PROVE  photo'[i].obj \in tx'[d].listed
  <2>1. CASE d = c
    BY <1>1, <1>2, <1>6, <2>1 DEF Listed
  <2>2. CASE d # c
    BY <1>1, <1>2, <1>6, <2>2 DEF Lists, DeleteLists
  <2>3. QED
    BY <2>1, <2>2
<1>7. ASSUME NEW d \in Clerks, tx'[d].pc = "cascade", tx'[d].act = "restore",
             NEW o \in tx'[d].listed
      PROVE  \E i \in PhotoIds : /\ photo'[i].state = tx'[d].scope
                                 /\ photo'[i].offer \in tx'[d].offers
                                 /\ photo'[i].obj = o
  <2>1. CASE d = c
    <3>1. act = "restore" /\ o \in Listed(act, scope, fs)
      BY <1>2, <1>7, <2>1
    <3>2. PICK i \in PhotoIds : /\ photo[i].offer \in fs /\ photo[i].state = scope
                                /\ photo[i].obj = o
      BY <3>1 DEF Listed
    <3>3. QED
      BY <1>1, <1>2, <2>1, <3>2
  <2>2. CASE d # c
    BY <1>1, <1>2, <1>7, <2>2 DEF Lists, RestoreLists
  <2>3. QED
    BY <2>1, <2>2
<1>8. QED
  BY <1>5, <1>6, <1>7 DEF Lists, DeleteLists, RestoreLists

LEMMA ListsStep ==
  ASSUME PhotoTyped, Spare, Lists, PhotoNext
  PROVE  Lists'
<1>0. /\ tx \in [Clerks -> Tx] /\ photo \in [PhotoIds -> Photo]
      /\ \A c \in Clerks : tx[c].scope \in Scopes /\ tx[c].offers \in SUBSET Offers
  BY DEF PhotoTyped, PhotoTypeOK, Tx
<1>a. ASSUME NEW c \in Clerks, CloseTx(c)
      PROVE  tx'[c].pc # "cascade" /\ \A d \in Clerks \ {c} : tx'[d] = tx[d]
  BY <1>0, <1>a DEF CloseTx, NoTx
<1>b. ASSUME photo' = photo, NEW c \in Clerks, tx'[c].pc # "cascade",
             \A d \in Clerks \ {c} : tx'[d] = tx[d]
      PROVE  Lists'
  BY <1>b, ListsKept
<1>1. ASSUME NEW c \in Clerks, NEW f \in Offers, NEW o \in Objects, AttachLocks(c, f, o)
      PROVE  Lists'
  <2>1. /\ photo' = photo /\ tx'[c].pc # "cascade"
        /\ \A d \in Clerks \ {c} : tx'[d] = tx[d]
    BY <1>1, <1>0 DEF AttachLocks, OpenTx, NoTx
  <2>2. QED
    BY <1>b, <2>1
<1>2. ASSUME NEW c \in Clerks, ListingReads(c)
      PROVE  Lists'
  <2>1. /\ photo' = photo /\ tx'[c].pc # "cascade"
        /\ \A d \in Clerks \ {c} : tx'[d] = tx[d]
    BY <1>2, <1>0 DEF ListingReads, OpenTx, NoTx
  <2>2. QED
    BY <1>b, <2>1
<1>3. ASSUME NEW c \in Clerks, NEW f \in Offers, NEW act \in {"delete", "restore", "purge"},
             offer[f] # "removed", CascadeLists(c, act, "offer", {f})
      PROVE  Lists'
  <2>1. Cascading(c, act, "offer", {f}) /\ {f} \in SUBSET Offers /\ "offer" \in Scopes
    BY <1>3 DEF CascadeLists, Scopes
  <2>2. QED
    BY <2>1, ListsCascading
<1>4. ASSUME NEW c \in Clerks, NEW act \in {"restore", "purge"},
             CascadeLists(c, act, "listing", {f \in Offers : offer[f] # "removed"})
      PROVE  Lists'
  <2> DEFINE fs == {f \in Offers : offer[f] # "removed"}
  <2>1. /\ Cascading(c, act, "listing", fs) /\ fs \in SUBSET Offers
        /\ "listing" \in Scopes /\ act \in {"delete", "restore", "purge"}
    BY <1>4 DEF CascadeLists, Scopes
  <2> HIDE DEF fs
  <2>2. QED
    BY <2>1, ListsCascading
<1>5. ASSUME NEW c \in Clerks, AttachEnds(c)
      PROVE  Lists'
  <2>1. PICK f \in Offers, o \in Objects : AttachesOne(c, f, o)
    BY <1>5, AttachCases
  <2>2. /\ tx'[c].pc # "cascade" /\ \A d \in Clerks \ {c} : tx'[d] = tx[d]
        /\ tx[c].pc = "attach" /\ \A d \in Clerks : f \notin HeldBy(d)
    BY <1>a, <2>1 DEF AttachesOne, Held
  <2>3. ASSUME \A i \in PhotoIds : photo'[i] # photo[i] =>
                 /\ photo'[i].offer = f
                 /\ photo[i].state \in Scopes => photo[i].offer = f
        PROVE  Lists'
    BY <2>2, <2>3, ListsKept
  <2>4. ASSUME NEW i \in RowsOf(f, o), photo' = [photo EXCEPT ![i].state = "active"]
        PROVE  Lists'
    <3>1. i \in PhotoIds /\ photo[i].offer = f /\ photo[i] \in Photo
      BY <1>0 DEF RowsOf
    <3>2. photo'[i].offer = f /\ \A j \in PhotoIds \ {i} : photo'[j] = photo[j]
      BY <1>0, <2>4, <3>1 DEF Photo
    <3>3. QED
      BY <2>3, <3>1, <3>2
  <2>5. ASSUME photo' = [photo EXCEPT ![Min(NextId)] =
                           [state |-> "active", offer |-> f, obj |-> o]]
        PROVE  Lists'
    <3>1. photo[Min(NextId)].state \notin Scopes
      BY <2>2, SpareId DEF Scopes
    <3>2. QED
      BY <1>0, <2>3, <2>5, <3>1
  <2>6. photo' = photo => Lists'
    BY <1>b, <2>2
  <2>7. QED
    BY <2>1, <2>4, <2>5, <2>6 DEF AttachesOne
<1>6. ASSUME NEW c \in Clerks, DeleteEnds(c)
      PROVE  Lists'
  <2>1. tx'[c].pc # "cascade" /\ \A d \in Clerks \ {c} : tx'[d] = tx[d]
    BY <1>6, <1>a DEF DeleteEnds
  <2>2. \A i \in PhotoIds : photo'[i] # photo[i] =>
          photo'[i].state \in Scopes /\ photo[i].state = "active"
    BY <1>6, <1>0 DEF DeleteEnds, Photo
  <2>3. QED
    BY <2>1, <2>2, ListsKept DEF Scopes
<1>7. ASSUME NEW c \in Clerks, RestoreEnds(c)
      PROVE  Lists'
  <2>1. /\ tx'[c].pc # "cascade" /\ \A d \in Clerks \ {c} : tx'[d] = tx[d]
        /\ tx[c].pc = "cascade" /\ tx[c].act = "restore"
    BY <1>7, <1>a, RestoreCases DEF Cascades
  <2>2. \A d \in Clerks \ {c} : tx[c].offers \cap HeldBy(d) = {}
    BY <2>1, HoldsOffers DEF Lists, Exclusive
  <2>3. ASSUME NEW S \in SUBSET Deleted, NEW hit \in SUBSET PhotoIds, Restores(c, S, hit)
        PROVE  Lists'
    <3>1. \A i \in PhotoIds : photo'[i] # photo[i] =>
            /\ photo[i].offer \in tx[c].offers /\ photo'[i].offer = photo[i].offer
      BY <1>0, <2>3 DEF Restores, Photo
    <3>2. QED
      BY <2>1, <2>2, <3>1, ListsKept
  <2>4. photo' = photo => Lists'
    BY <1>b, <2>1
  <2>5. QED
    BY <1>7, <2>3, <2>4, RestoreCases
<1>8. ASSUME NEW c \in Clerks, PurgeEnds(c)
      PROVE  Lists'
  <2>1. tx'[c].pc # "cascade" /\ \A d \in Clerks \ {c} : tx'[d] = tx[d]
    BY <1>8, <1>a DEF PurgeEnds
  <2>2. \A d \in Clerks : tx[c].offers \cap HeldBy(d) = {}
    BY <1>8 DEF PurgeEnds, GenerationFree, HeldBy
  <2>3. \A i \in PhotoIds : photo'[i] # photo[i] =>
          photo'[i].state = "none" /\ photo[i].offer \in tx[c].offers
    BY <1>8 DEF PurgeEnds, NoPhoto
  <2>4. QED
    BY <2>1, <2>2, <2>3, ListsKept
<1>9. ASSUME NEW c \in Clerks, ListingLists(c)
      PROVE  Lists'
  <2>1. /\ Cascading(c, "delete", "listing", tx[c].offers)
        /\ tx[c].offers \in SUBSET Offers /\ "listing" \in Scopes
    BY <1>9, <1>0 DEF ListingLists, Scopes
  <2>2. QED
    BY <2>1, ListsCascading
<1>10. ASSUME NEW c \in Clerks, RollsBack(c)
      PROVE  Lists'
  <2>1. photo' = photo /\ CloseTx(c)
    BY <1>10 DEF RollsBack
  <2>2. QED
    BY <1>10, <1>a, <1>b, <2>1
<1>11. ASSUME NEW i \in PhotoIds, RemovePhoto(i)
      PROVE  Lists'
  <2>1. tx' = tx
    BY <1>11 DEF RemovePhoto
  <2>2. \A j \in PhotoIds : photo'[j] # photo[j] =>
          photo'[j].state = "manual" /\ photo[j].state = "active"
    BY <1>11, <1>0 DEF RemovePhoto, Photo
  <2>3. QED
    BY <2>1, <2>2, ListsKept DEF Scopes
<1>12. QED
  BY <1>1, <1>2, <1>3, <1>4, <1>5, <1>6, <1>7, <1>8, <1>9, <1>10, <1>11
  DEF PhotoNext, CascadeOf, Proceeding

-----------------------------------------------------------------------------
(* Objects whose photos are all deleted.                                   *)

\* A photo is of a file whose upload has ended.
Settled ==
  \A i \in PhotoIds : photo[i].state # "none" =>
    Status(photo[i].obj) \notin {"none", "pending"}

LEMMA SettledStep ==
  ASSUME PhotoTyped, Settled, PhotoNext
  PROVE  Settled'
<1>0. StorageEffect /\ photo \in [PhotoIds -> Photo] /\ row \in [Objects -> Row]
      /\ \A c \in Clerks : tx[c].scope \in Scopes
  BY PhotoEffect DEF PhotoTyped, PhotoTypeOK, TypeOK, Tx
<1>1. ASSUME NEW o \in Objects, Status(o) \notin {"none", "pending"}
      PROVE  row'[o].status \notin {"none", "pending"}
  BY <1>0, <1>1
  DEF StorageEffect, LeavesStorage, DeletesStorage, RestoresStorage, Status, Row
<1>2. ASSUME NEW i \in PhotoIds, photo'[i].state # "none"
      PROVE  /\ photo'[i].obj \in Objects
             /\ \/ Status(photo'[i].obj) \in {"ready", "deleted"}
                \/ photo[i].state # "none" /\ photo'[i].obj = photo[i].obj
  <2> DEFINE Old == photo[i].state # "none" /\ photo'[i].obj = photo[i].obj
             New == \/ Status(photo'[i].obj) \in {"ready", "deleted"}
                    \/ Old
  <2>0. photo'[i].obj \in Objects
    BY <1>2, PhotoTypedStep DEF PhotoTyped, Pictured
  <2>a. photo' = photo => Old
    BY <1>2
  <2>1. ASSUME NEW c \in Clerks, AttachEnds(c)
        PROVE  New
    <3>1. PICK f \in Offers, o \in Objects : AttachesOne(c, f, o)
      BY <2>1, AttachCases
    <3>2. {o} \in SUBSET Deleted => Status(o) = "deleted"
      BY DEF Deleted
    <3>3. \/ photo' = photo
          \/ /\ Status(o) \in {"ready", "deleted"}
             /\ \/ \E j \in RowsOf(f, o) : photo' = [photo EXCEPT ![j].state = "active"]
                \/ photo' = [photo EXCEPT ![Min(NextId)] =
                               [state |-> "active", offer |-> f, obj |-> o]]
      BY <3>1, <3>2 DEF AttachesOne
    <3>4. ASSUME NEW j \in RowsOf(f, o), photo' = [photo EXCEPT ![j].state = "active"]
          PROVE  Old
      <4>1. j \in PhotoIds /\ photo[j].state # "none"
        BY DEF RowsOf, On
      <4>2. QED
        BY <1>0, <1>2, <3>4, <4>1 DEF Photo
    <3>5. QED
      BY <1>0, <1>2, <2>a, <3>3, <3>4
  <2>2. ASSUME NEW c \in Clerks, DeleteEnds(c)
        PROVE  Old
    BY <1>0, <1>2, <2>2 DEF DeleteEnds, Photo
  <2>3. ASSUME NEW c \in Clerks, RestoreEnds(c)
        PROVE  Old
    <3>1. ASSUME NEW S \in SUBSET Deleted, NEW hit \in SUBSET PhotoIds,
                 Restores(c, S, hit)
          PROVE  Old
      BY <1>0, <1>2, <3>1 DEF Restores, Photo, Scopes
    <3>2. QED
      BY <2>3, <2>a, <3>1, RestoreCases
  <2>4. ASSUME NEW c \in Clerks, PurgeEnds(c)
        PROVE  Old
    BY <1>2, <2>4 DEF PurgeEnds, NoPhoto
  <2>5. ASSUME NEW j \in PhotoIds, RemovePhoto(j)
        PROVE  Old
    BY <1>0, <1>2, <2>5 DEF RemovePhoto, Photo
  <2>6. \/ photo' = photo
        \/ \E c \in Clerks : \/ AttachEnds(c) \/ DeleteEnds(c) \/ RestoreEnds(c)
                             \/ PurgeEnds(c)
        \/ \E j \in PhotoIds : RemovePhoto(j)
    BY DEF PhotoNext, CascadeOf, Proceeding, AttachLocks, ListingReads, CascadeLists,
           ListingLists, Cascading, RollsBack
  <2>7. QED
    BY <2>0, <2>a, <2>1, <2>2, <2>3, <2>4, <2>5, <2>6
<1>3. QED
  BY <1>1, <1>2 DEF Settled, Status

LEMMA SettledStorage ==
  ASSUME PhotoTyped, Fresh, Settled, StorageStep
  PROVE  Settled'
<1> SUFFICES ASSUME NEW i \in PhotoIds, photo[i].state # "none"
             PROVE  row'[photo[i].obj].status \notin {"none", "pending"}
  BY DEF Settled, Status, StorageStep
<1> DEFINE o == photo[i].obj
<1>1. o \in Objects /\ Status(o) \notin {"none", "pending"}
  BY DEF PhotoTyped, Pictured, Settled
<1>2. Evolves(o)
  BY <1>1, PhotoTypedParts, Evolution DEF StorageStep
<1>3. \A p \in Requests : op[p].pc = "insert" => op[p].obj # o
  BY <1>1 DEF Fresh
<1> HIDE DEF o
<1>4. row'[o].status \notin {"none", "pending"}
  <2>1. CASE row'[o] = row[o]
    BY <1>1, <2>1 DEF Status
  <2>2. CASE \E p \in Requests : row'[o] = [status |-> "ready", size |-> op[p].size]
    BY <2>2
  <2>3. \/ row'[o] = row[o]
        \/ row'[o].status \notin {"none", "pending", "ready"}
        \/ \E p \in Requests : row'[o] = [status |-> "ready", size |-> op[p].size]
    BY <1>2, <1>3, Zenon DEF Evolves
  <2>4. QED
    BY <2>1, <2>2, <2>3
<1>5. QED
  BY <1>4 DEF o

LEMMA ReleasedStorage ==
  ASSUME PhotoTyped, Settled, Fresh, PhotosReleased, StorageStep
  PROVE  PhotosReleased'
<1> SUFFICES ASSUME NEW o \in Objects, NEW i \in PhotoIds, On(i, o), ~Attached(o),
                    row'[o].status = "ready"
             PROVE  o \in odd' \cup missed'
  BY DEF PhotosReleased, On, Attached, Status, StorageStep
<1>1. Evolves(o) /\ odd \subseteq odd' /\ missed' = missed
  BY PhotoTypedParts, Evolution DEF StorageStep
<1>2. CASE Status(o) = "ready"
  BY <1>1, <1>2 DEF PhotosReleased
<1>3. CASE Status(o) # "ready"
  <2>1. row'[o] # row[o] /\ Status(o) # "pending"
    BY <1>3 DEF Status, Settled, On
  <2>2. \A n : row'[o] # [status |-> "pending", size |-> n]
    OBVIOUS
  <2>3. QED
    BY <1>1, <2>1, <2>2, Zenon DEF Evolves
<1>4. QED
  BY <1>2, <1>3

\* Photos stop being active and their objects are deleted.
LEMMA ReleasedByDeletion ==
  ASSUME PhotoTyped, PhotosReleased, NEW S, NEW gone \in SUBSET PhotoIds,
         DeletesStorage(Unreferenced(S, gone)), missed \subseteq missed',
         \A i \in PhotoIds \ gone : photo'[i] = photo[i],
         \A i \in gone : /\ photo'[i].state # "active"
                         /\ photo'[i].state # "none" =>
                              photo'[i].obj = photo[i].obj /\ photo[i].state # "none"
                         /\ photo[i].state = "active" => photo[i].obj \in S \cup missed'
  PROVE  PhotosReleased'
<1> SUFFICES ASSUME NEW o \in Objects, NEW i \in PhotoIds,
                    photo'[i].state # "none", photo'[i].obj = o,
                    \A j \in PhotoIds : ~(photo'[j].state = "active" /\ photo'[j].obj = o),
                    row'[o].status = "ready"
             PROVE  o \in odd' \cup missed'
  BY DEF PhotosReleased, On, Attached, Status
<1>1. o \notin Unreferenced(S, gone) /\ Status(o) = "ready" /\ odd' = odd
  BY DEF DeletesStorage, Status, PhotoTyped, PhotoTypeOK, TypeOK, Row
<1>2. On(i, o)
  BY DEF On
<1>3. CASE ~Attached(o)
  BY <1>1, <1>2, <1>3 DEF PhotosReleased
<1>4. CASE Attached(o)
  <2>1. PICK j \in PhotoIds : photo[j].obj = o /\ photo[j].state = "active"
    BY <1>4 DEF Attached, On
  <2>2. j \in gone
    BY <2>1
  <2>3. \A k \in PhotoIds \ gone : ~(On(k, o) /\ photo[k].state = "active")
    BY DEF On
  <2>4. o \notin S
    BY <1>1, <2>3 DEF Unreferenced
  <2>5. QED
    BY <2>1, <2>2, <2>4
<1>5. QED
  BY <1>3, <1>4

\* Photos become active, among them one of every object whose row changes.
LEMMA ReleasedByAttachment ==
  ASSUME PhotoTyped, PhotosReleased, odd \subseteq odd', missed \subseteq missed',
         \A i \in PhotoIds : \/ photo'[i] = photo[i]
                             \/ /\ photo'[i].state = "active"
                                /\ photo[i].state # "none" => photo'[i].obj = photo[i].obj,
         \A o \in Objects : \/ row'[o] = row[o]
                            \/ \E i \in PhotoIds : /\ photo'[i].state = "active"
                                                   /\ photo'[i].obj = o
  PROVE  PhotosReleased'
<1> SUFFICES ASSUME NEW o \in Objects, NEW i \in PhotoIds,
                    photo'[i].state # "none", photo'[i].obj = o,
                    \A j \in PhotoIds : ~(photo'[j].state = "active" /\ photo'[j].obj = o),
                    row'[o].status = "ready"
             PROVE  o \in odd' \cup missed'
  BY DEF PhotosReleased, On, Attached, Status
<1>1. Status(o) = "ready" /\ On(i, o)
  BY DEF Status, On
<1>2. ~Attached(o)
  BY DEF Attached, On
<1>3. QED
  BY <1>1, <1>2 DEF PhotosReleased

LEMMA ReleasedStep ==
  ASSUME PhotoTyped, Spare, Lists, PhotosReleased, PhotoNext
  PROVE  PhotosReleased'
<1>0. /\ tx \in [Clerks -> Tx] /\ photo \in [PhotoIds -> Photo]
      /\ \A c \in Clerks : tx[c].scope \in Scopes /\ tx[c].offers \in SUBSET Offers
  BY DEF PhotoTyped, PhotoTypeOK, Tx
<1>a. LeavesStorage /\ UNCHANGED <<photo, missed>> => PhotosReleased'
  BY DEF LeavesStorage, PhotosReleased, On, Attached, Status
<1>1. ASSUME NEW c \in Clerks, NEW f \in Offers, NEW o \in Objects, AttachLocks(c, f, o)
      PROVE  PhotosReleased'
  BY <1>1, <1>a DEF AttachLocks
<1>2. ASSUME NEW c \in Clerks, ListingReads(c)
      PROVE  PhotosReleased'
  BY <1>2, <1>a DEF ListingReads
<1>3. ASSUME NEW c \in Clerks, NEW f \in Offers, NEW act \in {"delete", "restore", "purge"},
             offer[f] # "removed", CascadeLists(c, act, "offer", {f})
      PROVE  PhotosReleased'
  BY <1>3, <1>a DEF CascadeLists, Cascading
<1>4. ASSUME NEW c \in Clerks, NEW act \in {"restore", "purge"},
             CascadeLists(c, act, "listing", {f \in Offers : offer[f] # "removed"})
      PROVE  PhotosReleased'
  BY <1>4, <1>a DEF CascadeLists, Cascading
<1>5. ASSUME NEW c \in Clerks, AttachEnds(c)
      PROVE  PhotosReleased'
  <2>1. PICK f \in Offers, o \in Objects : AttachesOne(c, f, o)
    BY <1>5, AttachCases
  <2>2. UNCHANGED missed /\ tx[c].pc = "attach"
    BY <2>1 DEF AttachesOne
  <2>3. ASSUME RestoresStorage({o}), NEW i \in RowsOf(f, o),
               photo' = [photo EXCEPT ![i].state = "active"]
        PROVE  PhotosReleased'
    <3>1. i \in PhotoIds /\ photo[i].obj = o /\ photo[i] \in Photo
      BY <1>0 DEF RowsOf, On
    <3>2. /\ photo'[i].state = "active" /\ photo'[i].obj = o
          /\ \A j \in PhotoIds \ {i} : photo'[j] = photo[j]
      BY <1>0, <2>3, <3>1 DEF Photo
    <3>3. odd \subseteq odd' /\ \A x \in Objects \ {o} : row'[x] = row[x]
      BY <2>3 DEF RestoresStorage
    <3>4. QED
      BY <2>2, <3>1, <3>2, <3>3, ReleasedByAttachment
  <2>4. ASSUME LeavesStorage,
               photo' = [photo EXCEPT ![Min(NextId)] =
                           [state |-> "active", offer |-> f, obj |-> o]]
        PROVE  PhotosReleased'
    <3>1. Min(NextId) \in PhotoIds /\ photo[Min(NextId)].state = "none"
      BY <2>2, SpareId DEF NextId
    <3>2. \A i \in PhotoIds : \/ photo'[i] = photo[i]
                              \/ photo'[i].state = "active" /\ photo[i].state = "none"
      BY <1>0, <2>4, <3>1
    <3>3. odd \subseteq odd' /\ \A x \in Objects : row'[x] = row[x]
      BY <2>4 DEF LeavesStorage
    <3>4. QED
      BY <2>2, <3>2, <3>3, ReleasedByAttachment
  <2>5. QED
    BY <1>a, <2>1, <2>2, <2>3, <2>4 DEF AttachesOne
<1>6. ASSUME NEW c \in Clerks, DeleteEnds(c)
      PROVE  PhotosReleased'
  <2> DEFINE hit == {i \in PhotoIds : photo[i].state = "active"
                                      /\ photo[i].offer \in tx[c].offers}
             S == tx[c].listed \cap {photo[i].obj : i \in hit}
  <2>1. DeletesStorage(Unreferenced(S, hit)) /\ missed \subseteq missed'
    BY <1>6 DEF DeleteEnds
  <2>2. \A i \in PhotoIds \ hit : photo'[i] = photo[i]
    BY <1>6 DEF DeleteEnds
  <2>3. \A i \in hit : /\ photo'[i].state \in Scopes /\ photo'[i].obj = photo[i].obj
                       /\ photo[i].state # "none"
    BY <1>6, <1>0 DEF DeleteEnds, Photo
  <2>4. \A i \in hit : photo[i].obj \in S
    BY <1>6 DEF DeleteEnds, Cascades, Lists, DeleteLists
  <2>5. hit \in SUBSET PhotoIds
    OBVIOUS
  <2> HIDE DEF hit, S
  <2>6. QED
    BY <2>1, <2>2, <2>3, <2>4, <2>5, ReleasedByDeletion DEF Scopes
<1>7. ASSUME NEW c \in Clerks, RestoreEnds(c)
      PROVE  PhotosReleased'
  <2>1. /\ UNCHANGED missed /\ tx[c].pc = "cascade" /\ tx[c].act = "restore"
    BY <1>7, RestoreCases DEF Cascades
  <2>2. ASSUME NEW S \in SUBSET Deleted, NEW hit \in SUBSET PhotoIds, Restores(c, S, hit)
        PROVE  PhotosReleased'
    <3>1. \A i \in PhotoIds :
            \/ i \notin hit /\ photo'[i] = photo[i]
            \/ i \in hit /\ photo'[i].state = "active" /\ photo'[i].obj = photo[i].obj
      BY <1>0, <2>2 DEF Restores, Photo
    <3>2. ASSUME NEW o \in S
          PROVE  \E i \in PhotoIds : photo'[i].state = "active" /\ photo'[i].obj = o
      <4>1. o \in tx[c].listed
        BY <2>2, <3>2 DEF Restores
      <4>2. PICK i \in PhotoIds : /\ photo[i].state = tx[c].scope
                                  /\ photo[i].offer \in tx[c].offers /\ photo[i].obj = o
        BY <2>1, <4>1 DEF Lists, RestoreLists
      <4>3. i \in hit
        BY <2>2, <4>2 DEF Restores
      <4>4. QED
        BY <3>1, <4>2, <4>3
    <3>3. odd \subseteq odd' /\ \A o \in Objects \ S : row'[o] = row[o]
      BY <2>2 DEF Restores, RestoresStorage
    <3>4. QED
      BY <2>1, <3>1, <3>2, <3>3, ReleasedByAttachment
  <2>3. QED
    BY <1>7, <1>a, <2>1, <2>2, RestoreCases
<1>8. ASSUME NEW c \in Clerks, PurgeEnds(c)
      PROVE  PhotosReleased'
  <2> DEFINE hit == {i \in PhotoIds : photo[i].state # "none"
                                      /\ photo[i].offer \in tx[c].offers}
  <2>1. DeletesStorage(Unreferenced(tx[c].listed, hit)) /\ missed \subseteq missed'
    BY <1>8 DEF PurgeEnds
  <2>2. \A i \in PhotoIds \ hit : photo'[i] = photo[i]
    BY <1>8 DEF PurgeEnds
  <2>3. \A i \in hit : photo'[i].state = "none"
    BY <1>8 DEF PurgeEnds, NoPhoto
  <2>4. \A i \in hit : photo[i].obj \in tx[c].listed \cup missed'
    BY <1>8 DEF PurgeEnds
  <2>5. hit \in SUBSET PhotoIds
    OBVIOUS
  <2> HIDE DEF hit
  <2>6. QED
    BY <2>1, <2>2, <2>3, <2>4, <2>5, ReleasedByDeletion
<1>9. ASSUME NEW c \in Clerks, ListingLists(c)
      PROVE  PhotosReleased'
  BY <1>9, <1>a DEF ListingLists, Cascading
<1>10. ASSUME NEW c \in Clerks, RollsBack(c)
      PROVE  PhotosReleased'
  BY <1>10, <1>a DEF RollsBack
<1>11. ASSUME NEW i \in PhotoIds, RemovePhoto(i)
      PROVE  PhotosReleased'
  <2>1. DeletesStorage(Unreferenced({photo[i].obj}, {i})) /\ missed' = missed
    BY <1>11 DEF RemovePhoto
  <2>2. \A j \in PhotoIds \ {i} : photo'[j] = photo[j]
    BY <1>11, <1>0 DEF RemovePhoto
  <2>3. /\ photo'[i].state = "manual" /\ photo'[i].obj = photo[i].obj
        /\ photo[i].state # "none"
    BY <1>11, <1>0 DEF RemovePhoto, Photo
  <2>4. {i} \in SUBSET PhotoIds
    OBVIOUS
  <2>5. QED
    BY <2>1, <2>2, <2>3, <2>4, ReleasedByDeletion
<1>12. QED
  BY <1>1, <1>2, <1>3, <1>4, <1>5, <1>6, <1>7, <1>8, <1>9, <1>10, <1>11
  DEF PhotoNext, CascadeOf, Proceeding

-----------------------------------------------------------------------------
\* The inductive invariant of the photos and of the objects they release.
PhotoInv ==
  PhotoTyped /\ Fresh /\ Settled /\ Spare /\ Lists /\ PhotosReleased

LEMMA PhotoInvariance == PhotoSpec => []PhotoInv
<1>1. PhotoInit => PhotoInv
  <2>1. ASSUME PhotoInit
        PROVE  Settled /\ Lists /\ PhotosReleased
    BY <2>1 DEF PhotoInit, Settled, Lists, Exclusive, DeleteLists, RestoreLists, HeldBy,
                Writing, PhotosReleased, On, NoPhoto, NoTx
  <2>2. ASSUME PhotoInit
        PROVE  Spare
    <3>1. Cardinality(Attaching) = 0
      BY <2>2, FS_EmptySet DEF PhotoInit, Attaching, NoTx
    <3>2. QED
      BY <3>1, SpareSets DEF Spare
  <2>3. QED
    BY <2>1, <2>2, PhotoTypedInit, NothingYet DEF PhotoInit, PhotoInv
<1>2. PhotoInv /\ PhotoNext => PhotoInv'
  BY PhotoTypedParts, PhotoTypedStep, FreshEffect, SettledStep, SpareStep, ListsStep,
     ReleasedStep DEF PhotoInv
<1>3. PhotoInv /\ StorageStep => PhotoInv'
  <2>1. ASSUME StorageStep, Spare, Lists
        PROVE  Spare' /\ Lists'
    BY <2>1 DEF StorageStep, Spare, Attaching, NextId, Lists, Exclusive, DeleteLists,
                RestoreLists, HeldBy, Writing
  <2>2. QED
    BY <2>1, PhotoTypedParts, StorageTypedStep, FreshStep, SettledStorage,
       ReleasedStorage DEF StorageStep, PhotoInv
<1>4. PhotoInv /\ UNCHANGED allVars => PhotoInv'
  <2>1. PhotoTyped /\ UNCHANGED allVars => PhotoTyped'
    BY PhotoTypedStill
  <2>2. QED
    BY <2>1 DEF PhotoInv, allVars, vars, photoVars, Fresh, Settled, Spare, Attaching, NextId,
                Lists, Exclusive, DeleteLists, RestoreLists, HeldBy, Writing, PhotosReleased,
                On, Attached, Status
<1>5. QED
  BY <1>1, <1>2, <1>3, <1>4, PTL DEF PhotoSpec

\* An object all of whose photos are deleted is not left ready to count
\* against the quota, whatever attachments, deletions, restorations, purges and
\* storage steps interleave (_delete_storage_if_unreferenced_in_transaction),
\* up to what a purge had not listed and to objects met in another status.
THEOREM PhotosAreReleased == PhotoSpec => []PhotosReleased
<1>1. PhotoInv => PhotosReleased
  BY DEF PhotoInv
<1>2. QED
  BY <1>1, PhotoInvariance, PTL
=============================================================================
