------------------------------ MODULE OfferPhotos ------------------------------
(***************************************************************************)
(* The photos of a listing's offers (server/services/offer_photo_lifecycle, *)
(* core/data/offer_photos_repository.py, and the offer and listing writes   *)
(* that cascade to them), composed with the storage rows they refer to.     *)
(*                                                                         *)
(* A transaction takes the advisory lock of each storage id and the row     *)
(* lock of the object, and works on fresh reads from then on.  What it did  *)
(* before that is a step of its own: an attachment locks the object and     *)
(* then the offer; a deletion or restoration writes the offer, bumps the    *)
(* generation of the agency's listings, lists the objects, and then locks   *)
(* those.                                                                   *)
(***************************************************************************)
EXTENDS ObjectStorage

CONSTANTS
  Offers,       \* the offers of one listing
  MaxPhotos,    \* bound on the rows of offer_photos
  Clerks,       \* photo transactions in flight
  MaxTx         \* bound on the photo transactions of one behaviour

ASSUME PhotosAssumption ==
  /\ IsFiniteSet(Offers) /\ None \notin Offers /\ IsFiniteSet(Clerks)
  /\ MaxPhotos \in Nat /\ MaxTx \in Nat

VARIABLES
  offer,     \* each offer: active, deleted_at set, or removed
  photo,     \* offer_photos, by id; a deleted row holds its delete_origin
  tx,        \* each transaction
  txs,       \* transactions so far
  stripped,  \* history: objects deleted by storage/delete/ under a photo
  missed     \* history: what a cascade had not listed: objects a purge removed
             \* photos of, offers a listing's deletion deleted

photoVars == <<offer, photo, tx, txs, stripped, missed>>
allVars == <<vars, photoVars>>

Scopes   == {"offer", "listing"}
PhotoIds == 1 .. MaxPhotos
Photo    == [state: {"none", "active", "manual"} \cup Scopes,
             offer: Offers \cup {None}, obj: Objects \cup {None}]
\* offers: those whose photos are concerned; listed: their storage ids
Tx       == [pc: {"idle", "attach", "ids", "cascade"},
             act: {"attach", "delete", "restore", "purge"}, scope: Scopes,
             offers: SUBSET Offers, listed: SUBSET Objects]

PhotoTypeOK ==
  /\ TypeOK
  /\ offer \in [Offers -> {"active", "deleted", "removed"}]
  /\ photo \in [PhotoIds -> Photo]
  /\ tx \in [Clerks -> Tx]
  /\ txs \in 0 .. MaxTx
  /\ stripped \subseteq Objects /\ missed \subseteq Objects \cup Offers

NoPhoto == [state |-> "none", offer |-> None, obj |-> None]
NoTx    == [pc |-> "idle", act |-> "attach", scope |-> "offer", offers |-> {},
            listed |-> {}]

PhotoInit ==
  /\ Init
  /\ offer = [f \in Offers |-> "active"]
  /\ photo = [i \in PhotoIds |-> NoPhoto]
  /\ tx = [c \in Clerks |-> NoTx]
  /\ txs = 0 /\ stripped = {} /\ missed = {}

-----------------------------------------------------------------------------
OpenTx(c, t) ==
  /\ tx[c].pc = "idle" /\ txs < MaxTx
  /\ txs' = txs + 1
  /\ tx' = [tx EXCEPT ![c] = t]

\* Mutant: the advisory lock is the session's, and stays.
CloseTxSession(c) == tx' = [tx EXCEPT ![c] = NoTx] /\ UNCHANGED locked

\* COMMIT or ROLLBACK, which release the locks.
CloseTx(c) ==
  /\ tx' = [tx EXCEPT ![c] = NoTx]
  /\ locked' = IF tx[c].pc = "attach" THEN locked \ tx[c].listed ELSE locked

On(i, o) == photo[i].state # "none" /\ photo[i].obj = o
Attached(o) == \E i \in PhotoIds : On(i, o) /\ photo[i].state = "active"

\* Mutant: the last photo's object is deleted without counting the others.
UnreferencedAny(objs, gone) == {o \in objs : Status(o) = "ready"}

\* Mutant: deleted photos count as references too.
UnreferencedNever(objs, gone) ==
  {o \in objs : Status(o) = "ready" /\ \A i \in PhotoIds : ~On(i, o)}

\* _delete_storage_if_unreferenced_in_transaction on locked rows, after the
\* photos of gone are no longer active.
Unreferenced(objs, gone) ==
  {o \in objs : Status(o) = "ready"
                /\ \A i \in PhotoIds \ gone : ~(On(i, o) /\ photo[i].state = "active")}

DeletesStorage(objs) ==
  /\ row' = [o \in Objects |->
               IF o \in objs THEN [row[o] EXCEPT !.status = "deleted"] ELSE row[o]]
  /\ Debit(SumOf(objs))
  /\ old' = old \ objs
  /\ UNCHANGED odd

\* _restore_storage_in_transaction on locked rows, whose bytes a sweep may
\* have deleted already.
RestoresStorage(objs) ==
  /\ row' = [o \in Objects |->
               IF o \in objs THEN [row[o] EXCEPT !.status = "ready"] ELSE row[o]]
  /\ Credit(SumOf(objs))
  /\ odd' = odd \cup {o \in objs : bucket[o] = 0}
  /\ UNCHANGED old

\* The transaction commits no write to storage.
LeavesStorage == UNCHANGED <<row, usage, old, odd>>
LeavesRest == UNCHANGED <<bucket, link, op, sweep, counters>>

-----------------------------------------------------------------------------
(* add_offer_photo.                                                        *)

\* Ids grow; MaxPhotos bounds the attachments that may need one.
NextId == {i \in PhotoIds : \A j \in PhotoIds : j >= i => photo[j].state = "none"}
Room == Cardinality(NextId) > Cardinality({c \in Clerks : tx[c].pc = "attach"})

AttachLocks(c, f, o) ==
  /\ o \notin locked /\ Exists(o) /\ Room
  /\ OpenTx(c, [NoTx EXCEPT !.pc = "attach", !.offers = {f}, !.listed = {o}])
  /\ locked' = locked \cup {o}
  /\ LeavesStorage /\ LeavesRest
  /\ UNCHANGED <<offer, photo, stripped, missed>>

\* A deletion or restoration that has not committed: it holds the offers it
\* wrote, and the generation of the agency's listings, which it bumped.
Writing(c) == tx[c].pc = "cascade" /\ tx[c].act # "purge"
HeldBy(c) == IF ~Writing(c) THEN {}
             ELSE IF tx[c].scope = "listing" THEN Offers ELSE tx[c].offers
Held == UNION {HeldBy(c) : c \in Clerks}

RowsOf(f, o) == {i \in PhotoIds : On(i, o) /\ photo[i].offer = f}
Newest(ids) == CHOOSE i \in ids : \A j \in ids : j <= i

\* Mutant: the offer is looked up with its deleted_at ignored.
AttachableDeleted(f, o) == offer[f] # "removed" /\ o \notin Artifacts

Attachable(f, o) == offer[f] = "active" /\ o \notin Artifacts

\* The offer is locked; then an existing photo is returned, the newest deleted
\* one restored with its object, a new one created, or an error raised.
AttachEnds(c) ==
  \E f \in tx[c].offers, o \in tx[c].listed :
    LET gone == {i \in RowsOf(f, o) : photo[i].state # "active"}
        able == Attachable(f, o) /\ RowsOf(f, o) = gone
    IN
    /\ tx[c].pc = "attach" /\ f \notin Held
    /\ \/ /\ able /\ Status(o) = "deleted" /\ gone # {}
          /\ RestoresStorage({o})
          /\ photo' = [photo EXCEPT ![Newest(gone)].state = "active"]
       \/ /\ able /\ Status(o) = "ready"
          /\ photo' = [photo EXCEPT ![Min(NextId)] =
                         [state |-> "active", offer |-> f, obj |-> o]]
          /\ LeavesStorage
       \/ /\ ~able \/ (Status(o) = "deleted" /\ gone = {})
                   \/ Status(o) \notin {"ready", "deleted"}
          /\ LeavesStorage /\ UNCHANGED photo
    /\ CloseTx(c)
    /\ LeavesRest /\ UNCHANGED <<offer, txs, stripped, missed>>

-----------------------------------------------------------------------------
(* delete_offer_photo: the photo is read again under the locks.            *)

RemovePhoto(i) ==
  LET o == photo[i].obj IN
  /\ photo[i].state = "active" /\ o \notin locked
  /\ txs < MaxTx /\ txs' = txs + 1
  /\ photo' = [photo EXCEPT ![i].state = "manual"]
  /\ DeletesStorage(Unreferenced({o}, {i}))
  /\ LeavesRest /\ UNCHANGED <<locked, offer, tx, stripped, missed>>

-----------------------------------------------------------------------------
(* Deleting, restoring and purging an offer or the listing.                 *)

\* delete_listing reads the ids of the active offers before it writes them.
ListingReads(c) ==
  /\ OpenTx(c, [NoTx EXCEPT !.pc = "ids", !.act = "delete", !.scope = "listing",
                  !.offers = {f \in Offers : offer[f] = "active"}])
  /\ LeavesStorage /\ LeavesRest
  /\ UNCHANGED <<locked, offer, photo, stripped, missed>>

\* list_storage_ids_for_offer_ids.
Listed(act, scope, fs) ==
  {photo[i].obj : i \in {j \in PhotoIds :
     /\ photo[j].offer \in fs
     /\ \/ act = "delete" /\ photo[j].state = "active"
        \/ act = "restore" /\ photo[j].state = scope
        \/ act = "purge" /\ photo[j].state # "none"}}

\* bump_generation: the row is free.
GenerationFree == \A d \in Clerks : ~Writing(d)

\* The offers are written, and so locked, except by a purge.
Cascading(c, act, scope, fs) ==
  /\ act = "purge" \/ GenerationFree
  /\ tx' = [tx EXCEPT ![c] = [pc |-> "cascade", act |-> act, scope |-> scope,
                              offers |-> fs, listed |-> Listed(act, scope, fs)]]
  /\ LeavesStorage /\ LeavesRest
  /\ UNCHANGED <<locked, offer, photo, stripped, missed>>

CascadeLists(c, act, scope, fs) ==
  /\ tx[c].pc = "idle" /\ txs < MaxTx /\ txs' = txs + 1
  /\ Cascading(c, act, scope, fs)

ListingLists(c) ==
  /\ tx[c].pc = "ids" /\ UNCHANGED txs
  /\ Cascading(c, "delete", "listing", tx[c].offers)

\* The cascade gets the locks of the objects it listed.
Cascades(c, act) ==
  tx[c].pc = "cascade" /\ tx[c].act = act /\ tx[c].listed \cap locked = {}

\* deleted_at of the offers the transaction wrote.
Writes(c, state) ==
  offer' = [f \in Offers |-> IF offer[f] # "removed"
              /\ (f \in tx[c].offers \/ tx[c].scope = "listing")
              THEN state ELSE offer[f]]

\* mark_offer_photos_deleted_for_offers.
DeleteEnds(c) ==
  LET hit == {i \in PhotoIds : photo[i].state = "active"
                               /\ photo[i].offer \in tx[c].offers}
  IN
  /\ Cascades(c, "delete")
  /\ photo' = [i \in PhotoIds |->
       IF i \in hit THEN [photo[i] EXCEPT !.state = tx[c].scope] ELSE photo[i]]
  /\ DeletesStorage(Unreferenced(tx[c].listed \cap {photo[i].obj : i \in hit}, hit))
  /\ Writes(c, "deleted") /\ CloseTx(c)
  /\ missed' = IF tx[c].scope = "listing"
                 THEN missed \cup ({f \in Offers : offer[f] = "active"} \ tx[c].offers)
                 ELSE missed
  /\ LeavesRest /\ UNCHANGED <<txs, stripped>>

\* restore_offer_photos_for_offers.  Two rows of one offer and object cannot
\* both become active: the unique index fails the transaction.
RestoreEnds(c) ==
  LET back == {o \in tx[c].listed \ Artifacts : Status(o) = "deleted"}
      hit  == {i \in PhotoIds : /\ photo[i].state = tx[c].scope
                                /\ photo[i].offer \in tx[c].offers
                                /\ \/ photo[i].obj \in back
                                   \/ Status(photo[i].obj) = "ready"}
      clash == \E i \in hit, j \in PhotoIds :
                 /\ i # j /\ j \in RowsOf(photo[i].offer, photo[i].obj)
                 /\ j \in hit \/ photo[j].state = "active"
  IN
  /\ Cascades(c, "restore")
  /\ \/ /\ ~clash
        /\ RestoresStorage(back)
        /\ photo' = [i \in PhotoIds |->
             IF i \in hit THEN [photo[i] EXCEPT !.state = "active"] ELSE photo[i]]
        /\ Writes(c, "active")
     \/ clash /\ LeavesStorage /\ UNCHANGED <<photo, offer>>
  /\ CloseTx(c)
  /\ LeavesRest /\ UNCHANGED <<txs, stripped, missed>>

\* The photos go with their offers (ON DELETE CASCADE).
PurgeEnds(c) ==
  LET hit == {i \in PhotoIds : photo[i].state # "none"
                               /\ photo[i].offer \in tx[c].offers}
  IN
  /\ Cascades(c, "purge") /\ GenerationFree
  /\ photo' = [i \in PhotoIds |-> IF i \in hit THEN NoPhoto ELSE photo[i]]
  /\ DeletesStorage(Unreferenced(tx[c].listed, hit))
  /\ Writes(c, "removed") /\ CloseTx(c)
  /\ missed' = missed \cup ({photo[i].obj : i \in hit} \ tx[c].listed)
  /\ LeavesRest /\ UNCHANGED <<txs, stripped>>

\* A statement fails, PostgreSQL picks the transaction to break a circle of
\* waits, or its worker dies.
RollsBack(c) ==
  /\ tx[c].pc # "idle" /\ CloseTx(c)
  /\ LeavesStorage /\ LeavesRest
  /\ UNCHANGED <<offer, photo, txs, stripped, missed>>

-----------------------------------------------------------------------------
CascadeOf(c) ==
  \/ ListingReads(c)
  \/ \E f \in Offers, act \in {"delete", "restore", "purge"} :
       offer[f] # "removed" /\ CascadeLists(c, act, "offer", {f})
  \/ \E act \in {"restore", "purge"} :
       CascadeLists(c, act, "listing", {f \in Offers : offer[f] # "removed"})

Proceeding(c) ==
  \/ AttachEnds(c) \/ DeleteEnds(c) \/ RestoreEnds(c) \/ PurgeEnds(c)
  \/ ListingLists(c)

PhotoNext ==
  \/ \E c \in Clerks : \/ \E f \in Offers, o \in Objects : AttachLocks(c, f, o)
                       \/ CascadeOf(c) \/ Proceeding(c) \/ RollsBack(c)
  \/ \E i \in PhotoIds : RemovePhoto(i)

\* A storage step next to the photos.
StorageStep ==
  /\ StorageNext
  /\ stripped' = stripped \cup {o \in Objects : Attached(o) /\ Status(o) = "ready"
                                               /\ row'[o].status = "deleted"}
  /\ UNCHANGED <<offer, photo, tx, txs, missed>>

PhotoSpec == PhotoInit /\ [][PhotoNext \/ StorageStep]_allVars

\* The open transactions that hold what this one needs next.
Blockers(c) ==
  {d \in Clerks \ {c} :
     \/ tx[c].pc = "attach" /\ tx[c].offers \cap HeldBy(d) # {}
     \/ tx[c].pc = "cascade" /\ tx[d].pc = "attach" /\ tx[c].listed \cap tx[d].listed # {}
     \/ tx[c].pc \in {"ids", "cascade"} /\ ~Writing(c) /\ Writing(d)}

\* One transaction at a time is Writing and a purge holds nothing before its
\* end, so a circle of waits is a writer and an attachment.
OnCircle(c) == \E d \in Blockers(c) : c \in Blockers(d)

\* A transaction whose locks are free goes on; PostgreSQL rolls back one of
\* a circle of waits, and breaks no other wait.
PhotoFairness ==
  /\ \A c \in Clerks : WF_allVars(Proceeding(c))
  /\ WF_allVars(\E c \in Clerks : OnCircle(c) /\ RollsBack(c))

-----------------------------------------------------------------------------
\* The object of an active photo is ready and has its bytes, unless a storage
\* step met the row in a status it is not meant for, or storage/delete/ was
\* called on an attached object (add_offer_photo, restore_offer_photos).
PhotosBacked ==
  \A i \in PhotoIds :
    LET o == photo[i].obj IN
    photo[i].state = "active" =>
      (Status(o) = "ready" /\ bucket[o] # 0) \/ o \in odd \cup stripped

\* An object all of whose photos are deleted is not left ready, counting
\* against the quota ("cleanup only marks storage metadata deleted when no
\* active photo references remain"), unless a purge had not listed it.
PhotosReleased ==
  \A o \in Objects :
    (\E i \in PhotoIds : On(i, o)) /\ ~Attached(o) =>
      Status(o) # "ready" \/ o \in odd \cup missed

\* No photo is active on an offer that is not, unless the listing's deletion
\* had read its active offers before this one was restored (delete_listing).
CascadesReach ==
  \A i \in PhotoIds :
    photo[i].state = "active" =>
      offer[photo[i].offer] = "active" \/ photo[i].offer \in missed

\* The object of an active photo has not been purged ("purged storage objects
\* ... are final and are not restored into active photo rows").
PurgedIsFinal ==
  \A i \in PhotoIds : photo[i].state = "active" => Status(photo[i].obj) # "purged"

\* Every photo transaction ends, though an attachment holds its object when it
\* asks for the offer and a cascade holds the offers when it asks for the
\* objects: no lock outlives its transaction, whatever a transaction finds
\* under its locks the code has a case for, and only circles are broken.
TransactionsEnd == \A c \in Clerks : tx[c].pc # "idle" ~> tx[c].pc = "idle"
=============================================================================
