-------------------------------- MODULE MCPhotos --------------------------------
(* Small instances of OfferPhotos for TLC.                                  *)
EXTENDS OfferPhotos, TLC

CONSTANTS o1, p1, f1, f2, c1, c2

MCObject   == {o1}
MCRequest  == {p1}
MCOffers   == {f1, f2}
MCClerks   == {c1, c2}
MCSymmetry == Permutations(MCOffers) \cup Permutations(MCClerks)

\* Two reachable states further on: one object whose bytes are posted, not
\* attached to any offer; or completed, and a photo of both offers.
MCStart(status, n, photos) ==
  /\ row = [o \in Objects |-> [status |-> status, size |-> 1]]
  /\ bucket = [o \in Objects |-> 1]
  /\ link = {} /\ old = {} /\ locked = {} /\ odd = {}
  /\ usage = n
  /\ op = [p \in Requests |-> Idle]
  /\ sweep = [k \in Kinds |-> Done]
  /\ begun = 0 /\ crashes = 0
  /\ offer = [f \in Offers |-> "active"]
  /\ photo = [i \in PhotoIds |->
       IF i \in DOMAIN photos
         THEN [state |-> "active", offer |-> photos[i], obj |-> o1] ELSE NoPhoto]
  /\ tx = [c \in Clerks |-> NoTx]
  /\ txs = 0 /\ stripped = {} /\ missed = {}

MCInit == MCStart("pending", 0, <<>>) \/ MCStart("ready", 1, <<f1, f2>>)

MCSpec == MCInit /\ [][PhotoNext \/ StorageStep]_allVars

MCFairSpec == MCSpec /\ PhotoFairness
=============================================================================
