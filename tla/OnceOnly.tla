------------------------------- MODULE OnceOnly -------------------------------
(***************************************************************************)
(* What an idempotency key promises to the clients of a write endpoint,    *)
(* with neither rows nor leases: of the deliveries of one key at most one  *)
(* is being carried out, the first definite result is the result of the    *)
(* key, and every later delivery of the same content is told that result   *)
(* and is not carried out again, until the key is forgotten.               *)
(* IdempotencyEngine implements it while handlers end within their lease.  *)
(***************************************************************************)
CONSTANTS Requests, Keys, KeyOf, FpOf, NoReq

VARIABLES
  running,  \* the deliveries that are being carried out
  result,   \* the delivery whose result each key stands for, or NoReq
  told      \* the delivery whose result each delivery was told, or NoReq

promise == <<running, result, told>>

Init ==
  /\ running = {}
  /\ result = [k \in Keys |-> NoReq]
  /\ told = [r \in Requests |-> NoReq]

Admit(r) ==
  /\ told[r] = NoReq
  /\ result[KeyOf[r]] = NoReq
  /\ \A q \in running : KeyOf[q] # KeyOf[r]
  /\ running' = running \cup {r}
  /\ UNCHANGED <<result, told>>

Settle(r) ==
  /\ r \in running
  /\ running' = running \ {r}
  /\ result' = [result EXCEPT ![KeyOf[r]] = r]
  /\ told' = [told EXCEPT ![r] = r]

\* No result, or none that the key may stand for.
Abandon(r) ==
  /\ r \in running
  /\ running' = running \ {r}
  /\ UNCHANGED <<result, told>>

Replay(r) ==
  /\ r \notin running
  /\ told[r] = NoReq
  /\ result[KeyOf[r]] # NoReq
  /\ FpOf[result[KeyOf[r]]] = FpOf[r]
  /\ told' = [told EXCEPT ![r] = result[KeyOf[r]]]
  /\ UNCHANGED <<running, result>>

\* Never a key that is being carried out.
Forget(gone) ==
  /\ \A r \in running : KeyOf[r] \notin gone
  /\ result' = [k \in Keys |-> IF k \in gone THEN NoReq ELSE result[k]]
  /\ UNCHANGED <<running, told>>

Next ==
  \/ \E r \in Requests : Admit(r) \/ Settle(r) \/ Abandon(r) \/ Replay(r)
  \/ \E gone \in SUBSET Keys : Forget(gone)

Spec == Init /\ [][Next]_promise
=============================================================================
