---------------------------- MODULE CircuitBreaker ----------------------------
(***************************************************************************)
(* The desktop client's circuit breaker (app/services/                     *)
(* api_client_circuit.py) and the request loop around it (_send_request of *)
(* app/services/api_client.py).  The breaker is module state shared by the *)
(* UI thread and the background workers; each operation on it holds        *)
(* _cb_lock, and a request holds nothing between them.                     *)
(*                                                                         *)
(* Time is abstracted to whether _cb_open_until has passed.  An HTTP       *)
(* exchange is abstracted to how _send_request classifies its result.      *)
(***************************************************************************)
EXTENDS Naturals, FiniteSets

CONSTANTS
  Threads,    \* threads of the client that send requests
  Timer,      \* the one the 15-second sync timer keeps starting
  Threshold,  \* _CB_FAILURE_THRESHOLD
  Attempts,   \* _RETRY_ATTEMPTS
  Outcomes    \* results of an exchange this instance considers

\* down: requests.RequestException.  busy: 429/502/503/504.  soft: a 503 whose
\* code should_trip_circuit excuses.  refused: any other status >= 400.
Healthy == {"ok", "refused", "unauth"}
Ill     == {"down", "busy", "soft"}

ASSUME ThreadsAssumption == Timer \in Threads /\ IsFiniteSet(Threads)
ASSUME LimitsAssumption ==
  Threshold \in Nat \ {0} /\ Attempts \in Nat \ {0}
ASSUME OutcomesAssumption == Outcomes \subseteq Healthy \cup Ill

VARIABLES
  cb,        \* _cb_state
  failures,  \* _cb_failures
  cooled,    \* _cb_open_until <= now
  probe,     \* _cb_probe_inflight
  token,     \* is an access token cached?
  pc,        \* where each thread is in _send_request
  attempt,   \* its attempt number
  online,    \* does the server answer normally?
  orphaned   \* history: did the exchange of the probe end unreported?

breaker == <<cb, failures, cooled, probe>>
vars == <<breaker, token, pc, attempt, online, orphaned>>

PCs == {"idle", "check", "send", "reauth", "resend"}

TypeOK ==
  /\ cb \in {"closed", "open", "half_open"}
  /\ failures \in Nat
  /\ cooled \in BOOLEAN
  /\ probe \in BOOLEAN
  /\ token \in BOOLEAN
  /\ pc \in [Threads -> PCs]
  /\ attempt \in [Threads -> 1 .. Attempts]
  /\ online \in BOOLEAN
  /\ orphaned \in BOOLEAN

\* The main window, its timers and its workers exist only after a login.
Init ==
  /\ cb = "closed"
  /\ failures = 0
  /\ cooled = TRUE
  /\ probe = FALSE
  /\ token = TRUE
  /\ pc = [t \in Threads |-> "idle"]
  /\ attempt = [t \in Threads |-> 1]
  /\ online \in BOOLEAN
  /\ orphaned = FALSE

-----------------------------------------------------------------------------
(* api_client_circuit.py: each operator is one critical section.           *)

\* record_api_success and reset_api_circuit.
RecordSuccess ==
  /\ cb' = "closed"
  /\ failures' = 0
  /\ cooled' = TRUE
  /\ probe' = FALSE

\* Mutant: the count goes up but the circuit is not opened.
RecordFailureNeverOpens ==
  IF cb = "half_open"
    THEN cb' = "open" /\ failures' = Threshold /\ cooled' = FALSE
         /\ probe' = FALSE
    ELSE failures' = failures + 1 /\ UNCHANGED <<cb, cooled, probe>>

RecordFailure ==
  IF cb = "half_open"
    THEN cb' = "open" /\ failures' = Threshold /\ cooled' = FALSE
         /\ probe' = FALSE
    ELSE /\ failures' = failures + 1
         /\ IF failures + 1 >= Threshold
              THEN cb' = "open" /\ cooled' = FALSE
              ELSE UNCHANGED <<cb, cooled>>
         /\ UNCHANGED probe

\* Mutant: _cb_open_until is not compared with the clock.
RejectsUncooled == cb = "open" \/ (cb = "half_open" /\ probe)

\* circuit_check raises: still cooling, or another probe is in flight.
Rejects == \/ cb = "open" /\ ~cooled
           \/ cb = "half_open" /\ probe

Admits ==
  /\ ~Rejects
  /\ cb' = IF cb = "open" THEN "half_open" ELSE cb
  /\ probe' = (cb \in {"open", "half_open"} \/ probe)
  /\ UNCHANGED <<failures, cooled>>

-----------------------------------------------------------------------------
(* _send_request.                                                          *)

Go(t, p) == pc' = [pc EXCEPT ![t] = p]

\* _build_request_headers: a cached token is used as it is; without one,
\* _get_token refreshes or logs in, which resets the breaker, or gives up.
Prepare(t) ==
  /\ pc[t] = "idle"
  /\ \/ token /\ UNCHANGED <<breaker, token>> /\ Go(t, "check")
     \/ ~token /\ online /\ RecordSuccess /\ token' = TRUE /\ Go(t, "check")
     \/ ~token /\ UNCHANGED <<breaker, token>> /\ Go(t, "check")
  /\ attempt' = [attempt EXCEPT ![t] = 1]
  /\ UNCHANGED online

CircuitCheck(t) ==
  /\ pc[t] = "check"
  /\ \/ Rejects /\ UNCHANGED breaker /\ Go(t, "idle")
     \/ Admits /\ Go(t, "send")
  /\ UNCHANGED <<token, attempt, online>>

\* A further attempt after retry_backoff, or the end of the loop.
RetryOrGiveUp(t) ==
  IF attempt[t] >= Attempts
    THEN Go(t, "idle") /\ UNCHANGED attempt
    ELSE Go(t, "send") /\ attempt' = [attempt EXCEPT ![t] = @ + 1]

\* What the loop does with the response of an exchange.
Respond(t, o) ==
  \/ /\ o = "ok"
     /\ RecordSuccess
     /\ Go(t, "idle")
     /\ UNCHANGED attempt
  \/ /\ o = "busy"
     /\ RecordFailure
     /\ RetryOrGiveUp(t)
  \/ /\ o = "soft"
     /\ UNCHANGED breaker
     /\ RetryOrGiveUp(t)
  \/ /\ o = "refused"
     /\ UNCHANGED breaker
     /\ Go(t, "idle")
     /\ UNCHANGED attempt

Possible == Outcomes \cap (IF online THEN Healthy ELSE Ill)

Send(t) ==
  /\ pc[t] = "send"
  /\ \E o \in Possible :
       \/ Respond(t, o) /\ UNCHANGED token
       \/ /\ o = "down"
          /\ RecordFailure
          /\ RetryOrGiveUp(t)
          /\ UNCHANGED token
       \/ /\ o = "unauth"
          /\ token' = FALSE
          /\ Go(t, "reauth")
          /\ UNCHANGED <<breaker, attempt>>
  /\ UNCHANGED online

\* After a 401: _get_token again; without a token the 401 is raised.
Reauth(t) ==
  /\ pc[t] = "reauth"
  /\ \/ token /\ UNCHANGED <<breaker, token>> /\ Go(t, "resend")
     \/ ~token /\ online /\ RecordSuccess /\ token' = TRUE /\ Go(t, "resend")
     \/ ~token /\ UNCHANGED <<breaker, token>> /\ Go(t, "idle")
  /\ UNCHANGED <<attempt, online>>

\* The second session.request is outside the try: an exception leaves the
\* function without record_api_failure, a second 401 is an ordinary refusal.
Resend(t) ==
  /\ pc[t] = "resend"
  /\ \E o \in Possible :
       \/ Respond(t, IF o = "unauth" THEN "refused" ELSE o)
       \/ o = "down" /\ UNCHANGED <<breaker, attempt>> /\ Go(t, "idle")
  /\ UNCHANGED <<token, online>>

-----------------------------------------------------------------------------
(* The environment.                                                        *)

\* _CB_RESET_SECONDS pass.
CoolDown ==
  /\ ~cooled
  /\ cooled' = TRUE
  /\ UNCHANGED <<cb, failures, probe, token, pc, attempt, online, orphaned>>

\* The user logs in again from the login dialog (_login_with_creds).
Login ==
  /\ online
  /\ RecordSuccess
  /\ token' = TRUE
  /\ orphaned' = FALSE
  /\ UNCHANGED <<pc, attempt, online>>

NetworkChanges ==
  /\ online' = ~online
  /\ UNCHANGED <<breaker, token, pc, attempt, orphaned>>

\* A thread leaves _send_request, while a probe is out, without a report.
Drops(t) == probe /\ pc[t] # "check" /\ pc'[t] = "idle" /\ UNCHANGED breaker

Request(t) ==
  /\ Prepare(t) \/ CircuitCheck(t) \/ Send(t) \/ Reauth(t) \/ Resend(t)
  /\ orphaned' = (probe' /\ (orphaned \/ Drops(t)))

InFlight(t) == pc[t] # "idle"

Next ==
  \/ \E t \in Threads : Request(t)
  \/ CoolDown
  \/ Login
  \/ NetworkChanges

Spec == Init /\ [][Next]_vars

\* A request that has started ends (requests have a timeout), the sync timer
\* starts one every 15 seconds, and the clock advances.
Fairness ==
  /\ \A t \in Threads : WF_vars(InFlight(t) /\ Request(t))
  /\ WF_vars(Request(Timer))
  /\ WF_vars(CoolDown)

FairSpec == Spec /\ Fairness

-----------------------------------------------------------------------------
(* Properties.                                                             *)

\* The three breaker variables agree, whatever the order in which threads
\* report: the circuit is closed exactly while fewer than Threshold failures
\* are counted, and the probe flag is only ever set while half-open.
BreakerConsistent ==
  /\ cb = "closed" <=> failures < Threshold
  /\ probe => cb = "half_open"
  /\ ~cooled => cb = "open"

\* When the server answers normally for good, the circuit closes again and
\* the queued work is sent, unless the exchange of a probe ended in a way
\* that _send_request reports to nobody: an ordinary 4xx, a 401 without a new
\* token, or an exception of the second request after a 401.
RecoversUnlessOrphaned == <>[]online => []<>(cb = "closed" \/ orphaned)
=============================================================================
