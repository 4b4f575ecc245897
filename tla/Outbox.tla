-------------------------------- MODULE Outbox --------------------------------
(***************************************************************************)
(* What the offline journal promises its user, with neither files, threads  *)
(* nor answers.  The user's calls are numbered; each asks for one write.    *)
(* Writes are kept until they are delivered, and what the client has told   *)
(* the user it took is not let go before it is delivered or given up.  What *)
(* is delivered was kept when it was picked, or is the write of the call    *)
(* being made; it makes a thing at most once, however often it is           *)
(* delivered.  In OfflineJournal a write whose call meets a flush counts as *)
(* taken only once both are over.                                           *)
(***************************************************************************)
EXTENDS Naturals

CONSTANT Things

VARIABLES
  asked,   \* the number of calls the user has made
  held,    \* writes that are kept for delivery
  out,     \* writes that were picked for delivery
  relied,  \* writes the user was told are taken
  waived,  \* writes the user has given up
  done,    \* writes that were delivered
  made     \* how often each thing was made

promise == <<asked, held, out, relied, waived, done, made>>

Init ==
  /\ asked = 0 /\ held = {} /\ out = {} /\ relied = {} /\ waived = {} /\ done = {}
  /\ made = [t \in Things |-> 0]

Ask == asked' = asked + 1 /\ UNCHANGED <<held, out, relied, waived, done, made>>

\* The kept writes are replaced as a whole.
Rewrite ==
  /\ \A x \in held' : x <= asked
  /\ (held \ held') \cap relied \subseteq done \cup waived
  /\ UNCHANGED <<asked, out, relied, waived, done, made>>

Pick ==
  /\ out' \subseteq held \cup out
  /\ UNCHANGED <<asked, held, relied, waived, done, made>>

Deliver ==
  /\ done \subseteq done' /\ done' \ done \subseteq out \cup {asked}
  /\ \/ \E t \in Things : made[t] = 0 /\ made' = [made EXCEPT ![t] = 1]
     \/ UNCHANGED made
  /\ UNCHANGED <<asked, held, out, relied, waived>>

\* The user hears that some writes are taken, and gives up others.  A flush
\* that ends here has nothing picked any more.
Tell ==
  /\ relied \subseteq relied' /\ relied' \ relied \subseteq held \cup done \cup waived
  /\ waived \subseteq waived' /\ waived' \ waived \subseteq held \cup relied
  /\ out' \in {out, {}}
  /\ UNCHANGED <<asked, held, done, made>>

Next == Ask \/ Rewrite \/ Pick \/ Deliver \/ Tell

Spec == Init /\ [][Next]_promise
=============================================================================
