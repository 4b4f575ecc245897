------------------------------- MODULE MCReview -------------------------------
(* A small instance of ReviewSubmit for TLC: the first submission resolves   *)
(* the row to create, the second one all rows.                               *)
EXTENDS ReviewSubmit

CONSTANTS c, u

MCCreates == {c}
MCUpdates == {u}
MCChoices == <<{{c}}, {{c, u}}>>
=============================================================================
