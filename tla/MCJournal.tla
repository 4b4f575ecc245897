------------------------------ MODULE MCJournal ------------------------------
(* The instance of OfflineJournal for TLC: a client and a demande that      *)
(* refers to it.                                                            *)
EXTENDS OfflineJournal, TLC

CONSTANTS client1, demande1

MCTemps    == {client1, demande1}
MCParent   == (client1 :> NoParent) @@ (demande1 :> client1)
NoReals    == {}
AnyOutcome == {"answer", "lost", "down", "auth", "accepted"}
=============================================================================
