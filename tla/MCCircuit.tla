------------------------------ MODULE MCCircuit ------------------------------
(* An instance of CircuitBreaker for TLC: the sync timer and two UI         *)
(* threads, every outcome of an exchange.                                   *)
EXTENDS CircuitBreaker

CONSTANTS timer, ui1, ui2

MCThreads == {timer, ui1, ui2}
Anything  == Healthy \cup Ill
=============================================================================
