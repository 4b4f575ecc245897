------------------------------- MODULE MCStorage -------------------------------
(* Small instances of ObjectStorage for TLC.                                *)
EXTENDS ObjectStorage, TLC

CONSTANTS o1, a1, p1, p2

MCObjects  == {o1, a1}
MCRequests == {p1, p2}
MCArtifacts == {a1}
=============================================================================
