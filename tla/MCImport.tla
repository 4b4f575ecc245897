-------------------------------- MODULE MCImport --------------------------------
(* Small instances of ImportWorkflow for TLC.                               *)
EXTENDS ImportWorkflow, TLC

CONSTANTS s1, s2, r1, r2, c1, w1, w2

MCSingles  == {s1, s2}
MCRoots    == {r1, r2}
MCChildren == {c1}
MCWorkers  == {w1, w2}
=============================================================================
