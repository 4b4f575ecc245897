------------------------------ MODULE MCMatchAll ------------------------------
(* Small instances of MatchAll for TLC.                                     *)
EXTENDS MatchAll, TLC

CONSTANTS c1, c2, t1, t2, t3

MCCallers == {c1, c2}
MCCaller  == {c1}
MCRuns    == {t1, t2, t3}
=============================================================================
