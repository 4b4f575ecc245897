---------------------------- MODULE MCMatchRebuild ----------------------------
(* Small instances of MatchRebuild for TLC.                                 *)
EXTENDS MatchRebuild

CONSTANTS c1, o1
=============================================================================
