---------------------------- MODULE MCRunHistory ----------------------------
(* Bounds for TLC; the runs are numbers, as their ids are ordered.         *)
EXTENDS RunHistory

MCRuns == 1..3
=============================================================================
