---------------------------- MODULE MCLiveReport ----------------------------
(* A small instance of LiveReportLock for TLC.                             *)
EXTENDS LiveReportLock, TLC

MCSymmetry == Permutations(Report)
=============================================================================
