--------------------------- MODULE MCStatsPolling ---------------------------
(***************************************************************************)
(* The instances of StatsPolling that TLC checks.                          *)
(***************************************************************************)
EXTENDS StatsPolling, TLC
=============================================================================
