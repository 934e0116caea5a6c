---------------------------- MODULE MCExecutions ----------------------------
(***************************************************************************)
(* The instances of Executions that TLC checks.                            *)
(***************************************************************************)
EXTENDS Executions, TLC
=============================================================================
