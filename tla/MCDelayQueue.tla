---------------------------- MODULE MCDelayQueue ----------------------------
(***************************************************************************)
(* The instances of DelayQueue that TLC checks.                            *)
(***************************************************************************)
EXTENDS DelayQueue, TLC
=============================================================================
