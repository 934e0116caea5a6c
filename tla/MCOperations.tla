---------------------------- MODULE MCOperations ----------------------------
(***************************************************************************)
(* The instances of Operations that TLC checks.                            *)
(***************************************************************************)
EXTENDS Operations, TLC
=============================================================================
