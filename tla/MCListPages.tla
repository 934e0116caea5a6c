---------------------------- MODULE MCListPages ----------------------------
(***************************************************************************)
(* The instances of ListPages that TLC checks.                             *)
(***************************************************************************)
EXTENDS ListPages, TLC

ServerSymmetry == Permutations(Servers)
=============================================================================
