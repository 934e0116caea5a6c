-------------------------- MODULE MCServerRegistry --------------------------
(***************************************************************************)
(* The instances of ServerRegistry that TLC checks.                        *)
(***************************************************************************)
EXTENDS ServerRegistry, TLC
=============================================================================
