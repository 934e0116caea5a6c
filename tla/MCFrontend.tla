----------------------------- MODULE MCFrontend -----------------------------
(***************************************************************************)
(* The instances of Frontend that TLC checks.                              *)
(***************************************************************************)
EXTENDS Frontend, TLC
=============================================================================
