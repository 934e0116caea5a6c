----------------------------- MODULE MCScanning -----------------------------
(***************************************************************************)
(* The instances of Scanning that TLC checks.                              *)
(***************************************************************************)
EXTENDS Scanning, TLC

\* Messages, workers and servers are interchangeable, and no action names one.
Symmetry == Permutations(Msgs) \union Permutations(Workers) \union Permutations(Servers)
=============================================================================
