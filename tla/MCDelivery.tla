----------------------------- MODULE MCDelivery -----------------------------
(***************************************************************************)
(* The instances of Delivery that TLC checks.                              *)
(***************************************************************************)
EXTENDS Delivery, TLC

\* Messages, workers and servers are interchangeable, and no action names one.
Symmetry == Permutations(Msgs) \union Permutations(Workers) \union Permutations(Servers)
=============================================================================
