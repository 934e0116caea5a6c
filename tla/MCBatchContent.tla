--------------------------- MODULE MCBatchContent ---------------------------
(***************************************************************************)
(* The instances of BatchContent that TLC checks.                          *)
(***************************************************************************)
EXTENDS BatchContent, TLC

\* Messages differ in their content, workers and servers do not.
ActorSymmetry == Permutations(Workers) \union Permutations(Servers)
=============================================================================
