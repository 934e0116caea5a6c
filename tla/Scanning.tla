------------------------------ MODULE Scanning ------------------------------
(***************************************************************************)
(* How far a round of the pending-timeout service gets.  XPENDING returns  *)
(* pages, busy entries among the idle ones, and while the service goes     *)
(* from page to page the workers read and acknowledge, time passes and a   *)
(* second service, its lock expired, may scan as well.                     *)
(*                                                                         *)
(* The variable only watches Delivery: Watch says what each of its steps   *)
(* does to it, and forbids none.                                           *)
(***************************************************************************)
EXTENDS Delivery

VARIABLE overdue    \* per server: the ids that were idle when its round began and are since

InitScanning == overdue = [s \in Servers |-> {}]

RoundBegins(s) == tpc[s] = "lock" /\ tpc'[s] = "scan"

\* The round ends by itself, and not with an exception or with the process.
RoundEnds(s) == tpc[s] = "scan" /\ tpc'[s] = "unlock" /\ faults' = faults

Watch ==
    overdue' = [s \in Servers |-> IF RoundBegins(s) THEN idle ELSE overdue[s] \intersect idle']

SpecScanning == Init /\ InitScanning /\ [][Next /\ Watch]_<<vars, overdue>>

(***************************************************************************)
(* A round that ends by itself has claimed whatever was idle when it       *)
(* began, unless a worker or the other service got there first: a page     *)
(* without idle entries, or of which XCLAIM returns nothing, must not end  *)
(* the round, and the next page must begin right behind the last one.      *)
(***************************************************************************)
RoundsComplete == [][\A s \in Servers : RoundEnds(s) => overdue[s] = {}]_<<vars, overdue>>
=============================================================================
