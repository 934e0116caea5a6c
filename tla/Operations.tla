---------------------------- MODULE Operations ----------------------------
(***************************************************************************)
(* A queue in operation: Delivery, the cleanup service and the deletions   *)
(* of the dashboard, all on the same Redis keys.                           *)
(***************************************************************************)
EXTENDS Delivery, Cleanup

CONSTANT MaxDeletes     \* BOUND: how often the dashboard deletes

ASSUME OperationsAssumption == MaxDeletes \in Nat

VARIABLE deletes        \* how often it may still do so

opVars == <<vars, cleanupVars, aged, deletes>>

InitOps == Init /\ InitCleanup /\ deletes = MaxDeletes

-----------------------------------------------------------------------------

\* RouteActionProvider.MessageDelete: one pipeline, the stream is left alone.
MessageDelete(ms) ==
    /\ deletes > 0 /\ deletes' = deletes - 1
    /\ published' = published \ ms
    /\ index' = [s \in Status |-> index[s] \ ms]
    /\ hash' = [m \in Msgs |-> IF m \in ms THEN NoHash ELSE hash[m]]
    /\ NoFault
    /\ UNCHANGED <<streamVars, settled, publisherVars, consumerVars, timeoutVars, cleanupVars>>

\* A message has been Pending for PendingMessageOrphanTimeout, which no
\* publish call takes.
Ages(m) ==
    /\ m \in index["Pending"] \ aged
    /\ pub[m] \notin {"meta", "added"}
    /\ aged' = aged \union {m}
    /\ UNCHANGED <<vars, cleanupVars, deletes>>

\* The score is that of the time the message became Pending.
KeepAge == aged' = aged \intersect index'["Pending"]

Delivering == Next /\ KeepAge /\ UNCHANGED <<cleanupVars, deletes>>

Cleaning == /\ CleanupStep \/ CleanupError
            /\ KeepAge /\ UNCHANGED <<publisherVars, consumerVars, timeoutVars, deletes>>

NextOps ==
    \/ Delivering
    \/ Cleaning
    \/ \E ms \in SUBSET published \ {{}} : MessageDelete(ms) /\ KeepAge
    \/ \E m \in Msgs : Ages(m)

SpecOps == InitOps /\ [][NextOps]_opVars

\* Delivery's fairness, and that of the cleanup timer and the clock.
CleanupFairness ==
    /\ WF_opVars(CleanupStep /\ KeepAge
                   /\ UNCHANGED <<publisherVars, consumerVars, timeoutVars, deletes>>)
    /\ \A m \in Msgs : WF_opVars(Ages(m))

OpsFairness ==
    /\ CleanupFairness
    /\ \A m \in Msgs : WF_opVars(PublisherStep(m) /\ Delivering)
    /\ \A w \in Workers : WF_opVars(WorkerStep(w) /\ Delivering)
    /\ \A s \in Servers : WF_opVars(TimeoutStep(s) /\ Delivering)
    /\ \A i \in 1 .. MaxLen : WF_opVars(Elapse(i) /\ Delivering)
    /\ \A s \in Servers : WF_opVars(LockExpires(s) /\ Delivering)

FairSpecOps == SpecOps /\ OpsFairness

-----------------------------------------------------------------------------

OpsTypeOK == TypeOK /\ CleanupTypeOK /\ deletes \in 0 .. MaxDeletes

\* Listed as Pending, and nothing in the stream or in a publish call that
\* would change that.
Orphaned(m) == m \in index["Pending"] /\ Carriers(m) = {} /\ pub[m] \notin {"meta", "added"}

\* A hash that was deleted and written to again lacks the field Message; the
\* cleanup passes over it.
Partial(m) == hash[m].type = "None" /\ hash[m].status = "Pending" /\ hash[m].id # 0

(***************************************************************************)
(* A message that is listed as Pending although its entry is gone, or was  *)
(* never sent, is eventually listed otherwise, unless a deletion and a     *)
(* late write have left it without Message.                                *)
(***************************************************************************)
OrphansFound == \A m \in Msgs : Orphaned(m) ~> ~Orphaned(m) \/ Partial(m)

(***************************************************************************)
(* The sets Completed and Failed are eventually trimmed to their maximum.  *)
(***************************************************************************)
Trimmed ==
    \A s \in {"Completed", "Failed"} :
        MaxLength(s) >= 0 => (Cardinality(index[s]) > MaxLength(s)
                                ~> Cardinality(index[s]) <= MaxLength(s))
=============================================================================
