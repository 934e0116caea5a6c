----------------------------- MODULE Executions -----------------------------
(***************************************************************************)
(* How often a message is really executed.  The retry limit looks at the   *)
(* field ExecutionTimes, which is lost with the hash: when a publish call  *)
(* fails, when the cleanup trims and when the dashboard deletes.           *)
(*                                                                         *)
(* These variables only watch Operations: CountRuns says what each of its  *)
(* steps does to them, and forbids none.                                   *)
(***************************************************************************)
EXTENDS Operations

VARIABLES
    runs,       \* per message: how often ExecuteAsync was called for it
    forgotten   \* per message: how often ExecutionTimes was lost with the hash

runVars == <<runs, forgotten>>

InitRuns ==
    /\ runs = [m \in Msgs |-> 0]
    /\ forgotten = [m \in Msgs |-> 0]

-----------------------------------------------------------------------------

\* The step of a worker calls ExecuteAsync for the message.  A pipeline before it whose reply
\* is lost is not told from a handler that throws at once, and counts as well.
Executes(m) ==
    \E w \in Workers : wpc[w] = "loop" /\ wpc'[w] = "exec" /\ Message(w) = m

CountRuns ==
    /\ runs' = [m \in Msgs |-> IF Executes(m) THEN runs[m] + 1 ELSE runs[m]]
    /\ forgotten' = [m \in Msgs |-> IF hash'[m].execs < hash[m].execs THEN forgotten[m] + 1
                                                                     ELSE forgotten[m]]

SpecRuns == InitOps /\ InitRuns /\ [][NextOps /\ CountRuns]_<<opVars, runVars>>

\* The same while nothing is cleaned up or deleted, with Delivery's fairness.
FairRuns ==
    /\ InitOps /\ InitRuns
    /\ [][Delivering /\ CountRuns]_<<opVars, runVars>>
    /\ Fairness

-----------------------------------------------------------------------------

\* What one ExecutionTimes allows: each fault can add one execution.
RetryBudget == Attempts + 1 + (MaxFaults - faults)

(***************************************************************************)
(* The retry budget: ExecuteAsync is called AutomaticRetryAttempts + 1     *)
(* times at most for a message, once more for each fault that struck, and  *)
(* as often again each time its ExecutionTimes was lost.                   *)
(***************************************************************************)
ExecutionsBounded == \A m \in Msgs : runs[m] <= (forgotten[m] + 1) * RetryBudget
=============================================================================
