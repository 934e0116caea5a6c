---------------------------- MODULE StatsPolling ----------------------------
(***************************************************************************)
(* The dashboard's store (stores/app.ts) and the timer that polls the      *)
(* statistics (App.vue).  A poll does not wait for the one before it: the  *)
(* statistics it is compared with are those from before its request.       *)
(*                                                                         *)
(* One counter stands for the five that are charted alike.  The chart is   *)
(* its history here, not the window of the last twelve differences.        *)
(***************************************************************************)
EXTENDS Integers, Sequences

CONSTANTS
    Statuses,   \* what the message page filters by, All among them
    MaxCount,   \* BOUND: how many messages of a status there are
    MaxTotal,   \* BOUND: how far the counter goes
    MaxPolls    \* BOUND: how many polls there are

ASSUME PollingAssumption == MaxCount \in Nat /\ MaxTotal \in Nat /\ MaxPolls \in Nat

VARIABLES
    total,      \* the counter in Redis, such as ConsumeSucceeded:Total
    stats,      \* the counter in store.stats
    counts,     \* the numbers of messages in store.stats
    polls,      \* the polls so far, in the order they were sent
    charted,    \* history: the sum of all differences put on the chart
    origin,     \* history: the largest answer that was not compared with any
    overlapped  \* history: two polls were under way at the same time

pollingVars == <<total, stats, counts, polls, charted, origin, overlapped>>

Undefined == -1

InitPolling ==
    /\ total = 0 /\ stats = Undefined /\ counts = [s \in Statuses |-> 0]
    /\ polls = <<>> /\ charted = 0 /\ origin = 0 /\ overlapped = FALSE

InFlight(i) == polls[i].at \in {"sent", "served"}

-----------------------------------------------------------------------------

\* Something is published or consumed.
CountUp ==
    /\ total < MaxTotal
    /\ total' = total + 1
    /\ UNCHANGED <<stats, counts, polls, charted, origin, overlapped>>

\* fetchStats up to its await; onMounted and setInterval call it.
Poll ==
    /\ Len(polls) < MaxPolls
    /\ polls' = Append(polls, [at |-> "sent", old |-> stats, new |-> Undefined])
    /\ overlapped' = (overlapped \/ \E i \in 1 .. Len(polls) : InFlight(i))
    /\ UNCHANGED <<total, stats, counts, charted, origin>>

\* RouteActionProvider.Stats reads the counters in one pipeline.
Serve(i) ==
    /\ polls[i].at = "sent"
    /\ polls' = [polls EXCEPT ![i] = [at |-> "served", old |-> polls[i].old, new |-> total]]
    /\ UNCHANGED <<total, stats, counts, charted, origin, overlapped>>

\* Mistake: an answer is charted only if no other came since its request.
AnswerOnceOnly(i) ==
    /\ polls[i].at = "served"
    /\ polls' = [polls EXCEPT ![i] = [at |-> "done", old |-> Undefined, new |-> Undefined]]
    /\ stats' = polls[i].new
    /\ counts' \in [Statuses -> 0 .. MaxCount]
    /\ LET old == polls[i].old
           new == polls[i].new
       IN  /\ charted' = IF old = stats /\ old # Undefined /\ new > old
                           THEN charted + (new - old) ELSE charted
           /\ origin' = IF old = Undefined /\ new > origin THEN new ELSE origin
    /\ UNCHANGED <<total, overlapped>>

\* Mistake: a first answer is compared as well, with zero.
AnswerFirst(i) ==
    /\ polls[i].at = "served"
    /\ polls' = [polls EXCEPT ![i] = [at |-> "done", old |-> Undefined, new |-> Undefined]]
    /\ stats' = polls[i].new
    /\ counts' \in [Statuses -> 0 .. MaxCount]
    /\ charted' = charted + (polls[i].new - (IF polls[i].old = Undefined THEN 0 ELSE polls[i].old))
    /\ origin' = IF polls[i].old = Undefined /\ polls[i].new > origin THEN polls[i].new ELSE origin
    /\ UNCHANGED <<total, overlapped>>

\* The answer arrives, in whatever order.  The first ones are not charted; a
\* negative difference is charted as zero.  The numbers of messages are those
\* at some time before.
Answer(i) ==
    /\ polls[i].at = "served"
    /\ polls' = [polls EXCEPT ![i] = [at |-> "done", old |-> Undefined, new |-> Undefined]]
    /\ stats' = polls[i].new
    /\ counts' \in [Statuses -> 0 .. MaxCount]
    /\ LET old == polls[i].old
           new == polls[i].new
       IN  /\ charted' = IF old # Undefined /\ new > old THEN charted + (new - old) ELSE charted
           /\ origin' = IF old = Undefined /\ new > origin THEN new ELSE origin
    /\ UNCHANGED <<total, overlapped>>

\* The request fails or times out, or the answer has another code.
PollError(i) ==
    /\ InFlight(i)
    /\ polls' = [polls EXCEPT ![i] = [at |-> "done", old |-> Undefined, new |-> Undefined]]
    /\ UNCHANGED <<total, stats, counts, charted, origin, overlapped>>

NextPolling ==
    \/ CountUp \/ Poll
    \/ \E i \in 1 .. Len(polls) : Serve(i) \/ Answer(i) \/ PollError(i)

SpecPolling == InitPolling /\ [][NextPolling]_pollingVars

-----------------------------------------------------------------------------

(***************************************************************************)
(* Nothing is missing on the chart: since it began, it shows at least what *)
(* the counter has grown by, although polls overlap, fail and are answered *)
(* out of order.  (It may show more: two polls with the same base.)        *)
(***************************************************************************)
NothingMissed == stats # Undefined => charted >= stats - origin

(***************************************************************************)
(* The chart is exact as long as no two polls were under way at once.      *)
(***************************************************************************)
ExactOneByOne == stats # Undefined /\ ~overlapped => charted = stats - origin
=============================================================================
