-------------------------- MODULE AtLeastOnceQueue --------------------------
(***************************************************************************)
(* What a queue of Yarkool.RedisMQ promises to the application: a message  *)
(* it accepted stays queued until its outcome has been recorded.           *)
(***************************************************************************)
CONSTANTS
    Msgs,       \* the messages
    Duplicates  \* whether a settled message may stay or be queued again

VARIABLES
    accepted,   \* the messages the queue has taken over
    queued,     \* those that can still be delivered
    settled     \* those whose outcome, success or failure, is recorded

qvars == <<accepted, queued, settled>>

Init == accepted = {} /\ queued = {} /\ settled = {}

\* The queue takes a message over.
Accept(m) ==
    /\ m \notin accepted
    /\ accepted' = accepted \union {m}
    /\ queued' = queued \union {m}
    /\ UNCHANGED settled

\* The outcome of some messages is recorded, and they leave the queue with it;
\* if duplicates are allowed, at any time from then on.
Settle(ms) ==
    /\ ms # {} /\ ms \subseteq accepted
    /\ settled' = settled \union ms
    /\ queued \ ms \subseteq queued' /\ queued' \subseteq queued
    /\ ~Duplicates => queued' = queued \ ms
    /\ UNCHANGED accepted

\* A settled message leaves the queue.
Retire(m) ==
    /\ Duplicates
    /\ m \in queued \intersect settled
    /\ queued' = queued \ {m}
    /\ UNCHANGED <<accepted, settled>>

\* A settled message is queued once more.
Redeliver(m) ==
    /\ Duplicates
    /\ m \in settled \ queued
    /\ queued' = queued \union {m}
    /\ UNCHANGED <<accepted, settled>>

Next ==
    \/ \E m \in Msgs : Accept(m) \/ Retire(m) \/ Redeliver(m)
    \/ \E ms \in SUBSET Msgs : Settle(ms)

Spec == Init /\ [][Next]_qvars
=============================================================================
