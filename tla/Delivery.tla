------------------------------ MODULE Delivery ------------------------------
(***************************************************************************)
(* One queue of Yarkool.RedisMQ: publishers, the workers that consume the  *)
(* stream, the pending-timeout services that publish anew what was not     *)
(* acknowledged, and the passage of time.                                  *)
(***************************************************************************)
EXTENDS Publisher, Consumer, PendingTimeout

CONSTANTS
    Slow,       \* whether a batch or a claim may be held past PendingTimeOut
    MaxLen      \* BOUND: time passes only while the log has room below this

ASSUME DeliveryAssumption == Slow \in BOOLEAN /\ MaxLen \in Nat

vars == <<streamVars, metaVars, faults, publisherVars, consumerVars, timeoutVars>>

Init == InitStore /\ InitPublisher /\ InitConsumer /\ InitTimeout

-----------------------------------------------------------------------------

\* A process holds the entry: in the batch of a worker, or claimed.
Held(i) == \/ \E w \in Workers : i \in batch[w]
           \/ \E s \in Servers : i \in claimed[s]

\* Every publish still to come and every republish under way or due fits.
Room == LET due == Cardinality(idle)
            unpublished == Cardinality({m \in Msgs : pub[m] \in {"new", "meta"}})
            working == Cardinality(UNION {claimed[s] : s \in Servers})
        IN  Len(log) + due + unpublished + working < MaxLen

\* The idle time of a pending entry reaches PendingTimeOut.
Elapse(i) ==
    /\ i \in pel \ idle
    /\ Slow \/ ~Held(i)
    /\ Room
    /\ idle' = idle \union {i}
    /\ UNCHANGED <<log, live, lastDelivered, pel, timeoutVars>>

\* The lock expires: its owner is gone, or has stalled.
LockExpires(s) ==
    /\ lock = s
    /\ Slow \/ tpc[s] = "lock"
    /\ lock' = NoServer
    /\ UNCHANGED <<streamVars, tpc, cursor, claimed, tnew>>

-----------------------------------------------------------------------------

Publishing(m) == /\ PublisherStep(m) \/ PublisherFault(m)
                 /\ UNCHANGED <<consumerVars, timeoutVars>>

Consuming(w)  == /\ WorkerStep(w) \/ HandlerChoice(w) \/ WorkerFault(w)
                 /\ UNCHANGED <<publisherVars, timeoutVars>>

Recovering(s) == /\ TimeoutStep(s) \/ TimeoutFault(s)
                 /\ UNCHANGED <<publisherVars, consumerVars>>

Passing       == /\ \/ \E i \in pel : Elapse(i)
                    \/ \E s \in Servers : LockExpires(s)
                 /\ UNCHANGED <<metaVars, faults, publisherVars, consumerVars>>

Next ==
    \/ \E m \in Msgs : Publishing(m)
    \/ \E w \in Workers : Consuming(w)
    \/ \E s \in Servers : Recovering(s)
    \/ Passing

Spec == Init /\ [][Next]_vars

\* A publish call and a worker that can go on eventually do, a handler
\* eventually returns or throws, the clock runs and locks expire.  Nothing
\* obliges a handler to throw, or a fault to strike.
Fairness ==
    /\ \A m \in Msgs : WF_vars(PublisherStep(m) /\ UNCHANGED <<consumerVars, timeoutVars>>)
    /\ \A w \in Workers : WF_vars(WorkerStep(w) /\ UNCHANGED <<publisherVars, timeoutVars>>)
    /\ \A s \in Servers : WF_vars(TimeoutStep(s) /\ UNCHANGED <<publisherVars, consumerVars>>)
    /\ \A i \in 1 .. MaxLen : WF_vars(Elapse(i) /\ Passing)
    /\ \A s \in Servers : WF_vars(LockExpires(s) /\ Passing)

FairSpec == Spec /\ Fairness

-----------------------------------------------------------------------------

TypeOK == StoreTypeOK /\ PublisherTypeOK /\ ConsumerTypeOK /\ TimeoutTypeOK

Sent(m) == \E i \in 1 .. Len(log) : log[i] = m

\* The entries a timeout service has published anew and is about to delete.
Retiring == {Entry(s) : s \in {t \in Servers : tpc[t] = "commit"}}

(***************************************************************************)
(* At-least-once: a message whose XADD was executed keeps an entry in the  *)
(* stream until its outcome, Completed or Failed, has been recorded,       *)
(* whatever crashes, lost replies, late handlers and expired locks do      *)
(* between the XADD, the XCLAIM, the republish and the XACK/XDEL.          *)
(***************************************************************************)
NoLoss == \A m \in Msgs : Sent(m) /\ m \notin settled => Carriers(m) # {}

(***************************************************************************)
(* Recoverability: what was delivered and not deleted is pending, so that  *)
(* XPENDING shows it to the timeout service, and nothing deleted is        *)
(* pending, so that XCLAIM never comes back empty-handed for good.  The    *)
(* XACK and XDEL of every settling path must therefore stay paired.        *)
(***************************************************************************)
DeliveredIsPending == pel = {i \in live : i <= lastDelivered}

(***************************************************************************)
(* An acknowledgement never deletes the entry of another message: the      *)
(* field Id, written late by the publisher and again by the republish, and *)
(* the ids AckAsync resolved before its MULTI belong to the message.       *)
(***************************************************************************)
EntryIdsAreOwn ==
    /\ \A m \in Msgs : hash[m].id # 0 => log[hash[m].id] = m
    /\ \A w \in Workers : \A r \in ack[w] : log[r.id] = r.msg

(***************************************************************************)
(* Why nothing is lost, as an inductive invariant.  Every entry id a task  *)
(* keeps is one of its message's own ...                                   *)
(***************************************************************************)
OwnHash == \A m \in Msgs : hash[m].id # 0 => hash[m].id \in 1 .. Len(log) /\ log[hash[m].id] = m
OwnPub  == \A m \in Msgs : pub[m] = "added" => pubId[m] \in 1 .. Len(log) /\ log[pubId[m]] = m
OwnAck  == \A w \in Workers : \A r \in ack[w] : r.id \in 1 .. Len(log) /\ log[r.id] = r.msg
OwnNew  == \A s \in Servers : tpc[s] = "commit" =>
              tnew[s] \in 1 .. Len(log) /\ log[tnew[s]] = log[Entry(s)] /\ Entry(s) < tnew[s]

(***************************************************************************)
(* ... and while a service is about to delete the old entry of an          *)
(* unsettled message, the message has an entry at least as young as the    *)
(* one the service added.  That a younger one exists is what makes two     *)
(* services republishing the same message harmless.                        *)
(***************************************************************************)
Replaced ==
    \A s \in Servers : tpc[s] = "commit" /\ log[Entry(s)] \notin settled =>
        \E c \in Carriers(log[Entry(s)]) : c >= tnew[s]

IInv == TypeOK /\ OwnHash /\ OwnPub /\ OwnAck /\ OwnNew /\ NoLoss /\ Replaced

(***************************************************************************)
(* The status index sets partition the messages: every pipeline that adds  *)
(* a message to one set removes it from the others, in every interleaving. *)
(***************************************************************************)
IndexExclusive ==
    \A m \in Msgs : \A s, t \in Status : m \in index[s] /\ m \in index[t] => s = t

(***************************************************************************)
(* The dashboard's index and the hash agree on the status of a message,    *)
(* unless its publish failed and erased the hash of a running message.     *)
(***************************************************************************)
IndexMatchesHash ==
    \A m \in Msgs : pub[m] # "failed" =>
        \A s \in Status : m \in index[s] <=> hash[m].status = s

(***************************************************************************)
(* A message is Failed only after more executions than                     *)
(* AutomaticRetryAttempts, although both the worker and the timeout        *)
(* service decide on a count read before they write the status.            *)
(***************************************************************************)
FailedOnlyWhenSpent ==
    \A m \in Msgs : hash[m].status = "Failed" /\ hash[m].type # "None"
                        => hash[m].execs > Attempts

(***************************************************************************)
(* No two workers run the handler on the same message at the same time.    *)
(* Promised only while batches are finished within PendingTimeOut.         *)
(***************************************************************************)
NoConcurrentRuns ==
    \A v, w \in Workers : v # w /\ wpc[v] = "exec" /\ wpc[w] = "exec"
                              => Message(v) # Message(w)

(***************************************************************************)
(* A message that is Retrying still has an entry that can be retried.      *)
(***************************************************************************)
RetryingHasEntry ==
    \A m \in Msgs : hash[m].status = "Retrying" => Carriers(m) # {}

(***************************************************************************)
(* A message that is Pending still has an entry to process, once its       *)
(* publish call is over.                                                   *)
(***************************************************************************)
PendingHasEntry ==
    \A m \in Msgs : hash[m].status = "Pending" /\ pub[m] = "done" => Carriers(m) # {}

(***************************************************************************)
(* The retry budget in terms of the stream: a message is put there         *)
(* AutomaticRetryAttempts + 1 times at most, and once more for each fault. *)
(***************************************************************************)
EntriesBounded ==
    \A m \in Msgs : Cardinality({i \in 1 .. Len(log) : log[i] = m})
                        <= Attempts + 1 + (MaxFaults - faults)

(***************************************************************************)
(* A message in a status index has the metadata the dashboard reads.       *)
(***************************************************************************)
IndexedHasMetadata ==
    \A m \in Msgs : \A s \in Status : m \in index[s] => hash[m].type # "None"

(***************************************************************************)
(* Every message that reached the stream is eventually settled.            *)
(***************************************************************************)
EventuallySettled == \A m \in Msgs : Sent(m) ~> m \in settled

-----------------------------------------------------------------------------

\* What an application may rely on, see AtLeastOnceQueue.
Queue == INSTANCE AtLeastOnceQueue WITH
    Duplicates <- TRUE,
    accepted   <- {m \in Msgs : Sent(m)},
    queued     <- {m \in Msgs : Carriers(m) # {}}

\* The same without duplicates; an entry that was published anew and is about
\* to be deleted no longer counts.
OnceQueue == INSTANCE AtLeastOnceQueue WITH
    Duplicates <- FALSE,
    accepted   <- {m \in Msgs : Sent(m)},
    queued     <- {m \in Msgs : Carriers(m) \ Retiring # {}}

(***************************************************************************)
(* Delivery implements a queue that never drops an unsettled message;      *)
(* settled messages may come back ...                                      *)
(***************************************************************************)
AtLeastOnce == Queue!Spec

(***************************************************************************)
(* ... and they leave for good while batches are finished within           *)
(* PendingTimeOut, even though workers crash and replies are lost.         *)
(***************************************************************************)
EffectivelyOnce == OnceQueue!Spec
=============================================================================
