------------------------------ MODULE Consumer ------------------------------
(***************************************************************************)
(* The consumer tasks of SubscriberBackgroundService and the               *)
(* ConsumerMessageHandler they hand to the application's consumer class.   *)
(* A worker reads a batch with XREADGROUP and processes it entry by entry; *)
(* the entry in hand is the first one left of the batch.                   *)
(***************************************************************************)
EXTENDS RedisStore

CONSTANTS
    Workers,        \* the consumer tasks of all servers
    Prefetch,       \* PrefetchCount
    AutoAck,        \* IsAutoAck
    HandlerMayAck,  \* whether handlers call AckAsync
    AckOthers,      \* whether they pass the ids of other messages to it
    Poison          \* the messages whose content does not deserialize

ASSUME ConsumerAssumption ==
    /\ Prefetch \in Nat \ {0}
    /\ AutoAck \in BOOLEAN /\ HandlerMayAck \in BOOLEAN /\ AckOthers \in BOOLEAN
    /\ Poison \subseteq Msgs

VARIABLES
    wpc,    \* where each worker stands
    batch,  \* the entries it has read and not finished, the one in hand included
    ack     \* the pairs [msg, id] its pending AckAsync is about to acknowledge

consumerVars == <<wpc, batch, ack>>

\* loop: between entries; exec: in ExecuteAsync; error: in the catch block,
\* before it reads ExecutionTimes; retry, giveup: what it then decided.
WorkerStates == {"loop", "exec", "error", "retry", "giveup"}

InitConsumer ==
    /\ wpc = [w \in Workers |-> "loop"]
    /\ batch = [w \in Workers |-> {}]
    /\ ack = [w \in Workers |-> {}]

Current(w) == CHOOSE i \in batch[w] : \A j \in batch[w] : i <= j
Message(w) == log[Current(w)]

WGoto(w, pc) == wpc' = [wpc EXCEPT ![w] = pc]

\* The end of the foreach body: on to the next entry of the batch.
NextEntry(w) ==
    /\ WGoto(w, "loop")
    /\ batch' = [batch EXCEPT ![w] = @ \ {Current(w)}]

-----------------------------------------------------------------------------

\* What Redis does for XREADGROUP GROUP g w COUNT Prefetch STREAMS q >.
Deliver ==
    /\ \E last \in NextBatch(Prefetch) :
          /\ \A i \in NextBatch(Prefetch) : i <= last
          /\ lastDelivered' = last
    /\ pel' = pel \union NextBatch(Prefetch)
    /\ UNCHANGED <<log, live, idle>>

Read(w) ==
    /\ wpc[w] = "loop" /\ batch[w] = {}
    /\ Deliver
    /\ batch' = [batch EXCEPT ![w] = NextBatch(Prefetch)]
    /\ NoFault
    /\ UNCHANGED <<metaVars, wpc, ack>>

\* The reply is lost.  The entries stay in the PEL of a consumer that only
\* ever reads ">".
ReadLost(w) ==
    /\ wpc[w] = "loop" /\ batch[w] = {}
    /\ Fault("ReadLost")
    /\ Deliver
    /\ UNCHANGED <<metaVars, consumerVars>>

-----------------------------------------------------------------------------

\* The consumer class cannot be resolved: message is still null when the
\* catch block runs, so its pipeline is never sent.
ResolveError(w) ==
    /\ wpc[w] = "loop" /\ batch[w] # {}
    /\ Fault("ResolveError")
    /\ NextEntry(w)
    /\ UNCHANGED <<streamVars, metaVars, ack>>

\* Deserialize throws, before the execution is recorded.
BadPayload(w) ==
    /\ wpc[w] = "loop" /\ batch[w] # {}
    /\ Message(w) \in Poison
    /\ WGoto(w, "error")
    /\ NoFault
    /\ UNCHANGED <<streamVars, metaVars, batch, ack>>

\* The pipeline that records the execution, then the call of ExecuteAsync.
Begin(w) ==
    /\ wpc[w] = "loop" /\ batch[w] # {}
    /\ Message(w) \notin Poison
    /\ Reindex({Message(w)}, {"Pending", "Retrying", "Failed", "Completed"}, "Processing")
    /\ hash' = [hash EXCEPT ![Message(w)].status = "Processing",
                            ![Message(w)].execs = @ + 1]
    /\ WGoto(w, "exec")
    /\ NoFault
    /\ UNCHANGED <<streamVars, published, settled, batch, ack>>

\* That pipeline throws and was not executed.  (Executed, it is Begin followed
\* by Throw.)
BeginError(w) ==
    /\ wpc[w] = "loop" /\ batch[w] # {}
    /\ Message(w) \notin Poison
    /\ Fault("CommitError")
    /\ WGoto(w, "error")
    /\ UNCHANGED <<streamVars, metaVars, batch, ack>>

-----------------------------------------------------------------------------

\* The messages a handler can name in AckAsync: its own, or any delivered one.
Ackable(w) == {Message(w)} \union {m \in Msgs : AckOthers /\ \E i \in 1 .. lastDelivered : log[i] = m}

\* Mistake: the handler's own entry id is used for every message.
ResolvedOwn(w, ms) == {[msg |-> m, id |-> Current(w)] : m \in ms}

\* AckAsync looks the entry ids up: its own message's is at hand, the others'
\* come from the field Id of their hashes.  Ids that are empty are dropped.
Resolved(w, ms) ==
    {r \in {[msg |-> m, id |-> IF m = Message(w) THEN Current(w) ELSE hash[m].id] : m \in ms} : r.id # 0}

AckResolve(w) ==
    /\ wpc[w] \in {"exec", "error"} /\ HandlerMayAck /\ ack[w] = {}
    /\ \E ms \in SUBSET Ackable(w) :
          /\ Resolved(w, ms) # {}
          /\ ack' = [ack EXCEPT ![w] = Resolved(w, ms)]
    /\ NoFault
    /\ UNCHANGED <<streamVars, metaVars, wpc, batch>>

\* The statuses Completed, the index sets and the history of the messages ms.
Complete(ms) ==
    /\ SetStatus(ms, "Completed")
    /\ Reindex(ms, {"Pending", "Processing", "Retrying", "Failed"}, "Completed")
    /\ settled' = settled \union ms
    /\ UNCHANGED published

\* The MULTI of AckAsync.
AckExec(w) ==
    /\ XAckDel({r.id : r \in ack[w]})
    /\ Complete({r.msg : r \in ack[w]})

AckCommit(w) ==
    /\ ack[w] # {}
    /\ AckExec(w)
    /\ ack' = [ack EXCEPT ![w] = {}]
    /\ NoFault
    /\ UNCHANGED <<wpc, batch>>

\* It throws, before or after Redis executed it, and the handler lets the
\* exception through.
AckError(w) ==
    /\ ack[w] # {}
    /\ Fault("CommitError")
    /\ \/ AckExec(w)
       \/ UNCHANGED <<streamVars, metaVars>>
    /\ ack' = [ack EXCEPT ![w] = {}]
    /\ WGoto(w, "error")
    /\ UNCHANGED batch

-----------------------------------------------------------------------------

\* ExecuteAsync returns.  With IsAutoAck a MULTI settles the message; without
\* it the stream and the metadata are left as they are, acknowledged or not.
SettleExec(w) ==
    /\ XAckDel({Current(w)})
    /\ Complete({Message(w)})

\* Mistake: without IsAutoAck the entry is acknowledged and deleted all the same.
ReturnAcks(w) ==
    /\ wpc[w] = "exec" /\ ack[w] = {}
    /\ IF AutoAck THEN SettleExec(w) ELSE XAckDel({Current(w)}) /\ UNCHANGED metaVars
    /\ NextEntry(w)
    /\ NoFault
    /\ UNCHANGED ack

Return(w) ==
    /\ wpc[w] = "exec" /\ ack[w] = {}
    /\ IF AutoAck THEN SettleExec(w) ELSE UNCHANGED <<streamVars, metaVars>>
    /\ NextEntry(w)
    /\ NoFault
    /\ UNCHANGED ack

\* That MULTI throws, before or after Redis executed it.
ReturnError(w) ==
    /\ wpc[w] = "exec" /\ ack[w] = {} /\ AutoAck
    /\ Fault("CommitError")
    /\ \/ SettleExec(w)
       \/ UNCHANGED <<streamVars, metaVars>>
    /\ WGoto(w, "error")
    /\ UNCHANGED <<batch, ack>>

\* ExecuteAsync throws.
Throw(w) ==
    /\ wpc[w] = "exec" /\ ack[w] = {}
    /\ WGoto(w, "error")
    /\ NoFault
    /\ UNCHANGED <<streamVars, metaVars, batch, ack>>

-----------------------------------------------------------------------------

\* Mistake: the count is compared with >=.
ReadAttemptsEarly(w) ==
    /\ wpc[w] = "error" /\ ack[w] = {}
    /\ WGoto(w, IF hash[Message(w)].execs >= Attempts THEN "giveup" ELSE "retry")
    /\ NoFault
    /\ UNCHANGED <<streamVars, metaVars, batch, ack>>

\* The catch block, after ExecuteErrorAsync: it reads ExecutionTimes ...
ReadAttempts(w) ==
    /\ wpc[w] = "error" /\ ack[w] = {}
    /\ WGoto(w, IF hash[Message(w)].execs > Attempts THEN "giveup" ELSE "retry")
    /\ NoFault
    /\ UNCHANGED <<streamVars, metaVars, batch, ack>>

\* Mistake: the XDEL is missing, the deleted entry leaves the PEL only.
GiveUpWithoutXDel(w) ==
    /\ wpc[w] = "giveup"
    /\ pel' = pel \ {Current(w)} /\ idle' = idle \ {Current(w)}
    /\ hash' = [hash EXCEPT ![Message(w)].status = "Failed", ![Message(w)].err = TRUE]
    /\ Reindex({Message(w)}, {"Pending", "Processing", "Completed", "Retrying"}, "Failed")
    /\ settled' = settled \union {Message(w)}
    /\ NextEntry(w)
    /\ NoFault
    /\ UNCHANGED <<log, live, lastDelivered, published, ack>>

\* ... and sends the pipeline of the branch it took.  Out of attempts, the
\* entry leaves the stream and the message is Failed.
GiveUp(w) ==
    /\ wpc[w] = "giveup"
    /\ XAckDel({Current(w)})
    /\ hash' = [hash EXCEPT ![Message(w)].status = "Failed", ![Message(w)].err = TRUE]
    /\ Reindex({Message(w)}, {"Pending", "Processing", "Completed", "Retrying"}, "Failed")
    /\ settled' = settled \union {Message(w)}
    /\ NextEntry(w)
    /\ NoFault
    /\ UNCHANGED <<published, ack>>

\* Mistake: the entry to retry is acknowledged and deleted.
RetryAcks(w) ==
    /\ wpc[w] = "retry"
    /\ XAckDel({Current(w)})
    /\ hash' = [hash EXCEPT ![Message(w)].status = "Retrying", ![Message(w)].err = TRUE]
    /\ Reindex({Message(w)}, {"Pending", "Processing", "Completed", "Failed"}, "Retrying")
    /\ NextEntry(w)
    /\ NoFault
    /\ UNCHANGED <<published, settled, ack>>

\* Mistake: the entry to retry is acknowledged, and so never claimed.
RetryXAck(w) ==
    /\ wpc[w] = "retry"
    /\ pel' = pel \ {Current(w)} /\ idle' = idle \ {Current(w)}
    /\ hash' = [hash EXCEPT ![Message(w)].status = "Retrying", ![Message(w)].err = TRUE]
    /\ Reindex({Message(w)}, {"Pending", "Processing", "Completed", "Failed"}, "Retrying")
    /\ NextEntry(w)
    /\ NoFault
    /\ UNCHANGED <<log, live, lastDelivered, published, settled, ack>>

\* Otherwise the message is Retrying and its entry stays in the PEL, for the
\* pending-timeout service to find.
Retry(w) ==
    /\ wpc[w] = "retry"
    /\ hash' = [hash EXCEPT ![Message(w)].status = "Retrying", ![Message(w)].err = TRUE]
    /\ Reindex({Message(w)}, {"Pending", "Processing", "Completed", "Failed"}, "Retrying")
    /\ NextEntry(w)
    /\ NoFault
    /\ UNCHANGED <<streamVars, published, settled, ack>>

\* The read or the pipeline throws and was not executed: the exception is
\* logged, nothing recorded.  (Executed, the pipeline is GiveUp or Retry.)
ErrorLost(w) ==
    /\ wpc[w] \in {"error", "retry", "giveup"} /\ ack[w] = {}
    /\ Fault("CommitError")
    /\ NextEntry(w)
    /\ UNCHANGED <<streamVars, metaVars, ack>>

-----------------------------------------------------------------------------

\* The process dies; what it had read stays in the PEL of its old name.
WorkerCrash(w) ==
    /\ batch[w] # {}
    /\ Fault("WorkerCrash")
    /\ WGoto(w, "loop")
    /\ batch' = [batch EXCEPT ![w] = {}]
    /\ ack' = [ack EXCEPT ![w] = {}]
    /\ UNCHANGED <<streamVars, metaVars>>

\* The steps a running worker takes by itself; Return and Throw are the
\* handler's, the choice between them is the application's.
WorkerStep(w) ==
    \/ Read(w) \/ BadPayload(w) \/ Begin(w) \/ AckCommit(w)
    \/ Return(w) \/ ReadAttempts(w) \/ GiveUp(w) \/ Retry(w)

HandlerChoice(w) == AckResolve(w) \/ Throw(w)

WorkerFault(w) ==
    \/ ReadLost(w) \/ ResolveError(w) \/ BeginError(w) \/ AckError(w)
    \/ ReturnError(w) \/ ErrorLost(w) \/ WorkerCrash(w)

ConsumerTypeOK ==
    /\ wpc \in [Workers -> WorkerStates]
    /\ batch \in [Workers -> SUBSET (1 .. lastDelivered)]
    /\ ack \in [Workers -> SUBSET [msg : Msgs, id : Nat]]
    /\ \A w \in Workers : /\ wpc[w] # "loop" => batch[w] # {}
                          /\ ack[w] # {} => wpc[w] \in {"exec", "error"}
=============================================================================
