---------------------------- MODULE TimelyProofs ----------------------------
(***************************************************************************)
(* What Delivery promises while a batch is finished, and a claim handled,  *)
(* within PendingTimeOut (~Slow): no message is executed twice at a time,  *)
(* none comes back once settled, executions and entries stay within the    *)
(* budget.  Each theorem names the faults and options it does not survive, *)
(* and all but the last hold of Operations too, where the cleanup and the  *)
(* dashboard delete what they like.                                        *)
(***************************************************************************)
EXTENDS IndexProofs, Executions

-----------------------------------------------------------------------------
(* Every step, as seen from who holds which entry *)

OtherWorkers(w) ==
    \A v \in Workers \ {w} : wpc'[v] = wpc[v] /\ batch'[v] = batch[v] /\ ack'[v] = ack[v]

OtherServices(s) ==
    \A t \in Servers \ {s} : tpc'[t] = tpc[t] /\ claimed'[t] = claimed[t]

\* No hash becomes Retrying.
NoneRetries == \A m \in Msgs : hash'[m].status = "Retrying" => hash[m].status = "Retrying"

\* A publish call adds its entry once, or none.
Publishes(m) ==
    /\ settled' = settled /\ NoneRetries
    /\ \A k \in Msgs : hash'[k].execs <= hash[k].execs
    /\ \A k \in Msgs : pub'[k] \in {"new", "meta"} => pub[k] \in {"new", "meta"}
    /\ \/ UNCHANGED streamVars
       \/ XAdd(m) /\ pub[m] = "meta" /\ pub'[m] \notin {"new", "meta"}

\* A worker reads a batch, the reply of which may be lost ...
Reads(w) ==
    /\ batch[w] = {} /\ Deliver /\ wpc'[w] = "loop" /\ ack'[w] = ack[w]
    /\ batch'[w] \in {NextBatch(Prefetch), {}}
    /\ hash' = hash /\ settled' = settled

\* ... or works on the entry in hand.  It deletes the entries es and records
\* the outcome of the messages ms: none, its own, or those AckAsync named.
Handles(w, es, ms) ==
    /\ batch[w] # {}
    /\ XAckDel(es) /\ settled' = settled \union ms
    /\ \/ es = {} /\ ms = {}
       \/ /\ es = {Current(w)} /\ ms = {Message(w)} /\ wpc[w] # "loop"
          /\ "CommitError" \in Faults \/ batch'[w] = batch[w] \ {Current(w)}
       \/ ack[w] # {} /\ es = {r.id : r \in ack[w]} /\ ms = {r.msg : r \in ack[w]}
    /\ \/ batch'[w] = batch[w] /\ wpc'[w] # "loop"
       \/ batch'[w] \in {batch[w] \ {Current(w)}, {}} /\ wpc'[w] = "loop"
    /\ \/ ack'[w] = {}
       \/ /\ HandlerMayAck /\ batch'[w] = batch[w]
          /\ \E named \in SUBSET Ackable(w) : ack'[w] = Resolved(w, named)
    /\ \A m \in Msgs : hash'[m].status = "Retrying" =>
          \/ hash[m].status = "Retrying" /\ m \notin ms
          \/ m = Message(w) /\ es = {}

\* A service looks at the pending list or at what it claimed; only a fault
\* makes it leave the entry it has published anew.
Looks(s) ==
    /\ log' = log /\ live' = live /\ lastDelivered' = lastDelivered /\ pel' = pel
    /\ idle' \subseteq idle
    /\ claimed'[s] \subseteq claimed[s] \union idle
    /\ tpc'[s] # "commit"
    /\ tpc[s] = "commit" => Fault("TimeoutError") \/ Fault("TimeoutCrash")
    /\ hash' = hash /\ settled' = settled

Republishes(s) ==
    /\ tpc[s] = "republish" /\ tpc'[s] = "commit" /\ claimed'[s] = claimed[s]
    /\ XAdd(log[Entry(s)])
    /\ hash' = hash /\ settled' = settled

\* A service deletes the entry in hand, whose outcome it records or which it
\* has published anew.
Deletes(s) ==
    /\ tpc[s] \in {"giveup", "commit"} /\ tpc'[s] # "commit"
    /\ claimed'[s] = claimed[s] \ {Entry(s)}
    /\ XAckDel({Entry(s)})
    /\ settled' = IF tpc[s] = "giveup" THEN settled \union {log[Entry(s)]} ELSE settled
    /\ \A m \in Msgs : /\ hash'[m].execs = hash[m].execs
                       /\ hash'[m].status = "Retrying" =>
                             hash[m].status = "Retrying" /\ m # log[Entry(s)]

\* Time passes, or the cleanup or the dashboard works on hashes and index.
Waits ==
    /\ log' = log /\ live' = live /\ lastDelivered' = lastDelivered /\ pel' = pel
    /\ \A i \in idle' : i \in idle \/ (i \in pel /\ (Slow \/ ~Held(i)))
    /\ settled' = settled /\ NoneRetries
    /\ \A m \in Msgs : hash'[m].execs <= hash[m].execs
    /\ UNCHANGED <<publisherVars, consumerVars, tpc, claimed>>

TimelyStep ==
    \/ \E m \in Msgs : Publishes(m) /\ UNCHANGED <<consumerVars, timeoutVars>>
    \/ \E w \in Workers : /\ OtherWorkers(w) /\ UNCHANGED <<publisherVars, timeoutVars>>
                          /\ \/ Reads(w)
                             \/ \E es \in SUBSET (1 .. Len(log)), ms \in SUBSET Msgs : Handles(w, es, ms)
    \/ \E s \in Servers : /\ OtherServices(s) /\ UNCHANGED <<publisherVars, consumerVars>>
                          /\ Looks(s) \/ Republishes(s) \/ Deletes(s)
    \/ Waits

-----------------------------------------------------------------------------

LEMMA PublishingTimely ==
    ASSUME TypeOK, NEW m \in Msgs, Publishing(m)
    PROVE  Publishes(m) /\ UNCHANGED <<consumerVars, timeoutVars>>
<1>1. hash \in [Msgs -> Hash] /\ pub \in [Msgs -> PubStates]
      /\ \A k \in Msgs : hash[k].execs \in Nat
  BY DEF TypeOK, StoreTypeOK, PublisherTypeOK, Hash
<1>2. ASSUME UNCHANGED metaVars
      PROVE  settled' = settled /\ NoneRetries /\ \A k \in Msgs : hash'[k].execs <= hash[k].execs
  BY <1>1, <1>2 DEF metaVars, NoneRetries
<1>3. ASSUME WriteMeta(m) \/ WriteId(m)
      PROVE  /\ settled' = settled /\ NoneRetries /\ \A k \in Msgs : hash'[k].execs <= hash[k].execs
             /\ UNCHANGED streamVars
  BY <1>1, <1>3 DEF WriteMeta, WriteId, NoneRetries, Hash
<1>4. ASSUME NEW pc \in {"added", "done", "cleanup", "failed", "crashed"}, Goto(m, pc)
      PROVE  /\ \A k \in Msgs : pub'[k] \in {"new", "meta"} => pub[k] \in {"new", "meta"}
             /\ pub'[m] \notin {"new", "meta"}
  BY <1>1, <1>4 DEF Goto
<1>5. ASSUME pub[m] = "new", Goto(m, "meta")
      PROVE  \A k \in Msgs : pub'[k] \in {"new", "meta"} => pub[k] \in {"new", "meta"}
  BY <1>1, <1>5 DEF Goto
<1>6. Publishes(m)
  <2>a. CASE PublishMeta(m)
    BY <2>a, <1>3, <1>5 DEF PublishMeta, Publishes
  <2>b. CASE PublishXAdd(m)
    BY <2>b, <1>2, <1>4 DEF PublishXAdd, Publishes
  <2>c. CASE PublishFinish(m)
    BY <2>c, <1>3, <1>4 DEF PublishFinish, Publishes
  <2>d. CASE PublishCleanup(m)
    <3>1. NoneRetries /\ \A k \in Msgs : hash'[k].execs <= hash[k].execs
      BY <1>1, <2>d DEF PublishCleanup, NoneRetries, NoHash
    <3> QED BY <2>d, <3>1, <1>4 DEF PublishCleanup, Publishes
  <2>e. CASE PublishMetaError(m)
    BY <2>e, <1>2, <1>3, <1>4 DEF PublishMetaError, Publishes
  <2>f. CASE PublishXAddError(m)
    BY <2>f, <1>2, <1>4 DEF PublishXAddError, Publishes
  <2>g. CASE PublishFinishError(m)
    BY <2>g, <1>2, <1>3, <1>4 DEF PublishFinishError, Publishes
  <2>h. CASE PublisherCrash(m)
    BY <2>h, <1>2, <1>4 DEF PublisherCrash, Publishes
  <2> QED BY <2>a, <2>b, <2>c, <2>d, <2>e, <2>f, <2>g, <2>h
          DEF Publishing, PublisherStep, PublisherFault
<1> QED BY <1>6 DEF Publishing

LEMMA ConsumingTimely ==
    ASSUME TypeOK, OwnAck, NEW w \in Workers, Consuming(w)
    PROVE  /\ OtherWorkers(w) /\ UNCHANGED <<publisherVars, timeoutVars>>
           /\ Reads(w) \/ \E es \in SUBSET (1 .. Len(log)), ms \in SUBSET Msgs : Handles(w, es, ms)
<1>1. /\ hash \in [Msgs -> Hash] /\ wpc \in [Workers -> WorkerStates]
      /\ batch \in [Workers -> SUBSET (1 .. lastDelivered)]
      /\ ack \in [Workers -> SUBSET [msg : Msgs, id : Nat]]
      /\ wpc[w] # "loop" => batch[w] # {}
      /\ ack[w] # {} => wpc[w] \in {"exec", "error"}
  BY DEF TypeOK, StoreTypeOK, ConsumerTypeOK
<1>2. batch[w] # {} => /\ Current(w) \in 1 .. Len(log) /\ Current(w) \in batch[w]
                       /\ Message(w) \in Msgs
  BY CurrentInBatch
<1> DEFINE Done == Reads(w) \/ \E es \in SUBSET (1 .. Len(log)), ms \in SUBSET Msgs : Handles(w, es, ms)
<1>12. OtherWorkers(w)
  BY <1>1
     DEF Consuming, WorkerStep, HandlerChoice, WorkerFault, Read, ReadLost, ResolveError, BadPayload,
         Begin, BeginError, AckResolve, AckCommit, AckError, Return, ReturnError, Throw, ReadAttempts,
         Retry, GiveUp, ErrorLost, WorkerCrash, WGoto, NextEntry, consumerVars, OtherWorkers
<1> SUFFICES Done
  BY <1>12 DEF Done, Consuming
\* The parts of Handles.
<1> DEFINE Move == \/ batch'[w] = batch[w] /\ wpc'[w] # "loop"
                   \/ batch'[w] \in {batch[w] \ {Current(w)}, {}} /\ wpc'[w] = "loop"
           Idle == XAckDel({}) /\ settled' = settled /\ NoneRetries
<1>3. ASSUME UNCHANGED streamVars  PROVE XAckDel({})
  BY <1>3 DEF streamVars, XAckDel
<1>4. ASSUME UNCHANGED <<streamVars, metaVars>>  PROVE Idle
  BY <1>3, <1>4 DEF metaVars, NoneRetries
<1>5. ASSUME Idle, Move, batch[w] # {},
             \/ ack'[w] = {}
             \/ /\ HandlerMayAck /\ batch'[w] = batch[w]
                /\ \E named \in SUBSET Ackable(w) : ack'[w] = Resolved(w, named)
      PROVE  Done
  <2>1. Handles(w, {}, {})
    BY <1>5 DEF Handles, NoneRetries
  <2> QED BY <2>1
<1>6. ASSUME NEW ms \in SUBSET Msgs, Complete(ms)
      PROVE  /\ settled' = settled \union ms
             /\ \A m \in Msgs : hash'[m].status = "Retrying" => hash[m].status = "Retrying" /\ m \notin ms
  BY <1>1, <1>6 DEF Complete, SetStatus, Hash
<1>7. ASSUME SettleExec(w), Move, wpc[w] # "loop", ack'[w] = {},
             "CommitError" \in Faults \/ batch'[w] = batch[w] \ {Current(w)}
      PROVE  Done
  <2>1. /\ {Message(w)} \in SUBSET Msgs /\ {Current(w)} \in SUBSET (1 .. Len(log))
    BY <1>1, <1>2, <1>7
  <2>2. XAckDel({Current(w)}) /\ Complete({Message(w)})
    BY <1>7 DEF SettleExec
  <2>3. Handles(w, {Current(w)}, {Message(w)})
    BY <1>1, <1>6, <1>7, <2>1, <2>2 DEF Handles
  <2> QED BY <2>1, <2>3
<1>8. ASSUME AckExec(w), Move, ack[w] # {}, ack'[w] = {}
      PROVE  Done
  <2> DEFINE es == {r.id : r \in ack[w]}
             ms == {r.msg : r \in ack[w]}
  <2>1. \A r \in ack[w] : r.msg \in Msgs /\ r.id \in 1 .. Len(log)
    BY <1>1 DEF OwnAck
  <2>2. es \in SUBSET (1 .. Len(log)) /\ ms \in SUBSET Msgs
    BY <2>1
  <2>3. XAckDel(es) /\ Complete(ms)
    BY <1>8 DEF AckExec
  <2>4. /\ settled' = settled \union ms
        /\ \A m \in Msgs : hash'[m].status = "Retrying" => hash[m].status = "Retrying" /\ m \notin ms
    BY <1>6, <2>2, <2>3
  <2>5. Handles(w, es, ms)
    BY <1>1, <1>8, <2>3, <2>4 DEF Handles
  <2> QED BY <2>2, <2>5
<1>9. ASSUME NextEntry(w)  PROVE wpc'[w] = "loop" /\ batch'[w] = batch[w] \ {Current(w)} /\ Move
  BY <1>1, <1>9 DEF NextEntry, WGoto
<1>10. ASSUME NEW pc \in WorkerStates \ {"loop"}, WGoto(w, pc), batch' = batch  PROVE Move
  BY <1>1, <1>10 DEF WGoto
<1>11. wpc' = wpc /\ batch' = batch /\ wpc[w] # "loop" => Move
  OBVIOUS
<1> HIDE DEF Done, Move, Idle
<1> USE DEF WorkerStates
<1>a. CASE Read(w)
  <2>1. Reads(w)
    BY <1>1, <1>a DEF Read, Reads, metaVars
  <2> QED BY <2>1 DEF Done
<1>b. CASE ReadLost(w)
  <2>1. Reads(w)
    BY <1>b DEF ReadLost, Reads, metaVars, consumerVars
  <2> QED BY <2>1 DEF Done
<1>c. CASE ResolveError(w)
  BY <1>c, <1>1, <1>4, <1>5, <1>9 DEF ResolveError
<1>d. CASE BadPayload(w)
  BY <1>d, <1>1, <1>4, <1>5, <1>10 DEF BadPayload
<1>e. CASE Begin(w)
  <2>1. Idle
    BY <1>1, <1>2, <1>3, <1>e DEF Begin, Idle, NoneRetries, Hash
  <2> QED BY <2>1, <1>e, <1>1, <1>5, <1>10 DEF Begin
<1>f. CASE BeginError(w)
  BY <1>f, <1>1, <1>4, <1>5, <1>10 DEF BeginError
<1>g. CASE AckResolve(w)
  <2>1. PICK named \in SUBSET Ackable(w) : ack' = [ack EXCEPT ![w] = Resolved(w, named)]
    BY <1>g DEF AckResolve
  <2>2. ack'[w] = Resolved(w, named)
    BY <1>1, <2>1
  <2> QED BY <2>2, <1>g, <1>1, <1>4, <1>5, <1>11 DEF AckResolve
<1>h. CASE AckCommit(w)
  BY <1>h, <1>1, <1>8, <1>11 DEF AckCommit
<1>i. CASE AckError(w)
  <2>1. Move /\ ack'[w] = {} /\ ack[w] # {}
    BY <1>i, <1>1, <1>10 DEF AckError
  <2> QED BY <2>1, <1>i, <1>1, <1>4, <1>5, <1>8 DEF AckError
<1>j. CASE Return(w)
  BY <1>j, <1>1, <1>4, <1>5, <1>7, <1>9 DEF Return
<1>k. CASE ReturnError(w)
  <2>1. Move /\ "CommitError" \in Faults
    BY <1>k, <1>10 DEF ReturnError, Fault
  <2> QED BY <2>1, <1>k, <1>1, <1>4, <1>5, <1>7 DEF ReturnError
<1>l. CASE Throw(w)
  BY <1>l, <1>1, <1>4, <1>5, <1>10 DEF Throw
<1>m. CASE ReadAttempts(w)
  BY <1>m, <1>1, <1>4, <1>5, <1>10 DEF ReadAttempts
<1>n. CASE GiveUp(w)
  <2>1. /\ Message(w) \in Msgs /\ Current(w) \in 1 .. Len(log) /\ wpc[w] # "loop"
        /\ XAckDel({Current(w)}) /\ settled' = settled \union {Message(w)}
        /\ NextEntry(w) /\ ack'[w] = {}
    BY <1>1, <1>2, <1>n DEF GiveUp
  <2>2. \A m \in Msgs : hash'[m].status = "Retrying" =>
           hash[m].status = "Retrying" /\ m \notin {Message(w)}
    BY <1>1, <2>1, <1>n DEF GiveUp, Hash
  <2>3. Handles(w, {Current(w)}, {Message(w)})
    BY <1>1, <1>9, <2>1, <2>2 DEF Handles
  <2> QED BY <2>1, <2>3 DEF Done
<1>o. CASE Retry(w)
  <2>1. /\ Message(w) \in Msgs /\ XAckDel({}) /\ settled' = settled /\ batch[w] # {}
        /\ NextEntry(w) /\ ack'[w] = {}
    BY <1>1, <1>2, <1>3, <1>o DEF Retry
  <2>2. \A m \in Msgs : hash'[m].status = "Retrying" => hash[m].status = "Retrying" \/ m = Message(w)
    BY <1>1, <2>1, <1>o DEF Retry, Hash
  <2>3. Handles(w, {}, {})
    BY <1>9, <2>1, <2>2 DEF Handles
  <2> QED BY <2>3 DEF Done
<1>p. CASE ErrorLost(w)
  BY <1>p, <1>1, <1>4, <1>5, <1>9 DEF ErrorLost
<1>q. CASE WorkerCrash(w)
  <2>1. Move /\ ack'[w] = {}
    BY <1>1, <1>q DEF WorkerCrash, WGoto, Move
  <2> QED BY <2>1, <1>q, <1>4, <1>5 DEF WorkerCrash
<1> QED
  BY <1>a, <1>b, <1>c, <1>d, <1>e, <1>f, <1>g, <1>h, <1>i, <1>j, <1>k, <1>l, <1>m,
     <1>n, <1>o, <1>p, <1>q
     DEF Consuming, WorkerStep, HandlerChoice, WorkerFault

LEMMA RecoveringTimely ==
    ASSUME TypeOK, NEW s \in Servers, Recovering(s)
    PROVE  /\ OtherServices(s) /\ UNCHANGED <<publisherVars, consumerVars>>
           /\ Looks(s) \/ Republishes(s) \/ Deletes(s)
<1>1. /\ hash \in [Msgs -> Hash] /\ tpc \in [Servers -> TaskStates]
      /\ claimed \in [Servers -> SUBSET (1 .. lastDelivered)]
  BY DEF TypeOK, StoreTypeOK, TimeoutTypeOK
<1>2. tpc[s] \in {"giveup", "republish", "commit"} =>
         Entry(s) \in 1 .. Len(log) /\ log[Entry(s)] \in Msgs
  BY EntryInClaimed DEF TypeOK, TimeoutTypeOK
<1>3. ASSUME UNCHANGED <<streamVars, metaVars>>
      PROVE  /\ log' = log /\ live' = live /\ lastDelivered' = lastDelivered /\ pel' = pel
             /\ idle' = idle /\ hash' = hash /\ settled' = settled
  BY <1>3 DEF streamVars, metaVars
<1>4. OtherServices(s)
  BY <1>1
     DEF Recovering, TimeoutStep, TimeoutFault, AcquireLock, ScanPage, Claim, Inspect, FailCommit,
         Republish, RepublishCommit, Unlock, TimeoutError, TimeoutCrash, Drop, NextClaimed, TGoto,
         OtherServices
<1> SUFFICES Looks(s) \/ Republishes(s) \/ Deletes(s)
  BY <1>4 DEF Recovering
<1>a. CASE AcquireLock(s) \/ ScanPage(s) \/ Inspect(s) \/ Unlock(s)
  <2>1. UNCHANGED <<streamVars, metaVars>>
    BY <1>a DEF AcquireLock, ScanPage, Inspect, Unlock
  <2>2. tpc[s] # "commit" /\ tpc'[s] # "commit" /\ claimed'[s] \subseteq claimed[s] \union idle
    BY <1>1, <1>a DEF AcquireLock, ScanPage, Inspect, Unlock, TGoto
  <2> QED BY <1>3, <2>1, <2>2 DEF Looks
<1>b. CASE Claim(s)
  <2>1. tpc[s] # "commit" /\ tpc'[s] # "commit" /\ claimed'[s] \subseteq claimed[s]
    BY <1>1, <1>b DEF Claim, TGoto
  <2> QED BY <1>b, <2>1 DEF Claim, Looks, metaVars
<1>c. CASE TimeoutError(s) \/ TimeoutCrash(s)
  <2>1. UNCHANGED <<streamVars, metaVars>> /\ claimed'[s] = {}
    BY <1>1, <1>c DEF TimeoutError, TimeoutCrash, Drop
  <2>2. tpc'[s] # "commit" /\ (Fault("TimeoutError") \/ Fault("TimeoutCrash"))
    BY <1>1, <1>c DEF TimeoutError, TimeoutCrash, TGoto
  <2> QED BY <1>3, <2>1, <2>2 DEF Looks
<1>d. CASE Republish(s)
  BY <1>1, <1>d DEF Republish, Republishes, TGoto, metaVars
<1>e. CASE FailCommit(s)
  <2>1. \A m \in Msgs : /\ hash'[m].execs = hash[m].execs
                        /\ hash'[m].status = "Retrying" => hash[m].status = "Retrying" /\ m # log[Entry(s)]
    BY <1>1, <1>2, <1>e DEF FailCommit, SetStatus, Hash
  <2>2. claimed'[s] = claimed[s] \ {Entry(s)} /\ tpc'[s] # "commit"
    BY <1>1, <1>e DEF FailCommit, NextClaimed, TGoto
  <2> QED BY <1>e, <2>1, <2>2 DEF FailCommit, Deletes
<1>f. CASE RepublishCommit(s)
  <2>1. \A m \in Msgs : /\ hash'[m].execs = hash[m].execs
                        /\ hash'[m].status = "Retrying" => hash[m].status = "Retrying" /\ m # log[Entry(s)]
    BY <1>1, <1>2, <1>f DEF RepublishCommit, Hash
  <2>2. claimed'[s] = claimed[s] \ {Entry(s)} /\ tpc'[s] # "commit"
    BY <1>1, <1>f DEF RepublishCommit, NextClaimed, TGoto
  <2> QED BY <1>f, <2>1, <2>2 DEF RepublishCommit, Deletes
<1> QED BY <1>a, <1>b, <1>c, <1>d, <1>e, <1>f DEF Recovering, TimeoutStep, TimeoutFault

LEMMA NextTimely == IInv /\ [Next \/ HousekeepingStep]_vars => TimelyStep
<1> SUFFICES ASSUME TypeOK, OwnAck, [Next \/ HousekeepingStep]_vars PROVE TimelyStep
  BY DEF IInv
<1>1. ASSUME UNCHANGED metaVars
      PROVE  settled' = settled /\ NoneRetries /\ \A m \in Msgs : hash'[m].execs <= hash[m].execs
  BY <1>1 DEF metaVars, NoneRetries, TypeOK, StoreTypeOK, Hash
<1>2. ASSUME NEW i \in pel, Elapse(i), Passing  PROVE Waits
  BY <1>1, <1>2 DEF Passing, Elapse, Waits, timeoutVars
<1>3. CASE Passing /\ \E t \in Servers : LockExpires(t)
  BY <1>1, <1>3 DEF Passing, LockExpires, Waits, streamVars, TimelyStep
<1>4. CASE UNCHANGED vars
  BY <1>1, <1>4 DEF Waits, vars, streamVars, timeoutVars, TimelyStep
<1>5. CASE HousekeepingStep
  BY <1>5 DEF HousekeepingStep, HashesLessen, NoneRetries, Waits, streamVars, timeoutVars, TimelyStep
<1> QED BY <1>2, <1>3, <1>4, <1>5, PublishingTimely, ConsumingTimely, RecoveringTimely
        DEF Next, Passing, TimelyStep

\* Delivery, by itself or with cleanup and deletion at work.
Operating == Init /\ []IInv /\ [][Next \/ HousekeepingStep]_vars

LEMMA BothOperate == Spec \/ SpecOps => Operating
<1>1. [Next]_vars => [Next \/ HousekeepingStep]_vars
  OBVIOUS
<1>2. OpsIInv /\ [NextOps]_opVars => [Next \/ HousekeepingStep]_vars
  BY OpsKeep
<1>3. InitOps => Init
  BY DEF InitOps
<1> QED BY <1>1, <1>2, <1>3, Inductive, OpsInductive, OperationsKeep, PTL DEF Operating, Spec, SpecOps

\* Housekeeping leaves the stream alone.
LEMMA OperatingStream == IInv /\ [Next \/ HousekeepingStep]_vars => StreamStep
BY NextStream DEF HousekeepingStep, streamVars, Quiet, StreamStep

(***************************************************************************)
(* What was delivered is pending, whatever is cleaned up or deleted.       *)
(***************************************************************************)
LEMMA OperatingPending == Operating => []DeliveredIsPending
<1>1. Init => DeliveredIsPending
  BY DEF Init, InitStore, DeliveredIsPending
<1>2. IInv /\ [Next \/ HousekeepingStep]_vars /\ DeliveredIsPending => DeliveredIsPending'
  BY OperatingStream, StepPending DEF IInv
<1> QED BY <1>1, <1>2, PTL DEF Operating

(***************************************************************************)
(* The same of Operations: neither the cleanup nor the deletions of the    *)
(* dashboard take an entry out of the reach of the timeout service.        *)
(***************************************************************************)
THEOREM OperationsPending == SpecOps => []DeliveredIsPending
BY BothOperate, OperatingPending, PTL

-----------------------------------------------------------------------------
(* Who holds an entry *)

\* No entry is in two hands, or idle in one.
HeldOnce == \A v, w \in Workers : v # w => batch[v] \intersect batch[w] = {}

Apart ==
    \A w \in Workers : /\ batch[w] \intersect idle = {}
                       /\ \A s \in Servers : batch[w] \intersect claimed[s] = {}

\* The service at work has the lock, and the others have claimed nothing.
LockHeld == \A s \in Servers : tpc[s] # "lock" => lock = s
Idling   == \A s \in Servers : tpc[s] \in {"lock", "scan", "unlock"} => claimed[s] = {}

Custody == HeldOnce /\ Apart /\ LockHeld /\ Idling

LEMMA CurrentOfBatch ==
    ASSUME TypeOK, NEW w \in Workers, batch[w] # {}
    PROVE  /\ Current(w) \in batch[w] /\ Current(w) \in 1 .. Len(log)
           /\ Message(w) = log[Current(w)] /\ Message(w) \in Msgs
BY CurrentInBatch DEF Message

\* The hands of the worker or the service that moves.
LEMMA NewBatchIsNew ==
    ASSUME TypeOK, NEW i \in NextBatch(Prefetch)
    PROVE  /\ i \in live /\ i \notin idle
           /\ \A w \in Workers : i \notin batch[w]
           /\ \A s \in Servers : i \notin claimed[s]
<1>1. i \in live /\ i > lastDelivered
  BY DEF NextBatch, Undelivered
<1>2. /\ lastDelivered \in Nat /\ live \subseteq Nat /\ idle \subseteq 1 .. lastDelivered
      /\ \A w \in Workers : batch[w] \subseteq 1 .. lastDelivered
      /\ \A s \in Servers : claimed[s] \subseteq 1 .. lastDelivered
  BY StreamType, LogLength DEF TypeOK, StreamOK, ConsumerTypeOK, TimeoutTypeOK
<1>3. i \notin 1 .. lastDelivered
  BY <1>1, <1>2
<1> QED BY <1>1, <1>2, <1>3

(***************************************************************************)
(* What a worker has in its batch after a step was there, or is new.       *)
(***************************************************************************)
LEMMA BatchMoves ==
    ASSUME TypeOK, NEW w \in Workers,
           Reads(w) \/ \E es \in SUBSET (1 .. Len(log)), ms \in SUBSET Msgs : Handles(w, es, ms)
    PROVE  /\ batch'[w] \subseteq batch[w] \union NextBatch(Prefetch)
           /\ idle' \subseteq idle /\ lastDelivered <= lastDelivered' /\ log' = log
<1>1. StreamOK /\ lastDelivered \in Nat
  BY StreamType, LogLength
<1>2. CASE Reads(w)
  BY <1>1, <1>2, DeliverFacts DEF Reads, Deliver
<1>3. ASSUME NEW es, NEW ms, Handles(w, es, ms)
      PROVE  batch'[w] \subseteq batch[w] /\ idle' \subseteq idle /\ lastDelivered = lastDelivered' /\ log' = log
  BY <1>3 DEF Handles, XAckDel
<1> QED BY <1>1, <1>2, <1>3

LEMMA StepHeldOnce ==
    ASSUME TypeOK, HeldOnce, TimelyStep
    PROVE  HeldOnce'
<1>1. CASE UNCHANGED consumerVars
  BY <1>1 DEF HeldOnce, consumerVars
<1>2. ASSUME NEW w \in Workers, OtherWorkers(w),
             Reads(w) \/ \E es \in SUBSET (1 .. Len(log)), ms \in SUBSET Msgs : Handles(w, es, ms)
      PROVE  HeldOnce'
  <2>1. batch'[w] \subseteq batch[w] \union NextBatch(Prefetch)
    BY <1>2, BatchMoves
  <2>2. \A v \in Workers \ {w} : batch'[v] = batch[v]
    BY <1>2 DEF OtherWorkers
  <2>3. \A v \in Workers \ {w} : batch'[v] \intersect batch'[w] = {}
    BY <2>1, <2>2, NewBatchIsNew DEF HeldOnce
  <2> QED BY <2>2, <2>3 DEF HeldOnce
<1> QED BY <1>1, <1>2 DEF TimelyStep, Waits

LEMMA StepApart ==
    ASSUME ~Slow, TypeOK, Apart, TimelyStep
    PROVE  Apart'
<1>1. ASSUME UNCHANGED consumerVars, idle' \subseteq idle,
             \A s \in Servers : claimed'[s] \subseteq claimed[s] \union idle
      PROVE  Apart'
  BY <1>1 DEF Apart, consumerVars
<1>2. ASSUME NEW m \in Msgs, Publishes(m), UNCHANGED <<consumerVars, timeoutVars>>  PROVE Apart'
  BY <1>1, <1>2 DEF Publishes, streamVars, XAdd, timeoutVars
<1>3. ASSUME NEW w \in Workers, OtherWorkers(w), UNCHANGED timeoutVars,
             Reads(w) \/ \E es \in SUBSET (1 .. Len(log)), ms \in SUBSET Msgs : Handles(w, es, ms)
      PROVE  Apart'
  <2>1. batch'[w] \subseteq batch[w] \union NextBatch(Prefetch) /\ idle' \subseteq idle
    BY <1>3, BatchMoves
  <2>2. claimed' = claimed /\ \A v \in Workers \ {w} : batch'[v] = batch[v]
    BY <1>3 DEF OtherWorkers, timeoutVars
  <2> QED BY <2>1, <2>2, NewBatchIsNew DEF Apart
<1>4. ASSUME NEW s \in Servers, OtherServices(s), UNCHANGED consumerVars,
             Looks(s) \/ Republishes(s) \/ Deletes(s)
      PROVE  Apart'
  <2>1. idle' \subseteq idle /\ claimed'[s] \subseteq claimed[s] \union idle
    BY <1>4 DEF Looks, Republishes, Deletes, XAdd, XAckDel
  <2> QED BY <1>1, <1>4, <2>1 DEF OtherServices
<1>5. CASE Waits
  <2>1. \A i \in idle' : i \in idle \/ ~Held(i)
    BY <1>5 DEF Waits
  <2> QED BY <1>5, <2>1 DEF Waits, Held, Apart, consumerVars
<1> QED BY <1>2, <1>3, <1>4, <1>5 DEF TimelyStep

LEMMA NextLock ==
    ASSUME ~Slow, TypeOK, LockHeld, Idling, [Next \/ HousekeepingStep]_vars
    PROVE  LockHeld' /\ Idling'
<1>1. /\ tpc \in [Servers -> TaskStates] /\ claimed \in [Servers -> SUBSET (1 .. lastDelivered)]
      /\ NoServer \notin Servers
  BY TimeoutAssumption DEF TypeOK, TimeoutTypeOK
<1>2. CASE UNCHANGED <<lock, tpc, claimed>>
  BY <1>2 DEF LockHeld, Idling
<1>3. CASE Passing /\ \E t \in Servers : LockExpires(t)
  BY <1>3 DEF Passing, LockExpires, LockHeld, Idling
<1>4. ASSUME NEW s \in Servers, Recovering(s)  PROVE LockHeld' /\ Idling'
  <2>1. CASE AcquireLock(s)
    BY <1>1, <2>1 DEF AcquireLock, TGoto, LockHeld, Idling
  <2>2. CASE Unlock(s)
    BY <1>1, <2>2 DEF Unlock, TGoto, LockHeld, Idling
  <2>3. CASE ~AcquireLock(s) /\ ~Unlock(s)
    <3>1. lock' = lock /\ tpc[s] # "lock"
      BY <1>4, <2>3
         DEF Recovering, TimeoutStep, TimeoutFault, ScanPage, Claim, Inspect, FailCommit, Republish,
             RepublishCommit, TimeoutError, TimeoutCrash, Drop, NextClaimed
    <3>2. \A t \in Servers \ {s} : tpc'[t] = tpc[t] /\ claimed'[t] = claimed[t]
      BY <1>1, <1>4, <2>3
         DEF Recovering, TimeoutStep, TimeoutFault, ScanPage, Claim, Inspect, FailCommit, Republish,
             RepublishCommit, TimeoutError, TimeoutCrash, Drop, NextClaimed, TGoto
    <3>3. tpc'[s] \in {"lock", "scan", "unlock"} => claimed'[s] = {}
      BY <1>1, <1>4, <2>3
         DEF Recovering, TimeoutStep, TimeoutFault, ScanPage, Claim, Inspect, FailCommit, Republish,
             RepublishCommit, TimeoutError, TimeoutCrash, Drop, NextClaimed, TGoto, Idling
    <3> QED BY <3>1, <3>2, <3>3 DEF LockHeld, Idling
  <2> QED BY <2>1, <2>2, <2>3
<1> QED BY <1>2, <1>3, <1>4 DEF Next, Publishing, Consuming, Passing, Elapse, HousekeepingStep, timeoutVars, vars

(***************************************************************************)
(* While no batch outlasts PendingTimeOut, an entry is in one hand at most *)
(* and one service at most is at work.                                     *)
(***************************************************************************)
LEMMA HandsInductive ==
    ASSUME ~Slow
    PROVE  Operating => []Custody
<1>1. Init => Custody
  BY DEF Init, InitStore, InitConsumer, InitTimeout, Custody, HeldOnce, Apart, LockHeld, Idling
<1>2. IInv /\ [Next \/ HousekeepingStep]_vars /\ TimelyStep /\ Custody => Custody'
  BY StepHeldOnce, StepApart, NextLock DEF IInv, Custody
<1> QED BY <1>1, <1>2, NextTimely, PTL DEF Operating

-----------------------------------------------------------------------------
(* A Retrying message can be retried *)

\* Without AckAsync and failing pipelines, what a worker holds is not deleted.
NoAcks  == \A w \in Workers : ack[w] = {}
AllLive == \A w \in Workers : batch[w] \subseteq live

RetryIInv == NoAcks /\ AllLive /\ RetryingHasEntry

\* XADD takes no entry away.
LEMMA XAddKeepsEntries ==
    ASSUME TypeOK, NEW m \in Msgs, XAdd(m)
    PROVE  /\ live \subseteq live'
           /\ \A k \in Msgs : Carriers(k) \subseteq Carriers(k)'
<1>1. /\ live \subseteq 1 .. Len(log) /\ live' = live \union {Len(log) + 1}
      /\ \A i \in 1 .. Len(log) : log'[i] = log[i]
  BY StreamType, XAddFacts DEF StreamOK
<1> QED BY <1>1 DEF Carriers

LEMMA StepRetrying ==
    ASSUME ~HandlerMayAck, "CommitError" \notin Faults,
           TypeOK, Custody, RetryIInv, TimelyStep
    PROVE  RetryIInv'
<1> USE DEF RetryIInv
<1>1. ASSUME live \subseteq live', \A k \in Msgs : Carriers(k) \subseteq Carriers(k)',
             NoneRetries, UNCHANGED consumerVars
      PROVE  RetryIInv'
  BY <1>1 DEF NoAcks, AllLive, RetryingHasEntry, NoneRetries, consumerVars
<1>2. ASSUME log' = log, live' = live
      PROVE  live \subseteq live' /\ \A k \in Msgs : Carriers(k) \subseteq Carriers(k)'
  BY <1>2 DEF Carriers
<1>3. hash' = hash => NoneRetries
  BY DEF NoneRetries
\* What only deletes the entry e keeps the entries of the other messages.
<1>4. ASSUME NEW e, XAckDel({e})
      PROVE  /\ live' = live \ {e}
             /\ \A k \in Msgs : k # log[e] => Carriers(k)' = Carriers(k)
  BY <1>4 DEF XAckDel, Carriers
<1>a. ASSUME NEW m \in Msgs, Publishes(m), UNCHANGED consumerVars  PROVE RetryIInv'
  BY <1>a, <1>1, <1>2, XAddKeepsEntries DEF Publishes, streamVars
<1>b. ASSUME NEW w \in Workers, OtherWorkers(w), Reads(w)  PROVE RetryIInv'
  <2>1. /\ log' = log /\ live' = live /\ ack'[w] = {} /\ hash' = hash
        /\ batch'[w] \subseteq live
    BY <1>b, NewBatchIsNew DEF Reads, Deliver, NoAcks
  <2> QED BY <1>b, <2>1 DEF OtherWorkers, NoAcks, AllLive, RetryingHasEntry, Carriers
<1>c. ASSUME NEW w \in Workers, OtherWorkers(w), NEW es, NEW ms, Handles(w, es, ms)
      PROVE  RetryIInv'
  <2>1. batch[w] # {} /\ Current(w) \in batch[w] /\ Message(w) = log[Current(w)] /\ Message(w) \in Msgs
    BY <1>c, CurrentOfBatch DEF Handles
  <2>2. NoAcks'
    BY <1>c DEF OtherWorkers, Handles, NoAcks
  <2>3. Current(w) \in live /\ Current(w) \in Carriers(Message(w))
    BY <2>1 DEF AllLive, Carriers
  <2>4. CASE es = {} /\ ms = {}
    <3>1. log' = log /\ live' = live
      BY <1>c, <2>4 DEF Handles, XAckDel
    <3>2. AllLive'
      BY <1>c, <3>1 DEF Handles, OtherWorkers, AllLive
    <3>3. RetryingHasEntry'
      BY <1>c, <2>3, <3>1 DEF Handles, RetryingHasEntry, Carriers
    <3> QED BY <2>2, <3>2, <3>3
  <2>5. CASE es = {Current(w)} /\ ms = {Message(w)} /\ batch'[w] = batch[w] \ {Current(w)}
    <3>1. XAckDel({Current(w)})
      BY <1>c, <2>5 DEF Handles
    <3>2. live' = live \ {Current(w)}
      BY <1>4, <3>1
    <3>3. AllLive'
      BY <1>c, <2>1, <2>5, <3>2 DEF OtherWorkers, AllLive, Custody, HeldOnce
    <3>4. \A k \in Msgs : hash'[k].status = "Retrying" => hash[k].status = "Retrying" /\ k # Message(w)
      BY <1>c, <2>5 DEF Handles
    <3>5. RetryingHasEntry'
      BY <1>4, <2>1, <3>1, <3>4 DEF RetryingHasEntry
    <3> QED BY <2>2, <3>3, <3>5
  <2> QED BY <1>c, <2>4, <2>5 DEF Handles, NoAcks
<1>d. ASSUME NEW s \in Servers, UNCHANGED consumerVars, Looks(s)  PROVE RetryIInv'
  BY <1>d, <1>1, <1>2, <1>3 DEF Looks
<1>e. ASSUME NEW s \in Servers, UNCHANGED consumerVars, Republishes(s)  PROVE RetryIInv'
  <2>1. log[Entry(s)] \in Msgs
    BY <1>e, EntryInClaimed DEF Republishes, TypeOK, TimeoutTypeOK
  <2> QED BY <1>e, <1>1, <1>3, <2>1, XAddKeepsEntries DEF Republishes
<1>f. ASSUME NEW s \in Servers, UNCHANGED consumerVars, Deletes(s)  PROVE RetryIInv'
  <2>1. Entry(s) \in claimed[s] /\ log[Entry(s)] \in Msgs
    BY <1>f, EntryInClaimed DEF Deletes, TypeOK, TimeoutTypeOK
  <2>2. XAckDel({Entry(s)})
    BY <1>f DEF Deletes
  <2>3. AllLive'
    BY <1>4, <1>f, <2>1, <2>2 DEF AllLive, Custody, Apart, consumerVars
  <2>4. RetryingHasEntry'
    BY <1>4, <1>f, <2>2 DEF Deletes, RetryingHasEntry
  <2>5. NoAcks'
    BY <1>f DEF NoAcks, consumerVars
  <2> QED BY <2>3, <2>4, <2>5
<1>g. CASE Waits
  BY <1>g, <1>1, <1>2 DEF Waits
<1> QED BY <1>a, <1>b, <1>c, <1>d, <1>e, <1>f, <1>g DEF TimelyStep

(***************************************************************************)
(* A Retrying message still has the entry the retry is made of: with       *)
(* handlers that do not call AckAsync and pipelines of workers that do not *)
(* fail, and whatever crashes, replies are lost and republishes are cut    *)
(* short, with cleanup and deletion at work or without.  (An entry that a  *)
(* handler acknowledged before it threw is gone.)                          *)
(***************************************************************************)
THEOREM RetriesHaveEntries ==
    ASSUME ~Slow, ~HandlerMayAck, "CommitError" \notin Faults
    PROVE  Spec \/ SpecOps => []RetryingHasEntry
<1>1. Init => RetryIInv
  BY DEF Init, InitStore, InitConsumer, NoHash, RetryIInv, NoAcks, AllLive, RetryingHasEntry
<1>2. IInv /\ Custody /\ TimelyStep /\ RetryIInv => RetryIInv'
  BY StepRetrying DEF IInv
<1>3. RetryIInv => RetryingHasEntry
  BY DEF RetryIInv
<1> QED BY <1>1, <1>2, <1>3, BothOperate, HandsInductive, NextTimely, PTL DEF Operating

-----------------------------------------------------------------------------
(* A message reaches the stream after its metadata *)

MetaUnsent == \A m \in Msgs : pub[m] \in {"new", "meta"} => ~Sent(m)

\* Who is sent by a step: the message of a publish call, or nobody new.
LEMMA NewlySent ==
    ASSUME TypeOK, TimelyStep, NEW k \in Msgs, Sent(k)', ~Sent(k)
    PROVE  Publishes(k) /\ XAdd(k) /\ pub[k] = "meta" /\ pub'[k] \notin {"new", "meta"}
<1>1. log' # log
  BY DEF Sent
<1>2. ASSUME NEW m \in Msgs, XAdd(m)  PROVE m = k
  <2>1. /\ Len(log) \in Nat /\ Len(log') = Len(log) + 1 /\ log'[Len(log) + 1] = m
        /\ \A i \in 1 .. Len(log) : log'[i] = log[i]
    BY <1>2, StreamType, XAddFacts
  <2> QED BY <2>1 DEF Sent
<1>3. ASSUME NEW s \in Servers, Republishes(s)  PROVE FALSE
  <2>1. claimed[s] # {}
    BY <1>3 DEF Republishes, TypeOK, TimeoutTypeOK
  <2>2. Entry(s) \in 1 .. Len(log) /\ log[Entry(s)] \in Msgs
    BY <2>1, EntryInClaimed
  <2>3. k = log[Entry(s)]
    BY <1>2, <1>3, <2>2 DEF Republishes
  <2> QED BY <2>2, <2>3 DEF Sent
<1> QED BY <1>1, <1>2, <1>3
        DEF TimelyStep, Publishes, Reads, Handles, Looks, Deletes, Waits, streamVars, Deliver, XAckDel

LEMMA SentInductive == Operating => []MetaUnsent
<1>1. Init => MetaUnsent
  <2> SUFFICES ASSUME Init PROVE MetaUnsent
    OBVIOUS
  <2>1. Len(log) = 0
    BY EmptySeq DEF Init, InitStore
  <2> QED BY <2>1 DEF MetaUnsent, Sent
<1>2. IInv /\ TimelyStep /\ MetaUnsent => MetaUnsent'
  <2> SUFFICES ASSUME TypeOK, TimelyStep, MetaUnsent, NEW k \in Msgs, pub'[k] \in {"new", "meta"}, Sent(k)'
               PROVE  FALSE
    BY DEF IInv, MetaUnsent
  <2>1. pub[k] \in {"new", "meta"}
    BY DEF TimelyStep, Publishes, Waits, publisherVars
  <2> QED BY <2>1, NewlySent DEF MetaUnsent
<1> QED BY <1>1, <1>2, NextTimely, PTL DEF Operating

-----------------------------------------------------------------------------
(* One entry of each message is at work *)

\* The last entry of its message, and the entries that somebody may still use.
Latest(i) == \A j \in 1 .. Len(log) : log[j] = log[i] => j <= i
AtWork(i) == i \in live \/ i \in pel \/ Held(i)

\* Only the last entry of a message is at work, or one is about to be deleted.
OneEntry == \A i \in 1 .. Len(log) : AtWork(i) => Latest(i) \/ i \in Retiring

LEMMA AtWorkType ==
    ASSUME TypeOK, NEW i, AtWork(i)
    PROVE  i \in 1 .. Len(log)
<1>1. /\ live \subseteq 1 .. Len(log) /\ pel \subseteq 1 .. lastDelivered
      /\ lastDelivered \in 0 .. Len(log) /\ Len(log) \in Nat
      /\ \A w \in Workers : batch[w] \subseteq 1 .. lastDelivered
      /\ \A s \in Servers : claimed[s] \subseteq 1 .. lastDelivered
  BY StreamType DEF TypeOK, StreamOK, ConsumerTypeOK, TimeoutTypeOK
<1>2. 1 .. lastDelivered \subseteq 1 .. Len(log)
  BY <1>1
<1>3. \/ i \in live \/ i \in pel
      \/ \E w \in Workers : i \in batch[w]
      \/ \E s \in Servers : i \in claimed[s]
  BY DEF AtWork, Held
<1> QED BY <1>1, <1>2, <1>3

\* Two entries of one message that are both the last are the same.
LEMMA LatestIsOne ==
    ASSUME NEW i \in 1 .. Len(log), NEW j \in 1 .. Len(log), Len(log) \in Nat,
           Latest(i), Latest(j), log[i] = log[j]
    PROVE  i = j
<1>1. i <= j /\ j <= i
  BY DEF Latest
<1> QED BY <1>1

\* Who retires an entry: the service that has the lock, if it is at "commit".
LEMMA RetiringOf ==
    ASSUME TypeOK, LockHeld, NEW s \in Servers, tpc[s] # "lock"
    PROVE  Retiring = IF tpc[s] = "commit" THEN {Entry(s)} ELSE {}
<1>1. \A t \in Servers : tpc[t] = "commit" => t = s
  BY DEF LockHeld
<1> QED BY <1>1 DEF Retiring

LEMMA RetiringClaimed ==
    ASSUME TypeOK, NEW i \in Retiring
    PROVE  \E s \in Servers : tpc[s] = "commit" /\ i = Entry(s) /\ i \in claimed[s]
<1>1. PICK s \in Servers : tpc[s] = "commit" /\ i = Entry(s)
  BY DEF Retiring
<1>2. claimed[s] # {}
  BY <1>1 DEF TypeOK, TimeoutTypeOK
<1> QED BY <1>1, <1>2, EntryInClaimed

LEMMA RetiringSame ==
    ASSUME tpc' = tpc, claimed' = claimed
    PROVE  Retiring' = Retiring
BY DEF Retiring, Entry

\* No batch has an entry that is about to be deleted.
LEMMA BatchesRemain ==
    ASSUME TypeOK, Apart, NEW w \in Workers, NEW i \in batch[w]
    PROVE  i \notin Retiring /\ AtWork(i)
<1>1. i \notin Retiring
  BY RetiringClaimed DEF Apart
<1> QED BY <1>1 DEF AtWork, Held

\* A new entry is the last of its message, and the others of other messages stay.
LEMMA LatestAfterXAdd ==
    ASSUME TypeOK, NEW m \in Msgs, XAdd(m)
    PROVE  /\ \A i : i = Len(log) + 1 => Latest(i)'
           /\ \A i \in 1 .. Len(log) : Latest(i) /\ log[i] # m => Latest(i)'
<1>1. /\ Len(log) \in Nat /\ Len(log') = Len(log) + 1 /\ log'[Len(log) + 1] = m
      /\ \A i \in 1 .. Len(log) : log'[i] = log[i]
  BY StreamType, XAddFacts
<1>2. ASSUME NEW i, i = Len(log) + 1  PROVE Latest(i)'
  BY <1>1, <1>2 DEF Latest
<1>3. ASSUME NEW i \in 1 .. Len(log), Latest(i), log[i] # m  PROVE Latest(i)'
  <2> SUFFICES ASSUME NEW j \in 1 .. Len(log'), log'[j] = log'[i]  PROVE j <= i
    BY DEF Latest
  <2>1. j # Len(log) + 1
    BY <1>1, <1>3
  <2>2. j \in 1 .. Len(log)
    BY <1>1, <2>1
  <2> QED BY <1>1, <1>3, <2>2 DEF Latest
<1> QED BY <1>2, <1>3

\* A step that sends nothing, and lets go of the entries it no longer retires.
LEMMA OneEntryKept ==
    ASSUME OneEntry, log' = log, \A i : AtWork(i)' => AtWork(i),
           \A i : AtWork(i)' /\ i \in Retiring => i \in Retiring'
    PROVE  OneEntry'
<1>1. \A i : Latest(i) => Latest(i)'
  BY DEF Latest
<1> QED BY <1>1 DEF OneEntry

LEMMA PublishingOne ==
    ASSUME TypeOK, OneEntry, MetaUnsent, NEW m \in Msgs, Publishes(m), UNCHANGED <<consumerVars, timeoutVars>>
    PROVE  OneEntry'
<1>1. Retiring' = Retiring
  BY RetiringSame DEF timeoutVars
<1>2. CASE UNCHANGED streamVars
  <2>1. log' = log /\ \A i : AtWork(i)' => AtWork(i)
    BY <1>2 DEF streamVars, consumerVars, timeoutVars, AtWork, Held
  <2> QED BY <1>1, <2>1, OneEntryKept
<1>3. CASE XAdd(m) /\ pub[m] = "meta" /\ pub'[m] \notin {"new", "meta"}
  <2>1. \A i : AtWork(i)' => AtWork(i) \/ i = Len(log) + 1
    BY <1>3 DEF XAdd, AtWork, Held, consumerVars, timeoutVars
  <2>2. ~Sent(m) /\ \A i : AtWork(i) => i \in 1 .. Len(log)
    BY <1>3, AtWorkType DEF MetaUnsent
  <2>3. \A i \in 1 .. Len(log) : log[i] # m
    BY <2>2 DEF Sent
  <2> SUFFICES ASSUME NEW i, AtWork(i)'  PROVE Latest(i)' \/ i \in Retiring'
    BY DEF OneEntry
  <2>4. CASE i = Len(log) + 1
    BY <1>3, <2>4, LatestAfterXAdd
  <2>5. CASE AtWork(i) /\ i \in 1 .. Len(log)
    <3>1. Latest(i) \/ i \in Retiring
      BY <2>5 DEF OneEntry
    <3> QED BY <1>1, <1>3, <2>3, <2>5, <3>1, LatestAfterXAdd
  <2> QED BY <2>1, <2>2, <2>4, <2>5
<1> QED BY <1>2, <1>3 DEF Publishes

\* A worker puts nothing to work.
LEMMA ConsumingAtWork ==
    ASSUME TypeOK, NEW w \in Workers, OtherWorkers(w), UNCHANGED timeoutVars,
           Reads(w) \/ \E es \in SUBSET (1 .. Len(log)), ms \in SUBSET Msgs : Handles(w, es, ms)
    PROVE  log' = log /\ \A i : AtWork(i)' => AtWork(i)
<1>1. /\ log' = log /\ live' \subseteq live /\ pel' \subseteq pel \union NextBatch(Prefetch)
      /\ batch'[w] \subseteq batch[w] \union NextBatch(Prefetch)
  BY BatchMoves DEF Reads, Handles, Deliver, XAckDel
<1>2. NextBatch(Prefetch) \subseteq live
  BY NewBatchIsNew
<1> QED BY <1>1, <1>2 DEF AtWork, Held, OtherWorkers, timeoutVars

LEMMA ConsumingOne ==
    ASSUME TypeOK, OneEntry, NEW w \in Workers, OtherWorkers(w), UNCHANGED timeoutVars,
           Reads(w) \/ \E es \in SUBSET (1 .. Len(log)), ms \in SUBSET Msgs : Handles(w, es, ms)
    PROVE  OneEntry'
<1>1. Retiring' = Retiring
  BY RetiringSame DEF timeoutVars
<1> QED BY <1>1, ConsumingAtWork, OneEntryKept

\* What a service deletes nobody works on.
LEMMA DeletedIsGone ==
    ASSUME TypeOK, Custody, NEW s \in Servers, OtherServices(s), UNCHANGED consumerVars, Deletes(s)
    PROVE  log' = log /\ \A i : AtWork(i)' => AtWork(i) /\ i # Entry(s)
<1> USE DEF Custody
<1>1. claimed[s] # {}
  BY DEF Deletes, TypeOK, TimeoutTypeOK
<1>2. PICK e \in 1 .. Len(log) : e = Entry(s) /\ e \in claimed[s]
  BY <1>1, EntryInClaimed
<1>3. XAckDel({e}) /\ claimed'[s] = claimed[s] \ {e} /\ tpc[s] \in {"giveup", "commit"}
  BY <1>2 DEF Deletes
<1>4. \A t \in Servers \ {s} : claimed[t] = {} /\ claimed'[t] = {}
  BY <1>3 DEF LockHeld, Idling, OtherServices
<1>5. e \notin live' /\ e \notin pel' /\ (\A w \in Workers : e \notin batch'[w])
      /\ (\A t \in Servers : e \notin claimed'[t])
  BY <1>2, <1>3, <1>4 DEF XAckDel, Apart, consumerVars
<1> QED BY <1>2, <1>3, <1>5 DEF XAckDel, AtWork, Held, consumerVars, OtherServices

LEMMA RecoveringOne ==
    ASSUME ~Slow, "TimeoutError" \notin Faults, "TimeoutCrash" \notin Faults,
           TypeOK, Custody, Custody', OneEntry,
           NEW s \in Servers, OtherServices(s), UNCHANGED consumerVars,
           Looks(s) \/ Republishes(s) \/ Deletes(s)
    PROVE  OneEntry'
<1> USE DEF Custody
<1>a. CASE Looks(s)
  <2>1. tpc[s] # "commit" /\ tpc'[s] # "commit"
    BY <1>a DEF Looks, Fault
  <2>2. Retiring' = Retiring
    BY <2>1 DEF Retiring, Entry, OtherServices
  <2>3. idle \subseteq pel /\ log' = log /\ live' = live /\ pel' = pel
        /\ claimed'[s] \subseteq claimed[s] \union idle
    BY <1>a DEF Looks, TypeOK, StoreTypeOK
  <2>4. \A i : AtWork(i)' => AtWork(i)
    BY <2>3 DEF AtWork, Held, OtherServices, consumerVars
  <2> QED BY <2>2, <2>3, <2>4, OneEntryKept
<1>b. CASE Republishes(s)
  <2>1. claimed[s] # {}
    BY <1>b DEF Republishes, TypeOK, TimeoutTypeOK
  <2>2. PICK e \in 1 .. Len(log), m \in Msgs : e = Entry(s) /\ m = log[e] /\ e \in claimed[s]
    BY <2>1, EntryInClaimed
  <2>3. XAdd(m) /\ claimed'[s] = claimed[s] /\ tpc[s] = "republish" /\ tpc'[s] = "commit"
    BY <1>b, <2>2 DEF Republishes
  <2>4. Retiring = {} /\ Retiring' = {e}
    <3>1. Retiring = {}
      BY <2>3, RetiringOf
    <3>2. Entry(s)' = e
      BY <2>2, <2>3 DEF Entry
    <3>3. \A t \in Servers : tpc'[t] = "commit" => t = s
      BY <2>3 DEF LockHeld
    <3> QED BY <2>3, <3>1, <3>2, <3>3 DEF Retiring
  <2>5. \A i : AtWork(i)' => AtWork(i) \/ i = Len(log) + 1
    BY <2>3 DEF XAdd, AtWork, Held, consumerVars, OtherServices
  <2>6. Len(log) \in Nat /\ AtWork(e) /\ \A i : AtWork(i) => i \in 1 .. Len(log)
    BY <2>2, StreamType, AtWorkType DEF AtWork, Held
  <2>7. \A i \in 1 .. Len(log) : AtWork(i) /\ log[i] = m => i = e
    BY <2>2, <2>4, <2>6, LatestIsOne DEF OneEntry
  <2> SUFFICES ASSUME NEW i, AtWork(i)'  PROVE Latest(i)' \/ i \in Retiring'
    BY DEF OneEntry
  <2>8. CASE i = Len(log) + 1
    BY <2>3, <2>8, LatestAfterXAdd
  <2>9. CASE AtWork(i) /\ i \in 1 .. Len(log)
    <3>1. Latest(i)
      BY <2>4, <2>9 DEF OneEntry
    <3> QED BY <2>3, <2>4, <2>7, <2>9, <3>1, LatestAfterXAdd
  <2> QED BY <2>5, <2>6, <2>8, <2>9
<1>c. CASE Deletes(s)
  <2>1. Retiring \subseteq {Entry(s)}
    BY <1>c, RetiringOf DEF Deletes
  <2> QED BY <1>c, <2>1, DeletedIsGone, OneEntryKept
<1> QED BY <1>a, <1>b, <1>c

LEMMA StepOne ==
    ASSUME ~Slow, "TimeoutError" \notin Faults, "TimeoutCrash" \notin Faults,
           TypeOK, Custody, Custody', OneEntry, MetaUnsent, TimelyStep
    PROVE  OneEntry'
<1>1. CASE Waits
  <2>1. Retiring' = Retiring /\ log' = log /\ \A i : AtWork(i)' => AtWork(i)
    BY <1>1, RetiringSame DEF Waits, AtWork, Held, consumerVars
  <2> QED BY <2>1, OneEntryKept
<1> QED BY <1>1, PublishingOne, ConsumingOne, RecoveringOne DEF TimelyStep

LEMMA OneInductive ==
    ASSUME ~Slow, "TimeoutError" \notin Faults, "TimeoutCrash" \notin Faults
    PROVE  Operating => []OneEntry
<1>1. Init => OneEntry
  <2> SUFFICES ASSUME Init PROVE OneEntry
    OBVIOUS
  <2>1. Len(log) = 0
    BY EmptySeq DEF Init, InitStore
  <2> QED BY <2>1 DEF OneEntry
<1>2. IInv /\ Custody /\ Custody' /\ MetaUnsent /\ TimelyStep /\ OneEntry => OneEntry'
  BY StepOne DEF IInv
<1> QED BY <1>1, <1>2, HandsInductive, SentInductive, NextTimely, PTL DEF Operating

(***************************************************************************)
(* No two workers are in the handler with the same message: the message    *)
(* has one entry at work, and an entry is in one hand.  A timeout service  *)
(* that dies between its XADD and its XDEL leaves two, hence the faults    *)
(* that are excluded; those of publishers and workers are not.             *)
(***************************************************************************)
THEOREM RunsAreApart ==
    ASSUME ~Slow, "TimeoutError" \notin Faults, "TimeoutCrash" \notin Faults
    PROVE  Spec \/ SpecOps => []NoConcurrentRuns
<1>1. IInv /\ Custody /\ OneEntry => NoConcurrentRuns
  <2> SUFFICES ASSUME TypeOK, Custody, OneEntry, NEW v \in Workers, NEW w \in Workers, v # w,
                      wpc[v] = "exec", wpc[w] = "exec"
               PROVE  Message(v) # Message(w)
    BY DEF IInv, NoConcurrentRuns
  <2>1. batch[v] # {} /\ batch[w] # {}
    BY DEF TypeOK, ConsumerTypeOK
  <2>2. /\ Current(v) \in batch[v] /\ Current(v) \in 1 .. Len(log) /\ Message(v) = log[Current(v)]
        /\ Current(w) \in batch[w] /\ Current(w) \in 1 .. Len(log) /\ Message(w) = log[Current(w)]
    BY <2>1, CurrentOfBatch
  <2>3. Latest(Current(v)) /\ Latest(Current(w))
    BY <2>2, BatchesRemain DEF Custody, OneEntry
  <2>4. Current(v) # Current(w)
    BY <2>2 DEF Custody, HeldOnce
  <2> QED BY <2>2, <2>3, <2>4, LatestIsOne, StreamType
<1> QED BY <1>1, BothOperate, HandsInductive, OneInductive, PTL DEF Operating

-----------------------------------------------------------------------------
(* A settled message leaves for good *)

\* Handlers that acknowledge nothing but their own message.
OwnAcks == \A w \in Workers : \A r \in ack[w] : r.msg = Message(w) /\ r.id = Current(w)

\* What is claimed has not been deleted.
ClaimedLive == \A s \in Servers : claimed[s] \subseteq live

OnceIInv == OwnAcks /\ ClaimedLive

LEMMA HandlesOwn ==
    ASSUME OwnAcks, NEW w \in Workers, NEW es, NEW ms, Handles(w, es, ms)
    PROVE  \/ es = {} /\ ms = {}
           \/ es = {Current(w)} /\ ms = {Message(w)}
<1>1. CASE ack[w] # {} /\ es = {r.id : r \in ack[w]} /\ ms = {r.msg : r \in ack[w]}
  <2>1. \A r \in ack[w] : r.msg = Message(w) /\ r.id = Current(w)
    BY DEF OwnAcks
  <2>2. PICK r \in ack[w] : TRUE
    BY <1>1
  <2> QED BY <1>1, <2>1, <2>2
<1> QED BY <1>1 DEF Handles

\* An acknowledgement is of the entry in hand, which the worker keeps meanwhile.
LEMMA AcksKept ==
    ASSUME TypeOK, OwnAcks, Grows, NEW w \in Workers, batch'[w] = batch[w], batch[w] # {},
           NEW r, r.msg = Message(w), r.id = Current(w)
    PROVE  r.msg = Message(w)' /\ r.id = Current(w)'
<1>1. Current(w)' = Current(w)
  BY DEF Current
<1>2. Current(w) \in 1 .. Len(log) /\ Message(w) = log[Current(w)]
  BY CurrentOfBatch
<1> QED BY <1>1, <1>2 DEF Grows, Message

LEMMA StepOwnAcks ==
    ASSUME ~AckOthers, TypeOK, OwnAcks, Grows, TimelyStep
    PROVE  OwnAcks'
<1>1. \A v \in Workers : ack[v] # {} => batch[v] # {}
  BY DEF TypeOK, ConsumerTypeOK
<1>2. ASSUME NEW v \in Workers, batch'[v] = batch[v], ack'[v] = ack[v], NEW r \in ack'[v]
      PROVE  r.msg = Message(v)' /\ r.id = Current(v)'
  BY <1>1, <1>2, AcksKept DEF OwnAcks
<1>3. CASE UNCHANGED consumerVars
  BY <1>2, <1>3 DEF OwnAcks, consumerVars
<1>4. ASSUME NEW w \in Workers, OtherWorkers(w), Reads(w)  PROVE OwnAcks'
  <2>1. ack'[w] = {}
    BY <1>1, <1>4 DEF Reads
  <2> QED BY <1>2, <1>4, <2>1 DEF OwnAcks, OtherWorkers
<1>5. ASSUME NEW w \in Workers, OtherWorkers(w), NEW es, NEW ms, Handles(w, es, ms)  PROVE OwnAcks'
  <2>1. ASSUME NEW r \in ack'[w]  PROVE r.msg = Message(w)' /\ r.id = Current(w)'
    <3>1. PICK named \in SUBSET Ackable(w) : ack'[w] = Resolved(w, named)
      BY <1>5, <2>1 DEF Handles
    <3>2. named \subseteq {Message(w)}
      BY <3>1 DEF Ackable
    <3>3. r.msg = Message(w) /\ r.id = Current(w)
      BY <2>1, <3>1, <3>2 DEF Resolved
    <3>4. batch'[w] = batch[w] /\ batch[w] # {}
      BY <1>5, <2>1 DEF Handles
    <3> QED BY <3>3, <3>4, AcksKept
  <2> QED BY <1>2, <1>5, <2>1 DEF OwnAcks, OtherWorkers
<1> QED BY <1>3, <1>4, <1>5 DEF TimelyStep, Waits

LEMMA StepClaimedLive ==
    ASSUME ~Slow, TypeOK, DeliveredIsPending, Custody, OwnAcks, ClaimedLive, TimelyStep
    PROVE  ClaimedLive'
<1>1. CASE live \subseteq live' /\ claimed' = claimed
  BY <1>1 DEF ClaimedLive
<1>a. ASSUME NEW m \in Msgs, Publishes(m), UNCHANGED timeoutVars  PROVE ClaimedLive'
  <2>1. live \subseteq live' /\ claimed' = claimed
    BY <1>a, XAddKeepsEntries DEF Publishes, streamVars, timeoutVars
  <2> QED BY <1>1, <2>1
<1>b. ASSUME NEW w \in Workers, Reads(w), UNCHANGED timeoutVars  PROVE ClaimedLive'
  BY <1>1, <1>b DEF Reads, Deliver, timeoutVars
<1>c. ASSUME NEW w \in Workers, UNCHANGED timeoutVars, NEW es, NEW ms, Handles(w, es, ms)  PROVE ClaimedLive'
  <2>1. batch[w] # {} /\ Current(w) \in batch[w]
    BY <1>c, CurrentOfBatch DEF Handles
  <2>2. es \subseteq batch[w]
    BY <1>c, <2>1, HandlesOwn
  <2> QED BY <1>c, <2>2 DEF Handles, XAckDel, ClaimedLive, Custody, Apart, timeoutVars
<1>d. ASSUME NEW s \in Servers, OtherServices(s), Looks(s)  PROVE ClaimedLive'
  <2>1. idle \subseteq live
    BY DEF TypeOK, StoreTypeOK, DeliveredIsPending
  <2> QED BY <1>d, <2>1 DEF Looks, OtherServices, ClaimedLive
<1>e. ASSUME NEW s \in Servers, OtherServices(s), Republishes(s)  PROVE ClaimedLive'
  <2>1. log[Entry(s)] \in Msgs
    BY <1>e, EntryInClaimed DEF Republishes, TypeOK, TimeoutTypeOK
  <2>2. live \subseteq live'
    BY <1>e, <2>1, XAddKeepsEntries DEF Republishes
  <2> QED BY <1>e, <2>2 DEF Republishes, OtherServices, ClaimedLive
<1>f. ASSUME NEW s \in Servers, OtherServices(s), Deletes(s)  PROVE ClaimedLive'
  <2>1. \A t \in Servers \ {s} : claimed[t] = {}
    BY <1>f DEF Deletes, Custody, LockHeld, Idling
  <2> QED BY <1>f, <2>1 DEF Deletes, XAckDel, OtherServices, ClaimedLive
<1>g. CASE Waits
  BY <1>1, <1>g DEF Waits
<1> QED BY <1>a, <1>b, <1>c, <1>d, <1>e, <1>f, <1>g DEF TimelyStep

LEMMA OnceInductive ==
    ASSUME ~Slow, ~AckOthers
    PROVE  Operating => []OnceIInv
<1>1. Init => OnceIInv
  BY DEF Init, InitConsumer, InitTimeout, OnceIInv, OwnAcks, ClaimedLive
<1>2. IInv /\ DeliveredIsPending /\ Custody /\ StreamStep /\ TimelyStep /\ OnceIInv => OnceIInv'
  BY StepOwnAcks, StepClaimedLive, StreamGrows DEF IInv, OnceIInv
<1> QED BY <1>1, <1>2, HandsInductive, OperatingPending, OperatingStream, NextTimely, PTL DEF Operating

-----------------------------------------------------------------------------
(* The refinement without duplicates *)

LEMMA OnceStutters ==
    ASSUME \A k \in Msgs : Sent(k)' <=> Sent(k), settled' = settled,
           \A k \in Msgs : (Carriers(k) \ Retiring # {})' <=> (Carriers(k) \ Retiring # {})
    PROVE  UNCHANGED OnceQueue!qvars
BY DEF OnceQueue!qvars

\* The stream, and what is about to be deleted, stay.
LEMMA OnceQuiet ==
    ASSUME log' = log, live' = live, Retiring' = Retiring, settled' = settled
    PROVE  UNCHANGED OnceQueue!qvars
<1>1. \A k \in Msgs : (Sent(k)' <=> Sent(k)) /\ Carriers(k)' = Carriers(k)
  BY DEF Sent, Carriers
<1> QED BY <1>1, OnceStutters

(***************************************************************************)
(* With the entry at work of a message its queue entry goes: there was no  *)
(* other one.                                                              *)
(***************************************************************************)
LEMMA OnceSettles ==
    ASSUME TypeOK, OneEntry, NEW c \in 1 .. Len(log), NEW m \in Msgs, m = log[c],
           AtWork(c), c \notin Retiring,
           XAckDel({c}), settled' = settled \union {m}, Retiring' = Retiring
    PROVE  OnceQueue!Next
<1> DEFINE accepted == {k \in Msgs : Sent(k)}
           queued   == {k \in Msgs : Carriers(k) \ Retiring # {}}
<1>1. log' = log /\ live' = live \ {c}
  BY DEF XAckDel
<1>2. accepted' = accepted /\ {m} \subseteq accepted
  BY <1>1, AcceptedKept DEF Sent
<1>3. \A k \in Msgs \ {m} : Carriers(k)' = Carriers(k)
  BY <1>1 DEF Carriers
<1>4. ASSUME NEW d \in Carriers(m)', d \notin Retiring  PROVE FALSE
  <2>1. d \in live /\ d # c /\ log[d] = m
    BY <1>1, <1>4 DEF Carriers
  <2>2. AtWork(d) /\ d \in 1 .. Len(log)
    BY <2>1, AtWorkType DEF AtWork
  <2>3. Latest(d) /\ Latest(c)
    BY <1>4, <2>2 DEF OneEntry
  <2> QED BY <2>1, <2>2, <2>3, LatestIsOne, StreamType
<1>5. queued' = queued \ {m}
  BY <1>3, <1>4
<1>6. OnceQueue!Settle({m})
  BY <1>2, <1>5 DEF OnceQueue!Settle
<1>7. {m} \in SUBSET Msgs
  OBVIOUS
<1> QED BY <1>6, <1>7 DEF OnceQueue!Next

LEMMA PublishingOnce ==
    ASSUME TypeOK, MetaUnsent, NEW m \in Msgs, Publishes(m), UNCHANGED timeoutVars
    PROVE  [OnceQueue!Next]_(OnceQueue!qvars)
<1>1. Retiring' = Retiring /\ settled' = settled
  BY RetiringSame DEF timeoutVars, Publishes
<1>2. CASE UNCHANGED streamVars
  BY <1>1, <1>2, OnceQuiet DEF streamVars
<1>3. CASE XAdd(m) /\ pub[m] = "meta"
  <2> DEFINE accepted == {k \in Msgs : Sent(k)}
             queued   == {k \in Msgs : Carriers(k) \ Retiring # {}}
  <2>1. /\ Len(log) \in Nat /\ Len(log') = Len(log) + 1
        /\ \A i \in 1 .. Len(log) : log'[i] = log[i]
        /\ log'[Len(log) + 1] = m
        /\ live' = live \union {Len(log) + 1}
        /\ live \subseteq 1 .. Len(log)
    BY <1>3, StreamType, XAddFacts DEF StreamOK
  <2>2. 1 .. Len(log') = (1 .. Len(log)) \union {Len(log) + 1}
    BY <2>1
  <2>3. accepted' = accepted \union {m} /\ m \notin accepted
    BY <1>3, <2>1, <2>2 DEF Sent, MetaUnsent
  <2>4. \A k \in Msgs : Carriers(k)' = IF k = m THEN Carriers(k) \union {Len(log) + 1}
                                                ELSE Carriers(k)
    BY <2>1, <2>2 DEF Carriers
  <2>5. Len(log) + 1 \notin Retiring
    <3>1. \A i \in Retiring : i \in 1 .. Len(log)
      BY RetiringClaimed, EntryInClaimed
    <3> QED BY <2>1, <3>1
  <2>6. queued' = queued \union {m}
    BY <1>1, <2>4, <2>5
  <2>7. OnceQueue!Accept(m)
    BY <1>1, <2>3, <2>6 DEF OnceQueue!Accept
  <2> QED BY <2>7 DEF OnceQueue!Next
<1> QED BY <1>2, <1>3 DEF Publishes

LEMMA ConsumingOnce ==
    ASSUME TypeOK, Custody, OneEntry, OnceIInv, NEW w \in Workers, UNCHANGED timeoutVars,
           Reads(w) \/ \E es \in SUBSET (1 .. Len(log)), ms \in SUBSET Msgs : Handles(w, es, ms)
    PROVE  [OnceQueue!Next]_(OnceQueue!qvars)
<1>1. Retiring' = Retiring
  BY RetiringSame DEF timeoutVars
<1>2. CASE Reads(w)
  BY <1>1, <1>2, OnceQuiet DEF Reads, Deliver
<1>3. ASSUME NEW es, NEW ms, Handles(w, es, ms)
      PROVE  [OnceQueue!Next]_(OnceQueue!qvars)
  <2>1. batch[w] # {} /\ XAckDel(es) /\ settled' = settled \union ms
    BY <1>3 DEF Handles
  <2>2. CASE es = {} /\ ms = {}
    <3>1. log' = log /\ live' = live /\ settled' = settled
      BY <2>1, <2>2 DEF XAckDel
    <3> QED BY <1>1, <3>1, OnceQuiet
  <2>3. CASE es = {Current(w)} /\ ms = {Message(w)}
    <3>1. /\ Current(w) \in batch[w] /\ Current(w) \in 1 .. Len(log)
          /\ Message(w) = log[Current(w)] /\ Message(w) \in Msgs
      BY <2>1, CurrentOfBatch
    <3>2. Current(w) \notin Retiring /\ AtWork(Current(w))
      BY <3>1, BatchesRemain DEF Custody
    <3> QED BY <1>1, <2>1, <2>3, <3>1, <3>2, OnceSettles
  <2> QED BY <1>3, <2>2, <2>3, HandlesOwn DEF OnceIInv
<1> QED BY <1>2, <1>3

LEMMA RecoveringOnce ==
    ASSUME "TimeoutError" \notin Faults, "TimeoutCrash" \notin Faults,
           TypeOK, Custody, Custody', OneEntry, OnceIInv,
           NEW s \in Servers, OtherServices(s),
           Looks(s) \/ Republishes(s) \/ Deletes(s)
    PROVE  [OnceQueue!Next]_(OnceQueue!qvars)
<1> USE DEF Custody
<1>a. CASE Looks(s)
  <2>1. tpc[s] # "commit" /\ tpc'[s] # "commit"
    BY <1>a DEF Looks, Fault
  <2>2. Retiring' = Retiring
    BY <2>1 DEF Retiring, Entry, OtherServices
  <2> QED BY <1>a, <2>2, OnceQuiet DEF Looks
<1>1. ASSUME tpc[s] \in {"giveup", "republish", "commit"}
      PROVE  \E e \in 1 .. Len(log), m \in Msgs : e = Entry(s) /\ m = log[e] /\ e \in claimed[s]
  <2>1. claimed[s] # {}
    BY <1>1 DEF TypeOK, TimeoutTypeOK
  <2> QED BY <2>1, EntryInClaimed
<1>b. CASE Republishes(s)
  <2>1. tpc[s] = "republish" /\ tpc'[s] = "commit" /\ settled' = settled /\ claimed'[s] = claimed[s]
    BY <1>b DEF Republishes
  <2>2. PICK e \in 1 .. Len(log), m \in Msgs : e = Entry(s) /\ m = log[e] /\ e \in claimed[s]
    BY <1>1, <2>1
  <2>3. XAdd(m) /\ e \in live
    BY <1>b, <2>2 DEF Republishes, OnceIInv, ClaimedLive
  <2>4. /\ Len(log) \in Nat /\ Len(log') = Len(log) + 1
        /\ \A i \in 1 .. Len(log) : log'[i] = log[i]
        /\ log'[Len(log) + 1] = m
        /\ live' = live \union {Len(log) + 1}
        /\ live \subseteq 1 .. Len(log)
    BY <2>3, StreamType, XAddFacts DEF StreamOK
  <2>5. Retiring = {} /\ Retiring' = {e}
    <3>1. Retiring = {}
      BY <2>1, RetiringOf
    <3>2. Entry(s)' = e
      BY <2>1, <2>2 DEF Entry
    <3>3. \A t \in Servers : tpc'[t] = "commit" => t = s
      BY <2>1 DEF LockHeld
    <3> QED BY <2>1, <3>1, <3>2, <3>3 DEF Retiring
  <2>6. \A k \in Msgs : Carriers(k)' = IF k = m THEN Carriers(k) \union {Len(log) + 1}
                                                ELSE Carriers(k)
    BY <2>4 DEF Carriers
  <2>7. e \in Carriers(m) /\ e # Len(log) + 1 /\ \A k \in Msgs : k # m => e \notin Carriers(k)
    BY <2>2, <2>3, <2>4 DEF Carriers
  <2>8. \A k \in Msgs : (Carriers(k) \ Retiring # {})' <=> (Carriers(k) \ Retiring # {})
    <3> SUFFICES ASSUME NEW k \in Msgs
                 PROVE  Carriers(k)' \ {e} # {} <=> Carriers(k) # {}
      BY <2>5
    <3> QED BY <2>6, <2>7
  <2>9. \A k \in Msgs : Sent(k)' <=> Sent(k)
    <3>1. Sent(m)
      BY <2>2 DEF Sent
    <3>2. 1 .. Len(log') = (1 .. Len(log)) \union {Len(log) + 1}
      BY <2>4
    <3> QED BY <2>4, <3>1, <3>2 DEF Sent
  <2> QED BY <2>1, <2>8, <2>9, OnceStutters
<1>c. CASE Deletes(s)
  <2>1. tpc[s] \in {"giveup", "commit"} /\ tpc'[s] # "commit"
    BY <1>c DEF Deletes
  <2>2. PICK e \in 1 .. Len(log), m \in Msgs : e = Entry(s) /\ m = log[e] /\ e \in claimed[s]
    BY <1>1, <2>1
  <2>3. XAckDel({e}) /\ settled' = IF tpc[s] = "giveup" THEN settled \union {m} ELSE settled
    BY <1>c, <2>2 DEF Deletes
  <2>4. Retiring = (IF tpc[s] = "commit" THEN {e} ELSE {}) /\ Retiring' = {}
    <3>1. \A t \in Servers : tpc'[t] # "commit"
      BY <2>1 DEF LockHeld, OtherServices
    <3>2. Retiring' = {}
      BY <3>1 DEF Retiring
    <3> QED BY <2>1, <2>2, <3>2, RetiringOf
  <2>5. CASE tpc[s] = "giveup"
    <3>1. AtWork(e)
      BY <2>2 DEF AtWork, Held
    <3> QED BY <2>2, <2>3, <2>4, <2>5, <3>1, OnceSettles
  <2>6. CASE tpc[s] = "commit"
    <3>1. log' = log /\ live' = live \ {e} /\ settled' = settled
      BY <2>3, <2>6 DEF XAckDel
    <3>2. \A k \in Msgs : (Sent(k)' <=> Sent(k)) /\ Carriers(k)' = Carriers(k) \ {e}
      BY <3>1 DEF Sent, Carriers
    <3>3. \A k \in Msgs : (Carriers(k) \ Retiring # {})' <=> (Carriers(k) \ Retiring # {})
      <4> SUFFICES ASSUME NEW k \in Msgs
                   PROVE  Carriers(k)' \ {} # {} <=> Carriers(k) \ {e} # {}
        BY <2>4, <2>6
      <4> QED BY <3>2
    <3> QED BY <3>1, <3>2, <3>3, OnceStutters
  <2> QED BY <2>1, <2>5, <2>6
<1> QED BY <1>a, <1>b, <1>c

LEMMA StepOnceRefines ==
    ASSUME "TimeoutError" \notin Faults, "TimeoutCrash" \notin Faults,
           TypeOK, Custody, Custody', OneEntry, MetaUnsent, OnceIInv, TimelyStep
    PROVE  [OnceQueue!Next]_(OnceQueue!qvars)
<1>1. CASE Waits
  <2>1. Retiring' = Retiring
    BY <1>1, RetiringSame DEF Waits
  <2> QED BY <1>1, <2>1, OnceQuiet DEF Waits
<1> QED BY <1>1, PublishingOnce, ConsumingOnce, RecoveringOnce DEF TimelyStep

LEMMA OnceInit == Init => OnceQueue!Init
<1> SUFFICES ASSUME Init PROVE OnceQueue!Init
  OBVIOUS
<1>1. Len(log) = 0 /\ live = {} /\ settled = {}
  BY EmptySeq DEF Init, InitStore
<1> QED BY <1>1 DEF Sent, Carriers, OnceQueue!Init

(***************************************************************************)
(* Delivery implements a queue without duplicates: a message whose outcome *)
(* is recorded has left, for any number of workers and servers, and        *)
(* although workers crash and replies, pipelines and publishes fail.  The  *)
(* exceptions are handlers that acknowledge the messages of others, and    *)
(* timeout services that stop between the XADD and the XDEL.               *)
(***************************************************************************)
THEOREM ImplementsOnce ==
    ASSUME ~Slow, ~AckOthers, "TimeoutError" \notin Faults, "TimeoutCrash" \notin Faults
    PROVE  Spec \/ SpecOps => EffectivelyOnce
<1>1. IInv /\ Custody /\ Custody' /\ OneEntry /\ MetaUnsent /\ OnceIInv /\ TimelyStep
         => [OnceQueue!Next]_(OnceQueue!qvars)
  BY StepOnceRefines DEF IInv
<1> QED BY <1>1, OnceInit, BothOperate, HandsInductive, SentInductive, OneInductive, OnceInductive,
           NextTimely, PTL
        DEF Operating, EffectivelyOnce, OnceQueue!Spec

-----------------------------------------------------------------------------
(* The retry budget *)

\* The entries of a message that stay, and those of them that may still be
\* executed: a worker that is past Begin has counted its entry.  An entry that
\* a handler acknowledged for another is executed all the same by whoever has it.
Entries(m)  == {i \in 1 .. Len(log) : log[i] = m /\ AtWork(i)} \ Retiring
Started(w)  == wpc[w] \in {"exec", "error", "giveup"}
Counts(i)   == \E w \in Workers : Started(w) /\ i = Current(w)
Pending(m)  == {i \in Entries(m) : ~Counts(i)}

\* Each fault so far may have added an entry, and an execution.
Struck == MaxFaults - faults

Unrun == \A m \in Msgs : ~Sent(m) => hash[m].execs = 0

BudgetFor(m) ==
    /\ Cardinality(Entries(m)) <= 1 + Struck
    /\ hash[m].execs + Cardinality(Pending(m)) <= Attempts + 1 + Struck

BudgetIInv == Unrun /\ \A m \in Msgs : BudgetFor(m)

(***************************************************************************)
(* A fault never comes back.                                               *)
(***************************************************************************)
LEMMA FaultsFall ==
    ASSUME TypeOK, [Next \/ HousekeepingStep]_vars
    PROVE  faults' = faults \/ faults' = faults - 1
<1>1. CASE \E m \in Msgs : Publishing(m)
  BY <1>1 DEF Publishing, PublisherStep, PublisherFault, PublishMeta, PublishXAdd, PublishFinish,
       PublishCleanup, PublishMetaError, PublishXAddError, PublishFinishError, PublisherCrash, Fault, NoFault
<1>2. CASE \E w \in Workers : Consuming(w)
  BY <1>2 DEF Consuming, WorkerStep, HandlerChoice, WorkerFault, Read, ReadLost, ResolveError, BadPayload,
       Begin, BeginError, AckResolve, AckCommit, AckError, Return, ReturnError, Throw, ReadAttempts,
       Retry, GiveUp, ErrorLost, WorkerCrash, Fault, NoFault
<1>3. CASE \E s \in Servers : Recovering(s)
  BY <1>3 DEF Recovering, TimeoutStep, TimeoutFault, AcquireLock, ScanPage, Claim, Inspect, FailCommit,
       Republish, RepublishCommit, Unlock, TimeoutError, TimeoutCrash, Fault, NoFault
<1>4. CASE Passing \/ UNCHANGED vars
  BY <1>4 DEF Passing, Elapse, LockExpires, vars
<1>5. CASE HousekeepingStep
  BY <1>5 DEF HousekeepingStep, Fault, NoFault
<1> QED BY <1>1, <1>2, <1>3, <1>4, <1>5 DEF Next

-----------------------------------------------------------------------------
(* Counting *)

\* A set that shrinks, loses an element or gains one.
LEMMA Resized ==
    ASSUME NEW S, IsFiniteSet(S), NEW T, NEW x
    PROVE  /\ Cardinality(S) \in Nat
           /\ T \subseteq S => Cardinality(T) \in Nat /\ Cardinality(T) <= Cardinality(S)
           /\ T \subseteq S \union {x} => Cardinality(T) \in Nat /\ Cardinality(T) <= Cardinality(S) + 1
           /\ x \in S /\ T \subseteq S \ {x} => Cardinality(T) \in Nat /\ Cardinality(T) + 1 <= Cardinality(S)
<1>1. Cardinality(S) \in Nat
  BY FS_CardinalityType
<1>2. ASSUME NEW U, IsFiniteSet(U), T \subseteq U
      PROVE  Cardinality(T) \in Nat /\ Cardinality(T) <= Cardinality(U) /\ Cardinality(U) \in Nat
  BY <1>2, FS_Subset, FS_CardinalityType
<1>3. IsFiniteSet(S \union {x}) /\ Cardinality(S \union {x}) <= Cardinality(S) + 1
  BY <1>1, FS_AddElement
<1>4. IsFiniteSet(S \ {x}) /\ (x \in S => Cardinality(S \ {x}) = Cardinality(S) - 1)
  BY FS_RemoveElement
<1>5. T \subseteq S \union {x} => Cardinality(T) \in Nat /\ Cardinality(T) <= Cardinality(S) + 1
  BY <1>1, <1>2, <1>3
<1>6. x \in S /\ T \subseteq S \ {x} => Cardinality(T) \in Nat /\ Cardinality(T) + 1 <= Cardinality(S)
  BY <1>1, <1>2, <1>4
<1> QED BY <1>1, <1>2, <1>5, <1>6

\* A set of which an element is exchanged for another.
LEMMA Exchanged ==
    ASSUME NEW S, IsFiniteSet(S), NEW T, NEW e \in S, NEW x, T \subseteq (S \ {e}) \union {x}
    PROVE  Cardinality(T) \in Nat /\ Cardinality(T) <= Cardinality(S)
<1>1. IsFiniteSet(S \ {e}) /\ Cardinality(S \ {e}) = Cardinality(S) - 1
  BY FS_RemoveElement
<1>2. Cardinality(T) \in Nat /\ Cardinality(T) <= Cardinality(S \ {e}) + 1
  BY <1>1, Resized
<1>3. Cardinality(S) \in Nat
  BY Resized
<1> QED BY <1>1, <1>2, <1>3

\* What a budget is made of.
BudgetNumbers ==
    \A m \in Msgs :
       /\ IsFiniteSet(Entries(m)) /\ IsFiniteSet(Pending(m)) /\ Pending(m) \subseteq Entries(m)
       /\ Cardinality(Entries(m)) \in Nat /\ Cardinality(Pending(m)) \in Nat
       /\ hash[m].execs \in Nat /\ faults \in 0 .. MaxFaults /\ MaxFaults \in Nat
       /\ Struck \in Nat /\ Attempts \in Nat

LEMMA BudgetType == TypeOK => BudgetNumbers
<1> SUFFICES ASSUME TypeOK, NEW m \in Msgs
             PROVE  /\ IsFiniteSet(Entries(m)) /\ IsFiniteSet(Pending(m))
                    /\ Pending(m) \subseteq Entries(m)
                    /\ Cardinality(Entries(m)) \in Nat /\ Cardinality(Pending(m)) \in Nat
                    /\ hash[m].execs \in Nat /\ faults \in 0 .. MaxFaults /\ MaxFaults \in Nat
                    /\ Struck \in Nat /\ Attempts \in Nat
  BY DEF BudgetNumbers
<1>1. hash[m].execs \in Nat /\ faults \in 0 .. MaxFaults /\ MaxFaults \in Nat /\ Attempts \in Nat
  BY StoreAssumption DEF TypeOK, StoreTypeOK, Hash
<1>2. IsFiniteSet(1 .. Len(log))
  <2>1. 1 \in Int /\ Len(log) \in Int
    BY StreamType
  <2> QED BY <2>1, FS_Interval
<1>3. Entries(m) \in SUBSET (1 .. Len(log)) /\ Pending(m) \in SUBSET Entries(m)
  BY DEF Entries, Pending
<1>4. IsFiniteSet(Entries(m))
  BY <1>2, <1>3, FS_Subset
<1>5. IsFiniteSet(Pending(m))
  BY <1>3, <1>4, FS_Subset
<1> QED BY <1>1, <1>3, <1>4, <1>5, FS_CardinalityType DEF Struck

LEMMA BudgetTypeNext == TypeOK' => BudgetNumbers'
BY BudgetType, PTL

(***************************************************************************)
(* The ways in which a step spends the budget of a message.  Nothing new;  *)
(* a fault may bring an entry back; an entry is exchanged for another; an  *)
(* execution begins; a retry is decided within the attempts; or the first  *)
(* entry is sent.                                                          *)
(***************************************************************************)
Spends(m, x, e) ==
    \/ /\ Entries(m)' \subseteq Entries(m) /\ Pending(m)' \subseteq Pending(m)
       /\ hash'[m].execs <= hash[m].execs
    \/ /\ Entries(m)' \subseteq Entries(m) \union {x} /\ Pending(m)' \subseteq Pending(m) \union {x}
       /\ hash'[m].execs <= hash[m].execs /\ faults' = faults - 1
    \/ /\ e \in Pending(m)
       /\ Entries(m)' \subseteq (Entries(m) \ {e}) \union {x}
       /\ Pending(m)' \subseteq (Pending(m) \ {e}) \union {x}
       /\ hash'[m].execs <= hash[m].execs
    \/ /\ e \in Pending(m)
       /\ Entries(m)' \subseteq Entries(m) /\ Pending(m)' \subseteq Pending(m) \ {e}
       /\ hash'[m].execs <= hash[m].execs + 1
    \/ /\ Entries(m)' \subseteq Entries(m) /\ hash'[m].execs <= Attempts
    \/ /\ Entries(m) = {} /\ Entries(m)' \subseteq {x} /\ hash'[m].execs <= 0

LEMMA BudgetKept ==
    ASSUME TypeOK, TypeOK', NEW m \in Msgs, BudgetFor(m), faults' = faults \/ faults' = faults - 1,
           NEW x, NEW e, Spends(m, x, e)
    PROVE  BudgetFor(m)'
<1> DEFINE E  == Entries(m)   P  == Pending(m)
           E1 == Entries(m)'  P1 == Pending(m)'
           n  == hash[m].execs  n1 == hash'[m].execs
<1>1. /\ IsFiniteSet(E) /\ IsFiniteSet(P) /\ P \subseteq E
      /\ Cardinality(E) \in Nat /\ Cardinality(P) \in Nat /\ n \in Nat /\ Struck \in Nat /\ Attempts \in Nat
      /\ faults \in Nat /\ MaxFaults \in Nat
  BY BudgetType DEF BudgetNumbers
<1>2. /\ IsFiniteSet(E1) /\ IsFiniteSet(P1) /\ P1 \subseteq E1 /\ Struck' \in Nat
      /\ Cardinality(E1) \in Nat /\ Cardinality(P1) \in Nat /\ n1 \in Nat
      /\ Struck' = Struck \/ Struck' = Struck + 1
      /\ faults' = faults - 1 => Struck' = Struck + 1
  <2>1. /\ IsFiniteSet(E1) /\ IsFiniteSet(P1) /\ P1 \subseteq E1 /\ Struck' \in Nat
        /\ Cardinality(E1) \in Nat /\ Cardinality(P1) \in Nat /\ n1 \in Nat
    BY BudgetTypeNext DEF BudgetNumbers
  <2> QED BY <1>1, <2>1 DEF Struck
<1>3. Cardinality(E) <= 1 + Struck /\ n + Cardinality(P) <= Attempts + 1 + Struck
  BY DEF BudgetFor
<1>4. Cardinality(P1) <= Cardinality(E1)
  BY <1>2, Resized
<1> SUFFICES Cardinality(E1) <= 1 + Struck' /\ n1 + Cardinality(P1) <= Attempts + 1 + Struck'
  BY DEF BudgetFor
<1>5. \/ E1 \subseteq E /\ P1 \subseteq P /\ n1 <= n
      \/ E1 \subseteq E \union {x} /\ P1 \subseteq P \union {x} /\ n1 <= n /\ faults' = faults - 1
      \/ /\ e \in P /\ E1 \subseteq (E \ {e}) \union {x} /\ P1 \subseteq (P \ {e}) \union {x} /\ n1 <= n
      \/ /\ e \in P /\ E1 \subseteq E /\ P1 \subseteq P \ {e} /\ n1 <= n + 1
      \/ /\ E1 \subseteq E /\ n1 <= Attempts
      \/ /\ E = {} /\ E1 \subseteq {x} /\ n1 <= 0
  BY DEF Spends
<1> HIDE DEF E, P, E1, P1, n, n1
<1>a. CASE E1 \subseteq E /\ P1 \subseteq P /\ n1 <= n
  <2>1. Cardinality(E1) <= Cardinality(E) /\ Cardinality(P1) <= Cardinality(P)
    BY <1>1, <1>a, Resized
  <2> QED BY <1>1, <1>2, <1>3, <1>a, <2>1
<1>b. CASE E1 \subseteq E \union {x} /\ P1 \subseteq P \union {x} /\ n1 <= n /\ faults' = faults - 1
  <2>1. Cardinality(E1) <= Cardinality(E) + 1 /\ Cardinality(P1) <= Cardinality(P) + 1
    BY <1>1, <1>b, Resized
  <2> QED BY <1>1, <1>2, <1>3, <1>b, <2>1
<1>c. CASE e \in P /\ E1 \subseteq (E \ {e}) \union {x} /\ P1 \subseteq (P \ {e}) \union {x} /\ n1 <= n
  <2>1. Cardinality(E1) <= Cardinality(E) /\ Cardinality(P1) <= Cardinality(P)
    BY <1>1, <1>c, Exchanged
  <2> QED BY <1>1, <1>2, <1>3, <1>c, <2>1
<1>d. CASE e \in P /\ E1 \subseteq E /\ P1 \subseteq P \ {e} /\ n1 <= n + 1
  <2>1. Cardinality(E1) <= Cardinality(E) /\ Cardinality(P1) + 1 <= Cardinality(P)
    BY <1>1, <1>d, Resized
  <2> QED BY <1>1, <1>2, <1>3, <1>d, <2>1
<1>e. CASE E1 \subseteq E /\ n1 <= Attempts
  <2>1. Cardinality(E1) <= Cardinality(E)
    BY <1>1, <1>e, Resized
  <2> QED BY <1>1, <1>2, <1>3, <1>4, <1>e, <2>1
<1>f. CASE E = {} /\ E1 \subseteq {x} /\ n1 <= 0
  <2>1. Cardinality(E1) <= Cardinality(E) + 1 /\ Cardinality(E) = 0
    BY <1>1, <1>f, Resized, FS_EmptySet
  <2> QED BY <1>1, <1>2, <1>4, <1>f, <2>1
<1> QED BY <1>5, <1>a, <1>b, <1>c, <1>d, <1>e, <1>f

-----------------------------------------------------------------------------
(* How a step spends the budget *)

SameExecs == \A m \in Msgs : hash'[m].execs = hash[m].execs

\* The entry in hand is deleted, and the worker goes on to the next.
Finishes(w) == XAckDel({Current(w)}) /\ batch'[w] = batch[w] \ {Current(w)}

\* A worker keeps the entry it has counted, or deletes it; a fault may make it
\* drop the entry; it begins an execution; or it decides to retry.
Runs(w) ==
    \/ SameExecs /\ (Started(w) => (batch'[w] = batch[w] /\ Started(w)') \/ Finishes(w))
    \/ SameExecs /\ faults' = faults - 1
    \/ Begin(w)
    \/ SameExecs /\ batch[w] # {} /\ hash[Message(w)].execs <= Attempts

LEMMA ConsumingRuns ==
    ASSUME AutoAck, TypeOK, NEW w \in Workers, Consuming(w)
    PROVE  Runs(w)
<1>1. /\ hash \in [Msgs -> Hash] /\ wpc \in [Workers -> WorkerStates]
      /\ batch \in [Workers -> SUBSET (1 .. lastDelivered)]
      /\ wpc[w] # "loop" => batch[w] # {}
      /\ ack[w] # {} => wpc[w] \in {"exec", "error"}
  BY DEF TypeOK, StoreTypeOK, ConsumerTypeOK
<1>2. batch[w] # {} => Message(w) \in Msgs
  BY CurrentOfBatch
<1>3. ASSUME UNCHANGED metaVars  PROVE SameExecs
  BY <1>3 DEF metaVars, SameExecs
<1>4. ASSUME NEW ms, Complete(ms)  PROVE SameExecs
  BY <1>1, <1>4 DEF Complete, SetStatus, Hash, SameExecs
<1>5. ASSUME WorkerFault(w)  PROVE SameExecs /\ faults' = faults - 1
  BY <1>3, <1>4, <1>5
     DEF WorkerFault, ReadLost, ResolveError, BeginError, AckError, ReturnError, ErrorLost, WorkerCrash,
         AckExec, SettleExec, Fault
<1>6. ASSUME Read(w) \/ BadPayload(w)  PROVE SameExecs /\ ~Started(w)
  BY <1>3, <1>6 DEF Read, BadPayload, Started
<1>7. ASSUME AckCommit(w) \/ HandlerChoice(w)
      PROVE  SameExecs /\ (Started(w) => batch'[w] = batch[w] /\ Started(w)')
  BY <1>1, <1>3, <1>4, <1>7 DEF AckCommit, AckExec, HandlerChoice, AckResolve, Throw, WGoto, Started
<1>8. ASSUME Return(w)  PROVE SameExecs /\ Finishes(w)
  BY <1>1, <1>4, <1>8 DEF Return, SettleExec, NextEntry, Finishes
<1>9. ASSUME GiveUp(w)  PROVE SameExecs /\ Finishes(w)
  BY <1>1, <1>2, <1>9 DEF GiveUp, NextEntry, Finishes, SameExecs, Hash
<1>10. ASSUME Retry(w)  PROVE SameExecs /\ ~Started(w)
  BY <1>1, <1>2, <1>10 DEF Retry, SameExecs, Hash, Started
<1>11. ASSUME ReadAttempts(w)  PROVE Runs(w)
  <2>1. SameExecs /\ batch' = batch /\ batch[w] # {}
    BY <1>1, <1>3, <1>11 DEF ReadAttempts
  <2>2. CASE hash[Message(w)].execs > Attempts
    BY <1>1, <1>11, <2>1, <2>2 DEF ReadAttempts, WGoto, Started, Runs
  <2>3. CASE ~(hash[Message(w)].execs > Attempts)
    <3>1. hash[Message(w)].execs \in Nat /\ Attempts \in Nat
      BY <1>1, <1>2, <2>1, StoreAssumption DEF Hash
    <3>2. hash[Message(w)].execs <= Attempts
      BY <2>3, <3>1
    <3> QED BY <2>1, <3>2 DEF Runs
  <2> QED BY <2>2, <2>3
<1> QED BY <1>5, <1>6, <1>7, <1>8, <1>9, <1>10, <1>11 DEF Consuming, WorkerStep, Runs

\* Which entries have been counted only workers change.
LEMMA CountsSame ==
    ASSUME UNCHANGED consumerVars
    PROVE  \A i : Counts(i)' <=> Counts(i)
BY DEF consumerVars, Counts, Started, Current

LEMMA EntriesAfterXAdd ==
    ASSUME TypeOK, NEW m \in Msgs, XAdd(m), UNCHANGED batch, \A s \in Servers : claimed'[s] = claimed[s],
           Retiring \subseteq Retiring', NEW k \in Msgs
    PROVE  /\ Entries(k)' \subseteq (Entries(k) \union {Len(log) + 1}) \ Retiring'
           /\ k # m => Entries(k)' \subseteq Entries(k)
<1>1. /\ live' = live \union {Len(log) + 1} /\ pel' = pel
      /\ Len(log) \in Nat /\ Len(log') = Len(log) + 1 /\ log'[Len(log) + 1] = m
      /\ \A i \in 1 .. Len(log) : log'[i] = log[i]
  BY StreamType, XAddFacts DEF XAdd
<1>2. \A i : AtWork(i)' => AtWork(i) \/ i = Len(log) + 1
  BY <1>1 DEF AtWork, Held
<1>3. \A i : AtWork(i) => i \in 1 .. Len(log)
  BY AtWorkType
<1> QED BY <1>1, <1>2, <1>3 DEF Entries

\* Where nothing is sent, delivered or claimed anew, entries only go.
LEMMA EntriesGo ==
    ASSUME log' = log, \A i : AtWork(i)' => AtWork(i), NEW k \in Msgs,
           \A i : AtWork(i)' /\ i \in Retiring => i \in Retiring'
    PROVE  Entries(k)' \subseteq Entries(k)
BY DEF Entries

\* What changes neither what is counted nor what was executed.
LEMMA SpendsNothing ==
    ASSUME TypeOK, NEW k \in Msgs, UNCHANGED consumerVars, hash'[k].execs <= hash[k].execs,
           Entries(k)' \subseteq Entries(k), NEW x, NEW e
    PROVE  Spends(k, x, e)
<1>1. \A i : Counts(i)' <=> Counts(i)
  BY CountsSame
<1>2. Pending(k)' \subseteq Pending(k)
  BY <1>1 DEF Pending
<1> QED BY <1>2 DEF Spends

LEMMA PublishingBudget ==
    ASSUME TypeOK, TypeOK', MetaUnsent, Unrun, NEW k \in Msgs, BudgetFor(k),
           faults' = faults \/ faults' = faults - 1,
           NEW m \in Msgs, Publishes(m), UNCHANGED <<consumerVars, timeoutVars>>
    PROVE  BudgetFor(k)'
<1>1. /\ Retiring' = Retiring /\ batch' = batch /\ claimed' = claimed
      /\ hash'[k].execs <= hash[k].execs /\ \A i : Counts(i)' <=> Counts(i)
  BY CountsSame, RetiringSame DEF timeoutVars, consumerVars, Publishes
<1>2. CASE Entries(k)' \subseteq Entries(k)
  <2>1. Pending(k)' \subseteq Pending(k)
    BY <1>1, <1>2 DEF Pending
  <2>2. Spends(k, 0, 0)
    BY <1>1, <1>2, <2>1 DEF Spends
  <2> QED BY <2>2, BudgetKept
<1>3. CASE XAdd(m) /\ k = m /\ pub[m] = "meta"
  <2>1. ~Sent(m)
    BY <1>3 DEF MetaUnsent
  <2>2. Entries(k) = {}
    BY <1>3, <2>1 DEF Entries, Sent
  <2>3. Entries(k)' \subseteq {Len(log) + 1}
    BY <1>1, <1>3, <2>2, EntriesAfterXAdd
  <2>4. hash'[k].execs <= 0
    BY <1>1, <1>3, <2>1 DEF Unrun
  <2>5. Spends(k, Len(log) + 1, 0)
    BY <2>2, <2>3, <2>4 DEF Spends
  <2> QED BY <2>5, BudgetKept
<1>4. CASE UNCHANGED streamVars
  BY <1>1, <1>2, <1>4 DEF streamVars, Entries, AtWork, Held
<1>5. CASE XAdd(m) /\ k # m
  BY <1>1, <1>2, <1>5, EntriesAfterXAdd
<1> QED BY <1>3, <1>4, <1>5 DEF Publishes

LEMMA RecoveringBudget ==
    ASSUME TypeOK, TypeOK', Custody, NEW k \in Msgs, BudgetFor(k),
           faults' = faults \/ faults' = faults - 1,
           NEW s \in Servers, OtherServices(s), UNCHANGED consumerVars,
           Looks(s) \/ Republishes(s) \/ Deletes(s)
    PROVE  BudgetFor(k)'
<1> USE DEF Custody
<1>1. tpc[s] \in {"giveup", "republish", "commit"} =>
         Entry(s) \in claimed[s] /\ Entry(s) \in 1 .. Len(log) /\ log[Entry(s)] \in Msgs
  BY EntryInClaimed DEF TypeOK, TimeoutTypeOK
<1>2. ASSUME SameExecs, Entries(k)' \subseteq Entries(k)  PROVE BudgetFor(k)'
  <2>1. hash'[k].execs <= hash[k].execs
    BY <1>2, BudgetType DEF BudgetNumbers, SameExecs
  <2>2. Spends(k, 0, 0)
    BY <1>2, <2>1, SpendsNothing
  <2> QED BY <2>2, BudgetKept
<1>3. \A i : Counts(i)' <=> Counts(i)
  BY CountsSame
<1>4. hash'[k].execs = hash[k].execs => hash'[k].execs <= hash[k].execs
  BY BudgetType DEF BudgetNumbers
<1>a. CASE Looks(s)
  <2>1. /\ SameExecs /\ log' = log
        /\ \A i : AtWork(i)' => AtWork(i)
    <3>1. idle \subseteq pel /\ log' = log /\ live' = live /\ pel' = pel
          /\ claimed'[s] \subseteq claimed[s] \union idle
      BY <1>a DEF Looks, TypeOK, StoreTypeOK
    <3>2. \A i : AtWork(i)' => AtWork(i)
      BY <3>1 DEF AtWork, Held, OtherServices, consumerVars
    <3> QED BY <1>a, <3>1, <3>2 DEF Looks, SameExecs
  <2>2. CASE tpc[s] # "commit"
    <3>1. Retiring' = Retiring
      BY <1>a, <2>2 DEF Looks, Retiring, Entry, OtherServices
    <3> QED BY <1>2, <2>1, <3>1, EntriesGo
  <2>3. CASE tpc[s] = "commit"
    <3>1. Retiring = {Entry(s)}
      BY <2>3, RetiringOf
    <3>2. Entries(k)' \subseteq Entries(k) \union {Entry(s)}
      BY <2>1, <3>1 DEF Entries
    <3>3. Pending(k)' \subseteq Pending(k) \union {Entry(s)}
      BY <1>3, <3>2 DEF Pending
    <3>4. faults' = faults - 1
      BY <1>a, <2>3 DEF Looks, Fault
    <3>5. Spends(k, Entry(s), 0)
      BY <1>4, <2>1, <3>2, <3>3, <3>4 DEF Spends, SameExecs
    <3> QED BY <3>5, BudgetKept
  <2> QED BY <2>2, <2>3
<1>b. CASE Republishes(s)
  <2>1. tpc[s] = "republish" /\ tpc'[s] = "commit" /\ claimed'[s] = claimed[s] /\ SameExecs
    BY <1>b DEF Republishes, SameExecs
  <2>2. PICK e \in 1 .. Len(log), m \in Msgs : e = Entry(s) /\ m = log[e] /\ e \in claimed[s]
    BY <1>1, <2>1
  <2>3. XAdd(m)
    BY <1>b, <2>2 DEF Republishes
  <2>4. Retiring = {} /\ Retiring' = {e}
    <3>1. Retiring = {}
      BY <2>1, RetiringOf
    <3>2. Entry(s)' = e
      BY <2>1, <2>2 DEF Entry
    <3>3. \A t \in Servers : tpc'[t] = "commit" => t = s
      BY <2>1 DEF LockHeld, OtherServices
    <3> QED BY <2>1, <3>1, <3>2, <3>3 DEF Retiring
  <2>8. /\ Entries(k)' \subseteq (Entries(k) \union {Len(log) + 1}) \ {e}
        /\ k # m => Entries(k)' \subseteq Entries(k)
    <3>1. \A t \in Servers : claimed'[t] = claimed[t]
      BY <2>1 DEF OtherServices
    <3> QED BY <2>3, <2>4, <3>1, EntriesAfterXAdd DEF consumerVars
  <2>5. CASE k # m
    <3>1. Entries(k)' \subseteq Entries(k)
      BY <2>5, <2>8
    <3> QED BY <1>2, <2>1, <3>1
  <2>6. CASE k = m
    <3>1. e \in Entries(k)
      BY <2>2, <2>4, <2>6 DEF Entries, AtWork, Held
    <3>2. ~Counts(e)
      <4>1. \A w \in Workers : Started(w) => Current(w) \in batch[w]
        BY CurrentOfBatch DEF Started, TypeOK, ConsumerTypeOK
      <4> QED BY <2>2, <4>1 DEF Counts, Apart
    <3>3. e \in Pending(k)
      BY <3>1, <3>2 DEF Pending
    <3>4. Entries(k)' \subseteq (Entries(k) \ {e}) \union {Len(log) + 1}
      BY <2>8
    <3>5. Pending(k)' \subseteq (Pending(k) \ {e}) \union {Len(log) + 1}
      BY <1>3, <3>4 DEF Pending
    <3>6. Spends(k, Len(log) + 1, e)
      BY <1>4, <2>1, <3>3, <3>4, <3>5 DEF Spends, SameExecs
    <3> QED BY <3>6, BudgetKept
  <2> QED BY <2>5, <2>6
<1>c. CASE Deletes(s)
  <2>1. SameExecs /\ log' = log /\ tpc[s] \in {"giveup", "commit"}
    BY <1>c DEF Deletes, SameExecs, XAckDel
  <2>2. Retiring \subseteq {Entry(s)}
    BY <2>1, RetiringOf
  <2>3. Entries(k)' \subseteq Entries(k)
    BY <1>c, <2>1, <2>2, DeletedIsGone, EntriesGo
  <2> QED BY <1>2, <2>1, <2>3
<1> QED BY <1>a, <1>b, <1>c

LEMMA ConsumingBudget ==
    ASSUME TypeOK, TypeOK', Custody, NEW k \in Msgs, BudgetFor(k),
           faults' = faults \/ faults' = faults - 1,
           NEW w \in Workers, OtherWorkers(w), UNCHANGED timeoutVars, Runs(w),
           log' = log, \A i : AtWork(i)' => AtWork(i)
    PROVE  BudgetFor(k)'
<1>1. Retiring' = Retiring
  BY RetiringSame DEF timeoutVars
<1>2. Entries(k)' \subseteq Entries(k)
  BY <1>1, EntriesGo
<1>3. SameExecs => hash'[k].execs = hash[k].execs /\ hash'[k].execs <= hash[k].execs
  BY BudgetType DEF BudgetNumbers, SameExecs
\* The entries that other workers have counted stay counted.
<1>4. ASSUME NEW i, Counts(i), ~Counts(i)'  PROVE i = Current(w) /\ Started(w)
  <2>1. \A v \in Workers \ {w} : Started(v)' = Started(v) /\ Current(v)' = Current(v)
    BY DEF OtherWorkers, Started, Current
  <2> QED BY <1>4, <2>1 DEF Counts
<1>5. ASSUME \A i : AtWork(i)' /\ Counts(i) => Counts(i)'  PROVE Pending(k)' \subseteq Pending(k)
  BY <1>2, <1>5 DEF Pending, Entries
<1>a. CASE SameExecs /\ (Started(w) => (batch'[w] = batch[w] /\ Started(w)') \/ Finishes(w))
  <2>1. batch'[w] = batch[w] => Current(w)' = Current(w)
    BY DEF Current
  <2>2. \A i : Started(w) /\ Finishes(w) /\ i = Current(w) => ~AtWork(i)'
    <3>1. Started(w) => Current(w) \in batch[w]
      BY CurrentOfBatch DEF Started, TypeOK, ConsumerTypeOK
    <3>2. claimed' = claimed
      BY DEF timeoutVars
    <3>3. SUFFICES ASSUME NEW i, Started(w), Finishes(w), i = Current(w)  PROVE ~AtWork(i)'
      OBVIOUS
    <3>4. i \notin live' /\ i \notin pel' /\ i \notin batch'[w]
      BY <3>3 DEF Finishes, XAckDel
    <3>5. \A v \in Workers \ {w} : i \notin batch'[v]
      BY <3>1, <3>3 DEF Custody, HeldOnce, OtherWorkers
    <3>6. \A s \in Servers : i \notin claimed'[s]
      BY <3>1, <3>2, <3>3 DEF Custody, Apart
    <3> QED BY <3>4, <3>5, <3>6 DEF AtWork, Held
  <2>3. \A i : AtWork(i)' /\ Counts(i) => Counts(i)'
    BY <1>4, <1>a, <2>1, <2>2 DEF Counts
  <2>4. Spends(k, 0, 0)
    BY <1>2, <1>3, <1>5, <1>a, <2>3 DEF Spends
  <2> QED BY <2>4, BudgetKept
<1>b. CASE SameExecs /\ faults' = faults - 1
  <2>1. Pending(k)' \subseteq Pending(k) \union {Current(w)}
    BY <1>2, <1>4 DEF Pending
  <2>2. Spends(k, Current(w), 0)
    BY <1>2, <1>3, <1>b, <2>1 DEF Spends
  <2> QED BY <2>2, BudgetKept
<1>c. CASE Begin(w)
  <2>1. wpc[w] = "loop" /\ batch[w] # {} /\ wpc'[w] = "exec" /\ batch' = batch
    BY <1>c DEF Begin, WGoto, TypeOK, ConsumerTypeOK
  <2>2. \A i : Counts(i) => Counts(i)'
    BY <1>4, <2>1 DEF Started
  <2>3. Pending(k)' \subseteq Pending(k)
    BY <1>5, <2>2
  <2>4. PICK e \in 1 .. Len(log), m \in Msgs : e = Current(w) /\ e \in batch[w] /\ m = log[e] /\ m = Message(w)
    BY <2>1, CurrentOfBatch
  <2>5. \A n \in Msgs : hash'[n].execs = IF n = m THEN hash[n].execs + 1 ELSE hash[n].execs
    BY <1>c, <2>4 DEF Begin, TypeOK, StoreTypeOK, Hash
  <2>6. CASE k # m
    <3>1. hash'[k].execs <= hash[k].execs
      BY <2>5, <2>6, BudgetType DEF BudgetNumbers
    <3>2. Spends(k, 0, 0)
      BY <1>2, <2>3, <3>1 DEF Spends
    <3> QED BY <3>2, BudgetKept
  <2>7. CASE k = m
    <3>1. e \in Entries(k)
      BY <2>4, <2>7, BatchesRemain DEF Entries, Custody
    <3>2. ~Counts(e)
      <4>1. \A v \in Workers : Started(v) => Current(v) \in batch[v] /\ v # w
        BY <2>1, CurrentOfBatch DEF Started, TypeOK, ConsumerTypeOK
      <4> QED BY <2>4, <4>1 DEF Counts, Custody, HeldOnce
    <3>3. Counts(e)'
      <4>1. Current(w)' = e /\ Started(w)'
        BY <2>1, <2>4 DEF Current, Started
      <4> QED BY <4>1 DEF Counts
    <3>4. e \in Pending(k) /\ Pending(k)' \subseteq Pending(k) \ {e}
      BY <2>3, <3>1, <3>2, <3>3 DEF Pending
    <3>5. hash'[k].execs <= hash[k].execs + 1
      BY <2>5, <2>7, BudgetType DEF BudgetNumbers
    <3>6. Spends(k, 0, e)
      BY <1>2, <3>4, <3>5 DEF Spends
    <3> QED BY <3>6, BudgetKept
  <2> QED BY <2>6, <2>7
<1>d. CASE SameExecs /\ batch[w] # {} /\ hash[Message(w)].execs <= Attempts
  <2>1. Message(w) = log[Current(w)]
    BY <1>d, CurrentOfBatch
  <2>2. CASE k = Message(w)
    <3>1. Spends(k, 0, 0)
      BY <1>2, <1>3, <1>d, <2>2 DEF Spends
    <3> QED BY <3>1, BudgetKept
  <2>3. CASE k # Message(w)
    <3>1. Pending(k)' \subseteq Pending(k)
      BY <1>2, <1>4, <2>1, <2>3 DEF Pending, Entries
    <3>2. Spends(k, 0, 0)
      BY <1>2, <1>3, <1>d, <3>1 DEF Spends
    <3> QED BY <3>2, BudgetKept
  <2> QED BY <2>2, <2>3
<1> QED BY <1>a, <1>b, <1>c, <1>d DEF Runs

LEMMA NextBudget ==
    ASSUME AutoAck, TypeOK, TypeOK', OwnAck, Custody, MetaUnsent, Unrun,
           [Next \/ HousekeepingStep]_vars, NEW k \in Msgs, BudgetFor(k)
    PROVE  BudgetFor(k)'
<1>1. faults' = faults \/ faults' = faults - 1
  BY FaultsFall
<1>2. ASSUME NEW m \in Msgs, Publishing(m)  PROVE BudgetFor(k)'
  BY <1>1, <1>2, PublishingTimely, PublishingBudget
<1>3. ASSUME NEW w \in Workers, Consuming(w)  PROVE BudgetFor(k)'
  <2>1. /\ OtherWorkers(w) /\ UNCHANGED timeoutVars
        /\ Reads(w) \/ \E es \in SUBSET (1 .. Len(log)), ms \in SUBSET Msgs : Handles(w, es, ms)
    BY <1>3, ConsumingTimely
  <2>2. log' = log /\ \A i : AtWork(i)' => AtWork(i)
    BY <2>1, ConsumingAtWork
  <2>3. Runs(w)
    BY <1>3, ConsumingRuns
  <2> QED BY <1>1, <2>1, <2>2, <2>3, ConsumingBudget
<1>4. ASSUME NEW s \in Servers, Recovering(s)  PROVE BudgetFor(k)'
  <2>1. /\ OtherServices(s) /\ UNCHANGED consumerVars
        /\ Looks(s) \/ Republishes(s) \/ Deletes(s)
    BY <1>4, RecoveringTimely
  <2> QED BY <1>1, <2>1, RecoveringBudget
<1>5. CASE Passing \/ HousekeepingStep \/ UNCHANGED vars
  <2>1. /\ log' = log /\ live' = live /\ pel' = pel /\ tpc' = tpc /\ claimed' = claimed /\ UNCHANGED consumerVars
        /\ hash' = hash \/ HashesLessen
    BY <1>5 DEF Passing, Elapse, LockExpires, HousekeepingStep, vars, streamVars, metaVars, timeoutVars
  <2>2. Entries(k)' \subseteq Entries(k) /\ hash'[k].execs <= hash[k].execs
    <3>1. hash[k].execs <= hash[k].execs
      BY BudgetType DEF BudgetNumbers
    <3>2. hash'[k].execs <= hash[k].execs
      BY <2>1, <3>1 DEF HashesLessen
    <3>3. Entries(k)' \subseteq Entries(k)
      BY <2>1, RetiringSame DEF Entries, AtWork, Held, consumerVars
    <3> QED BY <3>2, <3>3
  <2>3. Spends(k, 0, 0)
    BY <2>1, <2>2, SpendsNothing
  <2> QED BY <1>1, <2>3, BudgetKept
<1> QED BY <1>2, <1>3, <1>4, <1>5 DEF Next

\* Only what is in the stream is executed.
LEMMA StepUnrun ==
    ASSUME AutoAck, TypeOK, TypeOK', OwnAck, Unrun, Grows, [Next \/ HousekeepingStep]_vars
    PROVE  Unrun'
<1> SUFFICES ASSUME NEW k \in Msgs, ~Sent(k)'  PROVE hash'[k].execs = 0
  BY DEF Unrun
<1>1. ~Sent(k)
  BY StreamType DEF Sent, Grows
<1>2. hash[k].execs = 0
  BY <1>1 DEF Unrun
<1>3. hash'[k].execs \in Nat
  BY BudgetTypeNext DEF BudgetNumbers
<1>4. ASSUME NEW m \in Msgs, Publishing(m)  PROVE hash'[k].execs <= 0
  BY <1>2, <1>4, PublishingTimely DEF Publishes
<1>5. ASSUME NEW w \in Workers, Consuming(w)  PROVE hash'[k].execs <= 0
  <2>1. CASE Begin(w)
    <3>1. Current(w) \in 1 .. Len(log) /\ Message(w) = log[Current(w)]
      BY <2>1, CurrentOfBatch DEF Begin
    <3>2. k # Message(w)
      BY <1>1, <3>1 DEF Sent
    <3> QED BY <1>2, <2>1, <3>2 DEF Begin, TypeOK, StoreTypeOK
  <2>2. CASE SameExecs
    BY <1>2, <2>2 DEF SameExecs
  <2> QED BY <1>5, <2>1, <2>2, ConsumingRuns DEF Runs
<1>6. ASSUME NEW s \in Servers, Recovering(s)  PROVE hash'[k].execs <= 0
  <2>1. Looks(s) \/ Republishes(s) \/ Deletes(s)
    BY <1>6, RecoveringTimely
  <2>2. hash'[k].execs = hash[k].execs
    BY <2>1 DEF Looks, Republishes, Deletes
  <2> QED BY <1>2, <2>2
<1>7. CASE Passing \/ UNCHANGED vars
  BY <1>2, <1>7 DEF Passing, Elapse, LockExpires, vars, metaVars
<1>8. CASE HousekeepingStep
  <2>1. hash'[k].execs <= hash[k].execs
    BY <1>8 DEF HousekeepingStep, HashesLessen
  <2> QED BY <1>2, <1>3, <2>1
<1> QED BY <1>3, <1>4, <1>5, <1>6, <1>7, <1>8 DEF Next

LEMMA BudgetInductive ==
    ASSUME ~Slow, AutoAck
    PROVE  Operating => []BudgetIInv
<1>1. Init => BudgetIInv
  <2> SUFFICES ASSUME Init PROVE BudgetIInv
    OBVIOUS
  <2>1. /\ Len(log) = 0 /\ faults = MaxFaults /\ MaxFaults \in Nat /\ Attempts \in Nat
        /\ \A m \in Msgs : hash[m].execs = 0
    BY EmptySeq, StoreAssumption DEF Init, InitStore, InitConsumer, NoHash
  <2>2. \A m \in Msgs : Entries(m) = {} /\ Pending(m) = {}
    BY <2>1 DEF Entries, Pending
  <2>3. \A m \in Msgs : Cardinality(Entries(m)) = 0 /\ Cardinality(Pending(m)) = 0
    BY <2>2, FS_EmptySet, Zenon
  <2>4. \A m \in Msgs : BudgetFor(m)
    BY <2>1, <2>3 DEF BudgetFor, Struck
  <2> QED BY <2>1, <2>4 DEF BudgetIInv, Unrun
<1>2. IInv /\ IInv' /\ Custody /\ MetaUnsent /\ [Next \/ HousekeepingStep]_vars /\ StreamStep
         /\ BudgetIInv => BudgetIInv'
  <2> SUFFICES ASSUME IInv, TypeOK, TypeOK', OwnAck, Custody, MetaUnsent,
                      [Next \/ HousekeepingStep]_vars, StreamStep, Unrun, \A m \in Msgs : BudgetFor(m)
               PROVE  Unrun' /\ \A m \in Msgs : BudgetFor(m)'
    BY DEF IInv, BudgetIInv
  <2>1. Unrun'
    BY StreamGrows, StepUnrun
  <2>2. \A m \in Msgs : BudgetFor(m)'
    BY NextBudget
  <2> QED BY <2>1, <2>2
<1> QED BY <1>1, <1>2, HandsInductive, SentInductive, OperatingStream, PTL DEF Operating

\* What the field ExecutionTimes says stays within the budget.
LEMMA CountBounded == TypeOK /\ BudgetIInv => \A m \in Msgs : hash[m].execs <= RetryBudget
<1> SUFFICES ASSUME TypeOK, BudgetIInv, NEW m \in Msgs
             PROVE  hash[m].execs <= Attempts + 1 + (MaxFaults - faults)
  BY DEF RetryBudget
<1>1. hash[m].execs + Cardinality(Pending(m)) <= Attempts + 1 + Struck
  BY DEF BudgetIInv, BudgetFor
<1> QED BY <1>1, BudgetType DEF BudgetNumbers, Struck

-----------------------------------------------------------------------------
(* The executions that the field has forgotten *)

\* A call of ExecuteAsync is counted in the field.
LEMMA ExecutesCounted ==
    ASSUME TypeOK, OwnAck, [Next \/ HousekeepingStep]_vars, NEW m \in Msgs, Executes(m)
    PROVE  hash'[m].execs = hash[m].execs + 1
<1> PICK w \in Workers : wpc[w] = "loop" /\ wpc'[w] = "exec" /\ Message(w) = m
  BY DEF Executes
<1>1. /\ wpc \in [Workers -> WorkerStates] /\ hash \in [Msgs -> Hash]
      /\ \A v \in Workers : ack[v] # {} => wpc[v] \in {"exec", "error"}
  BY DEF TypeOK, StoreTypeOK, ConsumerTypeOK
<1>2. ~UNCHANGED wpc
  BY <1>1
<1>3. PICK v \in Workers : Consuming(v)
  BY <1>2 DEF Next, HousekeepingStep, Publishing, Recovering, Passing, Elapse, LockExpires, vars, consumerVars
<1>4. v = w
  BY <1>1, <1>3, ConsumingTimely DEF OtherWorkers
<1>5. CASE Begin(w)
  BY <1>1, <1>5 DEF Begin, Hash
<1>6. CASE ~Begin(w)
  BY <1>1, <1>3, <1>4, <1>6
     DEF Consuming, WorkerStep, HandlerChoice, WorkerFault, Read, ReadLost, ResolveError, BadPayload,
         BeginError, AckResolve, AckCommit, AckError, Return, ReturnError, Throw, ReadAttempts,
         Retry, GiveUp, ErrorLost, WorkerCrash, WGoto, NextEntry, consumerVars
<1> QED BY <1>5, <1>6

LEMMA Multiples ==
    ASSUME NEW f \in Nat, NEW b \in Nat, NEW c \in Nat, b <= c
    PROVE  f * b \in Nat /\ f * c \in Nat /\ f * b <= f * c /\ (f + 1) * b = f * b + b
OBVIOUS

\* Each budget that was lost with a hash, and what the field still says.
RunsIInv ==
    /\ runs \in [Msgs -> Nat] /\ forgotten \in [Msgs -> Nat]
    /\ \A m \in Msgs : runs[m] <= forgotten[m] * RetryBudget + hash[m].execs

\* The numbers, before and after a step.
RunsNumbers ==
    \A m \in Msgs : RetryBudget \in Nat /\ hash[m].execs \in Nat /\ hash[m].execs <= RetryBudget

LEMMA RunsType == TypeOK /\ BudgetIInv => RunsNumbers
BY CountBounded, BudgetType DEF RunsNumbers, BudgetNumbers, RetryBudget

LEMMA RunsKept ==
    ASSUME TypeOK, TypeOK', OwnAck, BudgetIInv, RunsNumbers', [Next \/ HousekeepingStep]_vars,
           [NextOps /\ CountRuns]_<<opVars, runVars>>, RunsIInv
    PROVE  RunsIInv'
<1>1. CASE UNCHANGED <<opVars, runVars>>
  BY <1>1 DEF opVars, vars, metaVars, runVars, RunsIInv, RetryBudget
<1>2. CASE CountRuns
  <2>1. runs' \in [Msgs -> Nat] /\ forgotten' \in [Msgs -> Nat]
    BY <1>2 DEF CountRuns, RunsIInv
  <2>2. ASSUME NEW m \in Msgs  PROVE runs'[m] <= forgotten'[m] * RetryBudget' + hash'[m].execs
    <3> DEFINE f == forgotten[m]   b == RetryBudget   c == RetryBudget'
               e == hash[m].execs  e1 == hash'[m].execs
    <3>1. /\ f \in Nat /\ b \in Nat /\ c \in Nat /\ e \in Nat /\ e1 \in Nat /\ e <= b
          /\ runs[m] \in Nat /\ runs[m] <= f * b + e
      BY <2>2, RunsType DEF RunsNumbers, RunsIInv
    <3>2. b <= c
      BY FaultsFall, BudgetType, BudgetTypeNext DEF BudgetNumbers, RetryBudget
    <3>3. /\ runs'[m] = IF Executes(m) THEN runs[m] + 1 ELSE runs[m]
          /\ forgotten'[m] = IF e1 < e THEN f + 1 ELSE f
      BY <1>2, <2>2 DEF CountRuns
    <3>4. Executes(m) => e1 = e + 1
      BY <2>2, ExecutesCounted
    <3>5. f * b \in Nat /\ f * c \in Nat /\ f * b <= f * c /\ (f + 1) * b = f * b + b
      BY <3>1, <3>2, Multiples
    <3>6. f + 1 \in Nat /\ (f + 1) * b <= (f + 1) * c /\ (f + 1) * c \in Nat
      BY <3>1, <3>2, Multiples
    <3> HIDE DEF f, b, c, e, e1
    <3>7. CASE e1 < e
      <4>1. runs'[m] = runs[m] /\ forgotten'[m] = f + 1
        BY <3>1, <3>3, <3>4, <3>7
      <4>2. runs'[m] <= (f + 1) * c + e1
        BY <3>1, <3>5, <3>6, <4>1
      <4> QED BY <4>1, <4>2 DEF c, e1
    <3>8. CASE ~(e1 < e)
      <4>1. forgotten'[m] = f
        BY <3>3, <3>8
      <4>2. runs'[m] <= f * c + e1
        BY <3>1, <3>3, <3>4, <3>5, <3>8
      <4> QED BY <4>1, <4>2 DEF c, e1
    <3> QED BY <3>7, <3>8
  <2> QED BY <2>1, <2>2 DEF RunsIInv
<1> QED BY <1>1, <1>2

(***************************************************************************)
(* The retry budget, of real executions: under every fault, whoever        *)
(* acknowledges what, and while the cleanup and the dashboard erase        *)
(* hashes, ExecuteAsync is called Attempts + 1 times at most for a         *)
(* message, and once more for each fault that struck; this much again each *)
(* time a failed publish call, the cleanup or a deletion made Redis forget *)
(* its ExecutionTimes.  It takes IsAutoAck, as nothing else deletes what   *)
(* was executed, and batches finished in time, as each claim of an entry   *)
(* still at work is a further execution that no fault accounts for.        *)
(***************************************************************************)
THEOREM BudgetHolds ==
    ASSUME ~Slow, AutoAck
    PROVE  SpecRuns => []ExecutionsBounded
<1>1. SpecRuns => SpecOps
  <2>1. [NextOps /\ CountRuns]_<<opVars, runVars>> => [NextOps]_opVars
    OBVIOUS
  <2> QED BY <2>1, PTL DEF SpecRuns, SpecOps
<1>2. SpecRuns => RunsIInv
  <2> SUFFICES ASSUME InitOps, InitRuns PROVE RunsIInv
    BY DEF SpecRuns
  <2>1. \A m \in Msgs : hash[m].execs = 0
    BY DEF InitOps, Init, InitStore, NoHash
  <2>2. RetryBudget \in Nat
    BY StoreAssumption DEF InitOps, Init, InitStore, RetryBudget
  <2> QED BY <2>1, <2>2 DEF InitRuns, RunsIInv
<1>3. IInv /\ IInv' /\ BudgetIInv /\ BudgetIInv' /\ [Next \/ HousekeepingStep]_vars
         /\ [NextOps /\ CountRuns]_<<opVars, runVars>> /\ RunsIInv => RunsIInv'
  <2>1. IInv' /\ BudgetIInv' => TypeOK' /\ RunsNumbers'
    BY RunsType, PTL DEF IInv
  <2> QED BY <2>1, RunsKept DEF IInv
<1>4. IInv /\ BudgetIInv /\ RunsIInv => ExecutionsBounded
  <2> SUFFICES ASSUME TypeOK, BudgetIInv, RunsIInv, NEW m \in Msgs
               PROVE  runs[m] <= (forgotten[m] + 1) * RetryBudget
    BY DEF ExecutionsBounded, IInv
  <2> DEFINE f == forgotten[m]  b == RetryBudget  e == hash[m].execs
  <2>1. f \in Nat /\ b \in Nat /\ e \in Nat /\ e <= b /\ runs[m] \in Nat /\ runs[m] <= f * b + e
    BY RunsType DEF RunsNumbers, RunsIInv
  <2>2. f * b \in Nat /\ (f + 1) * b = f * b + b
    BY <2>1, Multiples
  <2> HIDE DEF f, b, e
  <2>3. runs[m] <= (f + 1) * b
    BY <2>1, <2>2
  <2> QED BY <2>3 DEF f, b
<1>5. SpecRuns => [][NextOps /\ CountRuns]_<<opVars, runVars>>
  BY DEF SpecRuns
<1> QED BY <1>1, <1>2, <1>3, <1>4, <1>5, BothOperate, BudgetInductive, PTL DEF Operating

-----------------------------------------------------------------------------
(* The budget in terms of the stream *)

Added(m) == {i \in 1 .. Len(log) : log[i] = m}
Adds(m)  == Cardinality(Added(m))

\* A further entry of the message would stay within what was executed, and
\* within the attempts.
Owed(m) == Adds(m) <= hash[m].execs + Struck
Left(m) == Adds(m) <= Attempts + Struck

\* No worker has the entry, so that it can only be published anew.
Waiting(i) == /\ i \in pel \/ \E s \in Servers : i \in claimed[s]
              /\ i \notin Retiring
              /\ \A w \in Workers : i \notin batch[w]

\* A message has an entry for each execution, each fault and the one that is
\* still to be executed; that one is spent once its execution has begun.
AddsFor(m) ==
    /\ Adds(m) <= Attempts + 1 + Struck
    /\ Adds(m) <= hash[m].execs + 1 + Struck
    /\ \A w \in Workers : batch[w] # {} /\ Message(w) = m /\ wpc[w] # "loop" =>
          Owed(m) /\ (wpc[w] = "retry" => Left(m))
    /\ \A i \in 1 .. Len(log) : Waiting(i) /\ log[i] = m => Owed(m) /\ Left(m)

\* No publish call has failed.
NoneErased == \A m \in Msgs : pub[m] # "cleanup"

AddsIInv == NoneErased /\ \A m \in Msgs \ Poison : AddsFor(m)

\* What an account of entries is made of.
AddsNumbers ==
    \A m \in Msgs : /\ IsFiniteSet(Added(m)) /\ Adds(m) \in Nat
                    /\ hash[m].execs \in Nat /\ Struck \in Nat /\ Attempts \in Nat

LEMMA AddsType == TypeOK => AddsNumbers
<1> SUFFICES ASSUME TypeOK, NEW m \in Msgs
             PROVE  IsFiniteSet(Added(m)) /\ Adds(m) \in Nat
  BY BudgetType DEF BudgetNumbers, AddsNumbers
<1>1. IsFiniteSet(1 .. Len(log))
  <2>1. 1 \in Int /\ Len(log) \in Int
    BY StreamType
  <2> QED BY <2>1, FS_Interval
<1>2. Added(m) \subseteq 1 .. Len(log)
  BY DEF Added
<1> QED BY <1>1, <1>2, FS_Subset, FS_CardinalityType DEF Adds

LEMMA AddsTypeNext == TypeOK' => AddsNumbers'
BY AddsType, PTL

\* A message that was never sent has no entry, in no hand.
UnsentKeep == \A m \in Msgs : ~Sent(m) => AddsFor(m)

LEMMA UnsentAdds == TypeOK => UnsentKeep
<1> SUFFICES ASSUME TypeOK, NEW m \in Msgs, ~Sent(m)  PROVE AddsFor(m)
  BY DEF UnsentKeep
<1>1. Added(m) = {}
  BY DEF Added, Sent
<1>2. Adds(m) = 0
  BY <1>1, FS_EmptySet DEF Adds
<1>3. \A w \in Workers : batch[w] # {} => Message(w) # m
  BY CurrentOfBatch DEF Sent
<1>4. \A i \in 1 .. Len(log) : log[i] # m
  BY DEF Sent
<1> QED BY <1>2, <1>3, <1>4, AddsType DEF AddsFor, AddsNumbers

LEMMA UnsentAddsNext == TypeOK' => UnsentKeep'
BY UnsentAdds, PTL

LEMMA AddsAfterXAdd ==
    ASSUME TypeOK, NEW m \in Msgs, XAdd(m), NEW k \in Msgs
    PROVE  Adds(k)' <= Adds(k) + 1 /\ (k # m => Adds(k)' = Adds(k))
<1>1. /\ Len(log) \in Nat /\ Len(log') = Len(log) + 1 /\ log'[Len(log) + 1] = m
      /\ \A i \in 1 .. Len(log) : log'[i] = log[i]
  BY StreamType, XAddFacts
<1>2. Added(k)' \subseteq Added(k) \union {Len(log) + 1}
  BY <1>1 DEF Added
<1>3. k # m => Added(k)' = Added(k)
  BY <1>1 DEF Added
<1>4. Cardinality(Added(k)') <= Cardinality(Added(k)) + 1
  BY <1>2, AddsType, Resized DEF AddsNumbers
<1> QED BY <1>3, <1>4 DEF Adds

-----------------------------------------------------------------------------
(* What a step does to it *)

\* A fault pays for whatever it costs.
LEMMA FaultPays ==
    ASSUME TypeOK, TypeOK', NEW k \in Msgs, AddsFor(k), faults' = faults - 1,
           Adds(k)' = Adds(k), hash'[k].execs = hash[k].execs
    PROVE  AddsFor(k)'
<1>1. /\ Adds(k) \in Nat /\ hash[k].execs \in Nat /\ Struck \in Nat /\ Attempts \in Nat
      /\ Adds(k) <= Attempts + 1 + Struck /\ Adds(k) <= hash[k].execs + 1 + Struck
  BY AddsType DEF AddsFor, AddsNumbers
<1>2. Struck' = Struck + 1
  BY BudgetType DEF BudgetNumbers, Struck
<1>3. Adds(k)' <= Attempts + Struck' /\ Adds(k)' <= hash'[k].execs + Struck'
  BY <1>1, <1>2
<1>4. /\ Adds(k)' <= Attempts + 1 + Struck' /\ Adds(k)' <= hash'[k].execs + 1 + Struck'
  BY <1>1, <1>2
<1> QED BY <1>3, <1>4 DEF AddsFor, Owed, Left

\* With no further entry, and no fewer executions or faults, what is owed or
\* left stays so.
LEMMA AddsGrow ==
    ASSUME TypeOK, TypeOK', NEW k \in Msgs, AddsFor(k), faults' = faults \/ faults' = faults - 1,
           Adds(k)' = Adds(k),
           hash'[k].execs = hash[k].execs \/ hash'[k].execs = hash[k].execs + 1
    PROVE  /\ Adds(k)' <= Attempts + 1 + Struck'
           /\ Adds(k)' <= hash'[k].execs + 1 + Struck'
           /\ (Owed(k) => Owed(k)') /\ (Left(k) => Left(k)')
           /\ hash'[k].execs = hash[k].execs + 1 => Owed(k)'
<1>1. /\ Adds(k) \in Nat /\ hash[k].execs \in Nat /\ Struck \in Nat /\ Attempts \in Nat
      /\ Adds(k) <= Attempts + 1 + Struck /\ Adds(k) <= hash[k].execs + 1 + Struck
  BY AddsType DEF AddsFor, AddsNumbers
<1>2. Struck' = Struck \/ Struck' = Struck + 1
  BY BudgetType DEF BudgetNumbers, Struck
<1> QED BY <1>1, <1>2 DEF Owed, Left

\* What a worker's step is to the entry in hand.  A fault drops it; Begin counts
\* it; or it is delivered, worked on, retried or deleted.
Serves(w) ==
    \/ SameExecs /\ faults' = faults - 1
    \/ Begin(w)
    \/ /\ SameExecs
       /\ \/ batch[w] = {} /\ pel' \subseteq pel \union batch'[w] /\ wpc'[w] = "loop"
          \/ /\ batch[w] # {} /\ batch'[w] = batch[w] /\ pel' \subseteq pel
             /\ \/ Message(w) \in Poison
                \/ wpc[w] # "loop" /\ wpc'[w] # "retry"
                \/ wpc[w] # "loop" /\ hash[Message(w)].execs <= Attempts
          \/ /\ batch[w] # {} /\ batch'[w] = batch[w] \ {Current(w)} /\ wpc'[w] = "loop"
             /\ pel' \subseteq pel /\ (wpc[w] = "retry" \/ Current(w) \notin pel')

LEMMA ConsumingServes ==
    ASSUME AutoAck, TypeOK, NEW w \in Workers, Consuming(w)
    PROVE  Serves(w)
<1>1. /\ hash \in [Msgs -> Hash] /\ wpc \in [Workers -> WorkerStates]
      /\ batch \in [Workers -> SUBSET (1 .. lastDelivered)]
      /\ wpc[w] # "loop" => batch[w] # {}
      /\ ack[w] # {} => wpc[w] \in {"exec", "error"}
  BY DEF TypeOK, StoreTypeOK, ConsumerTypeOK
<1>2. batch[w] # {} => Message(w) \in Msgs
  BY CurrentOfBatch
<1>3. ASSUME UNCHANGED metaVars  PROVE SameExecs
  BY <1>3 DEF metaVars, SameExecs
<1>4. ASSUME NEW ms, Complete(ms)  PROVE SameExecs
  BY <1>1, <1>4 DEF Complete, SetStatus, Hash, SameExecs
<1>5. ASSUME WorkerFault(w)  PROVE Serves(w)
  <2>1. SameExecs /\ faults' = faults - 1
    BY <1>3, <1>4, <1>5
       DEF WorkerFault, ReadLost, ResolveError, BeginError, AckError, ReturnError, ErrorLost, WorkerCrash,
           AckExec, SettleExec, Fault
  <2> QED BY <2>1 DEF Serves
<1>6. ASSUME Read(w)  PROVE Serves(w)
  <2>1. SameExecs /\ batch[w] = {} /\ wpc'[w] = "loop"
    BY <1>3, <1>6 DEF Read
  <2>2. pel' \subseteq pel \union batch'[w]
    BY <1>1, <1>6 DEF Read, Deliver
  <2> QED BY <2>1, <2>2 DEF Serves
<1>7. ASSUME BadPayload(w)  PROVE Serves(w)
  <2>1. SameExecs /\ batch[w] # {} /\ batch'[w] = batch[w] /\ pel' = pel /\ Message(w) \in Poison
    BY <1>3, <1>7 DEF BadPayload, streamVars
  <2> QED BY <2>1 DEF Serves
<1>8. ASSUME AckCommit(w) \/ HandlerChoice(w)  PROVE Serves(w)
  <2>1. SameExecs /\ batch'[w] = batch[w] /\ wpc[w] \in {"exec", "error"} /\ wpc'[w] \in {"exec", "error"}
    BY <1>1, <1>3, <1>4, <1>8 DEF AckCommit, AckExec, HandlerChoice, AckResolve, Throw, WGoto
  <2>2. pel' \subseteq pel
    BY <1>8 DEF AckCommit, AckExec, XAckDel, HandlerChoice, AckResolve, Throw, streamVars
  <2> QED BY <1>1, <2>1, <2>2 DEF Serves
<1>9. ASSUME Return(w) \/ GiveUp(w)  PROVE Serves(w)
  <2>1. SameExecs
    <3>1. CASE Return(w)
      BY <1>4, <3>1 DEF Return, SettleExec
    <3>2. CASE GiveUp(w)
      BY <1>1, <1>2, <3>2 DEF GiveUp, SameExecs, Hash
    <3> QED BY <1>9, <3>1, <3>2
  <2>2. wpc[w] # "loop" /\ XAckDel({Current(w)}) /\ NextEntry(w)
    BY <1>9 DEF Return, SettleExec, GiveUp
  <2>3. batch'[w] = batch[w] \ {Current(w)} /\ wpc'[w] = "loop" /\ pel' = pel \ {Current(w)}
    BY <1>1, <2>2 DEF XAckDel, NextEntry, WGoto
  <2> QED BY <1>1, <2>1, <2>2, <2>3 DEF Serves
<1>10. ASSUME Retry(w)  PROVE Serves(w)
  <2>1. SameExecs /\ wpc[w] = "retry" /\ pel' = pel
    BY <1>1, <1>2, <1>10 DEF Retry, SameExecs, Hash, streamVars
  <2>2. batch'[w] = batch[w] \ {Current(w)} /\ wpc'[w] = "loop"
    BY <1>1, <1>10 DEF Retry, NextEntry, WGoto
  <2> QED BY <1>1, <2>1, <2>2 DEF Serves
<1>11. ASSUME ReadAttempts(w)  PROVE Serves(w)
  <2>1. SameExecs /\ batch'[w] = batch[w] /\ batch[w] # {} /\ wpc[w] # "loop" /\ pel' = pel
    BY <1>1, <1>3, <1>11 DEF ReadAttempts, streamVars
  <2>2. CASE hash[Message(w)].execs > Attempts
    <3>1. wpc'[w] # "retry"
      BY <1>1, <1>11, <2>2 DEF ReadAttempts, WGoto
    <3> QED BY <2>1, <3>1 DEF Serves
  <2>3. CASE ~(hash[Message(w)].execs > Attempts)
    <3>1. hash[Message(w)].execs \in Nat /\ Attempts \in Nat
      BY <1>2, <2>1, AddsType DEF AddsNumbers
    <3>2. hash[Message(w)].execs <= Attempts
      BY <2>3, <3>1
    <3> QED BY <2>1, <3>2 DEF Serves
  <2> QED BY <2>2, <2>3
<1> QED BY <1>5, <1>6, <1>7, <1>8, <1>9, <1>10, <1>11 DEF Consuming, WorkerStep, Serves

LEMMA ConsumingAdds ==
    ASSUME TypeOK, TypeOK', Apart, NEW k \in Msgs \ Poison, AddsFor(k), faults' = faults \/ faults' = faults - 1,
           NEW w \in Workers, OtherWorkers(w), UNCHANGED timeoutVars, Serves(w), log' = log
    PROVE  AddsFor(k)'
<1>1. Adds(k)' = Adds(k)
  BY DEF Adds, Added
<1>2. Retiring' = Retiring /\ claimed' = claimed
  BY RetiringSame DEF timeoutVars
<1>3. SameExecs => hash'[k].execs = hash[k].execs
  BY DEF SameExecs
<1>4. \A v \in Workers \ {w} : Current(v)' = Current(v) /\ wpc'[v] = wpc[v] /\ batch'[v] = batch[v]
  BY DEF OtherWorkers, Current
<1>5. \A v \in Workers : batch[v] # {} => Message(v) = log[Current(v)] /\ Message(v) \in Msgs
  BY CurrentOfBatch
<1>6. \A v \in Workers : Message(v)' = log[Current(v)']
  BY DEF Message
<1>7. batch'[w] = batch[w] => Current(w)' = Current(w)
  BY DEF Current
\* It is enough to look at the worker that moves, and at what it lets go.
<1>8. ASSUME hash'[k].execs = hash[k].execs \/ hash'[k].execs = hash[k].execs + 1,
             batch'[w] # {} /\ Message(w)' = k /\ wpc'[w] # "loop"
                => Owed(k)' /\ (wpc'[w] = "retry" => Left(k)'),
             \A i \in 1 .. Len(log) : Waiting(i)' /\ ~Waiting(i) /\ log[i] = k => Owed(k)' /\ Left(k)'
      PROVE  AddsFor(k)'
  <2>1. /\ Adds(k)' <= Attempts + 1 + Struck' /\ Adds(k)' <= hash'[k].execs + 1 + Struck'
        /\ (Owed(k) => Owed(k)') /\ (Left(k) => Left(k)')
    BY <1>1, <1>8, AddsGrow
  <2>2. ASSUME NEW v \in Workers, batch'[v] # {}, Message(v)' = k, wpc'[v] # "loop"
        PROVE  Owed(k)' /\ (wpc'[v] = "retry" => Left(k)')
    <3>1. CASE v = w
      BY <1>8, <2>2, <3>1
    <3>2. CASE v # w
      <4>1. Message(v) = k /\ wpc'[v] = wpc[v] /\ batch[v] # {}
        BY <1>4, <1>5, <1>6, <2>2, <3>2
      <4> QED BY <2>1, <2>2, <4>1 DEF AddsFor
    <3> QED BY <3>1, <3>2
  <2>3. ASSUME NEW i \in 1 .. Len(log'), Waiting(i)', log'[i] = k
        PROVE  Owed(k)' /\ Left(k)'
    BY <1>8, <2>1, <2>3 DEF AddsFor
  <2> QED BY <2>1, <2>2, <2>3 DEF AddsFor
\* Nothing comes to wait but what the worker lets go or is given.
<1>9. ASSUME NEW i, Waiting(i)', ~Waiting(i)
      PROVE  i \notin batch'[w] /\ (i \in batch[w] \/ i \in pel' \ pel)
  <2>1. \A v \in Workers \ {w} : i \notin batch[v]
    BY <1>4, <1>9 DEF Waiting
  <2> QED BY <1>2, <1>9, <2>1 DEF Waiting
<1>a. CASE SameExecs /\ faults' = faults - 1
  BY <1>1, <1>3, <1>a, FaultPays
<1>b. CASE Begin(w)
  <2>1. batch[w] # {} /\ batch' = batch /\ pel' = pel /\ wpc'[w] = "exec"
    BY <1>b DEF Begin, WGoto, TypeOK, ConsumerTypeOK, streamVars
  <2>2. hash'[k].execs = IF k = Message(w) THEN hash[k].execs + 1 ELSE hash[k].execs
    BY <1>5, <1>b, <2>1 DEF Begin, TypeOK, StoreTypeOK, Hash
  <2>3. Message(w)' = k => Owed(k)'
    BY <1>1, <1>5, <1>6, <1>7, <2>1, <2>2, AddsGrow
  <2>4. \A i \in 1 .. Len(log) : Waiting(i)' => Waiting(i)
    BY <1>9, <2>1
  <2> QED BY <1>8, <2>1, <2>2, <2>3, <2>4
<1>c. CASE SameExecs /\ batch[w] = {} /\ pel' \subseteq pel \union batch'[w] /\ wpc'[w] = "loop"
  BY <1>3, <1>8, <1>9, <1>c
<1>d. CASE /\ SameExecs /\ batch[w] # {} /\ batch'[w] = batch[w] /\ pel' \subseteq pel
           /\ \/ Message(w) \in Poison
              \/ wpc[w] # "loop" /\ wpc'[w] # "retry"
              \/ wpc[w] # "loop" /\ hash[Message(w)].execs <= Attempts
  <2>1. Message(w)' = Message(w)
    BY <1>5, <1>6, <1>7, <1>d
  <2>2. ASSUME Message(w) = k  PROVE Owed(k)' /\ (wpc'[w] = "retry" => Left(k)')
    <3>1. wpc[w] # "loop" /\ (wpc'[w] # "retry" \/ hash[k].execs <= Attempts)
      BY <1>d, <2>2
    <3>2. Owed(k)
      BY <1>d, <2>2, <3>1 DEF AddsFor
    <3>3. hash[k].execs <= Attempts => Left(k)
      BY <3>2, AddsType DEF AddsNumbers, Owed, Left
    <3> QED BY <1>1, <1>3, <1>d, <3>1, <3>2, <3>3, AddsGrow
  <2> QED BY <1>3, <1>8, <1>9, <1>d, <2>1, <2>2
<1>e. CASE /\ SameExecs /\ batch[w] # {} /\ batch'[w] = batch[w] \ {Current(w)} /\ wpc'[w] = "loop"
           /\ pel' \subseteq pel /\ (wpc[w] = "retry" \/ Current(w) \notin pel')
  <2>1. ASSUME NEW i \in 1 .. Len(log), Waiting(i)', ~Waiting(i), log[i] = k
        PROVE  Owed(k)' /\ Left(k)'
    <3>1. i = Current(w)
      BY <1>9, <1>e, <2>1
    <3>2. CASE wpc[w] = "retry"
      <4>1. Owed(k) /\ Left(k)
        BY <1>5, <1>e, <2>1, <3>1, <3>2 DEF AddsFor
      <4> QED BY <1>1, <1>3, <1>e, <4>1, AddsGrow
    <3>3. i \in pel'
      BY <1>2, <1>5, <1>e, <2>1, <3>1, CurrentOfBatch DEF Waiting, Apart
    <3> QED BY <1>e, <3>1, <3>2, <3>3
  <2> QED BY <1>3, <1>8, <1>e, <2>1
<1> QED BY <1>a, <1>b, <1>c, <1>d, <1>e DEF Serves

\* A step of no worker, that gives the message no entry and no execution, and
\* leaves no entry of it waiting.
LEMMA OthersAdds ==
    ASSUME TypeOK, TypeOK', NEW k \in Msgs, AddsFor(k), faults' = faults \/ faults' = faults - 1,
           UNCHANGED consumerVars, Adds(k)' = Adds(k), hash'[k].execs = hash[k].execs,
           \A i \in 1 .. Len(log) : log'[i] = log[i],
           \A i \in 1 .. Len(log') : Waiting(i)' /\ log'[i] = k => i \in 1 .. Len(log) /\ Waiting(i)
    PROVE  AddsFor(k)'
<1>1. /\ Adds(k)' <= Attempts + 1 + Struck' /\ Adds(k)' <= hash'[k].execs + 1 + Struck'
      /\ (Owed(k) => Owed(k)') /\ (Left(k) => Left(k)')
  BY AddsGrow
<1>2. ASSUME NEW v \in Workers, batch'[v] # {}  PROVE Message(v)' = Message(v) /\ batch[v] # {} /\ wpc'[v] = wpc[v]
  <2>1. batch' = batch /\ wpc' = wpc
    BY DEF consumerVars
  <2>2. Current(v)' = Current(v)
    BY <2>1 DEF Current
  <2> QED BY <1>2, <2>1, <2>2, CurrentOfBatch DEF Message
<1>3. ASSUME NEW i \in 1 .. Len(log'), Waiting(i)', log'[i] = k  PROVE Owed(k)' /\ Left(k)'
  BY <1>1, <1>3 DEF AddsFor
<1>4. ASSUME NEW v \in Workers, batch'[v] # {}, Message(v)' = k, wpc'[v] # "loop"
      PROVE  Owed(k)' /\ (wpc'[v] = "retry" => Left(k)')
  BY <1>1, <1>2, <1>4 DEF AddsFor
<1> QED BY <1>1, <1>3, <1>4 DEF AddsFor

\* A new entry waits for nobody.
LEMMA NewIsNotWaiting ==
    ASSUME TypeOK, NEW m \in Msgs, XAdd(m), UNCHANGED batch,
           \A s \in Servers : claimed'[s] = claimed[s], Retiring \subseteq Retiring'
    PROVE  /\ \A i \in 1 .. Len(log) : log'[i] = log[i]
           /\ \A i \in 1 .. Len(log') : Waiting(i)' => i \in 1 .. Len(log) /\ Waiting(i)
<1>1. /\ Len(log) \in Nat /\ Len(log') = Len(log) + 1 /\ \A i \in 1 .. Len(log) : log'[i] = log[i]
      /\ pel' = pel
  BY StreamType, XAddFacts DEF XAdd
<1>2. ASSUME NEW i, Waiting(i)'  PROVE i \in 1 .. Len(log) /\ Waiting(i)
  <2>1. Waiting(i)
    BY <1>1, <1>2 DEF Waiting
  <2>2. AtWork(i)
    BY <2>1 DEF Waiting, AtWork, Held
  <2> QED BY <2>1, <2>2, AtWorkType
<1> QED BY <1>1, <1>2

LEMMA PublishingAdds ==
    ASSUME "PublishError" \notin Faults, TypeOK, TypeOK', NoneErased, MetaUnsent, UnsentKeep',
           NEW k \in Msgs, AddsFor(k), faults' = faults \/ faults' = faults - 1,
           NEW m \in Msgs, Publishing(m)
    PROVE  AddsFor(k)'
<1>1. /\ UNCHANGED <<consumerVars, timeoutVars>> /\ pub[m] # "cleanup"
      /\ Retiring' = Retiring /\ batch' = batch /\ claimed' = claimed
  BY RetiringSame DEF Publishing, NoneErased, timeoutVars, consumerVars
<1>2. hash \in [Msgs -> Hash]
  BY DEF TypeOK, StoreTypeOK
<1>3. ASSUME UNCHANGED streamVars, hash'[k].execs = hash[k].execs  PROVE AddsFor(k)'
  <2>1. Adds(k)' = Adds(k)
    BY <1>3 DEF Adds, Added, streamVars
  <2>2. \A i \in 1 .. Len(log') : Waiting(i)' => i \in 1 .. Len(log) /\ Waiting(i)
    BY <1>1, <1>3 DEF Waiting, streamVars
  <2> QED BY <1>1, <1>3, <2>1, <2>2, OthersAdds DEF streamVars
<1>a. CASE PublishMeta(m)
  <2>1. UNCHANGED streamVars
    BY <1>a DEF PublishMeta, WriteMeta
  <2>2. CASE k = m
    <3>1. ~Sent(k)'
      BY <1>a, <2>1, <2>2 DEF PublishMeta, MetaUnsent, Sent, streamVars
    <3> QED BY <3>1 DEF UnsentKeep
  <2>3. CASE k # m
    BY <1>2, <1>3, <1>a, <2>1, <2>3 DEF PublishMeta, WriteMeta
  <2> QED BY <2>2, <2>3
<1>b. CASE PublishXAdd(m)
  <2>1. XAdd(m) /\ pub[m] = "meta" /\ hash' = hash
    BY <1>b DEF PublishXAdd, metaVars
  <2>2. /\ \A i \in 1 .. Len(log) : log'[i] = log[i]
        /\ \A i \in 1 .. Len(log') : Waiting(i)' => i \in 1 .. Len(log) /\ Waiting(i)
    BY <1>1, <2>1, NewIsNotWaiting
  <2>3. CASE k # m
    BY <1>1, <2>1, <2>2, <2>3, AddsAfterXAdd, OthersAdds
  <2>4. CASE k = m
    <3>1. ~Sent(k)
      BY <2>1, <2>4 DEF MetaUnsent
    <3>2. Added(k) = {}
      BY <3>1 DEF Added, Sent
    <3>3. Adds(k)' <= 1
      BY <2>1, <2>4, <3>2, AddsAfterXAdd, FS_EmptySet DEF Adds
    <3>4. Adds(k)' <= Attempts + 1 + Struck' /\ Adds(k)' <= hash'[k].execs + 1 + Struck'
      BY <3>3, AddsTypeNext DEF AddsNumbers
    <3>5. ASSUME NEW v \in Workers, batch'[v] # {}  PROVE Message(v)' # k
      <4>1. Current(v)' = Current(v)
        BY <1>1 DEF Current
      <4> QED BY <1>1, <2>2, <3>1, <3>5, <4>1, CurrentOfBatch DEF Message, Sent
    <3>6. \A i \in 1 .. Len(log') : Waiting(i)' => log'[i] # k
      BY <2>2, <3>1 DEF Sent
    <3> QED BY <3>4, <3>5, <3>6 DEF AddsFor
  <2> QED BY <2>3, <2>4
<1>c. CASE PublishFinish(m)
  BY <1>2, <1>3, <1>c DEF PublishFinish, WriteId, Hash
<1>d. CASE PublisherCrash(m)
  BY <1>3, <1>d DEF PublisherCrash, metaVars
<1> QED BY <1>1, <1>a, <1>b, <1>c, <1>d
        DEF Publishing, PublisherStep, PublisherFault, PublishCleanup, PublishMetaError,
            PublishXAddError, PublishFinishError, Fault

LEMMA RecoveringAdds ==
    ASSUME "TimeoutError" \notin Faults, "TimeoutCrash" \notin Faults,
           TypeOK, TypeOK', Custody, OneEntry, NEW k \in Msgs, AddsFor(k),
           faults' = faults \/ faults' = faults - 1,
           NEW s \in Servers, OtherServices(s), UNCHANGED consumerVars,
           Looks(s) \/ Republishes(s) \/ Deletes(s)
    PROVE  AddsFor(k)'
<1> USE DEF Custody
<1>1. batch' = batch /\ \A t \in Servers \ {s} : tpc'[t] = tpc[t] /\ claimed'[t] = claimed[t]
  BY DEF consumerVars, OtherServices
<1>2. hash'[k].execs = hash[k].execs
  BY DEF Looks, Republishes, Deletes
<1>3. ASSUME log' = log, \A i : Waiting(i)' => Waiting(i)  PROVE AddsFor(k)'
  <2>1. Adds(k)' = Adds(k)
    BY <1>3 DEF Adds, Added
  <2> QED BY <1>2, <1>3, <2>1, OthersAdds
<1>a. CASE Looks(s)
  <2>1. tpc[s] # "commit" /\ tpc'[s] # "commit"
    BY <1>a DEF Looks, Fault
  <2>2. Retiring' = Retiring
    BY <2>1 DEF Retiring, Entry, OtherServices
  <2>3. idle \subseteq pel /\ log' = log /\ pel' = pel /\ claimed'[s] \subseteq claimed[s] \union idle
    BY <1>a DEF Looks, TypeOK, StoreTypeOK
  <2>4. \A i : Waiting(i)' => Waiting(i)
    BY <1>1, <2>2, <2>3 DEF Waiting
  <2> QED BY <1>3, <2>3, <2>4
<1>b. CASE Republishes(s)
  <2>1. claimed[s] # {}
    BY <1>b DEF Republishes, TypeOK, TimeoutTypeOK
  <2>2. PICK e \in 1 .. Len(log), m \in Msgs : e = Entry(s) /\ m = log[e] /\ e \in claimed[s]
    BY <2>1, EntryInClaimed
  <2>3. XAdd(m) /\ claimed'[s] = claimed[s] /\ tpc[s] = "republish" /\ tpc'[s] = "commit"
    BY <1>b, <2>2 DEF Republishes
  <2>4. Retiring = {} /\ Retiring' = {e}
    <3>1. Retiring = {}
      BY <2>3, RetiringOf
    <3>2. Entry(s)' = e
      BY <2>2, <2>3 DEF Entry
    <3>3. \A t \in Servers : tpc'[t] = "commit" => t = s
      BY <1>1, <2>3 DEF LockHeld
    <3> QED BY <2>3, <3>1, <3>2, <3>3 DEF Retiring
  <2>5. /\ \A i \in 1 .. Len(log) : log'[i] = log[i]
        /\ \A i \in 1 .. Len(log') : Waiting(i)' => i \in 1 .. Len(log) /\ Waiting(i)
    BY <1>1, <2>3, <2>4, NewIsNotWaiting
  <2>6. CASE k # m
    BY <1>2, <2>3, <2>5, <2>6, AddsAfterXAdd, OthersAdds
  <2>7. CASE k = m
    <3>1. Len(log) \in Nat /\ AtWork(e) /\ \A i : AtWork(i) => i \in 1 .. Len(log)
      BY <2>2, StreamType, AtWorkType DEF AtWork, Held
    <3>2. \A i \in 1 .. Len(log) : AtWork(i) /\ log[i] = m => i = e
      BY <2>2, <2>4, <3>1, LatestIsOne DEF OneEntry
    <3>3. Waiting(e)
      BY <2>2, <2>4 DEF Waiting, Apart
    <3>4. Owed(k) /\ Left(k)
      BY <2>2, <2>7, <3>3 DEF AddsFor
    <3>5. Adds(k)' <= Adds(k) + 1
      BY <2>3, AddsAfterXAdd
    <3>6. Struck' = Struck \/ Struck' = Struck + 1
      BY BudgetType DEF BudgetNumbers, Struck
    <3>7. Adds(k)' <= Attempts + 1 + Struck' /\ Adds(k)' <= hash'[k].execs + 1 + Struck'
      <4>1. /\ Adds(k) \in Nat /\ Adds(k)' \in Nat /\ hash[k].execs \in Nat
            /\ Struck \in Nat /\ Struck' \in Nat /\ Attempts \in Nat
        BY AddsType, AddsTypeNext DEF AddsNumbers
      <4>2. Adds(k) <= hash[k].execs + Struck /\ Adds(k) <= Attempts + Struck
        BY <3>4 DEF Owed, Left
      <4> QED BY <1>2, <3>5, <3>6, <4>1, <4>2
    <3>8. ASSUME NEW v \in Workers, batch'[v] # {}  PROVE Message(v)' # k
      <4>1. Current(v)' = Current(v) /\ batch[v] # {}
        BY <1>1, <3>8 DEF Current
      <4>2. Current(v) \in batch[v] /\ Current(v) \in 1 .. Len(log)
        BY <4>1, CurrentOfBatch
      <4>3. Current(v) # e
        BY <2>2, <4>2 DEF Apart
      <4>4. log[Current(v)] # k
        BY <2>7, <3>2, <4>2, <4>3 DEF AtWork, Held
      <4> QED BY <2>5, <4>1, <4>2, <4>4 DEF Message
    <3>9. ASSUME NEW i \in 1 .. Len(log'), Waiting(i)'  PROVE log'[i] # k
      <4>1. i \in 1 .. Len(log) /\ AtWork(i) /\ i # e
        BY <2>4, <2>5, <3>9 DEF Waiting, AtWork, Held
      <4> QED BY <2>5, <2>7, <3>2, <4>1
    <3> QED BY <3>7, <3>8, <3>9 DEF AddsFor
  <2> QED BY <2>6, <2>7
<1>c. CASE Deletes(s)
  <2>1. /\ tpc[s] \in {"giveup", "commit"} /\ tpc'[s] # "commit" /\ log' = log
        /\ claimed'[s] = claimed[s] \ {Entry(s)} /\ pel' = pel \ {Entry(s)}
    BY <1>c DEF Deletes, XAckDel
  <2>2. Retiring \subseteq {Entry(s)}
    BY <2>1, RetiringOf
  <2>3. \A t \in Servers \ {s} : claimed[t] = {}
    BY <2>1 DEF LockHeld, Idling
  <2>4. \A i : Waiting(i)' => Waiting(i)
    BY <1>1, <2>1, <2>2, <2>3 DEF Waiting
  <2> QED BY <1>3, <2>1, <2>4
<1> QED BY <1>a, <1>b, <1>c

LEMMA NoneErasedKept ==
    ASSUME "PublishError" \notin Faults, TypeOK, NoneErased, [Next]_vars
    PROVE  NoneErased'
<1>1. pub \in [Msgs -> PubStates]
  BY DEF TypeOK, PublisherTypeOK
<1>2. ASSUME NEW m \in Msgs, Publishing(m)  PROVE NoneErased'
  BY <1>1, <1>2
     DEF Publishing, PublisherStep, PublisherFault, PublishMeta, PublishXAdd, PublishFinish, PublishCleanup,
         PublishMetaError, PublishXAddError, PublishFinishError, PublisherCrash, Fault, Goto, NoneErased
<1>3. CASE UNCHANGED publisherVars
  BY <1>3 DEF publisherVars, NoneErased
<1> QED BY <1>2, <1>3 DEF Next, Consuming, Recovering, Passing, Elapse, LockExpires, vars

LEMMA NextAdds ==
    ASSUME "PublishError" \notin Faults, "TimeoutError" \notin Faults, "TimeoutCrash" \notin Faults, AutoAck,
           TypeOK, TypeOK', OwnAck, Custody, MetaUnsent, OneEntry, NoneErased, [Next]_vars,
           NEW k \in Msgs \ Poison, AddsFor(k)
    PROVE  AddsFor(k)'
<1>1. faults' = faults \/ faults' = faults - 1
  BY FaultsFall
<1>2. ASSUME NEW m \in Msgs, Publishing(m)  PROVE AddsFor(k)'
  BY <1>1, <1>2, UnsentAddsNext, PublishingAdds
<1>3. ASSUME NEW w \in Workers, Consuming(w)  PROVE AddsFor(k)'
  <2>1. /\ OtherWorkers(w) /\ UNCHANGED timeoutVars
        /\ Reads(w) \/ \E es \in SUBSET (1 .. Len(log)), ms \in SUBSET Msgs : Handles(w, es, ms)
    BY <1>3, ConsumingTimely
  <2>2. log' = log
    BY <2>1 DEF Reads, Deliver, Handles, XAckDel
  <2>3. Serves(w)
    BY <1>3, ConsumingServes
  <2> QED BY <1>1, <2>1, <2>2, <2>3, ConsumingAdds DEF Custody
<1>4. ASSUME NEW s \in Servers, Recovering(s)  PROVE AddsFor(k)'
  <2>1. /\ OtherServices(s) /\ UNCHANGED consumerVars
        /\ Looks(s) \/ Republishes(s) \/ Deletes(s)
    BY <1>4, RecoveringTimely
  <2> QED BY <1>1, <2>1, RecoveringAdds
<1>5. CASE Passing \/ UNCHANGED vars
  <2>1. /\ log' = log /\ pel' = pel /\ tpc' = tpc /\ claimed' = claimed /\ UNCHANGED consumerVars
        /\ hash' = hash
    BY <1>5 DEF Passing, Elapse, LockExpires, vars, streamVars, metaVars, timeoutVars
  <2>2. Adds(k)' = Adds(k) /\ \A i : Waiting(i)' => Waiting(i)
    BY <2>1, RetiringSame DEF Adds, Added, Waiting, consumerVars
  <2> QED BY <1>1, <2>1, <2>2, OthersAdds
<1> QED BY <1>2, <1>3, <1>4, <1>5 DEF Next

LEMMA AddsInductive ==
    ASSUME ~Slow, AutoAck,
           "PublishError" \notin Faults, "TimeoutError" \notin Faults, "TimeoutCrash" \notin Faults
    PROVE  Spec => []AddsIInv
<1>1. Init /\ IInv => AddsIInv
  <2> SUFFICES ASSUME Init, TypeOK PROVE AddsIInv
    BY DEF IInv
  <2>1. Len(log) = 0
    BY EmptySeq DEF Init, InitStore
  <2>2. \A m \in Msgs : AddsFor(m)
    BY <2>1, UnsentAdds DEF UnsentKeep, Sent
  <2>3. NoneErased
    BY DEF Init, InitPublisher, NoneErased
  <2> QED BY <2>2, <2>3 DEF AddsIInv
<1>2. IInv /\ IInv' /\ Custody /\ MetaUnsent /\ OneEntry /\ [Next]_vars /\ AddsIInv => AddsIInv'
  BY NextAdds, NoneErasedKept DEF IInv, AddsIInv
<1>3. Spec => Operating
  BY BothOperate
<1>4. Spec => []IInv
  BY Inductive
<1> QED BY <1>1, <1>2, <1>3, <1>4, HandsInductive, SentInductive, OneInductive, PTL DEF Spec

(***************************************************************************)
(* The retry budget in terms of the stream: with messages that deserialize *)
(* a message is put there once for each execution it may have, and once    *)
(* more for each fault of a worker or the death of a publisher.  One that  *)
(* does not deserialize is put there again and again.  Excluded are a      *)
(* failing publish, the catch block of which erases the count of a message *)
(* that is retried already, and deletion, which does the same; services    *)
(* that stop between the XADD and the XDEL, as one fault then costs the    *)
(* two entries one more each; late batches; and handlers without IsAutoAck,*)
(* whose messages come back although nothing failed.                       *)
(***************************************************************************)
THEOREM EntriesHold ==
    ASSUME ~Slow, AutoAck, Poison = {},
           "PublishError" \notin Faults, "TimeoutError" \notin Faults, "TimeoutCrash" \notin Faults
    PROVE  Spec => []EntriesBounded
<1>1. AddsIInv => EntriesBounded
  BY DEF AddsIInv, AddsFor, Adds, Added, Struck, EntriesBounded
<1> QED BY <1>1, AddsInductive, PTL
=============================================================================
