----------------------------- MODULE IndexProofs -----------------------------
(***************************************************************************)
(* The status index sets of Delivery partition the messages and agree with *)
(* the field Status of their hashes, whatever races for a message; and     *)
(* what of Delivery still holds while the cleanup and the dashboard write  *)
(* index sets and hashes too.                                              *)
(***************************************************************************)
EXTENDS DeliveryProofs, Operations

-----------------------------------------------------------------------------
(* Every step, as seen from the index and the hash *)

\* The messages ms are filed under the status to, in the index and the hash.
Filed(ms, to) ==
    /\ \A m \in Msgs, s \in Status :
          m \in index'[s] <=> (IF m \in ms THEN s = to ELSE m \in index[s])
    /\ \A m \in Msgs : hash'[m].status = IF m \in ms THEN to ELSE hash[m].status

\* The catch block of a publish call forgets the message.
Erased(m) ==
    /\ pub'[m] = "failed"
    /\ \A k \in Msgs, s \in Status : k \in index'[s] => k \in index[s]
    /\ \A k \in Msgs \ {m} : /\ \A s \in Status : k \in index'[s] <=> k \in index[s]
                             /\ hash'[k].status = hash[k].status

\* A publish call that has begun does not begin again, a failed one stays so.
PubOnward ==
    \A m \in Msgs : /\ pub'[m] = "new" => pub[m] = "new" /\ (Sent(m)' => Sent(m))
                    /\ pub[m] = "failed" => pub'[m] = "failed"

IndexStep ==
    /\ PubOnward
    /\ \/ \E ms \in SUBSET Msgs, to \in Status :
             (\A m \in ms : Sent(m) \/ pub'[m] # "new") /\ Filed(ms, to)
       \/ \E m \in Msgs : Erased(m)

\* What the index and the hash owe to a publish call that has not begun.
NewIsUnseen ==
    \A m \in Msgs : pub[m] = "new" => ~Sent(m) /\ \A s \in Status : m \notin index[s]

IndexIInv == NewIsUnseen /\ IndexExclusive /\ IndexMatchesHash

-----------------------------------------------------------------------------

LEMMA FiledByReindex ==
    ASSUME index \in [Status -> SUBSET Msgs], NEW ms \in SUBSET Msgs,
           NEW to \in Status, NEW from, Reindex(ms, from, to), from = Status \ {to},
           \A m \in Msgs : hash'[m].status = IF m \in ms THEN to ELSE hash[m].status
    PROVE  Filed(ms, to)
<1>1. \A s \in Status : index'[s] = IF s = to THEN index[s] \union ms ELSE index[s] \ ms
  <2>1. ASSUME NEW s \in Status, s # to PROVE index'[s] = index[s] \ ms
    <3>1. s \in from
      BY <2>1
    <3> QED BY <2>1, <3>1 DEF Reindex
  <2>2. index'[to] = index[to] \union ms
    BY DEF Reindex
  <2> QED BY <2>1, <2>2
<1> QED BY <1>1 DEF Filed

LEMMA NothingFiled ==
    ASSUME index' = index, \A m \in Msgs : hash'[m].status = hash[m].status, PubOnward
    PROVE  IndexStep
<1>1. Filed({}, "Pending") /\ "Pending" \in Status
  BY DEF Filed, Status
<1> QED BY <1>1 DEF IndexStep

\* A step that leaves the publish calls and the log alone.
LEMMA PubStays ==
    ASSUME pub' = pub, log' = log
    PROVE  PubOnward
BY DEF PubOnward, Sent

LEMMA PublishingIndex ==
    ASSUME TypeOK, NewIsUnseen, NEW m \in Msgs, Publishing(m)
    PROVE  IndexStep
<1>1. /\ hash \in [Msgs -> Hash] /\ index \in [Status -> SUBSET Msgs]
      /\ pub \in [Msgs -> PubStates]
  BY DEF TypeOK, StoreTypeOK, PublisherTypeOK
<1>2. UNCHANGED streamVars => log' = log
  BY DEF streamVars
<1>3. UNCHANGED metaVars => hash' = hash /\ index' = index
  BY DEF metaVars
<1>4. ASSUME log' = log, NEW pc \in {"meta", "done", "failed", "cleanup", "crashed"},
             Goto(m, pc), pub[m] = "failed" => pc = "failed"
      PROVE  PubOnward
  BY <1>1, <1>4 DEF Goto, PubOnward, Sent
<1>5. ASSUME XAdd(m), NEW pc \in {"added", "cleanup"}, Goto(m, pc), pub[m] = "meta"
      PROVE  PubOnward
  <2>1. StreamOK /\ Len(log) \in Nat
    BY StreamType
  <2>2. /\ Len(log') = Len(log) + 1 /\ log'[Len(log) + 1] = m
        /\ \A i \in 1 .. Len(log) : log'[i] = log[i]
    BY <1>5, <2>1, XAddFacts
  <2>3. \A k \in Msgs : k # m /\ Sent(k)' => Sent(k)
    BY <2>1, <2>2 DEF Sent
  <2>4. pub'[m] # "new" /\ \A k \in Msgs \ {m} : pub'[k] = pub[k]
    BY <1>1, <1>5 DEF Goto
  <2> QED BY <1>5, <2>3, <2>4 DEF PubOnward
<1>6. ASSUME WriteMeta(m), pub[m] = "new", pub'[m] # "new", PubOnward
      PROVE  IndexStep
  <2>1. \A s \in Status : /\ m \notin index[s]
                          /\ index'[s] = IF s = "Pending" THEN index[s] \union {m} ELSE index[s]
    BY <1>1, <1>6 DEF WriteMeta, Reindex, NewIsUnseen
  <2>2. \A k \in Msgs : hash'[k].status = IF k = m THEN "Pending" ELSE hash[k].status
    BY <1>1, <1>6 DEF WriteMeta
  <2>3. Filed({m}, "Pending")
    BY <2>1, <2>2 DEF Filed
  <2>4. "Pending" \in Status /\ {m} \in SUBSET Msgs
    BY DEF Status
  <2> QED BY <1>6, <2>3, <2>4 DEF IndexStep
<1>7. ASSUME WriteId(m)
      PROVE  log' = log /\ index' = index /\ \A k \in Msgs : hash'[k].status = hash[k].status
  BY <1>1, <1>2, <1>7 DEF WriteId, Hash
<1>8. \A pc \in PubStates : Goto(m, pc) => pub'[m] = pc
  BY <1>1 DEF Goto
<1>a. CASE PublishMeta(m)
  <2>1. WriteMeta(m) /\ pub[m] = "new" /\ Goto(m, "meta") /\ log' = log
    BY <1>2, <1>a DEF PublishMeta, WriteMeta
  <2>2. PubOnward
    BY <1>4, <2>1
  <2>3. pub'[m] # "new"
    BY <1>8, <2>1 DEF PubStates
  <2> QED BY <1>6, <2>1, <2>2, <2>3
<1>b. CASE PublishMetaError(m)
  <2>1. Goto(m, "failed") /\ pub[m] = "new" /\ log' = log
    BY <1>2, <1>b DEF PublishMetaError, WriteMeta
  <2>2. PubOnward
    BY <1>4, <2>1
  <2>3. pub'[m] # "new"
    BY <1>8, <2>1 DEF PubStates
  <2>4. WriteMeta(m) \/ UNCHANGED metaVars
    BY <1>b DEF PublishMetaError
  <2> QED BY <1>3, <1>6, <2>1, <2>2, <2>3, <2>4, NothingFiled
<1>c. CASE PublishXAdd(m)
  BY <1>3, <1>5, <1>c, NothingFiled DEF PublishXAdd
<1>d. CASE PublishXAddError(m)
  <2>1. Goto(m, "cleanup") /\ pub[m] = "meta" /\ hash' = hash /\ index' = index
    BY <1>3, <1>d DEF PublishXAddError
  <2>2. XAdd(m) \/ log' = log
    BY <1>2, <1>d DEF PublishXAddError
  <2>3. PubOnward
    BY <1>4, <1>5, <2>1, <2>2
  <2> QED BY <2>1, <2>3, NothingFiled
<1>e. CASE PublishFinish(m)
  <2>1. Goto(m, "done") /\ pub[m] = "added"
    BY <1>e DEF PublishFinish
  <2>2. log' = log /\ index' = index /\ \A k \in Msgs : hash'[k].status = hash[k].status
    BY <1>7, <1>e DEF PublishFinish
  <2> QED BY <1>4, <2>1, <2>2, NothingFiled
<1>f. CASE PublishFinishError(m)
  <2>1. Goto(m, "cleanup") /\ pub[m] = "added"
    BY <1>f DEF PublishFinishError
  <2>2. log' = log /\ index' = index /\ \A k \in Msgs : hash'[k].status = hash[k].status
    BY <1>2, <1>3, <1>7, <1>f DEF PublishFinishError
  <2> QED BY <1>4, <2>1, <2>2, NothingFiled
<1>g. CASE PublisherCrash(m)
  <2>1. Goto(m, "crashed") /\ pub[m] \in {"meta", "added", "cleanup"}
    BY <1>g DEF PublisherCrash
  <2>2. log' = log /\ hash' = hash /\ index' = index
    BY <1>2, <1>3, <1>g DEF PublisherCrash
  <2> QED BY <1>4, <2>1, <2>2, NothingFiled
<1>h. CASE PublishCleanup(m)
  <2>1. /\ Goto(m, "failed") /\ log' = log /\ hash' = [hash EXCEPT ![m] = NoHash]
        /\ index' = [index EXCEPT !["Pending"] = @ \ {m}]
    BY <1>2, <1>h DEF PublishCleanup
  <2>2. PubOnward
    BY <1>4, <2>1
  <2>3. \A s \in Status : index'[s] = IF s = "Pending" THEN index[s] \ {m} ELSE index[s]
    BY <1>1, <2>1
  <2>4. \A k \in Msgs \ {m} : hash'[k].status = hash[k].status
    BY <1>1, <2>1
  <2>5. Erased(m)
    BY <1>8, <2>1, <2>3, <2>4 DEF Erased, PubStates
  <2> QED BY <2>2, <2>5 DEF IndexStep
<1> QED BY <1>a, <1>b, <1>c, <1>d, <1>e, <1>f, <1>g, <1>h
        DEF Publishing, PublisherStep, PublisherFault

\* One message of an entry is filed under a status.
LEMMA OneFiled ==
    ASSUME TypeOK, PubOnward, NEW e \in 1 .. Len(log), log[e] \in Msgs, NEW to \in Status,
           NEW from, Reindex({log[e]}, from, to), from = Status \ {to},
           \A m \in Msgs : hash'[m].status = IF m = log[e] THEN to ELSE hash[m].status
    PROVE  IndexStep
<1>1. index \in [Status -> SUBSET Msgs]
  BY DEF TypeOK, StoreTypeOK
<1>2. Filed({log[e]}, to)
  BY <1>1, FiledByReindex
<1>3. Sent(log[e])
  BY DEF Sent
<1> QED BY <1>2, <1>3 DEF IndexStep

LEMMA ConsumingIndex ==
    ASSUME TypeOK, OwnAck, NEW w \in Workers, Consuming(w)
    PROVE  IndexStep
<1>1. hash \in [Msgs -> Hash] /\ index \in [Status -> SUBSET Msgs]
  BY DEF TypeOK, StoreTypeOK
<1>2. UNCHANGED streamVars => log' = log
  BY DEF streamVars
<1>3. UNCHANGED metaVars => hash' = hash /\ index' = index
  BY DEF metaVars
<1>4. batch[w] # {} => /\ Current(w) \in 1 .. Len(log)
                       /\ Message(w) = log[Current(w)] /\ Message(w) \in Msgs
  BY CurrentInBatch DEF Message
<1>5. wpc[w] # "loop" => batch[w] # {}
  BY DEF TypeOK, ConsumerTypeOK
<1>6. \A es : XAckDel(es) => log' = log
  BY DEF XAckDel
<1>7. log' = log => PubOnward
  BY PubStays DEF Consuming, publisherVars
<1>8. ASSUME log' = log, batch[w] # {}, NEW to \in Status, NEW from,
             Reindex({Message(w)}, from, to), from = Status \ {to},
             \A m \in Msgs : hash'[m].status = IF m = Message(w) THEN to ELSE hash[m].status
      PROVE  IndexStep
  BY <1>4, <1>7, <1>8, OneFiled
<1>9. ASSUME log' = log, NEW ms \in SUBSET Msgs, Complete(ms), \A m \in ms : Sent(m)
      PROVE  IndexStep
  <2>1. \A m \in Msgs : hash'[m].status = IF m \in ms THEN "Completed" ELSE hash[m].status
    BY <1>1, <1>9 DEF Complete, SetStatus, Hash
  <2>2. /\ Reindex(ms, {"Pending", "Processing", "Retrying", "Failed"}, "Completed")
        /\ "Completed" \in Status
        /\ {"Pending", "Processing", "Retrying", "Failed"} = Status \ {"Completed"}
    BY <1>9 DEF Complete, Status
  <2>3. Filed(ms, "Completed")
    BY <1>1, <2>1, <2>2, FiledByReindex
  <2> QED BY <1>7, <1>9, <2>2, <2>3 DEF IndexStep
<1>a. CASE Read(w) \/ ReadLost(w)
  BY <1>3, <1>7, <1>a, NothingFiled DEF Read, ReadLost, Deliver
<1>b. CASE \/ ResolveError(w) \/ BadPayload(w) \/ BeginError(w) \/ AckResolve(w) \/ Throw(w)
           \/ ReadAttempts(w) \/ ErrorLost(w) \/ WorkerCrash(w)
  BY <1>2, <1>3, <1>7, <1>b, NothingFiled
     DEF ResolveError, BadPayload, BeginError, AckResolve, Throw, ReadAttempts, ErrorLost, WorkerCrash
<1>c. CASE Begin(w)
  <2>1. /\ batch[w] # {} /\ log' = log
        /\ Reindex({Message(w)}, {"Pending", "Retrying", "Failed", "Completed"}, "Processing")
    BY <1>2, <1>c DEF Begin
  <2>2. \A m \in Msgs : hash'[m].status = IF m = Message(w) THEN "Processing" ELSE hash[m].status
    BY <1>1, <1>4, <2>1, <1>c DEF Begin, Hash
  <2>3. "Processing" \in Status
        /\ {"Pending", "Retrying", "Failed", "Completed"} = Status \ {"Processing"}
    BY DEF Status
  <2> QED BY <1>8, <2>1, <2>2, <2>3
<1>d. CASE Retry(w)
  <2>1. /\ batch[w] # {} /\ log' = log
        /\ Reindex({Message(w)}, {"Pending", "Processing", "Completed", "Failed"}, "Retrying")
    BY <1>2, <1>5, <1>d DEF Retry
  <2>2. \A m \in Msgs : hash'[m].status = IF m = Message(w) THEN "Retrying" ELSE hash[m].status
    BY <1>1, <1>4, <2>1, <1>d DEF Retry, Hash
  <2>3. "Retrying" \in Status
        /\ {"Pending", "Processing", "Completed", "Failed"} = Status \ {"Retrying"}
    BY DEF Status
  <2> QED BY <1>8, <2>1, <2>2, <2>3
<1>e. CASE GiveUp(w)
  <2>1. /\ batch[w] # {} /\ log' = log
        /\ Reindex({Message(w)}, {"Pending", "Processing", "Completed", "Retrying"}, "Failed")
    BY <1>5, <1>6, <1>e DEF GiveUp
  <2>2. \A m \in Msgs : hash'[m].status = IF m = Message(w) THEN "Failed" ELSE hash[m].status
    BY <1>1, <1>4, <2>1, <1>e DEF GiveUp, Hash
  <2>3. "Failed" \in Status
        /\ {"Pending", "Processing", "Completed", "Retrying"} = Status \ {"Failed"}
    BY DEF Status
  <2> QED BY <1>8, <2>1, <2>2, <2>3
<1>f. ASSUME SettleExec(w), wpc[w] = "exec"  PROVE IndexStep
  <2>1. log' = log /\ Complete({Message(w)})
    BY <1>6, <1>f DEF SettleExec
  <2>2. Message(w) \in Msgs /\ Sent(Message(w))
    BY <1>4, <1>5, <1>f DEF Sent
  <2> QED BY <1>9, <2>1, <2>2
<1>g. ASSUME AckExec(w)  PROVE IndexStep
  <2> DEFINE ms == {r.msg : r \in ack[w]}
  <2>1. log' = log /\ Complete(ms)
    BY <1>6, <1>g DEF AckExec
  <2>2. \A r \in ack[w] : r.msg \in Msgs /\ r.id \in 1 .. Len(log) /\ log[r.id] = r.msg
    BY DEF OwnAck, TypeOK, ConsumerTypeOK
  <2>3. ms \in SUBSET Msgs /\ \A m \in ms : Sent(m)
    BY <2>2 DEF Sent
  <2> HIDE DEF ms
  <2> QED BY <1>9, <2>1, <2>3
<1>h. CASE Return(w) \/ ReturnError(w)
  BY <1>2, <1>3, <1>7, <1>f, <1>h, NothingFiled DEF Return, ReturnError
<1>i. CASE AckCommit(w) \/ AckError(w)
  BY <1>2, <1>3, <1>7, <1>g, <1>i, NothingFiled DEF AckCommit, AckError
<1> QED BY <1>a, <1>b, <1>c, <1>d, <1>e, <1>h, <1>i
        DEF Consuming, WorkerStep, HandlerChoice, WorkerFault

LEMMA RecoveringIndex ==
    ASSUME TypeOK, NEW s \in Servers, Recovering(s)
    PROVE  IndexStep
<1>1. hash \in [Msgs -> Hash] /\ index \in [Status -> SUBSET Msgs]
  BY DEF TypeOK, StoreTypeOK
<1>2. UNCHANGED streamVars => log' = log
  BY DEF streamVars
<1>3. UNCHANGED metaVars => hash' = hash /\ index' = index
  BY DEF metaVars
<1>4. tpc[s] \in {"giveup", "republish", "commit"} =>
         Entry(s) \in 1 .. Len(log) /\ log[Entry(s)] \in Msgs
  BY EntryInClaimed DEF TypeOK, TimeoutTypeOK
<1>5. pub' = pub
  BY DEF Recovering, publisherVars
<1>6. log' = log => PubOnward
  BY <1>5, PubStays
<1>7. \A es : XAckDel(es) => log' = log
  BY DEF XAckDel
<1>a. CASE AcquireLock(s) \/ ScanPage(s) \/ Inspect(s) \/ Unlock(s) \/ Claim(s)
  BY <1>2, <1>3, <1>6, <1>a, NothingFiled DEF AcquireLock, ScanPage, Inspect, Unlock, Claim
<1>b. CASE TimeoutError(s) \/ TimeoutCrash(s)
  BY <1>2, <1>3, <1>6, <1>b, NothingFiled DEF TimeoutError, TimeoutCrash, Drop
<1>c. CASE Republish(s)
  <2>1. /\ XAdd(log[Entry(s)]) /\ hash' = hash /\ index' = index
        /\ Entry(s) \in 1 .. Len(log) /\ log[Entry(s)] \in Msgs
    BY <1>3, <1>4, <1>c DEF Republish
  <2>2. StreamOK /\ Len(log) \in Nat
    BY StreamType
  <2>3. /\ Len(log') = Len(log) + 1 /\ log'[Len(log) + 1] = log[Entry(s)]
        /\ \A i \in 1 .. Len(log) : log'[i] = log[i]
    BY <2>1, <2>2, XAddFacts
  <2>4. \A k \in Msgs : Sent(k)' => Sent(k)
    BY <2>1, <2>2, <2>3 DEF Sent
  <2>5. PubOnward
    BY <1>5, <2>4 DEF PubOnward
  <2> QED BY <2>1, <2>5, NothingFiled
<1>d. CASE RepublishCommit(s)
  <2>1. /\ Entry(s) \in 1 .. Len(log) /\ log[Entry(s)] \in Msgs /\ log' = log
        /\ Reindex({log[Entry(s)]}, {"Processing", "Retrying", "Failed", "Completed"}, "Pending")
    BY <1>4, <1>7, <1>d DEF RepublishCommit
  <2>2. \A m \in Msgs : hash'[m].status = IF m = log[Entry(s)] THEN "Pending" ELSE hash[m].status
    BY <1>1, <2>1, <1>d DEF RepublishCommit, Hash
  <2>3. "Pending" \in Status
        /\ {"Processing", "Retrying", "Failed", "Completed"} = Status \ {"Pending"}
    BY DEF Status
  <2> QED BY <1>6, <2>1, <2>2, <2>3, OneFiled
<1>e. CASE FailCommit(s)
  <2>1. /\ Entry(s) \in 1 .. Len(log) /\ log[Entry(s)] \in Msgs /\ log' = log
        /\ Reindex({log[Entry(s)]}, {"Pending", "Processing", "Retrying", "Completed"}, "Failed")
    BY <1>4, <1>7, <1>e DEF FailCommit
  <2>2. \A m \in Msgs : hash'[m].status = IF m = log[Entry(s)] THEN "Failed" ELSE hash[m].status
    BY <1>1, <2>1, <1>e DEF FailCommit, SetStatus, Hash
  <2>3. "Failed" \in Status
        /\ {"Pending", "Processing", "Retrying", "Completed"} = Status \ {"Failed"}
    BY DEF Status
  <2> QED BY <1>6, <2>1, <2>2, <2>3, OneFiled
<1> QED BY <1>a, <1>b, <1>c, <1>d, <1>e DEF Recovering, TimeoutStep, TimeoutFault

LEMMA NextIndexStep == IInv /\ NewIsUnseen /\ [Next]_vars => IndexStep
<1> SUFFICES ASSUME TypeOK, OwnAck, NewIsUnseen, [Next]_vars PROVE IndexStep
  BY DEF IInv
<1>1. ASSUME NEW m \in Msgs, Publishing(m) PROVE IndexStep
  BY <1>1, PublishingIndex
<1>2. ASSUME NEW w \in Workers, Consuming(w) PROVE IndexStep
  BY <1>2, ConsumingIndex
<1>3. ASSUME NEW s \in Servers, Recovering(s) PROVE IndexStep
  BY <1>3, RecoveringIndex
<1>4. ASSUME UNCHANGED metaVars, log' = log, UNCHANGED publisherVars PROVE IndexStep
  BY <1>4, PubStays, NothingFiled DEF metaVars, publisherVars
<1>5. CASE Passing \/ UNCHANGED vars
  BY <1>4, <1>5 DEF Passing, Elapse, LockExpires, vars, streamVars
<1> QED BY <1>1, <1>2, <1>3, <1>5 DEF Next

-----------------------------------------------------------------------------

LEMMA IndexStepKeeps ==
    ASSUME IndexIInv, IndexStep
    PROVE  IndexIInv'
<1>1. CASE \E m \in Msgs : Erased(m)
  <2>1. PICK m \in Msgs : Erased(m)
    BY <1>1
  <2>2. NewIsUnseen'
    BY <2>1 DEF IndexIInv, NewIsUnseen, IndexStep, PubOnward, Erased
  <2>3. IndexExclusive'
    BY <2>1 DEF IndexIInv, IndexExclusive, Erased
  <2>4. IndexMatchesHash'
    BY <2>1 DEF IndexIInv, IndexMatchesHash, IndexStep, PubOnward, Erased
  <2> QED BY <2>2, <2>3, <2>4 DEF IndexIInv
<1>2. ASSUME NEW ms \in SUBSET Msgs, NEW to \in Status, Filed(ms, to),
             \A m \in ms : Sent(m) \/ pub'[m] # "new"
      PROVE  IndexIInv'
  <2>1. NewIsUnseen'
    BY <1>2 DEF IndexIInv, NewIsUnseen, IndexStep, PubOnward, Filed
  <2>2. IndexExclusive'
    BY <1>2 DEF IndexIInv, IndexExclusive, Filed
  <2>3. IndexMatchesHash'
    BY <1>2 DEF IndexIInv, IndexMatchesHash, IndexStep, PubOnward, Filed
  <2> QED BY <2>1, <2>2, <2>3 DEF IndexIInv
<1> QED BY <1>1, <1>2 DEF IndexStep

LEMMA InitIndex == Init => IndexIInv
<1> SUFFICES ASSUME Init PROVE IndexIInv
  OBVIOUS
<1>1. Len(log) = 0
  BY EmptySeq DEF Init, InitStore
<1>2. \A m \in Msgs, s \in Status : m \notin index[s] /\ hash[m].status # s
  BY DEF Init, InitStore, NoHash, Status
<1> QED BY <1>1, <1>2 DEF IndexIInv, NewIsUnseen, IndexExclusive, IndexMatchesHash, Sent

LEMMA IndexInductive == Spec => []IndexIInv
<1>1. IInv /\ [Next]_vars /\ IndexIInv => IndexIInv'
  BY NextIndexStep, IndexStepKeeps DEF IndexIInv
<1> QED BY <1>1, InitIndex, Inductive, PTL DEF Spec

(***************************************************************************)
(* No message is in two status index sets, whichever workers, services and *)
(* publish calls write its status in whatever order.                       *)
(***************************************************************************)
THEOREM StatusesExclude == Spec => []IndexExclusive
<1>1. IndexIInv => IndexExclusive
  BY DEF IndexIInv
<1> QED BY <1>1, IndexInductive, PTL

(***************************************************************************)
(* The index the dashboard lists and the hash it shows agree on the status *)
(* of every message whose publish has not failed.                          *)
(***************************************************************************)
THEOREM StatusesAgree == Spec => []IndexMatchesHash
<1>1. IndexIInv => IndexMatchesHash
  BY DEF IndexIInv
<1> QED BY <1>1, IndexInductive, PTL

-----------------------------------------------------------------------------
(* When a message is Failed *)

Spent(m) == hash[m].type = "None" \/ hash[m].execs > Attempts

FailedSpent == \A m \in Msgs : hash[m].status = "Failed" => Spent(m)

\* Who is about to write Failed has read a count that still holds.
WorkersSpent  == \A w \in Workers : wpc[w] = "giveup" => Spent(Message(w))
ServicesSpent == \A s \in Servers : tpc[s] = "giveup" => Spent(log[Entry(s)])

SpentIInv == FailedSpent /\ WorkersSpent /\ ServicesSpent

\* The count of a message in the stream never falls while its hash exists.
Counted == \A m \in Msgs : Sent(m) /\ Spent(m) => Spent(m)'

\* The hash of a message only ages, unless it is dropped.
Aged(k) ==
    \/ hash'[k].type = "None"
    \/ hash'[k].type = hash[k].type /\ hash[k].execs <= hash'[k].execs

LEMMA AgedKeeps ==
    ASSUME TypeOK, TypeOK', FailedSpent, \A k \in Msgs : Aged(k),
           \A k \in Msgs : hash'[k].status = "Failed" => hash[k].status = "Failed" \/ Spent(k)
    PROVE  Counted /\ FailedSpent'
<1>1. Attempts \in Nat /\ \A k \in Msgs : hash[k].execs \in Nat /\ hash'[k].execs \in Nat
  BY StoreAssumption DEF TypeOK, StoreTypeOK, Hash
<1>2. ASSUME NEW k \in Msgs, Spent(k)  PROVE Spent(k)'
  <2>1. Aged(k)
    OBVIOUS
  <2> QED BY <1>1, <1>2, <2>1 DEF Aged, Spent
<1>3. Counted
  BY <1>2 DEF Counted
<1>4. FailedSpent'
  BY <1>2 DEF FailedSpent
<1> QED BY <1>3, <1>4

\* A worker and a service that stand still are about to write what they were.
LEMMA WorkerFrame ==
    ASSUME TypeOK, WorkersSpent, Counted, Grows, NEW w \in Workers,
           wpc'[w] = wpc[w], batch'[w] = batch[w], wpc[w] = "giveup"
    PROVE  Spent(Message(w))'
<1>1. batch[w] # {}
  BY DEF TypeOK, ConsumerTypeOK
<1>2. Current(w) \in 1 .. Len(log) /\ Message(w) \in Msgs /\ Message(w) = log[Current(w)]
  BY <1>1, CurrentInBatch DEF Message
<1>3. Current(w)' = Current(w)
  BY DEF Current
<1>4. log'[Current(w)] = log[Current(w)]
  BY <1>2 DEF Grows
<1>5. Sent(Message(w)) /\ Spent(Message(w))
  BY <1>2 DEF Sent, WorkersSpent
<1>6. \A k \in Msgs : k = Message(w) => Spent(k)'
  BY <1>5 DEF Counted
<1>7. Message(w)' = Message(w)
  BY <1>2, <1>3, <1>4 DEF Message
<1> QED BY <1>2, <1>6, <1>7 DEF Spent

LEMMA ServiceFrame ==
    ASSUME TypeOK, ServicesSpent, Counted, Grows, NEW s \in Servers,
           tpc'[s] = tpc[s], claimed'[s] = claimed[s], tpc[s] = "giveup"
    PROVE  Spent(log[Entry(s)])'
<1>1. claimed[s] # {}
  BY DEF TypeOK, TimeoutTypeOK
<1>2. Entry(s) \in 1 .. Len(log) /\ log[Entry(s)] \in Msgs
  BY <1>1, EntryInClaimed
<1>3. Entry(s)' = Entry(s)
  BY DEF Entry
<1>4. log'[Entry(s)] = log[Entry(s)]
  BY <1>2 DEF Grows
<1>5. Sent(log[Entry(s)]) /\ Spent(log[Entry(s)])
  BY <1>2 DEF Sent, ServicesSpent
<1>6. \A k \in Msgs : k = log[Entry(s)] => Spent(k)'
  BY <1>5 DEF Counted
<1> QED BY <1>2, <1>3, <1>4, <1>6 DEF Spent

LEMMA SpentFrames ==
    ASSUME TypeOK, Counted, Grows
    PROVE  /\ WorkersSpent /\ UNCHANGED consumerVars => WorkersSpent'
           /\ ServicesSpent /\ UNCHANGED timeoutVars => ServicesSpent'
BY WorkerFrame, ServiceFrame DEF WorkersSpent, ServicesSpent, consumerVars, timeoutVars

LEMMA PublishingSpent ==
    ASSUME TypeOK, TypeOK', Grows, NewIsUnseen, SpentIInv, NEW m \in Msgs, Publishing(m)
    PROVE  SpentIInv'
<1>1. UNCHANGED consumerVars /\ UNCHANGED timeoutVars
  BY DEF Publishing
<1>2. hash \in [Msgs -> Hash]
  BY DEF TypeOK, StoreTypeOK
<1>3. FailedSpent
  BY DEF SpentIInv
<1>4. ASSUME WriteMeta(m), pub[m] = "new"
      PROVE  Counted /\ FailedSpent'
  <2>1. /\ \A k \in Msgs \ {m} : hash'[k] = hash[k]
        /\ hash'[m].status = "Pending" /\ ~Sent(m)
    BY <1>2, <1>4 DEF WriteMeta, NewIsUnseen
  <2> QED BY <1>3, <2>1 DEF Counted, FailedSpent, Spent
<1>5. ASSUME UNCHANGED hash \/ WriteId(m) \/ hash' = [hash EXCEPT ![m] = NoHash]
      PROVE  Counted /\ FailedSpent'
  <2>1. \A k \in Msgs : \/ /\ hash'[k].type = hash[k].type /\ hash'[k].execs = hash[k].execs
                           /\ hash'[k].status = hash[k].status
                        \/ hash'[k].type = "None" /\ hash'[k].status = "None"
    BY <1>2, <1>5 DEF WriteId, NoHash, Hash
  <2> QED BY <1>3, <2>1 DEF Counted, FailedSpent, Spent
<1>6. Counted /\ FailedSpent'
  BY <1>4, <1>5
     DEF Publishing, PublisherStep, PublisherFault, PublishMeta, PublishXAdd, PublishFinish,
         PublishCleanup, PublishMetaError, PublishXAddError, PublishFinishError, PublisherCrash, metaVars
<1> QED BY <1>1, <1>6, SpentFrames DEF SpentIInv

LEMMA ConsumingSpent ==
    ASSUME TypeOK, TypeOK', Grows, SpentIInv, NEW w \in Workers, Consuming(w)
    PROVE  SpentIInv'
<1>1. UNCHANGED timeoutVars
  BY DEF Consuming
<1>2. /\ hash \in [Msgs -> Hash] /\ wpc \in [Workers -> WorkerStates]
      /\ \A k \in Msgs : hash[k].execs \in Nat
  BY DEF TypeOK, StoreTypeOK, ConsumerTypeOK, Hash
<1>3. FailedSpent /\ WorkersSpent
  BY DEF SpentIInv
<1>4. wpc[w] # "loop" => batch[w] # {}
  BY DEF TypeOK, ConsumerTypeOK
<1>5. batch[w] # {} => Message(w) \in Msgs
  BY CurrentInBatch
<1>6. ASSUME hash' = hash  PROVE \A k \in Msgs : Aged(k) /\ hash'[k].status = hash[k].status
  BY <1>2, <1>6 DEF Aged
<1>7. ASSUME NEW ms, SetStatus(ms, "Completed")
      PROVE  \A k \in Msgs : Aged(k) /\ (hash'[k].status = "Failed" => hash[k].status = "Failed")
  BY <1>2, <1>7 DEF SetStatus, Aged, Hash
<1>8. \A k \in Msgs : Aged(k) /\ (hash'[k].status = "Failed" => hash[k].status = "Failed" \/ Spent(k))
  <2>1. CASE UNCHANGED hash
    BY <1>6, <2>1
  <2>2. CASE Begin(w) \/ Retry(w)
    <3>1. Message(w) \in Msgs
      BY <1>4, <1>5, <2>2 DEF Begin, Retry
    <3> QED BY <1>2, <2>2, <3>1 DEF Begin, Retry, Aged, Hash
  <2>3. CASE GiveUp(w)
    <3>1. Message(w) \in Msgs /\ Spent(Message(w))
      BY <1>3, <1>4, <1>5, <2>3 DEF GiveUp, WorkersSpent
    <3> QED BY <1>2, <2>3, <3>1 DEF GiveUp, Aged, Hash
  <2>4. CASE \E ms : SetStatus(ms, "Completed")
    BY <1>7, <2>4
  <2> QED BY <2>1, <2>2, <2>3, <2>4
          DEF Consuming, WorkerStep, HandlerChoice, WorkerFault, Read, ReadLost, ResolveError,
              BadPayload, BeginError, AckResolve, AckCommit, AckError, AckExec, Return, ReturnError,
              SettleExec, Complete, Throw, ReadAttempts, ErrorLost, WorkerCrash, metaVars
<1>9. Counted /\ FailedSpent'
  BY <1>3, <1>8, AgedKeeps
<1>10. ASSUME NEW v \in Workers, wpc'[v] = "giveup"  PROVE Spent(Message(v))'
  <2>1. CASE v # w
    <3>1. wpc'[v] = wpc[v] /\ batch'[v] = batch[v]
      BY <2>1
         DEF Consuming, WorkerStep, HandlerChoice, WorkerFault, Read, ReadLost, ResolveError,
             BadPayload, Begin, BeginError, AckResolve, AckCommit, AckError, Return, ReturnError,
             Throw, ReadAttempts, Retry, GiveUp, ErrorLost, WorkerCrash, WGoto, NextEntry, consumerVars,
             TypeOK, ConsumerTypeOK
    <3> QED BY <1>3, <1>9, <1>10, <3>1, WorkerFrame
  <2>2. CASE v = w
    <3>1. ReadAttempts(w) \/ (wpc'[w] = wpc[w] /\ batch'[w] = batch[w])
      BY <1>2, <1>10, <2>2
         DEF Consuming, WorkerStep, HandlerChoice, WorkerFault, Read, ReadLost, ResolveError,
             BadPayload, Begin, BeginError, AckResolve, AckCommit, AckError, Return, ReturnError,
             Throw, Retry, GiveUp, ErrorLost, WorkerCrash, WGoto, NextEntry, consumerVars
    <3>2. CASE ReadAttempts(w)
      <4>1. hash' = hash /\ log' = log /\ batch' = batch /\ hash[Message(w)].execs > Attempts
        BY <1>2, <1>10, <2>2, <3>2 DEF ReadAttempts, WGoto, metaVars, streamVars
      <4> QED BY <2>2, <4>1 DEF Spent, Message, Current
    <3>3. CASE wpc'[w] = wpc[w] /\ batch'[w] = batch[w]
      BY <1>3, <1>9, <1>10, <2>2, <3>3, WorkerFrame
    <3> QED BY <3>1, <3>2, <3>3
  <2> QED BY <2>1, <2>2
<1> QED BY <1>1, <1>9, <1>10, SpentFrames DEF SpentIInv, WorkersSpent

LEMMA RecoveringSpent ==
    ASSUME TypeOK, TypeOK', Grows, SpentIInv, NEW s \in Servers, Recovering(s)
    PROVE  SpentIInv'
<1>1. UNCHANGED consumerVars
  BY DEF Recovering
<1>2. /\ hash \in [Msgs -> Hash] /\ tpc \in [Servers -> TaskStates]
      /\ \A k \in Msgs : hash[k].execs \in Nat
  BY DEF TypeOK, StoreTypeOK, TimeoutTypeOK, Hash
<1>3. FailedSpent /\ ServicesSpent
  BY DEF SpentIInv
<1>4. tpc[s] \in {"giveup", "commit"} => log[Entry(s)] \in Msgs
  BY EntryInClaimed DEF TypeOK, TimeoutTypeOK
<1>5. \A k \in Msgs : Aged(k) /\ (hash'[k].status = "Failed" => hash[k].status = "Failed" \/ Spent(k))
  <2>1. CASE UNCHANGED hash
    BY <1>2, <2>1 DEF Aged
  <2>2. CASE RepublishCommit(s)
    BY <1>2, <1>4, <2>2 DEF RepublishCommit, Aged, Hash
  <2>3. CASE FailCommit(s)
    <3>1. Spent(log[Entry(s)])
      BY <1>3, <2>3 DEF FailCommit, ServicesSpent
    <3> QED BY <1>2, <1>4, <2>3, <3>1 DEF FailCommit, SetStatus, Aged, Hash
  <2> QED BY <2>1, <2>2, <2>3
          DEF Recovering, TimeoutStep, TimeoutFault, AcquireLock, ScanPage, Claim, Inspect,
              Republish, Unlock, TimeoutError, TimeoutCrash, Drop, metaVars
<1>6. Counted /\ FailedSpent'
  BY <1>3, <1>5, AgedKeeps
<1>7. ASSUME NEW u \in Servers, tpc'[u] = "giveup"  PROVE Spent(log[Entry(u)])'
  <2>1. CASE u # s
    <3>1. tpc'[u] = tpc[u] /\ claimed'[u] = claimed[u]
      BY <2>1
         DEF Recovering, TimeoutStep, TimeoutFault, AcquireLock, ScanPage, Claim, Inspect, FailCommit,
             Republish, RepublishCommit, Unlock, TimeoutError, TimeoutCrash, Drop, NextClaimed, TGoto,
             TypeOK, TimeoutTypeOK
    <3> QED BY <1>3, <1>6, <1>7, <3>1, ServiceFrame
  <2>2. CASE u = s
    <3>1. Inspect(s)
      BY <1>2, <1>7, <2>2
         DEF Recovering, TimeoutStep, TimeoutFault, AcquireLock, ScanPage, Claim, FailCommit,
             Republish, RepublishCommit, Unlock, TimeoutError, TimeoutCrash, NextClaimed, TGoto
    <3>2. hash' = hash /\ log' = log /\ claimed' = claimed /\ hash[log[Entry(s)]].execs > Attempts
      BY <1>2, <1>7, <2>2, <3>1 DEF Inspect, TGoto, metaVars, streamVars
    <3> QED BY <2>2, <3>2 DEF Spent, Entry
  <2> QED BY <2>1, <2>2
<1> QED BY <1>1, <1>6, <1>7, SpentFrames DEF SpentIInv, ServicesSpent

LEMMA NextSpent ==
    ASSUME IInv, IInv', NewIsUnseen, SpentIInv, StreamStep, [Next]_vars
    PROVE  SpentIInv'
<1>1. TypeOK /\ TypeOK' /\ Grows
  BY StreamGrows DEF IInv
<1>2. ASSUME hash' = hash, UNCHANGED consumerVars, UNCHANGED tpc, UNCHANGED claimed
      PROVE  SpentIInv'
  <2>1. Counted /\ FailedSpent'
    BY <1>2 DEF SpentIInv, FailedSpent, Counted, Spent
  <2>2. WorkersSpent'
    BY <1>1, <1>2, <2>1, SpentFrames DEF SpentIInv
  <2>3. ServicesSpent'
    BY <1>1, <1>2, <2>1, ServiceFrame DEF SpentIInv, ServicesSpent
  <2> QED BY <2>1, <2>2, <2>3 DEF SpentIInv
<1>3. CASE Passing \/ UNCHANGED vars
  BY <1>2, <1>3 DEF Passing, Elapse, LockExpires, vars, metaVars, timeoutVars
<1> QED BY <1>1, <1>3, PublishingSpent, ConsumingSpent, RecoveringSpent DEF Next

(***************************************************************************)
(* A message is Failed only after more executions than                     *)
(* AutomaticRetryAttempts, for every value of that option: the count that  *)
(* a worker or a service read before it writes Failed still holds then,    *)
(* whoever executes the message in between.                                *)
(***************************************************************************)
THEOREM FailedIsSpent == Spec => []FailedOnlyWhenSpent
<1>1. Init => SpentIInv
  <2> SUFFICES ASSUME Init PROVE SpentIInv
    OBVIOUS
  <2>1. /\ \A m \in Msgs : hash[m].status # "Failed"
        /\ \A w \in Workers : wpc[w] # "giveup"
        /\ \A s \in Servers : tpc[s] # "giveup"
    BY DEF Init, InitStore, InitConsumer, InitTimeout, NoHash
  <2> QED BY <2>1 DEF SpentIInv, FailedSpent, WorkersSpent, ServicesSpent
<1>2. IInv /\ IInv' /\ IndexIInv /\ StreamStep /\ [Next]_vars /\ SpentIInv => SpentIInv'
  BY NextSpent DEF IndexIInv
<1>3. SpentIInv => FailedOnlyWhenSpent
  BY DEF SpentIInv, FailedSpent, Spent, FailedOnlyWhenSpent
<1> QED BY <1>1, <1>2, <1>3, Inductive, IndexInductive, NextStream, PTL DEF Spec
-----------------------------------------------------------------------------
(* Under cleanup and deletion *)

\* What they do to the hashes: none gets another id, a further execution or
\* the status Retrying.
HashesLessen ==
    \A m \in Msgs : /\ hash'[m].id \in {0, hash[m].id}
                    /\ hash'[m].execs <= hash[m].execs
                    /\ hash'[m].status = "Retrying" => hash[m].status = "Retrying"

\* What the cleanup and the dashboard may do: file the messages ms under the
\* status to, drop any from the index, and drop or change hashes.
HousekeepingStep ==
    /\ UNCHANGED <<streamVars, settled, publisherVars, consumerVars, timeoutVars>>
    /\ NoFault \/ \E k \in FaultKinds : Fault(k)
    /\ published' \subseteq Msgs
    /\ hash' \in [Msgs -> Hash] /\ HashesLessen
    /\ index' \in [Status -> SUBSET Msgs]
    /\ \E ms \in SUBSET Msgs, to \in Status :
          /\ \A m \in ms : pub[m] # "new"
          /\ \A m \in Msgs, s \in Status :
                m \in index'[s] => IF m \in ms THEN s = to ELSE m \in index[s]

\* What the cleanup has read: listed messages, of publish calls that have begun.
ReadOK ==
    /\ trimming \in {"Completed", "Failed"}
    /\ ids \subseteq Msgs /\ orphan \subseteq Msgs
    /\ \A m \in ids \union orphan : pub[m] # "new"
    /\ cpc = "move" => snap.status \in Status

OpsIInv == IInv /\ NewIsUnseen /\ IndexExclusive /\ ReadOK

LEMMA IndexShrinks ==
    ASSUME index \in [Status -> SUBSET Msgs], index' \in [Status -> SUBSET Msgs],
           \A s \in Status : index'[s] \subseteq index[s]
    PROVE  \E ms \in SUBSET Msgs, to \in Status :
              /\ \A m \in ms : pub[m] # "new"
              /\ \A m \in Msgs, s \in Status :
                    m \in index'[s] => IF m \in ms THEN s = to ELSE m \in index[s]
<1>1. "Pending" \in Status /\ {} \in SUBSET Msgs
  BY DEF Status
<1> QED BY <1>1

LEMMA CleaningHouse ==
    ASSUME OpsIInv, CleanupStep \/ CleanupError,
           UNCHANGED <<publisherVars, consumerVars, timeoutVars>>
    PROVE  HousekeepingStep /\ ReadOK'
<1>1. /\ hash \in [Msgs -> Hash] /\ index \in [Status -> SUBSET Msgs] /\ published \subseteq Msgs
      /\ NoHash \in Hash /\ pub' = pub
  BY DEF OpsIInv, IInv, TypeOK, StoreTypeOK, NoHash, Hash, Status, publisherVars
<1>2. \A s \in Status : \A m \in index[s] : m \in Msgs /\ pub[m] # "new"
  BY <1>1 DEF OpsIInv, NewIsUnseen
<1>3. {"Completed", "Failed", "Pending"} \subseteq Status
  BY DEF Status
<1>0. hash' = hash => HashesLessen
  BY <1>1 DEF HashesLessen, Hash
<1>4. ASSUME UNCHANGED <<streamVars, metaVars>>, NoFault \/ \E k \in FaultKinds : Fault(k)
      PROVE  HousekeepingStep
  <2>1. hash' = hash /\ index' = index /\ published' = published /\ settled' = settled
    BY <1>4 DEF metaVars
  <2> QED BY <1>0, <1>1, <1>4, <2>1, IndexShrinks DEF HousekeepingStep
<1>5. NextStatus => trimming' \in {"Completed", "Failed"} /\ cpc' # "move"
  BY DEF NextStatus, OpsIInv, ReadOK
<1>a. CASE BeginCleanup \/ Count \/ EndCleanup \/ CheckEntry
  <2>1. HousekeepingStep
    BY <1>4, <1>a DEF BeginCleanup, Count, EndCleanup, CheckEntry
  <2>2. ReadOK'
    BY <1>1, <1>5, <1>a DEF BeginCleanup, Count, EndCleanup, CheckEntry, OpsIInv, ReadOK
  <2> QED BY <2>1, <2>2
<1>b. CASE List
  <2>1. HousekeepingStep
    BY <1>4, <1>b DEF List
  <2>2. index[trimming] \subseteq Msgs /\ \A m \in index[trimming] : pub[m] # "new"
    BY <1>2, <1>3 DEF OpsIInv, ReadOK
  <2>3. /\ ids' \in SUBSET index[trimming] \/ ids' = ids
        /\ trimming' \in {"Completed", "Failed"} /\ cpc' # "move" /\ orphan' = orphan
    BY <1>5, <1>b DEF List, OpsIInv, ReadOK
  <2> QED BY <1>1, <2>1, <2>2, <2>3 DEF OpsIInv, ReadOK
<1>c. CASE Erase
  <2>1. /\ index' \in [Status -> SUBSET Msgs] /\ \A s \in Status : index'[s] \subseteq index[s]
        /\ published' \subseteq Msgs
    BY <1>1, <1>c DEF Erase
  <2>2. hash' \in [Msgs -> Hash] /\ HashesLessen
    BY <1>1, <1>c DEF Erase, NoHash, Hash, HashesLessen
  <2>3. HousekeepingStep
    BY <1>1, <1>c, <2>1, <2>2, IndexShrinks DEF Erase, HousekeepingStep
  <2>4. ReadOK'
    BY <1>1, <1>5, <1>c DEF Erase, OpsIInv, ReadOK
  <2> QED BY <2>3, <2>4
<1>d. CASE ListOrphans
  <2>1. HousekeepingStep
    BY <1>4, <1>d DEF ListOrphans
  <2>2. ids' \subseteq index["Pending"] /\ cpc' = "read" /\ UNCHANGED <<trimming, orphan>>
    BY <1>d DEF ListOrphans
  <2> QED BY <1>1, <1>2, <1>3, <2>1, <2>2 DEF OpsIInv, ReadOK
<1>e. CASE ReadOrphan
  <2>1. HousekeepingStep
    BY <1>4, <1>e DEF ReadOrphan
  <2>2. PICK m \in ids : ids' = ids \ {m} /\ orphan' = {m} /\ snap' = hash[m] /\ cpc' = Verdict(hash[m])
    BY <1>e DEF ReadOrphan
  <2>3. Verdict(hash[m]) = "move" => hash[m].status \in Status
    <3>1. m \in Msgs /\ hash[m].status \in Status \union {"None"}
      BY <1>1 DEF OpsIInv, ReadOK, Hash
    <3> QED BY <3>1 DEF Verdict
  <2> QED BY <1>1, <1>e, <2>1, <2>2, <2>3 DEF ReadOrphan, OpsIInv, ReadOK
<1>f. CASE DropOrphan
  <2>1. index' \in [Status -> SUBSET Msgs] /\ \A s \in Status : index'[s] \subseteq index[s]
    BY <1>1, <1>f DEF DropOrphan
  <2>2. HousekeepingStep
    BY <1>0, <1>1, <1>f, <2>1, IndexShrinks DEF DropOrphan, HousekeepingStep
  <2> QED BY <1>1, <1>f, <2>2 DEF DropOrphan, NextOrphan, OpsIInv, ReadOK
<1>g. ASSUME MoveOrphan \/ FailOrphan
      PROVE  HousekeepingStep /\ ReadOK'
  <2>1. PICK to \in Status : Reindex(orphan, Status \ {to}, to)
    <3>1. CASE MoveOrphan
      <4>1. snap.status \in Status /\ Reindex(orphan, Status, snap.status)
        BY <3>1 DEF MoveOrphan, OpsIInv, ReadOK
      <4>2. Reindex(orphan, Status \ {snap.status}, snap.status)
        BY <4>1 DEF Reindex
      <4> QED BY <4>1, <4>2
    <3>2. CASE FailOrphan
      <4>1. {"Pending", "Processing", "Retrying", "Completed"} = Status \ {"Failed"}
        BY DEF Status
      <4> QED BY <1>3, <3>2, <4>1 DEF FailOrphan
    <3> QED BY <1>g, <3>1, <3>2
  <2>2. orphan \in SUBSET Msgs /\ \A m \in orphan : pub[m] # "new"
    BY DEF OpsIInv, ReadOK
  <2>3. \A s \in Status : index'[s] = IF s = to THEN index[s] \union orphan ELSE index[s] \ orphan
    BY <2>1 DEF Reindex
  <2>4. index' \in [Status -> SUBSET Msgs]
    BY <1>1, <2>1, <2>2, ReindexType
  <2>5. hash' \in [Msgs -> Hash] /\ HashesLessen
    <3>1. CASE MoveOrphan
      BY <1>0, <1>1, <3>1 DEF MoveOrphan
    <3>2. CASE FailOrphan
      <4>1. hash' \in [Msgs -> Hash]
        BY <1>1, <1>3, <3>2 DEF FailOrphan, Hash
      <4>2. \A m \in Msgs : \/ hash'[m] = hash[m]
                            \/ hash'[m] = [hash[m] EXCEPT !.status = "Failed", !.err = TRUE]
        BY <3>2 DEF FailOrphan
      <4>3. ASSUME NEW m \in Msgs
            PROVE  /\ hash'[m].id = hash[m].id /\ hash'[m].execs = hash[m].execs
                   /\ hash[m].execs \in Nat
                   /\ hash'[m].status = "Retrying" => hash[m].status = "Retrying"
        <5>1. hash[m] \in Hash
          BY <1>1
        <5> QED BY <4>2, <5>1 DEF Hash
      <4> QED BY <4>1, <4>3 DEF HashesLessen
    <3> QED BY <1>g, <3>1, <3>2
  <2>6. UNCHANGED <<streamVars, settled, published>> /\ NoFault /\ NextOrphan
    BY <1>g DEF MoveOrphan, FailOrphan
  <2>7. HousekeepingStep
    <3>1. \A m \in Msgs, s \in Status :
             m \in index'[s] => IF m \in orphan THEN s = to ELSE m \in index[s]
      BY <2>3
    <3>2. published' \subseteq Msgs
      BY <1>1, <2>6
    <3>3. \E ms \in SUBSET Msgs, s \in Status :
             /\ \A m \in ms : pub[m] # "new"
             /\ \A m \in Msgs, t \in Status :
                   m \in index'[t] => IF m \in ms THEN t = s ELSE m \in index[t]
      BY <2>2, <3>1
    <3>4. UNCHANGED <<streamVars, settled, publisherVars, consumerVars, timeoutVars>>
      BY <2>6
    <3> QED BY <2>4, <2>5, <2>6, <3>2, <3>3, <3>4 DEF HousekeepingStep
  <2> QED BY <1>1, <2>6, <2>7 DEF NextOrphan, OpsIInv, ReadOK
<1>h. CASE CleanupError
  <2>1. HousekeepingStep
    BY <1>4, <1>h DEF CleanupError, FaultKinds
  <2> QED BY <1>1, <1>h, <2>1 DEF CleanupError, OpsIInv, ReadOK
<1> QED BY <1>a, <1>b, <1>c, <1>d, <1>e, <1>f, <1>g, <1>h DEF CleanupStep

LEMMA DeletingHouse ==
    ASSUME OpsIInv, NEW ms \in SUBSET published, MessageDelete(ms)
    PROVE  HousekeepingStep /\ ReadOK'
<1>1. /\ hash \in [Msgs -> Hash] /\ index \in [Status -> SUBSET Msgs] /\ published \subseteq Msgs
      /\ NoHash \in Hash
  BY DEF OpsIInv, IInv, TypeOK, StoreTypeOK, NoHash, Hash, Status
<1>2. /\ index' \in [Status -> SUBSET Msgs] /\ \A s \in Status : index'[s] \subseteq index[s]
      /\ published' \subseteq Msgs
  BY <1>1 DEF MessageDelete
<1>3. hash' \in [Msgs -> Hash] /\ HashesLessen
  BY <1>1 DEF MessageDelete, NoHash, Hash, HashesLessen
<1>4. HousekeepingStep
  BY <1>1, <1>2, <1>3, IndexShrinks DEF MessageDelete, HousekeepingStep
<1>5. ReadOK'
  BY DEF MessageDelete, cleanupVars, publisherVars, OpsIInv, ReadOK
<1> QED BY <1>4, <1>5

(***************************************************************************)
(* Housekeeping takes nothing from the stream and files nothing twice.     *)
(***************************************************************************)
LEMMA HousekeepingKeeps ==
    ASSUME OpsIInv, HousekeepingStep
    PROVE  IInv' /\ NewIsUnseen' /\ IndexExclusive'
<1>1. /\ log' = log /\ live' = live /\ lastDelivered' = lastDelivered /\ pel' = pel /\ idle' = idle
      /\ settled' = settled /\ ack' = ack /\ pub' = pub
      /\ UNCHANGED publisherVars /\ UNCHANGED consumerVars /\ UNCHANGED timeoutVars
  BY DEF HousekeepingStep, streamVars, publisherVars, consumerVars
<1>2. TypeOK /\ Inv
  BY IInvParts DEF OpsIInv
<1>3. Len(log') \in Nat /\ Len(log) \in Nat /\ lastDelivered \in Nat
  BY <1>1, <1>2, StreamType, LogLength
<1>4. TypeOK'
  <2>1. StoreTypeOK'
    <3>1. faults' \in 0 .. MaxFaults
      BY <1>2, FaultsType DEF HousekeepingStep, TypeOK, StoreTypeOK
    <3> QED BY <1>1, <1>2, <3>1 DEF HousekeepingStep, TypeOK, StoreTypeOK
  <2>2. PublisherTypeOK'
    BY <1>1, <1>2 DEF TypeOK, PublisherTypeOK, publisherVars
  <2>3. ConsumerTypeOK' /\ TimeoutTypeOK'
    BY <1>1, <1>2, <1>3, ConsumerFrame, TimeoutFrame
  <2> QED BY <2>1, <2>2, <2>3 DEF TypeOK
<1>5. Inv'
  <2>1. Grows /\ Carried
    BY <1>1, <1>2, StillCarries
  <2>2. OwnHash'
    BY <1>1, <1>2 DEF Inv, OwnHash, HousekeepingStep, HashesLessen
  <2>3. OwnPub' /\ OwnAck' /\ NoLoss'
    BY <1>1, <1>2, <1>3, <2>1, OwnPubKept, OwnAckKept, NoLossKept DEF Inv
  <2>4. OwnNew' /\ Replaced'
    BY <1>1, <1>2, <1>3, <2>1, ServicesKept DEF Inv
  <2> QED BY <2>2, <2>3, <2>4 DEF Inv
<1>6. PICK ms \in SUBSET Msgs, to \in Status :
         /\ \A m \in ms : pub[m] # "new"
         /\ \A m \in Msgs, s \in Status :
               m \in index'[s] => IF m \in ms THEN s = to ELSE m \in index[s]
  BY DEF HousekeepingStep
<1>7. NewIsUnseen'
  BY <1>1, <1>6 DEF OpsIInv, NewIsUnseen, Sent
<1>8. IndexExclusive'
  BY <1>6 DEF OpsIInv, IndexExclusive
<1>9. IInv'
  BY <1>4, <1>5, IInvParts DEF IInv, Inv
<1> QED BY <1>7, <1>8, <1>9

\* A step of Delivery under operation.
LEMMA DeliveringKeeps ==
    ASSUME OpsIInv, [Next]_vars, UNCHANGED cleanupVars
    PROVE  OpsIInv'
<1>1. IInv'
  BY NextInv DEF OpsIInv
<1>2. IndexStep
  BY NextIndexStep DEF OpsIInv
<1>3. NewIsUnseen' /\ IndexExclusive'
  <2>1. CASE \E m \in Msgs : Erased(m)
    BY <1>2, <2>1 DEF OpsIInv, NewIsUnseen, IndexExclusive, IndexStep, PubOnward, Erased
  <2>2. ASSUME NEW ms \in SUBSET Msgs, NEW to \in Status, Filed(ms, to),
               \A m \in ms : Sent(m) \/ pub'[m] # "new"
        PROVE  NewIsUnseen' /\ IndexExclusive'
    BY <1>2, <2>2 DEF OpsIInv, NewIsUnseen, IndexExclusive, IndexStep, PubOnward, Filed
  <2> QED BY <1>2, <2>1, <2>2 DEF IndexStep
<1>4. ReadOK'
  BY <1>2 DEF OpsIInv, ReadOK, IndexStep, PubOnward, cleanupVars
<1> QED BY <1>1, <1>3, <1>4 DEF OpsIInv

LEMMA OpsSteps ==
    ASSUME [NextOps]_opVars
    PROVE  \/ [Next]_vars /\ UNCHANGED cleanupVars
           \/ /\ CleanupStep \/ CleanupError
              /\ UNCHANGED <<publisherVars, consumerVars, timeoutVars>>
           \/ \E ms \in SUBSET published : MessageDelete(ms)
BY DEF NextOps, opVars, Delivering, Cleaning, Ages

LEMMA OpsKeep ==
    ASSUME OpsIInv, [NextOps]_opVars
    PROVE  OpsIInv' /\ ([Next]_vars \/ HousekeepingStep)
<1>1. CASE [Next]_vars /\ UNCHANGED cleanupVars
  BY <1>1, DeliveringKeeps
<1>2. ASSUME HousekeepingStep, ReadOK'
      PROVE  OpsIInv' /\ ([Next]_vars \/ HousekeepingStep)
  BY <1>2, HousekeepingKeeps DEF OpsIInv
<1>3. CASE (CleanupStep \/ CleanupError) /\ UNCHANGED <<publisherVars, consumerVars, timeoutVars>>
  BY <1>2, <1>3, CleaningHouse
<1>4. CASE \E ms \in SUBSET published : MessageDelete(ms)
  BY <1>2, <1>4, DeletingHouse
<1> QED BY <1>1, <1>3, <1>4, OpsSteps

LEMMA OpsInductive == SpecOps => []OpsIInv
<1>1. InitOps => OpsIInv
  <2> SUFFICES ASSUME InitOps PROVE OpsIInv
    OBVIOUS
  <2>1. IInv
    BY InitType, InitInv, IInvParts DEF InitOps
  <2>2. NewIsUnseen /\ IndexExclusive
    BY InitIndex DEF InitOps, IndexIInv
  <2>3. ReadOK
    BY DEF InitOps, InitCleanup, ReadOK
  <2> QED BY <2>1, <2>2, <2>3 DEF OpsIInv
<1>2. OpsIInv /\ [NextOps]_opVars => OpsIInv'
  BY OpsKeep
<1> QED BY <1>1, <1>2, PTL DEF SpecOps

(***************************************************************************)
(* Neither the cleanup, which acts on what it read calls ago, nor the      *)
(* deletions of the dashboard lose a message that is not settled, or mix   *)
(* up the entries of two.                                                  *)
(***************************************************************************)
THEOREM OperationsKeep == SpecOps => []IInv
<1>1. OpsIInv => IInv
  BY DEF OpsIInv
<1> QED BY <1>1, OpsInductive, PTL

(***************************************************************************)
(* Nor do they leave a message in two status index sets, although the      *)
(* cleanup files it under a status that may have changed since.            *)
(***************************************************************************)
THEOREM OperationsExclude == SpecOps => []IndexExclusive
<1>1. OpsIInv => IndexExclusive
  BY DEF OpsIInv
<1> QED BY <1>1, OpsInductive, PTL

(***************************************************************************)
(* With cleanup and deletion the queue still implements AtLeastOnceQueue.  *)
(***************************************************************************)
THEOREM OperationsImplement == SpecOps => AtLeastOnce
<1>1. InitOps => Queue!Init
  BY InitAccepted DEF InitOps
<1>2. OpsIInv /\ [NextOps]_opVars => [Queue!Next]_(Queue!qvars)
  <2> SUFFICES ASSUME OpsIInv, [NextOps]_opVars PROVE [Queue!Next]_(Queue!qvars)
    OBVIOUS
  <2>1. CASE [Next]_vars
    BY <2>1, OpsKeep, NextStream, NextRefines DEF OpsIInv
  <2>2. CASE HousekeepingStep
    <3>1. log' = log /\ live' = live /\ settled' = settled
      BY <2>2 DEF HousekeepingStep, streamVars
    <3> QED BY <3>1 DEF Queue!qvars, Sent, Carriers
  <2> QED BY <2>1, <2>2, OpsKeep
<1> QED BY <1>1, <1>2, OpsInductive, PTL DEF SpecOps, AtLeastOnce, Queue!Spec
=============================================================================
